------------------------------ MODULE DdlProofs ------------------------------
(***************************************************************************)
(* A request for DDL, for every drawing: any number of tables, columns,    *)
(* references and lines.                                                   *)
(*                                                                         *)
(* The argument follows the request. A valid report makes the schema Sound *)
(* (every check of the verifier passed). The script of a sound schema is   *)
(* its tables, then its references, then its comments. While it runs, the  *)
(* catalog Holds exactly the tables and references of the statements taken *)
(* so far, so the next one finds what it needs; and what a whole script    *)
(* leaves is compared with the drawing.                                    *)
(***************************************************************************)
EXTENDS DdlGeneration, Lemmas

-----------------------------------------------------------------------------
(* The verifier's loops. A report is valid when no round of a loop finds an*)
(* error, so each check says something of every entity and attribute.      *)

\* is_valid: no diagnostic is an error.
LEMMA ValidMeans ==
  ASSUME NEW s
  PROVE  IsValid(s) <=> \A d \in ToSet(s) : d.severity # "error"
  BY DEF IsValid, ToSet

\* Two lists of findings in one report.
LEMMA ValidJoined ==
  ASSUME NEW s, NEW t, IsSequence(s), IsSequence(t)
  PROVE  IsSequence(s \o t) /\ (IsValid(s \o t) <=> IsValid(s) /\ IsValid(t))
  BY Joined, ValidMeans

\* A list with one finding, and one with none.
LEMMA ValidShort ==
  ASSUME NEW d
  PROVE  /\ IsSequence(<<d>>) /\ (IsValid(<<d>>) <=> d.severity # "error")
         /\ IsSequence(<<>>) /\ IsValid(<<>>)
  BY ShortSequences, ValidMeans

\* A function on the places of a sequence.
LEMMA OnSequence ==
  ASSUME NEW items, IsSequence(items), NEW f, f = [k \in DOMAIN items |-> f[k]]
  PROVE  IsSequence(f) /\ DOMAIN f = DOMAIN items
<1>1. PICK n \in Nat : DOMAIN items = 1..n
  BY SequenceShape
<1> QED BY <1>1, MappedSequence

\* A loop that reports: its findings are those of its rounds.
LEMMA ValidLoop ==
  ASSUME NEW seqs, IsSequence(seqs), \A k \in DOMAIN seqs : IsSequence(seqs[k])
  PROVE  /\ IsSequence(FlattenSeq(seqs))
         /\ IsValid(FlattenSeq(seqs)) <=> \A k \in DOMAIN seqs : IsValid(seqs[k])
         /\ \A d : d \in ToSet(FlattenSeq(seqs)) <=> \E k \in DOMAIN seqs : d \in ToSet(seqs[k])
<1>1. /\ IsSequence(FlattenSeq(seqs))
      /\ \A d : d \in ToSet(FlattenSeq(seqs)) <=> \E k \in DOMAIN seqs : d \in ToSet(seqs[k])
  BY FlattenedMembers
<1> QED BY <1>1, ValidMeans

\* check_names passes: every table and every column has a name.
LEMMA NamesChecked ==
  ASSUME NEW s, IsSequence(s.entities), \A e \in ToSet(s.entities) : IsSequence(e.attributes)
  PROVE  /\ IsSequence(CheckNames(s))
         /\ IsValid(CheckNames(s)) =>
              \A e \in ToSet(s.entities) : /\ e.name # Blank
                                           /\ \A a \in ToSet(e.attributes) : a.name # Blank
<1> DEFINE E == s.entities
           own == [k \in DOMAIN E |-> IF E[k].name = Blank THEN <<Error("SF-NAME-EMPTY", <<E[k].id>>)>> ELSE <<>>]
           of == [k \in DOMAIN E |-> [j \in DOMAIN E[k].attributes |->
                    IF E[k].attributes[j].name = Blank
                    THEN <<Error("SF-NAME-EMPTY", <<E[k].id, E[k].attributes[j].id>>)>> ELSE <<>>]]
           seqs == [k \in DOMAIN E |-> own[k] \o FlattenSeq(of[k])]
<1>1. CheckNames(s) = FlattenSeq(seqs)
  BY DEF CheckNames, PerEntity, PerItem, When
<1>2. ASSUME NEW k \in DOMAIN E
      PROVE  /\ IsSequence(seqs[k])
             /\ IsValid(seqs[k]) => E[k].name # Blank /\ \A a \in ToSet(E[k].attributes) : a.name # Blank
  <2>1. IsSequence(own[k]) /\ (IsValid(own[k]) => E[k].name # Blank)
    <3> DEFINE d == Error("SF-NAME-EMPTY", <<E[k].id>>)
    <3>1. own[k] = IF E[k].name = Blank THEN <<d>> ELSE <<>>
      OBVIOUS
    <3>2. d.severity = "error"
      BY DEF Error
    <3> HIDE DEF d, own
    <3>3. CASE E[k].name = Blank
      <4>1. own[k] = <<d>>
        BY <3>1, <3>3
      <4> QED BY <3>2, <4>1, ValidShort
    <3>4. CASE E[k].name # Blank
      <4>1. own[k] = <<>>
        BY <3>1, <3>4
      <4> QED BY <3>4, <4>1, ValidShort
    <3> QED BY <3>3, <3>4
  <2>2. IsSequence(E[k].attributes)
    BY DEF ToSet
  <2>3. ASSUME NEW j \in DOMAIN E[k].attributes
        PROVE  IsSequence(of[k][j]) /\ (IsValid(of[k][j]) => E[k].attributes[j].name # Blank)
    <3> DEFINE d == Error("SF-NAME-EMPTY", <<E[k].id, E[k].attributes[j].id>>)
    <3>1. of[k][j] = IF E[k].attributes[j].name = Blank THEN <<d>> ELSE <<>>
      OBVIOUS
    <3>2. d.severity = "error"
      BY DEF Error
    <3> HIDE DEF d, of
    <3>3. CASE E[k].attributes[j].name = Blank
      <4>1. of[k][j] = <<d>>
        BY <3>1, <3>3
      <4> QED BY <3>2, <4>1, ValidShort
    <3>4. CASE E[k].attributes[j].name # Blank
      <4>1. of[k][j] = <<>>
        BY <3>1, <3>4
      <4> QED BY <3>4, <4>1, ValidShort
    <3> QED BY <3>3, <3>4
  <2>4. /\ IsSequence(FlattenSeq(of[k]))
        /\ IsValid(FlattenSeq(of[k])) <=> \A j \in DOMAIN E[k].attributes : IsValid(of[k][j])
    <3>1. of[k] = [j \in DOMAIN E[k].attributes |-> of[k][j]]
      OBVIOUS
    <3> HIDE DEF of
    <3>2. IsSequence(of[k]) /\ DOMAIN of[k] = DOMAIN E[k].attributes
      BY <2>2, <3>1, OnSequence
    <3> QED BY <2>3, <3>2, ValidLoop
  <2>5. seqs[k] = own[k] \o FlattenSeq(of[k])
    OBVIOUS
  <2> HIDE DEF own, of, seqs, E
  <2>6. IsSequence(seqs[k]) /\ (IsValid(seqs[k]) <=> IsValid(own[k]) /\ IsValid(FlattenSeq(of[k])))
    BY <2>1, <2>4, <2>5, ValidJoined
  <2> QED BY <2>1, <2>3, <2>4, <2>6 DEF ToSet
<1>3. seqs = [k \in DOMAIN E |-> seqs[k]]
  OBVIOUS
<1> HIDE DEF own, of, seqs
<1>4. IsSequence(FlattenSeq(seqs)) /\ (IsValid(FlattenSeq(seqs)) <=> \A k \in DOMAIN E : IsValid(seqs[k]))
  <2>1. IsSequence(seqs) /\ DOMAIN seqs = DOMAIN E
    BY <1>3, OnSequence
  <2> QED BY <1>2, <2>1, ValidLoop
<1> QED BY <1>1, <1>2, <1>4 DEF ToSet

\* A loop over the attributes of every entity.
LEMMA ValidNested ==
  ASSUME NEW found, \A k \in DOMAIN found : IsSequence(found[k]),
         \A k \in DOMAIN found : \A j \in DOMAIN found[k] : IsSequence(found[k][j]),
         NEW seqs, IsSequence(seqs), DOMAIN seqs = DOMAIN found,
         \A k \in DOMAIN found : seqs[k] = FlattenSeq(found[k])
  PROVE  /\ IsSequence(FlattenSeq(seqs))
         /\ IsValid(FlattenSeq(seqs)) <=>
              \A k \in DOMAIN found : \A j \in DOMAIN found[k] : IsValid(found[k][j])
         /\ \A d : d \in ToSet(FlattenSeq(seqs)) <=>
              \E k \in DOMAIN found : \E j \in DOMAIN found[k] : d \in ToSet(found[k][j])
<1>1. ASSUME NEW k \in DOMAIN found
      PROVE  /\ IsSequence(seqs[k])
             /\ IsValid(seqs[k]) <=> \A j \in DOMAIN found[k] : IsValid(found[k][j])
             /\ \A d : d \in ToSet(seqs[k]) <=> \E j \in DOMAIN found[k] : d \in ToSet(found[k][j])
  BY ValidLoop
<1> QED BY <1>1, ValidLoop

\* The lists of a schema are sequences.
Listed(s) ==
  /\ IsSequence(s.entities) /\ IsSequence(s.relationships)
  /\ \A e \in ToSet(s.entities) : IsSequence(e.attributes)

\* check_not_empty reports a list.
LEMMA NotEmptyChecked ==
  ASSUME NEW s
  PROVE  IsSequence(CheckNotEmpty(s))
  BY ShortSequences DEF CheckNotEmpty, When

\* check_type_parameters reports a list.
LEMMA TypeParametersChecked ==
  ASSUME NEW s, Listed(s)
  PROVE  IsSequence(CheckTypeParameters(s))
<1> DEFINE E == s.entities
           found == [k \in DOMAIN E |-> [j \in DOMAIN E[k].attributes |->
                       When(ParameterProblem(E[k].attributes[j].data_type),
                            Error("SF-TYPE-PARAM", <<E[k].id, E[k].attributes[j].id>>))]]
           seqs == [k \in DOMAIN E |-> FlattenSeq(found[k])]
<1>1. CheckTypeParameters(s) = FlattenSeq(seqs)
  BY DEF CheckTypeParameters, PerAttribute, PerEntity, PerItem
<1>2. \A k \in DOMAIN E : \A j \in DOMAIN E[k].attributes : IsSequence(found[k][j])
  BY ShortSequences DEF When
<1>3. \A k \in DOMAIN E : found[k] = [j \in DOMAIN E[k].attributes |-> found[k][j]]
  OBVIOUS
<1>4. IsSequence(E) /\ \A e \in ToSet(E) : IsSequence(e.attributes)
  BY DEF Listed
<1>5. DOMAIN found = DOMAIN E
  OBVIOUS
<1> HIDE DEF found, E
<1>6. seqs = [k \in DOMAIN E |-> seqs[k]] /\ \A k \in DOMAIN E : seqs[k] = FlattenSeq(found[k])
  OBVIOUS
<1> HIDE DEF seqs
<1>7. IsSequence(seqs) /\ DOMAIN seqs = DOMAIN E
  BY <1>4, <1>6, OnSequence
<1>8. ASSUME NEW k \in DOMAIN E PROVE IsSequence(found[k]) /\ DOMAIN found[k] = DOMAIN E[k].attributes
  BY <1>3, <1>4, OnSequence DEF ToSet
<1> QED BY <1>1, <1>2, <1>5, <1>6, <1>7, <1>8, ValidNested

\* check_relationship_ends passes: both ends of a line resolve.
LEMMA EndsChecked ==
  ASSUME NEW s, Listed(s)
  PROVE  /\ IsSequence(CheckRelationshipEnds(s))
         /\ IsValid(CheckRelationshipEnds(s)) =>
              \A link \in ToSet(s.relationships) : Resolve(s, link.from) # None /\ Resolve(s, link.to) # None
<1> DEFINE R == s.relationships
           seqs == [k \in DOMAIN R |-> IF None \in {Resolve(s, R[k].from), Resolve(s, R[k].to)}
                                       THEN <<Error("SF-REL-DANGLING", <<R[k].id>>)>> ELSE <<>>]
<1>1. CheckRelationshipEnds(s) = FlattenSeq(seqs)
  BY DEF CheckRelationshipEnds, PerItem, When
<1>2. ASSUME NEW k \in DOMAIN R
      PROVE  /\ IsSequence(seqs[k])
             /\ IsValid(seqs[k]) => Resolve(s, R[k].from) # None /\ Resolve(s, R[k].to) # None
  BY ValidShort DEF Error
<1>3. seqs = [k \in DOMAIN R |-> seqs[k]]
  OBVIOUS
<1>4. IsSequence(R)
  BY DEF Listed
<1> HIDE DEF seqs, R
<1>5. IsSequence(FlattenSeq(seqs)) /\ (IsValid(FlattenSeq(seqs)) <=> \A k \in DOMAIN R : IsValid(seqs[k]))
  <2>1. IsSequence(seqs) /\ DOMAIN seqs = DOMAIN R
    BY <1>3, <1>4, OnSequence
  <2> QED BY <1>2, <2>1, ValidLoop
<1> QED BY <1>1, <1>2, <1>5 DEF ToSet, R

\* check_primary_keys passes: every table has a key.
LEMMA KeysChecked ==
  ASSUME NEW s, Listed(s)
  PROVE  /\ IsSequence(CheckPrimaryKeys(s))
         /\ IsValid(CheckPrimaryKeys(s)) => \A e \in ToSet(s.entities) : PrimaryKey(e) # <<>>
<1> DEFINE E == s.entities
           seqs == [k \in DOMAIN E |-> IF PrimaryKey(E[k]) = <<>>
                                       THEN <<Error("SF-KEY-MISSING", <<E[k].id>>)>> ELSE <<>>]
<1>1. CheckPrimaryKeys(s) = FlattenSeq(seqs)
  BY DEF CheckPrimaryKeys, PerEntity, PerItem, When
<1>2. ASSUME NEW k \in DOMAIN E
      PROVE  IsSequence(seqs[k]) /\ (IsValid(seqs[k]) => PrimaryKey(E[k]) # <<>>)
  BY ValidShort DEF Error
<1>3. seqs = [k \in DOMAIN E |-> seqs[k]]
  OBVIOUS
<1>4. IsSequence(E)
  BY DEF Listed
<1> HIDE DEF seqs, E
<1>5. IsSequence(FlattenSeq(seqs)) /\ (IsValid(FlattenSeq(seqs)) <=> \A k \in DOMAIN E : IsValid(seqs[k]))
  <2>1. IsSequence(seqs) /\ DOMAIN seqs = DOMAIN E
    BY <1>3, <1>4, OnSequence
  <2> QED BY <1>2, <2>1, ValidLoop
<1> QED BY <1>1, <1>2, <1>5 DEF ToSet, E

\* check_foreign_keys passes: a reference resolves to a column that is a
\* unique key of its table.
LEMMA ForeignKeysChecked ==
  ASSUME NEW s, Listed(s)
  PROVE  /\ IsSequence(CheckForeignKeys(s))
         /\ IsValid(CheckForeignKeys(s)) =>
              \A e \in ToSet(s.entities) : \A a \in ToSet(e.attributes) : a.foreign_key # None =>
                LET found == Resolve(s, a.foreign_key)
                IN found # None /\ IsUniqueKey(found.entity, found.attribute)
<1> DEFINE E == s.entities
           found == [k \in DOMAIN E |-> [j \in DOMAIN E[k].attributes |->
                       IF E[k].attributes[j].foreign_key = None THEN <<>>
                       ELSE CheckForeignKey(s, E[k], E[k].attributes[j])]]
           seqs == [k \in DOMAIN E |-> FlattenSeq(found[k])]
<1>1. CheckForeignKeys(s) = FlattenSeq(seqs)
  BY DEF CheckForeignKeys, PerAttribute, PerEntity, PerItem
<1>2. ASSUME NEW e, NEW a
      PROVE  LET to == Resolve(s, a.foreign_key) IN
             /\ IsSequence(CheckForeignKey(s, e, a))
             /\ IsValid(CheckForeignKey(s, e, a)) => to # None /\ IsUniqueKey(to.entity, to.attribute)
  <2> DEFINE to == Resolve(s, a.foreign_key)
             blamed == <<e.id, a.id, to.entity.id, to.attribute.id>>
             key == to.attribute.data_type
             unkeyed == IF ~IsUniqueKey(to.entity, to.attribute)
                        THEN <<Error("SF-FK-NOT-A-KEY", blamed)>> ELSE <<>>
             mistyped == IF ~IsCompatibleWith(a.data_type, key)
                         THEN <<Error("SF-TYPE-MISMATCH", blamed)>>
                         ELSE IF IsNarrower(a.data_type, key)
                              THEN <<Warning("SF-TYPE-MISMATCH", blamed)>> ELSE <<>>
  <2>1. CheckForeignKey(s, e, a) = IF to = None THEN <<Error("SF-FK-INVALID", <<e.id, a.id>>)>>
                                   ELSE unkeyed \o mistyped
    BY DEF CheckForeignKey, When
  <2>2. IsSequence(unkeyed) /\ (IsValid(unkeyed) => IsUniqueKey(to.entity, to.attribute))
    BY ValidShort DEF Error
  <2>3. IsSequence(mistyped)
    BY ValidShort
  <2>4. ~IsValid(<<Error("SF-FK-INVALID", <<e.id, a.id>>)>>) /\ IsSequence(<<Error("SF-FK-INVALID", <<e.id, a.id>>)>>)
    BY ValidShort DEF Error
  <2> HIDE DEF to, unkeyed, mistyped
  <2>5. IsSequence(unkeyed \o mistyped) /\ (IsValid(unkeyed \o mistyped) => IsValid(unkeyed))
    BY <2>2, <2>3, ValidJoined
  <2>6. IsSequence(CheckForeignKey(s, e, a))
    BY <2>1, <2>4, <2>5
  <2>7. IsValid(CheckForeignKey(s, e, a)) => to # None /\ IsUniqueKey(to.entity, to.attribute)
    BY <2>1, <2>2, <2>4, <2>5
  <2> QED BY <2>6, <2>7 DEF to
<1>3. ASSUME NEW k \in DOMAIN E, NEW j \in DOMAIN E[k].attributes
      PROVE  LET a == E[k].attributes[j]
                 to == Resolve(s, a.foreign_key)
             IN /\ IsSequence(found[k][j])
                /\ IsValid(found[k][j]) /\ a.foreign_key # None => to # None /\ IsUniqueKey(to.entity, to.attribute)
  <2>1. found[k][j] = IF E[k].attributes[j].foreign_key = None THEN <<>>
                      ELSE CheckForeignKey(s, E[k], E[k].attributes[j])
    OBVIOUS
  <2> HIDE DEF found
  <2>2. CASE E[k].attributes[j].foreign_key = None
    BY <2>1, <2>2, ShortSequences
  <2>3. CASE E[k].attributes[j].foreign_key # None
    <3>1. found[k][j] = CheckForeignKey(s, E[k], E[k].attributes[j])
      BY <2>1, <2>3
    <3> QED BY <1>2, <3>1, Zenon
  <2> QED BY <2>2, <2>3
<1>4. \A k \in DOMAIN E : found[k] = [j \in DOMAIN E[k].attributes |-> found[k][j]]
  OBVIOUS
<1>5. IsSequence(E) /\ \A e \in ToSet(E) : IsSequence(e.attributes)
  BY DEF Listed
<1>9. DOMAIN found = DOMAIN E
  OBVIOUS
<1> HIDE DEF found, E
<1>7. seqs = [k \in DOMAIN E |-> seqs[k]] /\ \A k \in DOMAIN E : seqs[k] = FlattenSeq(found[k])
  OBVIOUS
<1> HIDE DEF seqs
<1>10. IsSequence(seqs) /\ DOMAIN seqs = DOMAIN E
  BY <1>5, <1>7, OnSequence
<1>11. ASSUME NEW k \in DOMAIN E PROVE IsSequence(found[k]) /\ DOMAIN found[k] = DOMAIN E[k].attributes
  BY <1>4, <1>5, OnSequence DEF ToSet
<1>6. /\ IsSequence(CheckForeignKeys(s))
      /\ IsValid(CheckForeignKeys(s)) <=> \A k \in DOMAIN E : \A j \in DOMAIN E[k].attributes : IsValid(found[k][j])
  <2>1. \A k \in DOMAIN E : \A j \in DOMAIN E[k].attributes : IsSequence(found[k][j])
    BY <1>3
  <2> QED BY <1>1, <1>7, <1>9, <1>10, <1>11, <2>1, ValidNested
<1> QED BY <1>3, <1>6 DEF ToSet, E

\* Two items with one folded name make a group.
LEMMA GroupsOfNames ==
  ASSUME NEW items, IsSequence(items)
  PROVE  /\ IsSequence(SameNameGroups(items))
         /\ DOMAIN SameNameGroups(items) = {} /\ (\A item \in ToSet(items) : item.name # Blank) =>
              \A i, j \in DOMAIN items : i # j => items[i].name # items[j].name
<1> DEFINE Alike(k) == {j \in DOMAIN items : Lower(items[j].name) = Lower(items[k].name)}
           Members(k) == FlattenSeq([j \in DOMAIN items |-> IF j \in Alike(k) THEN <<items[j]>> ELSE <<>>])
           Leads(k) == /\ items[k].name # Blank
                       /\ \A j \in 1..(k - 1) : Lower(items[j].name) # Lower(items[k].name)
                       /\ Len(Members(k)) > 1
           places == [k \in DOMAIN items |-> k]
           K == {k \in DOMAIN items : Leads(k)}
           leaders == FlattenSeq([k \in DOMAIN places |-> IF k \in K THEN <<places[k]>> ELSE <<>>])
<1>1. SameNameGroups(items) = [g \in DOMAIN leaders |-> Members(leaders[g])]
  <2> DEFINE Taken(k) == Where(items, LAMBDA item : Lower(item.name) = Lower(items[k].name))
             Heads(k) == /\ items[k].name # Blank
                         /\ \A j \in 1..(k - 1) : Lower(items[j].name) # Lower(items[k].name)
                         /\ Len(Taken(k)) > 1
             heads == FlattenSeq([k \in DOMAIN places |-> IF Heads(places[k]) THEN <<places[k]>> ELSE <<>>])
  <2>1. SameNameGroups(items) = [g \in DOMAIN heads |-> Taken(heads[g])]
    BY DEF SameNameGroups, Where
  <2>2. ASSUME NEW k PROVE Taken(k) = Members(k)
    BY DEF Where
  <2>3. \A k \in DOMAIN places : places[k] = k /\ (Heads(k) <=> k \in K)
    <3> HIDE DEF Taken, Members
    <3> QED BY <2>2
  <2>4. [k \in DOMAIN places |-> IF Heads(places[k]) THEN <<places[k]>> ELSE <<>>]
          = [k \in DOMAIN places |-> IF k \in K THEN <<places[k]>> ELSE <<>>]
    <3> HIDE DEF K, Heads, places
    <3> QED BY <2>3
  <2>5. heads = leaders
    BY <2>4
  <2> HIDE DEF Taken, Members, heads, leaders
  <2> QED BY <2>1, <2>2, <2>5
<1>2. IsSequence(places) /\ DOMAIN places = DOMAIN items
  <2>1. places = [k \in DOMAIN items |-> places[k]]
    OBVIOUS
  <2> HIDE DEF places
  <2> QED BY <2>1, OnSequence
<1>3. IsSequence(leaders) /\ (leaders = <<>> <=> K = {})
  <2> DEFINE seqs == [k \in DOMAIN places |-> IF k \in K THEN <<places[k]>> ELSE <<>>]
  <2>1. K \in SUBSET DOMAIN places
    BY <1>2
  <2> HIDE DEF K, places
  <2>2. seqs = [k \in DOMAIN places |-> seqs[k]]
    OBVIOUS
  <2>5. leaders = FlattenSeq(seqs)
    OBVIOUS
  <2>3. \A k \in DOMAIN places : seqs[k] = IF k \in K THEN <<places[k]>> ELSE <<>>
    OBVIOUS
  <2> HIDE DEF seqs, leaders
  <2>4. IsSequence(seqs) /\ DOMAIN seqs = DOMAIN places
    BY <1>2, <2>2, OnSequence
  <2>6. IsSequence(FlattenSeq(seqs)) /\ (FlattenSeq(seqs) = <<>> <=> K = {})
    BY <1>2, <2>1, <2>3, <2>4, KeptItems
  <2> QED BY <2>5, <2>6
<1>4. IsSequence(SameNameGroups(items)) /\ DOMAIN SameNameGroups(items) = DOMAIN leaders
  <2> HIDE DEF leaders, Members
  <2>1. SameNameGroups(items) = [g \in DOMAIN leaders |-> SameNameGroups(items)[g]]
    BY <1>1
  <2> QED BY <1>3, <2>1, OnSequence
<1>5. ASSUME NEW i \in DOMAIN items, NEW j \in DOMAIN items, i # j, items[i].name = items[j].name,
             \A item \in ToSet(items) : item.name # Blank
      PROVE  K # {}
  <2>1. PICK n \in Nat : DOMAIN items = 1..n
    BY SequenceShape
  <2>2. Alike(i) \in SUBSET Nat /\ i \in Alike(i) /\ j \in Alike(i)
    BY <1>5, <2>1
  <2> DEFINE k == Min(Alike(i))
  <2>3. k \in Alike(i) /\ \A m \in Alike(i) : k <= m
    <3> HIDE DEF Alike
    <3> QED BY <2>2, LeastNumber
  <2> HIDE DEF k
  <2>4. k \in DOMAIN items /\ Lower(items[k].name) = Lower(items[i].name) /\ k \in 1..n
    BY <2>1, <2>3
  <2>5. Alike(k) = Alike(i)
    BY <2>4
  <2>6. Len(Members(k)) > 1
    <3>1. Alike(k) \in SUBSET DOMAIN items
      OBVIOUS
    <3> DEFINE A == Alike(k)
               seqs == [l \in DOMAIN items |-> IF l \in A THEN <<items[l]>> ELSE <<>>]
    <3>2. Members(k) = FlattenSeq(seqs)
      OBVIOUS
    <3> HIDE DEF A, Members
    <3>3. seqs = [l \in DOMAIN items |-> seqs[l]]
      OBVIOUS
    <3>4. \A l \in DOMAIN items : seqs[l] = IF l \in A THEN <<items[l]>> ELSE <<>>
      OBVIOUS
    <3> HIDE DEF seqs
    <3>5. IsSequence(seqs) /\ DOMAIN seqs = DOMAIN items
      BY <3>3, OnSequence
    <3>6. A \in SUBSET DOMAIN items /\ i \in A /\ j \in A
      BY <2>2, <2>5, <3>1 DEF A
    <3> QED BY <1>5, <3>2, <3>4, <3>5, <3>6, KeptItems
  <2>7. \A m \in 1..(k - 1) : Lower(items[m].name) # Lower(items[k].name)
    <3> SUFFICES ASSUME NEW m \in 1..(k - 1), Lower(items[m].name) = Lower(items[k].name) PROVE FALSE
      OBVIOUS
    <3>1. m \in DOMAIN items /\ ~(k <= m)
      BY <2>1, <2>4
    <3> QED BY <2>3, <2>4, <3>1
  <2>8. items[k].name # Blank
    BY <1>5, <2>4 DEF ToSet
  <2> HIDE DEF Members
  <2> QED BY <2>4, <2>6, <2>7, <2>8
<1>6. DOMAIN leaders = {} => K = {}
  <2> HIDE DEF leaders, K
  <2>1. Len(leaders) \in Nat /\ DOMAIN leaders = 1..Len(leaders)
    BY <1>3, SequenceShape
  <2>2. DOMAIN leaders = {} => Len(leaders) = 0
    BY <2>1
  <2>3. Len(leaders) = 0 => leaders = <<>>
    BY <1>3 DEF IsSequence
  <2> QED BY <1>3, <2>2, <2>3
<1> QED BY <1>4, <1>5, <1>6

\* check_duplicate_names passes: no two tables have one name, and no two
\* columns of a table.
LEMMA DuplicatesChecked ==
  ASSUME NEW s, Listed(s),
         NEW named, named <=> \A e \in ToSet(s.entities) : /\ e.name # Blank
                                                           /\ \A a \in ToSet(e.attributes) : a.name # Blank
  PROVE  /\ IsSequence(CheckDuplicateNames(s))
         /\ IsValid(CheckDuplicateNames(s)) /\ named =>
              /\ \A i, j \in DOMAIN s.entities : i # j => s.entities[i].name # s.entities[j].name
              /\ \A e \in ToSet(s.entities) : \A i, j \in DOMAIN e.attributes :
                   i # j => e.attributes[i].name # e.attributes[j].name
<1> DEFINE E == s.entities
           G == SameNameGroups(E)
           H == [k \in DOMAIN E |-> SameNameGroups(E[k].attributes)]
           entity == [g \in DOMAIN G |-> <<Error("SF-DUP-ENTITY", Ids(G[g]))>>]
           found == [k \in DOMAIN E |-> [g \in DOMAIN H[k] |->
                       <<Error("SF-DUP-ATTRIBUTE", <<E[k].id>> \o Ids(H[k][g]))>>]]
           seqs == [k \in DOMAIN E |-> FlattenSeq(found[k])]
<1>1. CheckDuplicateNames(s) = FlattenSeq(entity) \o FlattenSeq(seqs)
  BY DEF CheckDuplicateNames, PerEntity, PerItem
<1>2. IsSequence(E) /\ \A k \in DOMAIN E : IsSequence(E[k].attributes)
  BY DEF Listed, ToSet
<1>3. IsSequence(G) /\ (DOMAIN G = {} /\ named => \A i, j \in DOMAIN E : i # j => E[i].name # E[j].name)
  <2>1. named => \A e \in ToSet(E) : e.name # Blank
    OBVIOUS
  <2> HIDE DEF E
  <2> QED BY <1>2, <2>1, GroupsOfNames
<1>4. ASSUME NEW k \in DOMAIN E
      PROVE  /\ IsSequence(H[k])
             /\ DOMAIN H[k] = {} /\ named => \A i, j \in DOMAIN E[k].attributes :
                                      i # j => E[k].attributes[i].name # E[k].attributes[j].name
  <2>1. H[k] = SameNameGroups(E[k].attributes)
    OBVIOUS
  <2>2. named => \A a \in ToSet(E[k].attributes) : a.name # Blank
    BY DEF ToSet
  <2> HIDE DEF H
  <2> QED BY <1>2, <2>1, <2>2, GroupsOfNames
<1>5. entity = [g \in DOMAIN G |-> entity[g]] /\ \A g \in DOMAIN G : IsSequence(entity[g]) /\ ~IsValid(entity[g])
  BY ValidShort DEF Error
<1>6. \A k \in DOMAIN E : /\ found[k] = [g \in DOMAIN H[k] |-> found[k][g]]
                          /\ \A g \in DOMAIN H[k] : IsSequence(found[k][g]) /\ ~IsValid(found[k][g])
  <2> SUFFICES ASSUME NEW k \in DOMAIN E
               PROVE  /\ found[k] = [g \in DOMAIN H[k] |-> found[k][g]]
                      /\ \A g \in DOMAIN H[k] : IsSequence(found[k][g]) /\ ~IsValid(found[k][g])
    OBVIOUS
  <2> DEFINE F == [g \in DOMAIN H[k] |-> <<Error("SF-DUP-ATTRIBUTE", <<E[k].id>> \o Ids(H[k][g]))>>]
  <2>1. found[k] = F
    OBVIOUS
  <2> HIDE DEF H, found
  <2>2. F = [g \in DOMAIN H[k] |-> F[g]]
    OBVIOUS
  <2>3. \A g \in DOMAIN H[k] : IsSequence(F[g]) /\ ~IsValid(F[g])
    <3> SUFFICES ASSUME NEW g \in DOMAIN H[k] PROVE IsSequence(F[g]) /\ ~IsValid(F[g])
      OBVIOUS
    <3>1. F[g] = <<Error("SF-DUP-ATTRIBUTE", <<E[k].id>> \o Ids(H[k][g]))>>
      OBVIOUS
    <3>2. Error("SF-DUP-ATTRIBUTE", <<E[k].id>> \o Ids(H[k][g])).severity = "error"
      BY DEF Error
    <3> HIDE DEF F
    <3> QED BY <3>1, <3>2, ValidShort
  <2> HIDE DEF F
  <2> QED BY <2>1, <2>2, <2>3
<1>7. DOMAIN found = DOMAIN E
  OBVIOUS
<1> HIDE DEF E, G, H, entity, found
<1>8. seqs = [k \in DOMAIN E |-> seqs[k]] /\ \A k \in DOMAIN E : seqs[k] = FlattenSeq(found[k])
  OBVIOUS
<1> HIDE DEF seqs
<1>9. IsSequence(FlattenSeq(entity)) /\ (IsValid(FlattenSeq(entity)) => DOMAIN G = {})
  <2>1. IsSequence(entity) /\ DOMAIN entity = DOMAIN G
    BY <1>3, <1>5, OnSequence
  <2> QED BY <1>5, <2>1, ValidLoop
<1>10. IsSequence(FlattenSeq(seqs)) /\ (IsValid(FlattenSeq(seqs)) => \A k \in DOMAIN E : DOMAIN H[k] = {})
  <2>1. IsSequence(seqs) /\ DOMAIN seqs = DOMAIN E
    BY <1>2, <1>8, OnSequence
  <2>2. ASSUME NEW k \in DOMAIN E PROVE IsSequence(found[k]) /\ DOMAIN found[k] = DOMAIN H[k]
    BY <1>4, <1>6, OnSequence
  <2>3. /\ IsSequence(FlattenSeq(seqs))
        /\ IsValid(FlattenSeq(seqs)) <=>
              \A k \in DOMAIN found : \A j \in DOMAIN found[k] : IsValid(found[k][j])
    BY <1>6, <1>7, <1>8, <2>1, <2>2, ValidNested
  <2> QED BY <1>6, <1>7, <2>2, <2>3
<1>11. /\ IsSequence(CheckDuplicateNames(s))
       /\ IsValid(CheckDuplicateNames(s)) => IsValid(FlattenSeq(entity)) /\ IsValid(FlattenSeq(seqs))
  BY <1>1, <1>9, <1>10, ValidJoined
<1>12. IsValid(CheckDuplicateNames(s)) /\ named =>
         /\ \A i, j \in DOMAIN E : i # j => E[i].name # E[j].name
         /\ \A k \in DOMAIN E : \A i, j \in DOMAIN E[k].attributes :
              i # j => E[k].attributes[i].name # E[k].attributes[j].name
  BY <1>3, <1>4, <1>9, <1>10, <1>11
<1> QED BY <1>11, <1>12 DEF E, ToSet

\* check_relationships passes: one end of a line that is not N:M holds a
\* foreign key to the other; a cardinality it does not enforce is reported.
LEMMA RelationshipsChecked ==
  ASSUME NEW s, Listed(s)
  PROVE  /\ IsSequence(CheckRelationships(s))
         /\ \A link \in ToSet(s.relationships) :
              LET from == Resolve(s, link.from)
                  to == Resolve(s, link.to)
                  holder == Holder(from, to)
              IN link.cardinality # "N:M" /\ from # None /\ to # None =>
                   /\ IsValid(CheckRelationships(s)) => holder # None
                   /\ holder # None /\ CardinalityMismatch(link.cardinality, IsUniqueKey(holder.entity, holder.attribute))
                        => \E d \in ToSet(CheckRelationships(s)) :
                             d.code = "SF-REL-CARDINALITY" /\ d.about[1] = link.id
<1> DEFINE R == s.relationships
           seqs == [k \in DOMAIN R |-> CheckRelationship(s, R[k])]
<1>1. CheckRelationships(s) = FlattenSeq(seqs)
  BY DEF CheckRelationships, PerItem
<1>2. ASSUME NEW link
      PROVE  LET from == Resolve(s, link.from)
                 to == Resolve(s, link.to)
                 holder == Holder(from, to)
             IN /\ IsSequence(CheckRelationship(s, link))
                /\ link.cardinality # "N:M" /\ from # None /\ to # None =>
                   /\ IsValid(CheckRelationship(s, link)) => holder # None
                   /\ holder # None /\ CardinalityMismatch(link.cardinality, IsUniqueKey(holder.entity, holder.attribute))
                        => \E d \in ToSet(CheckRelationship(s, link)) :
                             d.code = "SF-REL-CARDINALITY" /\ d.about[1] = link.id
  <2> DEFINE from == Resolve(s, link.from)
             to == Resolve(s, link.to)
             holder == Holder(from, to)
             mismatch == CardinalityMismatch(link.cardinality, IsUniqueKey(holder.entity, holder.attribute))
             missing == Error("SF-REL-NO-FK", <<link.id>>)
             warning == Warning("SF-REL-CARDINALITY", <<link.id, holder.entity.id, holder.attribute.id>>)
             skipped == link.cardinality = "N:M" \/ None \in {from, to}
  <2>1. CheckRelationship(s, link) =
          IF skipped THEN <<>>
          ELSE IF holder = None THEN <<missing>> ELSE IF mismatch THEN <<warning>> ELSE <<>>
    BY DEF CheckRelationship, When
  <2>2. missing.severity = "error"
    BY DEF Error
  <2>3. warning.code = "SF-REL-CARDINALITY" /\ warning.about[1] = link.id
    BY DEF Warning
  <2>4. (link.cardinality # "N:M" /\ from # None /\ to # None) => ~skipped
    OBVIOUS
  <2> HIDE DEF from, to, holder, mismatch, missing, warning, skipped
  <2>5. IsSequence(CheckRelationship(s, link))
    BY <2>1, ShortSequences
  <2>6. ~skipped /\ IsValid(CheckRelationship(s, link)) => holder # None
    BY <2>1, <2>2, ValidShort
  <2>7. ~skipped /\ holder # None /\ mismatch => warning \in ToSet(CheckRelationship(s, link))
    BY <2>1, ShortSequences
  <2> QED BY <2>3, <2>4, <2>5, <2>6, <2>7 DEF from, to, holder, mismatch
<1>3. \A k \in DOMAIN R : seqs[k] = CheckRelationship(s, R[k])
  OBVIOUS
<1>4. seqs = [k \in DOMAIN R |-> seqs[k]]
  OBVIOUS
<1>5. IsSequence(R)
  BY DEF Listed
<1> HIDE DEF seqs, R
<1>6. IsSequence(seqs) /\ DOMAIN seqs = DOMAIN R
  BY <1>4, <1>5, OnSequence
<1>7. \A k \in DOMAIN R : IsSequence(seqs[k])
  BY <1>2, <1>3
<1>8. /\ IsSequence(CheckRelationships(s))
      /\ IsValid(CheckRelationships(s)) <=> \A k \in DOMAIN R : IsValid(seqs[k])
      /\ \A d : d \in ToSet(CheckRelationships(s)) <=> \E k \in DOMAIN R : d \in ToSet(seqs[k])
  BY <1>1, <1>6, <1>7, ValidLoop
<1>9. ASSUME NEW link \in ToSet(R)
      PROVE  /\ IsValid(CheckRelationships(s)) => IsValid(CheckRelationship(s, link))
             /\ \A d \in ToSet(CheckRelationship(s, link)) : d \in ToSet(CheckRelationships(s))
  <2>1. PICK k \in DOMAIN R : link = R[k]
    BY DEF ToSet
  <2> QED BY <1>3, <1>8, <2>1
<1>10. ASSUME NEW link \in ToSet(R)
       PROVE  LET from == Resolve(s, link.from)
                  to == Resolve(s, link.to)
                  holder == Holder(from, to)
              IN link.cardinality # "N:M" /\ from # None /\ to # None =>
                   /\ IsValid(CheckRelationships(s)) => holder # None
                   /\ holder # None /\ CardinalityMismatch(link.cardinality, IsUniqueKey(holder.entity, holder.attribute))
                        => \E d \in ToSet(CheckRelationships(s)) :
                             d.code = "SF-REL-CARDINALITY" /\ d.about[1] = link.id
  BY <1>2, <1>9
<1> QED BY <1>8, <1>10 DEF R

\* check_cycles passes: no tables need each other in a circle of references
\* that cannot be NULL.
LEMMA CyclesChecked ==
  ASSUME NEW s, Listed(s)
  PROVE  /\ IsSequence(CheckCycles(s))
         /\ IsValid(CheckCycles(s)) => MutualGroups(Dependencies(s, TRUE)) = {}
<1> DEFINE all == Dependencies(s, FALSE)
           required == Dependencies(s, TRUE)
           cycles == InSchemaOrder(MutualGroups(all))
           blocked == UNION MutualGroups(required)
           found == [k \in DOMAIN cycles |->
                       IF cycles[k] \cap blocked # {}
                       THEN Error("SF-DEP-CYCLE", InCycle(s.entities, cycles[k]))
                       ELSE Warning("SF-DEP-CYCLE", InCycle(s.entities, cycles[k]))]
<1>1. CheckCycles(s) = found
  BY DEF CheckCycles
<1>2. PICK n \in Nat : DOMAIN s.entities = 1..n
  BY SequenceShape DEF Listed
<1>3. DOMAIN all = 1..n /\ DOMAIN required = 1..n
  BY <1>2 DEF Dependencies
<1>4. \A t \in 1..n : required[t] \subseteq all[t]
  BY <1>2 DEF Dependencies
<1>5. \A k \in DOMAIN cycles : cycles[k] \cap blocked # {} => found[k].severity = "error"
  BY DEF Error
<1>6. found = [k \in DOMAIN cycles |-> found[k]]
  OBVIOUS
<1> HIDE DEF all, required, found
<1>7. /\ IsSequence(cycles)
      /\ \A k \in DOMAIN cycles : cycles[k] \in MutualGroups(all)
      /\ \A C \in MutualGroups(all) : \E k \in DOMAIN cycles : cycles[k] = C
  BY <1>3, MutualGroupsSorted
<1> HIDE DEF cycles
<1>8. IsSequence(found) /\ DOMAIN found = DOMAIN cycles
  BY <1>6, <1>7, OnSequence
<1>9. ASSUME NEW C \in MutualGroups(required) PROVE \E k \in DOMAIN cycles : cycles[k] \cap blocked # {}
  <2>1. /\ C # {} /\ C \subseteq 1..n /\ IsFiniteSet(C) /\ Cardinality(C) > 1
        /\ \A x \in C : C = Group(x, required)
    BY <1>3, MutualGroupShape
  <2>2. PICK x \in C : TRUE
    BY <2>1
  <2> DEFINE D == Group(x, all)
  <2>3. \A u, v : Reaches(u, v, required) => Reaches(u, v, all)
    BY <1>3, <1>4 DEF Reaches, Closed
  <2>4. C \subseteq D /\ D \subseteq 1..n /\ x \in 1..n
    BY <1>3, <2>1, <2>3 DEF Group
  <2>5. Cardinality(D) > 1
    <3>1. IsFiniteSet(1..n)
      BY FS_Interval
    <3>2. IsFiniteSet(D)
      BY <2>4, <3>1, FS_Subset
    <3> HIDE DEF D
    <3> QED BY <2>1, <2>4, <3>2, TwoMembers
  <2>6. D \in MutualGroups(all)
    BY <1>3, <2>4, <2>5 DEF MutualGroups
  <2>7. x \in D /\ x \in blocked
    BY <2>2, <2>4
  <2> HIDE DEF D, blocked
  <2> QED BY <1>7, <2>6, <2>7
<1>10. IsValid(found) => MutualGroups(required) = {}
  <2> HIDE DEF blocked
  <2> QED BY <1>5, <1>8, <1>9 DEF IsValid
<1> QED BY <1>1, <1>8, <1>10 DEF required

\* check_documentation reports a list.
LEMMA DocumentationChecked ==
  ASSUME NEW s, Listed(s)
  PROVE  IsSequence(CheckDocumentation(s))
<1> DEFINE E == s.entities
           R == s.relationships
           Undocumented(e) == Where(e.attributes, LAMBDA a : a.description = Blank)
           tables == [k \in DOMAIN E |->
                        When(E[k].description = Blank \/ Undocumented(E[k]) # <<>>,
                             Warning("SF-DOC-MISSING", <<E[k].id>> \o Ids(Undocumented(E[k]))))]
           links == [k \in DOMAIN R |-> When(R[k].description = Blank, Warning("SF-DOC-MISSING", <<R[k].id>>))]
<1>1. CheckDocumentation(s) = FlattenSeq(tables) \o FlattenSeq(links)
  BY DEF CheckDocumentation, PerEntity, PerItem
<1>2. \A k \in DOMAIN E : IsSequence(tables[k])
  <2> HIDE DEF Undocumented
  <2> QED BY ShortSequences DEF When
<1>3. \A k \in DOMAIN R : IsSequence(links[k])
  BY ShortSequences DEF When
<1>4. tables = [k \in DOMAIN E |-> tables[k]] /\ links = [k \in DOMAIN R |-> links[k]]
  OBVIOUS
<1>5. IsSequence(E) /\ IsSequence(R)
  BY DEF Listed
<1> HIDE DEF E, R, tables, links
<1>6. IsSequence(tables) /\ DOMAIN tables = DOMAIN E
  BY <1>4, <1>5, OnSequence
<1>7. IsSequence(links) /\ DOMAIN links = DOMAIN R
  BY <1>4, <1>5, OnSequence
<1>8. IsSequence(FlattenSeq(tables)) /\ IsSequence(FlattenSeq(links))
  BY <1>2, <1>3, <1>6, <1>7, FlattenedMembers
<1> QED BY <1>1, <1>8, Joined

\* What a schema without errors is.
Sound(s) ==
  /\ \A i, j \in DOMAIN s.entities : i # j => s.entities[i].name # s.entities[j].name
  /\ \A e \in ToSet(s.entities) : \A i, j \in DOMAIN e.attributes :
       i # j => e.attributes[i].name # e.attributes[j].name
  /\ \A e \in ToSet(s.entities) : PrimaryKey(e) # <<>>
  /\ \A e \in ToSet(s.entities) : \A a \in ToSet(e.attributes) : a.foreign_key # None =>
       LET found == Resolve(s, a.foreign_key)
       IN found # None /\ IsUniqueKey(found.entity, found.attribute)
  /\ \A link \in ToSet(s.relationships) :
       LET from == Resolve(s, link.from)
           to == Resolve(s, link.to)
       IN /\ from # None /\ to # None
          /\ link.cardinality # "N:M" => Holder(from, to) # None
  /\ MutualGroups(Dependencies(s, TRUE)) = {}

\* The report of verify has the findings of every check, so a schema without
\* errors is sound.
LEMMA Verified ==
  ASSUME NEW s, Listed(s)
  PROVE  /\ IsSequence(Verify(s))
         /\ ToSet(CheckRelationships(s)) \subseteq ToSet(Verify(s))
         /\ IsValid(Verify(s)) => Sound(s)
<1> DEFINE c1 == CheckNotEmpty(s)
           c2 == CheckNames(s)
           c3 == CheckTypeParameters(s)
           c4 == CheckRelationshipEnds(s)
           c5 == CheckDuplicateNames(s)
           c6 == CheckPrimaryKeys(s)
           c7 == CheckForeignKeys(s)
           c8 == CheckRelationships(s)
           c9 == CheckCycles(s)
           c10 == CheckDocumentation(s)
           s2 == c1 \o c2
           s3 == s2 \o c3
           s4 == s3 \o c4
           s5 == s4 \o c5
           s6 == s5 \o c6
           s7 == s6 \o c7
           s8 == s7 \o c8
           s9 == s8 \o c9
<1>1. Verify(s) = s9 \o c10
  BY DEF Verify
<1>2. IsSequence(s.entities) /\ \A e \in ToSet(s.entities) : IsSequence(e.attributes)
  BY DEF Listed
<1>3. IsSequence(c1) /\ IsSequence(c2) /\ IsSequence(c3) /\ IsSequence(c4)
  BY <1>2, NotEmptyChecked, NamesChecked, TypeParametersChecked, EndsChecked
<1>4. IsSequence(c6) /\ IsSequence(c7) /\ IsSequence(c8) /\ IsSequence(c9) /\ IsSequence(c10)
  BY KeysChecked, ForeignKeysChecked, RelationshipsChecked, CyclesChecked, DocumentationChecked
<1> DEFINE named == \A e \in ToSet(s.entities) : /\ e.name # Blank
                                                 /\ \A a \in ToSet(e.attributes) : a.name # Blank
<1>5. /\ IsSequence(c5)
      /\ IsValid(c5) /\ named =>
           /\ \A i, j \in DOMAIN s.entities : i # j => s.entities[i].name # s.entities[j].name
           /\ \A e \in ToSet(s.entities) : \A i, j \in DOMAIN e.attributes :
                i # j => e.attributes[i].name # e.attributes[j].name
  <2>1. named <=> \A e \in ToSet(s.entities) : /\ e.name # Blank
                                               /\ \A a \in ToSet(e.attributes) : a.name # Blank
    OBVIOUS
  <2> HIDE DEF named
  <2> QED BY <2>1, DuplicatesChecked
<1>6. IsValid(c2) => named
  BY <1>2, NamesChecked
<1>7. IsValid(c6) => \A e \in ToSet(s.entities) : PrimaryKey(e) # <<>>
  BY KeysChecked
<1>8. IsValid(c7) => \A e \in ToSet(s.entities) : \A a \in ToSet(e.attributes) : a.foreign_key # None =>
        LET found == Resolve(s, a.foreign_key)
        IN found # None /\ IsUniqueKey(found.entity, found.attribute)
  BY ForeignKeysChecked
<1>9. IsValid(c4) /\ IsValid(c8) =>
        \A link \in ToSet(s.relationships) :
          LET from == Resolve(s, link.from)
              to == Resolve(s, link.to)
          IN /\ from # None /\ to # None
             /\ link.cardinality # "N:M" => Holder(from, to) # None
  BY EndsChecked, RelationshipsChecked
<1>10. IsValid(c9) => MutualGroups(Dependencies(s, TRUE)) = {}
  BY CyclesChecked
<1> HIDE DEF c1, c2, c3, c4, c5, c6, c7, c8, c9, c10
<1>11. IsSequence(s2) /\ (IsValid(s2) => IsValid(c2))
  BY <1>3, ValidJoined
<1> HIDE DEF s2
<1>12. IsSequence(s3) /\ (IsValid(s3) => IsValid(s2))
  BY <1>3, <1>11, ValidJoined
<1> HIDE DEF s3
<1>13. IsSequence(s4) /\ (IsValid(s4) => IsValid(s3) /\ IsValid(c4))
  BY <1>3, <1>12, ValidJoined
<1> HIDE DEF s4
<1>14. IsSequence(s5) /\ (IsValid(s5) => IsValid(s4) /\ IsValid(c5))
  BY <1>5, <1>13, ValidJoined
<1> HIDE DEF s5
<1>15. IsSequence(s6) /\ (IsValid(s6) => IsValid(s5) /\ IsValid(c6))
  BY <1>4, <1>14, ValidJoined
<1> HIDE DEF s6
<1>16. IsSequence(s7) /\ (IsValid(s7) => IsValid(s6) /\ IsValid(c7))
  BY <1>4, <1>15, ValidJoined
<1> HIDE DEF s7
<1>17. IsSequence(s8) /\ (IsValid(s8) => IsValid(s7) /\ IsValid(c8)) /\ ToSet(c8) \subseteq ToSet(s8)
  BY <1>4, <1>16, ValidJoined, Joined
<1> HIDE DEF s8
<1>18. IsSequence(s9) /\ (IsValid(s9) => IsValid(s8) /\ IsValid(c9)) /\ ToSet(s8) \subseteq ToSet(s9)
  BY <1>4, <1>17, ValidJoined, Joined
<1> HIDE DEF s9
<1>19. /\ IsSequence(Verify(s)) /\ (IsValid(Verify(s)) => IsValid(s9))
       /\ ToSet(s9) \subseteq ToSet(Verify(s))
  BY <1>1, <1>4, <1>18, ValidJoined, Joined
<1>20. IsValid(Verify(s)) => IsValid(c2) /\ IsValid(c4) /\ IsValid(c5) /\ IsValid(c6) /\ IsValid(c7) /\ IsValid(c8) /\ IsValid(c9)
  BY <1>11, <1>12, <1>13, <1>14, <1>15, <1>16, <1>17, <1>18, <1>19
<1> HIDE DEF named
<1>21. IsValid(Verify(s)) => Sound(s)
  BY <1>5, <1>6, <1>7, <1>8, <1>9, <1>10, <1>20 DEF Sound
<1>22. ToSet(c8) \subseteq ToSet(Verify(s))
  BY <1>17, <1>18, <1>19
<1> QED BY <1>19, <1>21, <1>22 DEF c8

-----------------------------------------------------------------------------
(* What a payload is read as, and what a reference resolves to.            *)

\* What the mappers make of a payload.
Drawn(s) ==
  /\ Listed(s)
  /\ s = [entities |-> s.entities, relationships |-> s.relationships]
  /\ \A e \in ToSet(s.entities) : \A a \in ToSet(e.attributes) :
       /\ a.primary_key => ~a.nullable
       /\ [entity_id |-> e.id, attribute_id |-> a.id] # None
  /\ \A link \in ToSet(s.relationships) :
       /\ DOMAIN link = {"id", "description", "from", "to", "cardinality"}
       /\ link.cardinality \in {"1:1", "1:N", "N:M"}

\* schema_from, entity_from and attribute_from keep the lists and their order.
LEMMA ReadAsDrawn ==
  ASSUME NEW p, IsDrawing(p)
  PROVE  Drawn(SchemaFrom(p))
<1> DEFINE s == SchemaFrom(p)
           of == [e \in DOMAIN p.entities |-> [a \in DOMAIN p.entities[e].attributes |-> AttributeFrom(p.entities[e].attributes[a])]]
           E == [e \in DOMAIN p.entities |-> [p.entities[e] EXCEPT !.attributes = of[e]]]
<1>1. s = [p EXCEPT !.entities = E]
  <2>1. s = [p EXCEPT !.entities = [e \in DOMAIN p.entities |-> EntityFrom(p.entities[e])]]
    BY DEF SchemaFrom
  <2>2. \A e \in DOMAIN p.entities : EntityFrom(p.entities[e]) = E[e]
    BY DEF EntityFrom
  <2> HIDE DEF s
  <2>3. E = [e \in DOMAIN p.entities |-> E[e]]
    OBVIOUS
  <2> HIDE DEF E
  <2> QED BY <2>1, <2>2, <2>3
<1>2. /\ IsSequence(p.entities) /\ IsSequence(p.relationships) /\ DOMAIN p = {"entities", "relationships"}
      /\ \A link \in ToSet(p.relationships) :
           /\ DOMAIN link = {"id", "description", "from", "to", "cardinality"}
           /\ link.cardinality \in {"1:1", "1:N", "N:M"}
  BY DEF IsDrawing, IsSequence
<1>3. ASSUME NEW k \in DOMAIN p.entities
      PROVE  IsSequence(p.entities[k].attributes) /\ {"id", "attributes"} \subseteq DOMAIN p.entities[k]
  <2>1. p.entities[k] \in ToSet(p.entities)
    BY DEF ToSet
  <2> QED BY <2>1 DEF IsDrawing, IsSequence
<1>4. s.entities = E /\ s.relationships = p.relationships
  BY <1>1, <1>2
<1>5. s = [entities |-> s.entities, relationships |-> s.relationships]
  BY <1>1, <1>2
<1>6. ASSUME NEW k \in DOMAIN p.entities
      PROVE  /\ E[k].attributes = of[k] /\ IsSequence(of[k])
             /\ \A a \in ToSet(of[k]) : /\ a.primary_key => ~a.nullable
                                       /\ [entity_id |-> E[k].id, attribute_id |-> a.id] # None
  <2>1. E[k] = [p.entities[k] EXCEPT !.attributes = of[k]]
    OBVIOUS
  <2>2. of[k] = [a \in DOMAIN p.entities[k].attributes |-> of[k][a]]
    OBVIOUS
  <2>3. \A a \in DOMAIN p.entities[k].attributes : of[k][a] = AttributeFrom(p.entities[k].attributes[a])
    OBVIOUS
  <2> HIDE DEF E, of
  <2>4. E[k].attributes = of[k]
    BY <1>3, <2>1
  <2>5. IsSequence(of[k]) /\ DOMAIN of[k] = DOMAIN p.entities[k].attributes
    BY <1>3, <2>2, OnSequence
  <2>7. E[k].id = p.entities[k].id
    BY <1>3, <2>1
  <2>6. ASSUME NEW j \in DOMAIN p.entities[k].attributes
        PROVE  /\ of[k][j].primary_key => ~of[k][j].nullable
               /\ [entity_id |-> E[k].id, attribute_id |-> of[k][j].id] # None
    <3> DEFINE b == p.entities[k].attributes[j]
    <3>1. /\ DOMAIN b = {"id", "name", "description", "data_type", "nullable", "primary_key", "unique", "foreign_key"}
          /\ [entity_id |-> p.entities[k].id, attribute_id |-> b.id] # None
      <4>1. p.entities[k] \in ToSet(p.entities) /\ b \in ToSet(p.entities[k].attributes)
        BY DEF ToSet
      <4> HIDE DEF b
      <4> QED BY <4>1 DEF IsDrawing
    <3>2. of[k][j] = [b EXCEPT !.nullable = @ /\ ~b.primary_key, !.data_type = DataTypeFrom(@)]
      BY <2>3 DEF AttributeFrom
    <3> HIDE DEF b
    <3>4. of[k][j].id = b.id
      BY <3>1, <3>2
    <3>3. of[k][j].primary_key = b.primary_key /\ of[k][j].nullable = (b.nullable /\ ~b.primary_key)
      BY <3>1, <3>2
    <3> QED BY <2>7, <3>1, <3>3, <3>4
  <2> QED BY <2>4, <2>5, <2>6 DEF ToSet
<1>7. E = [k \in DOMAIN p.entities |-> E[k]]
  OBVIOUS
<1> HIDE DEF E, of, s
<1>8. IsSequence(E) /\ DOMAIN E = DOMAIN p.entities
  BY <1>2, <1>7, OnSequence
<1>9. \A e \in ToSet(s.entities) : /\ IsSequence(e.attributes)
                                   /\ \A a \in ToSet(e.attributes) :
                                        /\ a.primary_key => ~a.nullable
                                        /\ [entity_id |-> e.id, attribute_id |-> a.id] # None
  BY <1>4, <1>6, <1>8 DEF ToSet
<1>10. Listed(s)
  BY <1>2, <1>4, <1>8, <1>9 DEF Listed
<1> QED BY <1>2, <1>4, <1>5, <1>9, <1>10 DEF Drawn, s

\* find takes the first with the id.
LEMMA FirstFound ==
  ASSUME NEW items, IsSequence(items), NEW id, FirstWithId(items, id) # None
  PROVE  \E k \in DOMAIN items : /\ FirstWithId(items, id) = items[k] /\ items[k].id = id
                                 /\ \A j \in DOMAIN items : items[j].id = id => k <= j
<1> DEFINE I == {i \in 1..Len(items) : items[i].id = id}
<1>1. FirstWithId(items, id) = IF (IF I # {} THEN Min(I) ELSE 0) = 0 THEN None
                               ELSE items[IF I # {} THEN Min(I) ELSE 0]
  BY DEF FirstWithId, SelectInSeq
<1>2. I # {}
  BY <1>1
<1>3. Len(items) \in Nat /\ DOMAIN items = 1..Len(items)
  BY SequenceShape
<1>4. I \in SUBSET Nat
  BY <1>3
<1>5. Min(I) \in I /\ \A m \in I : Min(I) <= m
  <2> HIDE DEF I
  <2> QED BY <1>2, <1>4, LeastNumber
<1>6. FirstWithId(items, id) = items[Min(I)]
  BY <1>1, <1>2
<1> QED BY <1>3, <1>5, <1>6

\* resolve: the first entity with the id, and its first attribute.
LEMMA Resolved ==
  ASSUME NEW s, Listed(s), NEW ref, Resolve(s, ref) # None
  PROVE  LET found == Resolve(s, ref) IN
         /\ found = [entity |-> found.entity, attribute |-> found.attribute]
         /\ found.entity \in ToSet(s.entities) /\ found.attribute \in ToSet(found.entity.attributes)
         /\ found.entity.id = ref.entity_id /\ found.attribute.id = ref.attribute_id
         /\ \E k \in DOMAIN s.entities :
              /\ found.entity = s.entities[k]
              /\ \A j \in DOMAIN s.entities : s.entities[j].id = ref.entity_id => k <= j
<1> DEFINE entity == FirstWithId(s.entities, ref.entity_id)
           attribute == FirstWithId(entity.attributes, ref.attribute_id)
<1>1. entity # None /\ attribute # None /\ Resolve(s, ref) = [entity |-> entity, attribute |-> attribute]
  BY DEF Resolve
<1>2. IsSequence(s.entities) /\ \A e \in ToSet(s.entities) : IsSequence(e.attributes)
  BY DEF Listed
<1> HIDE DEF attribute, entity
<1>3. /\ entity \in ToSet(s.entities) /\ entity.id = ref.entity_id
      /\ \E k \in DOMAIN s.entities :
              /\ entity = s.entities[k]
              /\ \A j \in DOMAIN s.entities : s.entities[j].id = ref.entity_id => k <= j
  BY <1>1, <1>2, FirstFound DEF entity, ToSet
<1>4. attribute \in ToSet(entity.attributes) /\ attribute.id = ref.attribute_id
  BY <1>1, <1>2, <1>3, FirstFound DEF attribute, ToSet
<1>5. Resolve(s, ref).entity = entity /\ Resolve(s, ref).attribute = attribute
  BY <1>1
<1> QED BY <1>1, <1>3, <1>4, <1>5

\* primary_key: the attributes marked so, in order.
LEMMA KeyColumns ==
  ASSUME NEW e, IsSequence(e.attributes)
  PROVE  /\ IsSequence(PrimaryKey(e))
         /\ ToSet(PrimaryKey(e)) = {a \in ToSet(e.attributes) : a.primary_key}
         /\ PrimaryKey(e) = <<>> <=> ~\E a \in ToSet(e.attributes) : a.primary_key
         /\ Len(PrimaryKey(e)) > 1 <=>
              \E j, k \in DOMAIN e.attributes : j # k /\ e.attributes[j].primary_key /\ e.attributes[k].primary_key
<1> DEFINE items == e.attributes
           K == {k \in DOMAIN items : items[k].primary_key}
           seqs == [k \in DOMAIN items |-> IF items[k].primary_key THEN <<items[k]>> ELSE <<>>]
<1>1. PrimaryKey(e) = FlattenSeq(seqs)
  BY DEF PrimaryKey, Where
<1>2. seqs = [k \in DOMAIN items |-> seqs[k]]
  OBVIOUS
<1>3. \A k \in DOMAIN items : seqs[k] = IF k \in K THEN <<items[k]>> ELSE <<>>
  OBVIOUS
<1>4. K \in SUBSET DOMAIN items
  OBVIOUS
<1>9. IsSequence(items)
  OBVIOUS
<1> HIDE DEF K, seqs, items
<1>5. IsSequence(seqs) /\ DOMAIN seqs = DOMAIN items
  BY <1>2, <1>9, OnSequence
<1>6. /\ IsSequence(PrimaryKey(e)) /\ ToSet(PrimaryKey(e)) = {items[k] : k \in K}
      /\ PrimaryKey(e) = <<>> <=> K = {}
      /\ Len(PrimaryKey(e)) > 1 <=> \E j, k \in K : j # k
  <2>1. /\ IsSequence(FlattenSeq(seqs)) /\ ToSet(FlattenSeq(seqs)) = {items[k] : k \in K}
        /\ FlattenSeq(seqs) = <<>> <=> K = {}
        /\ Len(FlattenSeq(seqs)) > 1 <=> \E j, k \in K : j # k
    BY <1>3, <1>4, <1>5, <1>9, KeptItems
  <2> QED BY <1>1, <2>1
<1> QED BY <1>6 DEF K, ToSet, items

-----------------------------------------------------------------------------
(* The script: CREATE TABLE for every entity, then the references, then the*)
(* comments, whichever order the entities are drawn in.                    *)

\* The statement a reference that resolves becomes.
Reference(s, e, a) ==
  [do |-> "add foreign key", table |-> e.name, name |-> ConstraintName(e.name, a.name),
   column |-> a.name, target |-> Resolve(s, a.foreign_key).entity.name,
   key |-> Resolve(s, a.foreign_key).attribute.name]

\* One ALTER TABLE for every reference of a table, no two of them the same.
LEMMA ReferencesOf ==
  ASSUME NEW s, Listed(s), Sound(s), NEW e \in ToSet(s.entities)
  PROVE  /\ IsSequence(ForeignKeysOf(s, e))
         /\ \A x : x \in ToSet(ForeignKeysOf(s, e)) <=>
              \E a \in ToSet(e.attributes) : a.foreign_key # None /\ x = Reference(s, e, a)
         /\ \A i, j \in DOMAIN ForeignKeysOf(s, e) : ForeignKeysOf(s, e)[i] = ForeignKeysOf(s, e)[j] => i = j
<1> DEFINE A == e.attributes
           seqs == [k \in DOMAIN A |-> ForeignKey(s, e, A[k])]
<1>1. ForeignKeysOf(s, e) = FlattenSeq(seqs)
  BY DEF ForeignKeysOf
<1>2. seqs = [k \in DOMAIN A |-> seqs[k]]
  OBVIOUS
<1>3. \A k \in DOMAIN A : seqs[k] = ForeignKey(s, e, A[k])
  OBVIOUS
<1>4. IsSequence(A)
  BY DEF Listed
<1>5. \A k \in DOMAIN A : A[k] \in ToSet(e.attributes)
  BY DEF ToSet
<1>6. \A i, j \in DOMAIN A : i # j => A[i].name # A[j].name
  BY DEF Sound
<1>7. \A k \in DOMAIN A : A[k].foreign_key # None => Resolve(s, A[k].foreign_key) # None
  BY <1>5 DEF Sound
<1> HIDE DEF A, seqs
<1>8. IsSequence(seqs) /\ DOMAIN seqs = DOMAIN A
  BY <1>2, <1>4, OnSequence
<1>9. ASSUME NEW k \in DOMAIN A
      PROVE  seqs[k] = IF A[k].foreign_key = None THEN <<>> ELSE <<Reference(s, e, A[k])>>
  BY <1>3, <1>7 DEF ForeignKey, Reference
<1>10. ASSUME NEW k \in DOMAIN A
       PROVE  /\ IsSequence(seqs[k])
              /\ \A x : x \in ToSet(seqs[k]) <=> A[k].foreign_key # None /\ x = Reference(s, e, A[k])
              /\ \A i, j \in DOMAIN seqs[k] : seqs[k][i] = seqs[k][j] => i = j
  <2>1. IsSequence(seqs[k]) /\ \A x : x \in ToSet(seqs[k]) <=> A[k].foreign_key # None /\ x = Reference(s, e, A[k])
    <3> DEFINE y == Reference(s, e, A[k])
    <3>1. seqs[k] = IF A[k].foreign_key = None THEN <<>> ELSE <<y>>
      BY <1>9
    <3> HIDE DEF y
    <3>2. CASE A[k].foreign_key = None
      BY <3>1, <3>2, ShortSequences
    <3>3. CASE A[k].foreign_key # None
      <4>1. seqs[k] = <<y>>
        BY <3>1, <3>3
      <4> QED BY <3>3, <4>1, ShortSequences DEF y
    <3> QED BY <3>2, <3>3
  <2>2. Len(seqs[k]) \in {0, 1}
    BY <1>9, ShortSequences
  <2>3. DOMAIN seqs[k] = 1..Len(seqs[k])
    BY <2>1, SequenceShape
  <2> QED BY <2>1, <2>2, <2>3
<1>11. \A x : x \in ToSet(FlattenSeq(seqs)) <=> \E k \in DOMAIN seqs : x \in ToSet(seqs[k])
  BY <1>8, <1>10, FlattenedMembers
<1>12. \A k, l \in DOMAIN seqs : k # l => \A x \in ToSet(seqs[k]) : x \notin ToSet(seqs[l])
  <2>1. \A k \in DOMAIN A : Reference(s, e, A[k]).column = A[k].name
    BY DEF Reference
  <2> QED BY <1>6, <1>8, <1>10, <2>1
<1>13. IsSequence(FlattenSeq(seqs))
  BY <1>8, <1>10, FlattenedMembers
<1>14. \A i, j \in DOMAIN FlattenSeq(seqs) : FlattenSeq(seqs)[i] = FlattenSeq(seqs)[j] => i = j
  BY <1>8, <1>10, <1>12, FlattenedOnce
<1>15. \A x : x \in ToSet(FlattenSeq(seqs)) <=>
              \E a \in ToSet(e.attributes) : a.foreign_key # None /\ x = Reference(s, e, a)
  <2>1. \A a : a \in ToSet(e.attributes) <=> \E k \in DOMAIN A : a = A[k]
    BY DEF ToSet, A
  <2> QED BY <1>8, <1>10, <1>11, <2>1
<1> QED BY <1>1, <1>13, <1>14, <1>15

\* The same for all tables.
LEMMA ReferencesAll ==
  ASSUME NEW s, Listed(s), Sound(s)
  PROVE  /\ IsSequence(ForeignKeys(s))
         /\ \A x : x \in ToSet(ForeignKeys(s)) <=>
              \E e \in ToSet(s.entities) : \E a \in ToSet(e.attributes) :
                a.foreign_key # None /\ x = Reference(s, e, a)
         /\ \A i, j \in DOMAIN ForeignKeys(s) : ForeignKeys(s)[i] = ForeignKeys(s)[j] => i = j
<1> DEFINE E == s.entities
           seqs == [k \in DOMAIN E |-> ForeignKeysOf(s, E[k])]
<1>1. ForeignKeys(s) = FlattenSeq(seqs)
  BY DEF ForeignKeys
<1>2. seqs = [k \in DOMAIN E |-> seqs[k]]
  OBVIOUS
<1>3. \A k \in DOMAIN E : seqs[k] = ForeignKeysOf(s, E[k])
  OBVIOUS
<1>4. IsSequence(E)
  BY DEF Listed
<1>5. \A e : e \in ToSet(s.entities) <=> \E k \in DOMAIN E : e = E[k]
  BY DEF ToSet
<1>6. \A i, j \in DOMAIN E : i # j => E[i].name # E[j].name
  BY DEF Sound
<1> HIDE DEF E, seqs
<1>7. IsSequence(seqs) /\ DOMAIN seqs = DOMAIN E
  BY <1>2, <1>4, OnSequence
<1>8. ASSUME NEW k \in DOMAIN E
      PROVE  /\ IsSequence(seqs[k])
             /\ \A x : x \in ToSet(seqs[k]) <=>
                  \E a \in ToSet(E[k].attributes) : a.foreign_key # None /\ x = Reference(s, E[k], a)
             /\ \A i, j \in DOMAIN seqs[k] : seqs[k][i] = seqs[k][j] => i = j
  BY <1>3, <1>5, ReferencesOf
<1>9. \A x : x \in ToSet(FlattenSeq(seqs)) <=> \E k \in DOMAIN seqs : x \in ToSet(seqs[k])
  BY <1>7, <1>8, FlattenedMembers
<1>10. \A k, l \in DOMAIN seqs : k # l => \A x \in ToSet(seqs[k]) : x \notin ToSet(seqs[l])
  <2>1. \A k \in DOMAIN E : \A a : Reference(s, E[k], a).table = E[k].name
    BY DEF Reference
  <2> QED BY <1>6, <1>7, <1>8, <2>1
<1>11. IsSequence(FlattenSeq(seqs))
  BY <1>7, <1>8, FlattenedMembers
<1>12. \A i, j \in DOMAIN FlattenSeq(seqs) : FlattenSeq(seqs)[i] = FlattenSeq(seqs)[j] => i = j
  BY <1>7, <1>8, <1>10, FlattenedOnce
<1>13. \A x : x \in ToSet(FlattenSeq(seqs)) <=>
              \E e \in ToSet(s.entities) : \E a \in ToSet(e.attributes) :
                a.foreign_key # None /\ x = Reference(s, e, a)
  BY <1>5, <1>7, <1>8, <1>9
<1> QED BY <1>1, <1>11, <1>12, <1>13

\* A comment is on a table of the schema or on one of its columns.
LEMMA CommentsAll ==
  ASSUME NEW s, Listed(s)
  PROVE  /\ IsSequence(Comments(s))
         /\ \A x \in ToSet(Comments(s)) : \E e \in ToSet(s.entities) :
              /\ x.table = e.name
              /\ \/ x.do = "comment on table"
                 \/ x.do = "comment on column" /\ \E a \in ToSet(e.attributes) : x.column = a.name
<1> DEFINE E == s.entities
           own == [k \in DOMAIN E |-> IF E[k].description # Blank
                                      THEN <<[do |-> "comment on table", table |-> E[k].name]>> ELSE <<>>]
           of == [k \in DOMAIN E |-> [j \in DOMAIN E[k].attributes |->
                    IF E[k].attributes[j].description # Blank
                    THEN <<[do |-> "comment on column", table |-> E[k].name,
                            column |-> E[k].attributes[j].name]>> ELSE <<>>]]
           seqs == [k \in DOMAIN E |-> own[k] \o FlattenSeq(of[k])]
           About(x, e) == /\ x.table = e.name
                          /\ \/ x.do = "comment on table"
                             \/ x.do = "comment on column" /\ \E a \in ToSet(e.attributes) : x.column = a.name
<1>1. Comments(s) = FlattenSeq(seqs)
  BY DEF Comments
<1>2. IsSequence(E) /\ \A k \in DOMAIN E : E[k] \in ToSet(s.entities) /\ IsSequence(E[k].attributes)
  BY DEF Listed, ToSet
<1>3. ASSUME NEW k \in DOMAIN E
      PROVE  IsSequence(seqs[k]) /\ \A x \in ToSet(seqs[k]) : About(x, E[k])
  <2>1. IsSequence(own[k]) /\ \A x \in ToSet(own[k]) : About(x, E[k])
    <3> DEFINE y == [do |-> "comment on table", table |-> E[k].name]
    <3>1. own[k] = <<y>> \/ own[k] = <<>>
      OBVIOUS
    <3>2. About(y, E[k])
      OBVIOUS
    <3> HIDE DEF y, own, About
    <3>3. IsSequence(own[k]) /\ ToSet(own[k]) \subseteq {y}
      <4>1. CASE own[k] = <<y>>
        BY <4>1, ShortSequences
      <4>2. CASE own[k] = <<>>
        BY <4>2, ShortSequences
      <4> QED BY <3>1, <4>1, <4>2
    <3> QED BY <3>2, <3>3
  <2>2. ASSUME NEW j \in DOMAIN E[k].attributes
        PROVE  IsSequence(of[k][j]) /\ \A x \in ToSet(of[k][j]) : About(x, E[k])
    <3> DEFINE y == [do |-> "comment on column", table |-> E[k].name, column |-> E[k].attributes[j].name]
    <3>1. E[k].attributes[j] \in ToSet(E[k].attributes)
      BY DEF ToSet
    <3>2. of[k][j] = <<y>> \/ of[k][j] = <<>>
      OBVIOUS
    <3>3. About(y, E[k])
      BY <3>1
    <3> HIDE DEF y, of, About
    <3>4. IsSequence(of[k][j]) /\ ToSet(of[k][j]) \subseteq {y}
      <4>1. CASE of[k][j] = <<y>>
        BY <4>1, ShortSequences
      <4>2. CASE of[k][j] = <<>>
        BY <4>2, ShortSequences
      <4> QED BY <3>2, <4>1, <4>2
    <3> QED BY <3>3, <3>4
  <2>3. of[k] = [j \in DOMAIN E[k].attributes |-> of[k][j]]
    OBVIOUS
  <2>4. seqs[k] = own[k] \o FlattenSeq(of[k])
    OBVIOUS
  <2> HIDE DEF own, of, seqs, E, About
  <2>5. IsSequence(of[k]) /\ DOMAIN of[k] = DOMAIN E[k].attributes
    BY <1>2, <2>3, OnSequence
  <2>6. IsSequence(FlattenSeq(of[k])) /\ \A x \in ToSet(FlattenSeq(of[k])) : About(x, E[k])
    BY <2>2, <2>5, FlattenedMembers
  <2> QED BY <2>1, <2>4, <2>6, Joined
<1>4. seqs = [k \in DOMAIN E |-> seqs[k]]
  OBVIOUS
<1> HIDE DEF own, of, seqs, E, About
<1>5. IsSequence(seqs) /\ DOMAIN seqs = DOMAIN E
  BY <1>2, <1>4, OnSequence
<1>6. IsSequence(FlattenSeq(seqs)) /\ \A x \in ToSet(FlattenSeq(seqs)) : \E k \in DOMAIN E : About(x, E[k])
  BY <1>3, <1>5, FlattenedMembers
<1> QED BY <1>1, <1>2, <1>6 DEF About

\* r is the script for s, with or without comments.
IsScript(r, s) == \E c \in BOOLEAN : r = Generate(s, c)

\* All the tables, then the references, then the comments.
LEMMA ScriptShape ==
  ASSUME NEW s, Listed(s), Sound(s), NEW r, IsScript(r, s)
  PROVE  LET n == Len(s.entities)
             F == ForeignKeys(s)
             m == Len(F)
         IN /\ IsSequence(r) /\ Len(r) \in Nat /\ n \in Nat /\ m \in Nat /\ n + m <= Len(r)
            /\ \A k \in 1..n : r[k] = CreateTable(s.entities[k])
            /\ \A k \in (n + 1)..(n + m) : r[k] = F[k - n]
            /\ \A k \in (n + m + 1)..Len(r) : r[k] \in ToSet(Comments(s))
<1>0. PICK c \in BOOLEAN : r = Generate(s, c)
  BY DEF IsScript
<1> DEFINE n == Len(s.entities)
           F == ForeignKeys(s)
           m == Len(F)
           T == [k \in DOMAIN s.entities |-> CreateTable(s.entities[k])]
           C == IF c THEN Comments(s) ELSE <<>>
           TF == T \o F
<1> SUFFICES /\ IsSequence(r) /\ Len(r) \in Nat /\ n \in Nat /\ m \in Nat /\ n + m <= Len(r)
             /\ \A k \in 1..n : r[k] = CreateTable(s.entities[k])
             /\ \A k \in (n + 1)..(n + m) : r[k] = F[k - n]
             /\ \A k \in (n + m + 1)..Len(r) : r[k] \in ToSet(Comments(s))
  OBVIOUS
<1>1. r = TF \o C
  BY <1>0 DEF Generate
<1>2. n \in Nat /\ DOMAIN s.entities = 1..n
  BY SequenceShape DEF Listed
<1>3. /\ T = [k \in 1..n |-> T[k]]
      /\ \A k \in 1..n : T[k] = CreateTable(s.entities[k])
  BY <1>2
<1>4. IsSequence(F)
  BY ReferencesAll
<1>5. m \in Nat /\ DOMAIN F = 1..m
  BY <1>4, SequenceShape
<1>6. IsSequence(C) /\ ToSet(C) \subseteq ToSet(Comments(s))
  BY CommentsAll, ShortSequences
<1>7. Len(C) \in Nat /\ DOMAIN C = 1..Len(C)
  BY <1>6, SequenceShape
<1> HIDE DEF T, F, C, n
<1>8. IsSequence(T) /\ Len(T) = n
  BY <1>2, <1>3, MappedSequence
<1>9. /\ IsSequence(TF) /\ Len(TF) = n + m
      /\ \A i \in 1..n : TF[i] = T[i]
      /\ \A i \in (n + 1)..(n + m) : TF[i] = F[i - n]
  BY <1>4, <1>8, Joined
<1> HIDE DEF TF, m
<1>10. /\ IsSequence(r) /\ Len(r) = n + m + Len(C)
       /\ \A i \in 1..(n + m) : r[i] = TF[i]
       /\ \A i \in (n + m + 1)..(n + m + Len(C)) : r[i] = C[i - (n + m)]
  <2> DEFINE l == n + m
  <2>1. Len(TF) = l
    BY <1>9
  <2> HIDE DEF l
  <2>2. /\ IsSequence(r) /\ Len(r) = l + Len(C)
        /\ \A i \in 1..l : r[i] = TF[i]
        /\ \A i \in (l + 1)..(l + Len(C)) : r[i] = C[i - l]
    <3>1. IsSequence(TF) /\ IsSequence(C)
      BY <1>6, <1>9
    <3> DEFINE q == TF \o C
    <3>2. /\ IsSequence(q) /\ Len(q) = Len(TF) + Len(C)
          /\ \A i \in 1..Len(TF) : q[i] = TF[i]
          /\ \A i \in (Len(TF) + 1)..(Len(TF) + Len(C)) : q[i] = C[i - Len(TF)]
      BY <3>1, Joined
    <3>3. r = q
      BY <1>1
    <3> HIDE DEF q
    <3> QED BY <2>1, <3>2, <3>3
  <2> QED BY <2>2 DEF l
<1>11. ASSUME NEW k \in (n + m + 1)..Len(r) PROVE r[k] \in ToSet(Comments(s))
  <2>1. r[k] = C[k - (n + m)]
    BY <1>10
  <2>2. k - (n + m) \in DOMAIN C
    BY <1>2, <1>5, <1>7, <1>10
  <2>3. r[k] \in ToSet(C)
    BY <2>1, <2>2 DEF ToSet
  <2> QED BY <1>6, <2>3
<1>12. \A k \in 1..n : r[k] = CreateTable(s.entities[k])
  <2> SUFFICES ASSUME NEW k \in 1..n PROVE r[k] = CreateTable(s.entities[k])
    OBVIOUS
  <2>1. k \in 1..(n + m)
    BY <1>2, <1>5
  <2> QED BY <1>3, <1>9, <1>10, <2>1
<1>13. \A k \in (n + 1)..(n + m) : r[k] = F[k - n]
  <2> SUFFICES ASSUME NEW k \in (n + 1)..(n + m) PROVE r[k] = F[k - n]
    OBVIOUS
  <2>1. k \in 1..(n + m)
    BY <1>2, <1>5
  <2> QED BY <1>9, <1>10, <2>1
<1>14. Len(r) \in Nat /\ n + m <= Len(r)
  BY <1>2, <1>5, <1>7, <1>10
<1> QED BY <1>2, <1>5, <1>10, <1>11, <1>12, <1>13, <1>14

-----------------------------------------------------------------------------
(* The table a CREATE TABLE leaves.                                        *)

\* No two columns of the table have one identifier.
Apart(e) ==
  \A i, j \in DOMAIN e.attributes :
    i # j => Identifier(e.attributes[i].name) # Identifier(e.attributes[j].name)

\* The identifiers of columns.
Named(attributes) == {Identifier(a.name) : a \in attributes}

\* UNIQUE is left off a key column.
LEMMA ColumnFields ==
  ASSUME NEW a
  PROVE  /\ Column(a).name = a.name
         /\ Column(a).type = a.data_type
         /\ Column(a).unique <=> a.unique /\ ~a.primary_key
         /\ Column(a).not_null <=> ~a.nullable
<1>1. Column(a).name = a.name /\ Column(a).type = a.data_type
  BY DEF Column
<1>2. Column(a).unique = (a.unique /\ ~a.primary_key)
  BY DEF Column
<1>3. Column(a).not_null = ~a.nullable
  BY DEF Column
<1> QED BY <1>1, <1>2, <1>3

\* The columns and keys a CREATE TABLE makes.
LEMMA TableDrawn ==
  ASSUME NEW e, IsSequence(e.attributes)
  PROVE  LET t == TableOf(CreateTable(e))
             A == ToSet(e.attributes)
         IN /\ t = [columns |-> t.columns, key |-> t.key, unique_keys |-> t.unique_keys, foreign_keys |-> {}]
            /\ DOMAIN t.columns = Named(A)
            /\ t.key = Named(ToSet(PrimaryKey(e)))
            /\ PrimaryKey(e) # <<>> =>
                 t.unique_keys = {t.key} \cup {{Identifier(a.name)} : a \in {b \in A : b.unique /\ ~b.primary_key}}
<1> DEFINE A == ToSet(e.attributes)
           st == CreateTable(e)
           t == TableOf(st)
           C == st.columns
<1>1. /\ st.columns = [k \in DOMAIN e.attributes |-> Column(e.attributes[k])]
      /\ st.key = {PrimaryKey(e)[k].name : k \in DOMAIN PrimaryKey(e)}
  BY DEF CreateTable
<1>2. DOMAIN C = DOMAIN e.attributes
  BY <1>1
<1>3. \A k \in DOMAIN C : C[k].name = e.attributes[k].name /\ C[k].type = e.attributes[k].data_type
                          /\ (C[k].unique <=> e.attributes[k].unique /\ ~e.attributes[k].primary_key)
                          /\ (C[k].not_null <=> ~e.attributes[k].nullable)
  <2>1. \A k \in DOMAIN C : C[k] = Column(e.attributes[k])
    BY <1>1
  <2> QED BY <2>1, ColumnFields
<1>4. \A a : a \in A <=> \E k \in DOMAIN C : a = e.attributes[k]
  BY <1>2 DEF ToSet
<1> HIDE DEF st, A, C
<1>5. /\ DOMAIN t.columns = ColumnNames(C)
      /\ t.key = {Identifier(c) : c \in st.key}
      /\ t.unique_keys = (IF t.key = {} THEN {} ELSE {t.key})
                         \cup {{Identifier(C[k].name)} : k \in {j \in DOMAIN C : C[j].unique}}
      /\ t = [columns |-> t.columns, key |-> t.key, unique_keys |-> t.unique_keys, foreign_keys |-> {}]
  BY DEF TableOf, C
<1> HIDE DEF t
<1>6. DOMAIN t.columns = Named(A)
  BY <1>3, <1>4, <1>5 DEF ColumnNames, Named
<1>7. t.key = Named(ToSet(PrimaryKey(e)))
  BY <1>1, <1>5 DEF Named, ToSet
<1>8. {{Identifier(C[k].name)} : k \in {j \in DOMAIN C : C[j].unique}}
        = {{Identifier(a.name)} : a \in {b \in A : b.unique /\ ~b.primary_key}}
  BY <1>3, <1>4
<1>9. PrimaryKey(e) # <<>> => t.key # {}
  <2>1. IsSequence(PrimaryKey(e)) /\ (PrimaryKey(e) # <<>> => \E a \in ToSet(PrimaryKey(e)) : TRUE)
    BY KeyColumns
  <2> QED BY <1>7, <2>1 DEF Named
<1> QED BY <1>5, <1>6, <1>7, <1>8, <1>9 DEF t, A, st

\* A column is NOT NULL when it was drawn so or is part of the key.
LEMMA ColumnDrawn ==
  ASSUME NEW e, IsSequence(e.attributes), Apart(e), NEW a \in ToSet(e.attributes)
  PROVE  LET column == TableOf(CreateTable(e)).columns[Identifier(a.name)]
         IN /\ column.kind = a.data_type.kind
            /\ column.not_null <=> ~a.nullable \/ a.primary_key
<1> DEFINE st == CreateTable(e)
           t == TableOf(st)
           C == st.columns
           name == Identifier(a.name)
           ColumnAt == CHOOSE k \in DOMAIN C : Identifier(C[k].name) = name
<1>1. /\ C = [k \in DOMAIN e.attributes |-> Column(e.attributes[k])]
      /\ st.key = {PrimaryKey(e)[k].name : k \in DOMAIN PrimaryKey(e)}
  BY DEF CreateTable
<1>2. DOMAIN C = DOMAIN e.attributes
  BY <1>1
<1>3. \A k \in DOMAIN C : C[k].name = e.attributes[k].name /\ C[k].type = e.attributes[k].data_type
                          /\ (C[k].not_null <=> ~e.attributes[k].nullable)
  <2>1. \A k \in DOMAIN C : C[k] = Column(e.attributes[k])
    BY <1>1
  <2> QED BY <2>1, ColumnFields
<1>4. PICK p \in DOMAIN e.attributes : a = e.attributes[p]
  BY DEF ToSet
<1>5. t.key = Named(ToSet(PrimaryKey(e)))
  BY TableDrawn
<1> HIDE DEF C, st
<1>6. p \in DOMAIN C /\ Identifier(C[p].name) = name
  BY <1>2, <1>3, <1>4
<1>7. /\ t.columns[name].kind = C[ColumnAt].type.kind
      /\ t.columns[name].not_null <=> C[ColumnAt].not_null \/ name \in t.key
  <2>1. name \in ColumnNames(C)
    BY <1>6 DEF ColumnNames
  <2>2. t.columns = [m \in ColumnNames(C) |->
                      [kind |-> C[CHOOSE k \in DOMAIN C : Identifier(C[k].name) = m].type.kind,
                       not_null |-> \/ C[CHOOSE k \in DOMAIN C : Identifier(C[k].name) = m].not_null
                                    \/ m \in {Identifier(c) : c \in st.key}]]
    BY DEF TableOf, C
  <2>3. t.key = {Identifier(c) : c \in st.key}
    BY DEF TableOf
  <2> HIDE DEF t, name
  <2>4. t.columns[name] = [kind |-> C[ColumnAt].type.kind,
                           not_null |-> C[ColumnAt].not_null \/ name \in t.key]
    BY <2>1, <2>2, <2>3
  <2> HIDE DEF ColumnAt
  <2>5. t.columns[name].kind = C[ColumnAt].type.kind
    BY <2>4
  <2>6. t.columns[name].not_null = (C[ColumnAt].not_null \/ name \in t.key)
    BY <2>4
  <2> QED BY <2>5, <2>6
<1>8. ColumnAt \in DOMAIN C /\ Identifier(C[ColumnAt].name) = name
  BY <1>6
<1> HIDE DEF ColumnAt
<1>9. ColumnAt = p
  BY <1>2, <1>3, <1>4, <1>8 DEF Apart
<1>10. name \in t.key <=> a.primary_key
  <2>1. ToSet(PrimaryKey(e)) = {b \in ToSet(e.attributes) : b.primary_key}
    BY KeyColumns
  <2>2. ASSUME NEW b \in ToSet(e.attributes), Identifier(b.name) = name PROVE b = a
    <3>1. PICK q \in DOMAIN e.attributes : b = e.attributes[q]
      BY DEF ToSet
    <3> QED BY <1>4, <2>2, <3>1 DEF Apart
  <2>3. \A x : x \in t.key <=> \E b \in ToSet(e.attributes) : b.primary_key /\ x = Identifier(b.name)
    BY <1>5, <2>1 DEF Named
  <2> HIDE DEF name, t
  <2>4. Identifier(a.name) = name
    BY DEF name
  <2> QED BY <2>2, <2>3, <2>4
<1> HIDE DEF t, name
<1>11. t.columns[name].kind = a.data_type.kind
  BY <1>3, <1>4, <1>6, <1>7, <1>9
<1>12. t.columns[name].not_null <=> ~a.nullable \/ a.primary_key
  BY <1>3, <1>4, <1>6, <1>7, <1>9, <1>10
<1> QED BY <1>11, <1>12 DEF t, name, st

\* The verifier's unique keys are the database's, but for a unique column
\* inside a composite key.
LEMMA UniqueDrawn ==
  ASSUME NEW e, IsSequence(e.attributes), PrimaryKey(e) # <<>>, Apart(e), NEW a \in ToSet(e.attributes),
         ~(Len(PrimaryKey(e)) > 1 /\ \E b \in ToSet(PrimaryKey(e)) : b.unique)
  PROVE  {Identifier(a.name)} \in TableOf(CreateTable(e)).unique_keys <=> IsUniqueKey(e, a)
<1> DEFINE t == TableOf(CreateTable(e))
           A == ToSet(e.attributes)
           K == ToSet(PrimaryKey(e))
           name == Identifier(a.name)
<1>1. /\ t.key = Named(K)
      /\ t.unique_keys = {t.key} \cup {{Identifier(b.name)} : b \in {b \in A : b.unique /\ ~b.primary_key}}
  BY TableDrawn
<1>2. /\ K = {b \in A : b.primary_key} /\ K # {}
      /\ Len(PrimaryKey(e)) \in Nat
      /\ Len(PrimaryKey(e)) > 1 <=>
           \E j, k \in DOMAIN e.attributes : j # k /\ e.attributes[j].primary_key /\ e.attributes[k].primary_key
  BY KeyColumns, SequenceShape
<1>3. Len(PrimaryKey(e)) # 0
  <2>1. IsSequence(PrimaryKey(e))
    BY KeyColumns
  <2> QED BY <2>1 DEF IsSequence
<1> DEFINE len == Len(PrimaryKey(e))
<1>8. len # 1 => len > 1
  <2>1. len \in Nat /\ len # 0
    BY <1>2, <1>3
  <2> HIDE DEF len
  <2> QED BY <2>1
<1>4. ASSUME NEW b \in A, NEW c \in A, Identifier(b.name) = Identifier(c.name) PROVE b = c
  <2>1. PICK p \in DOMAIN e.attributes : b = e.attributes[p]
    BY DEF ToSet
  <2>2. PICK q \in DOMAIN e.attributes : c = e.attributes[q]
    BY DEF ToSet
  <2> QED BY <1>4, <2>1, <2>2 DEF Apart
<1>5. Len(PrimaryKey(e)) = 1 => \A b, c \in K : b = c
  <2> SUFFICES ASSUME Len(PrimaryKey(e)) = 1, NEW b \in K, NEW c \in K PROVE b = c
    OBVIOUS
  <2>1. b \in A /\ c \in A /\ b.primary_key /\ c.primary_key
    BY <1>2
  <2>2. PICK p \in DOMAIN e.attributes : b = e.attributes[p]
    BY <2>1 DEF ToSet
  <2>3. PICK q \in DOMAIN e.attributes : c = e.attributes[q]
    BY <2>1 DEF ToSet
  <2>4. ~(Len(PrimaryKey(e)) > 1)
    OBVIOUS
  <2> QED BY <1>2, <2>1, <2>2, <2>3, <2>4
<1>6. Len(PrimaryKey(e)) # 1 => \E b, c \in K : Identifier(b.name) # Identifier(c.name)
  <2> SUFFICES ASSUME Len(PrimaryKey(e)) # 1 PROVE \E b, c \in K : Identifier(b.name) # Identifier(c.name)
    OBVIOUS
  <2>0. Len(PrimaryKey(e)) > 1
    BY <1>8
  <2>1. PICK j, k \in DOMAIN e.attributes : j # k /\ e.attributes[j].primary_key /\ e.attributes[k].primary_key
    BY <1>2, <2>0
  <2>2. e.attributes[j] \in A /\ e.attributes[k] \in A
    BY DEF ToSet
  <2> QED BY <1>2, <2>1, <2>2 DEF Apart
<1>7. ~(Len(PrimaryKey(e)) > 1 /\ \E b \in K : b.unique)
  OBVIOUS
<1>9. IsUniqueKey(e, a) <=> a.unique \/ (a.primary_key /\ len = 1)
  BY DEF IsUniqueKey
<1> HIDE DEF A, K, t, len
<1>10. a \in A
  BY DEF A
<1>11. {name} = t.key <=> a \in K /\ len = 1
  <2>1. \A x : x \in t.key <=> \E b \in K : x = Identifier(b.name)
    BY <1>1 DEF Named
  <2>2. K \subseteq A
    BY <1>2
  <2>3. ASSUME {name} = t.key PROVE a \in K /\ len = 1
    <3>1. \A b \in K : Identifier(b.name) = name
      BY <2>1, <2>3
    <3>2. \A b \in K : b = a
      BY <1>4, <1>10, <2>2, <3>1
    <3> QED BY <1>2, <1>6, <3>1, <3>2 DEF len
  <2>4. ASSUME a \in K, len = 1 PROVE {name} = t.key
    <3>1. \A b \in K : b = a
      BY <1>5, <2>4 DEF len
    <3> QED BY <2>1, <2>4, <3>1
  <2> QED BY <2>3, <2>4
<1>12. {name} \in {{Identifier(b.name)} : b \in {b \in A : b.unique /\ ~b.primary_key}} <=> a.unique /\ ~a.primary_key
  <2>1. ASSUME NEW b \in A, {name} = {Identifier(b.name)} PROVE b = a
    <3>1. name = Identifier(b.name)
      BY <2>1
    <3> QED BY <1>4, <1>10, <3>1
  <2> QED BY <1>10, <2>1
<1>13. {name} \in t.unique_keys <=> (a \in K /\ len = 1) \/ (a.unique /\ ~a.primary_key)
  BY <1>1, <1>11, <1>12
<1>14. a \in K <=> a.primary_key
  BY <1>2, <1>10
<1>15. a.unique /\ a.primary_key => len = 1
  BY <1>7, <1>8, <1>14 DEF len
<1>16. {name} \in t.unique_keys <=> IsUniqueKey(e, a)
  BY <1>9, <1>13, <1>14, <1>15
<1> QED BY <1>16 DEF t

-----------------------------------------------------------------------------
(* The catalog while the script runs, one statement after the other.       *)

\* The tables that exist after n statements, and the references.
Built(s, n) == {k \in DOMAIN s.entities : k <= n}
Added(r, n) == {r[k] : k \in {j \in 1..n : r[j].do = "add foreign key"}}

\* The foreign key a statement adds, those of one table, and the table with
\* its foreign keys.
Constraint(t) ==
  [name |-> t.name, column |-> Identifier(t.column), target |-> Identifier(t.target), key |-> Identifier(t.key)]
OnTable(id, added) == {Constraint(t) : t \in {u \in added : Identifier(u.table) = id}}

TableIn(e, added) ==
  LET table == TableOf(CreateTable(e))
  IN [columns |-> table.columns, key |-> table.key, unique_keys |-> table.unique_keys,
      foreign_keys |-> OnTable(Identifier(e.name), added)]

\* What the database holds after n statements of the script r for s.
Holds(s, r, n, cat) ==
  /\ DOMAIN cat = {Identifier(s.entities[k].name) : k \in Built(s, n)}
  /\ \A j, k \in Built(s, n) : Identifier(s.entities[j].name) = Identifier(s.entities[k].name) => j = k
  /\ \A k \in Built(s, n) : Apart(s.entities[k])
  /\ \A k \in Built(s, n) : cat[Identifier(s.entities[k].name)] = TableIn(s.entities[k], Added(r, n))

\* What one statement adds.
LEMMA AddedNext ==
  ASSUME NEW r, NEW n \in Nat
  PROVE  /\ r[n + 1].do = "add foreign key" => Added(r, n + 1) = Added(r, n) \cup {r[n + 1]}
         /\ r[n + 1].do # "add foreign key" => Added(r, n + 1) = Added(r, n)
<1> DEFINE J(m) == {j \in 1..m : r[j].do = "add foreign key"}
<1>1. 1..(n + 1) = (1..n) \cup {n + 1}
  OBVIOUS
<1>2. r[n + 1].do = "add foreign key" => J(n + 1) = J(n) \cup {n + 1}
  BY <1>1
<1>3. r[n + 1].do # "add foreign key" => J(n + 1) = J(n)
  BY <1>1
<1>4. Added(r, n) = {r[k] : k \in J(n)} /\ Added(r, n + 1) = {r[k] : k \in J(n + 1)}
  BY DEF Added
<1> HIDE DEF J
<1> QED BY <1>2, <1>3, <1>4

\* A statement that follows the tables.
Later(t, s) ==
  \E e \in ToSet(s.entities) :
    \/ \E a \in ToSet(e.attributes) : a.foreign_key # None /\ t = Reference(s, e, a)
    \/ t.do = "comment on table" /\ t.table = e.name
    \/ \E a \in ToSet(e.attributes) :
         t.do = "comment on column" /\ t.table = e.name /\ t.column = a.name

\* The n-th statement of a script, by where it stands.
LEMMA StatementAt ==
  ASSUME NEW s, Listed(s), Sound(s), NEW r, IsScript(r, s), NEW n \in 1..Len(r)
  PROVE  /\ n \in DOMAIN s.entities => r[n] = CreateTable(s.entities[n]) /\ r[n].do = "create table"
         /\ n \notin DOMAIN s.entities => Later(r[n], s)
         /\ DOMAIN s.entities = 1..Len(s.entities) /\ Len(s.entities) \in Nat /\ Len(r) \in Nat
<1> DEFINE N == Len(s.entities)
           F == ForeignKeys(s)
           m == Len(F)
<1>1. /\ IsSequence(r) /\ Len(r) \in Nat /\ N \in Nat /\ m \in Nat /\ N + m <= Len(r)
      /\ \A k \in 1..N : r[k] = CreateTable(s.entities[k])
      /\ \A k \in (N + 1)..(N + m) : r[k] = F[k - N]
      /\ \A k \in (N + m + 1)..Len(r) : r[k] \in ToSet(Comments(s))
  BY ScriptShape
<1>2. DOMAIN s.entities = 1..N
  BY SequenceShape DEF Listed
<1>3. DOMAIN F = 1..m
  BY ReferencesAll, SequenceShape
<1>4. \A e : CreateTable(e).do = "create table"
  BY DEF CreateTable
<1> HIDE DEF N, F, m
<1>5. CASE n \in 1..N
  BY <1>1, <1>2, <1>4, <1>5 DEF N
<1>6. CASE n \in (N + 1)..(N + m)
  <2>1. n \notin DOMAIN s.entities /\ n - N \in DOMAIN F
    BY <1>1, <1>2, <1>3, <1>6
  <2>2. r[n] = F[n - N]
    BY <1>1, <1>6
  <2>3. r[n] \in ToSet(F)
    BY <2>1, <2>2 DEF ToSet
  <2>4. \E e \in ToSet(s.entities) : \E a \in ToSet(e.attributes) :
                a.foreign_key # None /\ r[n] = Reference(s, e, a)
    BY <2>3, ReferencesAll DEF F
  <2> QED BY <1>1, <1>2, <2>1, <2>4 DEF N, Later
<1>7. CASE n \in (N + m + 1)..Len(r)
  <2>1. n \notin DOMAIN s.entities
    BY <1>1, <1>2, <1>7
  <2>2. r[n] \in ToSet(Comments(s))
    BY <1>1, <1>7
  <2>3. PICK e \in ToSet(s.entities) :
              /\ r[n].table = e.name
              /\ \/ r[n].do = "comment on table"
                 \/ r[n].do = "comment on column" /\ \E a \in ToSet(e.attributes) : r[n].column = a.name
    BY <2>2, CommentsAll
  <2> QED BY <1>1, <1>2, <2>1, <2>3 DEF N, Later
<1>8. n \in 1..N \/ n \in (N + 1)..(N + m) \/ n \in (N + m + 1)..Len(r)
  BY <1>1
<1> QED BY <1>5, <1>6, <1>7, <1>8

\* A statement makes a table or follows all of them.
LEMMA BuiltNext ==
  ASSUME NEW s, NEW N \in Nat, DOMAIN s.entities = 1..N, NEW n \in Nat
  PROVE  /\ n + 1 \in 1..N => Built(s, n + 1) = Built(s, n) \cup {n + 1} /\ n + 1 \notin Built(s, n)
         /\ n + 1 \notin 1..N => Built(s, n) = 1..N /\ Built(s, n + 1) = 1..N
  BY DEF Built

\* CREATE TABLE adds the table that was drawn.
LEMMA CreateKeeps ==
  ASSUME NEW s, Listed(s), Sound(s), NEW r, IsScript(r, s), NEW n \in Nat, n < Len(r), NEW cat,
         Holds(s, r, n, cat), Accepts(cat, r[n + 1]), n + 1 \in DOMAIN s.entities
  PROVE  Holds(s, r, n + 1, After(cat, r[n + 1]))
<1> DEFINE E == s.entities
           p == n + 1
           st == r[p]
           Id(k) == Identifier(E[k].name)
           new == After(cat, st)
<1>1. IsSequence(E)
  BY DEF Listed
<1>2. Len(E) \in Nat /\ DOMAIN E = 1..Len(E)
  BY <1>1, SequenceShape
<1>3. Len(r) \in Nat
  BY ScriptShape
<1>4. p \in 1..Len(r)
  BY <1>3
<1>5. st = CreateTable(E[p]) /\ st.do = "create table"
  <2>1. p \in DOMAIN s.entities
    OBVIOUS
  <2>2. PICK q \in 1..Len(r) : q = p
    BY <1>4
  <2> HIDE DEF p
  <2>3. q \in DOMAIN s.entities => r[q] = CreateTable(s.entities[q]) /\ r[q].do = "create table"
    BY StatementAt
  <2> QED BY <2>1, <2>2, <2>3
<1>6. st.table = E[p].name /\ DOMAIN st.columns = DOMAIN E[p].attributes
      /\ \A k \in DOMAIN E[p].attributes : st.columns[k].name = E[p].attributes[k].name
  <2>1. st.table = E[p].name /\ st.columns = [k \in DOMAIN E[p].attributes |-> Column(E[p].attributes[k])]
    <3> HIDE DEF st, E, p
    <3> QED BY <1>5 DEF CreateTable
  <2> HIDE DEF st, E
  <2> QED BY <2>1, ColumnFields
<1>7. AcceptsTable(cat, st)
  BY <1>5 DEF Accepts
<1>8. Id(p) \notin DOMAIN cat /\ Apart(E[p])
  BY <1>6, <1>7 DEF AcceptsTable, Apart
<1>9. new = [t \in DOMAIN cat \cup {Id(p)} |-> IF t = Id(p) THEN TableOf(st) ELSE cat[t]]
  BY <1>5, <1>6 DEF After
<1>10. Built(s, p) = Built(s, n) \cup {p}
  BY <1>2, BuiltNext
<1>11. Added(r, p) = {} /\ Added(r, n) = {}
  <2>1. \A j \in 1..p : r[j].do = "create table"
    <3> SUFFICES ASSUME NEW j \in 1..p PROVE r[j].do = "create table"
      OBVIOUS
    <3>1. j \in 1..Len(r) /\ j \in DOMAIN s.entities
      BY <1>2, <1>3, <1>4
    <3> QED BY <3>1, StatementAt
  <2>2. 1..n \subseteq 1..p
    OBVIOUS
  <2> HIDE DEF p
  <2> QED BY <2>1, <2>2 DEF Added
<1>12. TableOf(st) = TableIn(E[p], {})
  <2>1. OnTable(Id(p), {}) = {}
    BY DEF OnTable
  <2>2. IsSequence(E[p].attributes)
    BY DEF Listed, ToSet
  <2> HIDE DEF p, E
  <2>3. LET t == TableOf(CreateTable(E[p])) IN
        t = [columns |-> t.columns, key |-> t.key, unique_keys |-> t.unique_keys, foreign_keys |-> {}]
    BY <2>2, TableDrawn
  <2> QED BY <1>5, <2>1, <2>3 DEF TableIn
<1>13. /\ DOMAIN cat = {Id(k) : k \in Built(s, n)}
       /\ \A j, k \in Built(s, n) : Id(j) = Id(k) => j = k
       /\ \A k \in Built(s, n) : Apart(E[k])
       /\ \A k \in Built(s, n) : cat[Id(k)] = TableIn(E[k], {})
  BY <1>11 DEF Holds
<1> HIDE DEF E, p, st, Id, new
<1>14. DOMAIN new = {Id(k) : k \in Built(s, p)}
  BY <1>9, <1>10, <1>13
<1>15. \A j, k \in Built(s, p) : Id(j) = Id(k) => j = k
  BY <1>8, <1>10, <1>13
<1>16. \A k \in Built(s, p) : Apart(E[k])
  BY <1>8, <1>10, <1>13
<1>17. \A k \in Built(s, p) : new[Id(k)] = TableIn(E[k], {})
  BY <1>8, <1>9, <1>10, <1>12, <1>13
<1> QED BY <1>11, <1>14, <1>15, <1>16, <1>17 DEF Holds, E, p, st, Id, new

\* ADD FOREIGN KEY changes its own table only.
LEMMA ReferenceKeeps ==
  ASSUME NEW s, Listed(s), Sound(s), NEW r, IsScript(r, s), NEW n \in Nat, n < Len(r), NEW cat,
         Holds(s, r, n, cat), Accepts(cat, r[n + 1]), n + 1 \notin DOMAIN s.entities,
         r[n + 1].do = "add foreign key"
  PROVE  Holds(s, r, n + 1, After(cat, r[n + 1]))
<1> DEFINE E == s.entities
           p == n + 1
           st == r[p]
           table == Identifier(st.table)
           Id(k) == Identifier(E[k].name)
           new == After(cat, st)
           B == Built(s, n)
           added == Added(r, n)
<1>1. Len(E) \in Nat /\ DOMAIN E = 1..Len(E)
  BY SequenceShape DEF Listed
<1>2. Built(s, p) = B
  BY <1>1, BuiltNext
<1>3. Added(r, p) = added \cup {st}
  BY AddedNext
<1>4. table \in DOMAIN cat
  BY DEF Accepts, AcceptsForeignKey
<1>5. new = [cat EXCEPT ![table].foreign_keys = @ \cup {Constraint(st)}]
  BY DEF After, Constraint
<1>6. /\ DOMAIN cat = {Id(k) : k \in B}
      /\ \A j, k \in B : Id(j) = Id(k) => j = k
      /\ \A k \in B : Apart(E[k])
      /\ \A k \in B : cat[Id(k)] = TableIn(E[k], added)
  BY DEF Holds
<1> HIDE DEF E, p, st, Id, new, B, added, table
<1>7. ASSUME NEW k \in B PROVE new[Id(k)] = TableIn(E[k], added \cup {st})
  <2> DEFINE t == TableOf(CreateTable(E[k]))
             fks == OnTable(Id(k), added)
  <2>1. Id(k) = table => OnTable(Id(k), added \cup {st}) = fks \cup {Constraint(st)}
    BY DEF OnTable, table
  <2>2. Id(k) # table => OnTable(Id(k), added \cup {st}) = fks
    BY DEF OnTable, table
  <2>3. cat[Id(k)] = [columns |-> t.columns, key |-> t.key, unique_keys |-> t.unique_keys, foreign_keys |-> fks]
    BY <1>6 DEF TableIn, Id
  <2>4. TableIn(E[k], added \cup {st}) = [columns |-> t.columns, key |-> t.key, unique_keys |-> t.unique_keys,
                                          foreign_keys |-> OnTable(Id(k), added \cup {st})]
    BY DEF TableIn, Id
  <2> HIDE DEF t, fks
  <2>5. CASE Id(k) = table
    <3>1. new[Id(k)] = [cat[Id(k)] EXCEPT !.foreign_keys = @ \cup {Constraint(st)}]
      BY <1>4, <1>5, <2>5
    <3>2. new[Id(k)] = [columns |-> t.columns, key |-> t.key, unique_keys |-> t.unique_keys,
                        foreign_keys |-> fks \cup {Constraint(st)}]
      <4> DEFINE x == cat[Id(k)]
      <4>3. x = [columns |-> t.columns, key |-> t.key, unique_keys |-> t.unique_keys, foreign_keys |-> fks]
        BY <2>3
      <4>4. new[Id(k)] = [x EXCEPT !.foreign_keys = @ \cup {Constraint(st)}]
        BY <3>1
      <4> HIDE DEF x
      <4>1. x.foreign_keys = fks
        BY <4>3
      <4>2. new[Id(k)] = [x EXCEPT !.foreign_keys = fks \cup {Constraint(st)}]
        BY <4>1, <4>4
      <4> QED BY <4>2, <4>3
    <3> QED BY <2>1, <2>4, <2>5, <3>2
  <2>6. CASE Id(k) # table
    <3>1. new[Id(k)] = cat[Id(k)]
      BY <1>4, <1>5, <1>6, <2>6
    <3> QED BY <2>2, <2>3, <2>4, <2>6, <3>1
  <2> QED BY <2>5, <2>6
<1>8. DOMAIN new = DOMAIN cat
  BY <1>5
<1> QED BY <1>2, <1>3, <1>6, <1>7, <1>8 DEF Holds, E, p, st, Id, new, B, added

\* COMMENT ON changes no table.
LEMMA CommentKeeps ==
  ASSUME NEW s, Listed(s), NEW r, NEW n \in Nat, NEW cat,
         Holds(s, r, n, cat), n + 1 \notin DOMAIN s.entities,
         r[n + 1].do \in {"comment on table", "comment on column"}
  PROVE  Holds(s, r, n + 1, After(cat, r[n + 1]))
<1>1. Len(s.entities) \in Nat /\ DOMAIN s.entities = 1..Len(s.entities)
  BY SequenceShape DEF Listed
<1>2. Built(s, n + 1) = Built(s, n)
  BY <1>1, BuiltNext
<1>3. Added(r, n + 1) = Added(r, n)
  BY AddedNext
<1>4. After(cat, r[n + 1]) = cat
  BY DEF After
<1> QED BY <1>2, <1>3, <1>4 DEF Holds

\* Every statement of the script keeps what the database holds in step.
LEMMA StatementKeeps ==
  ASSUME NEW s, Listed(s), Sound(s), NEW r, IsScript(r, s), NEW n \in Nat, n < Len(r), NEW cat,
         Holds(s, r, n, cat), Accepts(cat, r[n + 1])
  PROVE  Holds(s, r, n + 1, After(cat, r[n + 1]))
<1>1. Len(r) \in Nat
  BY ScriptShape
<1>2. n + 1 \in 1..Len(r)
  BY <1>1
<1>3. CASE n + 1 \in DOMAIN s.entities
  BY <1>3, CreateKeeps
<1>4. CASE n + 1 \notin DOMAIN s.entities
  <2>1. r[n + 1].do = "add foreign key" \/ r[n + 1].do \in {"comment on table", "comment on column"}
    <3>1. \A e, a : Reference(s, e, a).do = "add foreign key"
      BY DEF Reference
    <3> DEFINE p == n + 1
    <3>4. PICK q \in 1..Len(r) : q = p
      BY <1>2
    <3>2. q \notin DOMAIN s.entities
      BY <1>4, <3>4
    <3> HIDE DEF p
    <3>3. r[p].do = "add foreign key" \/ r[p].do \in {"comment on table", "comment on column"}
      <4>1. Later(r[q], s)
        BY <3>2, StatementAt
      <4> QED BY <3>1, <3>4, <4>1 DEF Later
    <3> QED BY <3>3 DEF p
  <2> QED BY <1>4, <2>1, ReferenceKeeps, CommentKeeps
<1> QED BY <1>3, <1>4

\* The database starts empty.
LEMMA NothingHeld ==
  ASSUME NEW s, Listed(s), NEW r
  PROVE  Holds(s, r, 0, EmptyCatalog)
<1>1. Len(s.entities) \in Nat /\ DOMAIN s.entities = 1..Len(s.entities)
  BY SequenceShape DEF Listed
<1>2. Built(s, 0) = {}
  BY <1>1 DEF Built
<1> QED BY <1>2 DEF Holds, EmptyCatalog

-----------------------------------------------------------------------------
(* The invariant of a request.                                             *)

\* A reference is added once.
LEMMA ReferencesOnce ==
  ASSUME NEW s, Listed(s), Sound(s), NEW r, IsScript(r, s), NEW i \in 1..Len(r), NEW j \in 1..Len(r)
  PROVE  r[i] = r[j] /\ r[i].do = "add foreign key" => i = j
<1> DEFINE N == Len(s.entities)
           F == ForeignKeys(s)
           m == Len(F)
<1>1. /\ Len(r) \in Nat /\ N \in Nat /\ m \in Nat /\ N + m <= Len(r)
      /\ \A k \in 1..N : r[k] = CreateTable(s.entities[k])
      /\ \A k \in (N + 1)..(N + m) : r[k] = F[k - N]
      /\ \A k \in (N + m + 1)..Len(r) : r[k] \in ToSet(Comments(s))
  BY ScriptShape
<1>2. DOMAIN F = 1..m /\ \A k, l \in DOMAIN F : F[k] = F[l] => k = l
  BY ReferencesAll, SequenceShape
<1>3. \A e : CreateTable(e).do = "create table"
  BY DEF CreateTable
<1>4. \A x \in ToSet(Comments(s)) : x.do # "add foreign key"
  BY CommentsAll
<1> DEFINE l == Len(r)
<1>0. l \in Nat /\ N \in Nat /\ m \in Nat /\ i \in 1..l /\ j \in 1..l
  BY <1>1
<1> HIDE DEF N, F, m, l
<1>5. ASSUME NEW k \in 1..l, r[k].do = "add foreign key"
      PROVE  k - N \in 1..m /\ r[k] = F[k - N]
  <2>1. k \in (N + 1)..(N + m)
    <3>1. k \in 1..N \/ k \in (N + 1)..(N + m) \/ k \in (N + m + 1)..l
      BY <1>0
    <3>2. k \notin 1..N
      BY <1>1, <1>3, <1>5
    <3>3. k \notin (N + m + 1)..l
      BY <1>1, <1>4, <1>5 DEF l
    <3> QED BY <3>1, <3>2, <3>3
  <2>2. k - N \in 1..m
    BY <1>0, <2>1
  <2> QED BY <1>1, <2>1, <2>2
<1>6. r[i] = r[j] /\ r[i].do = "add foreign key" => i - N = j - N
  BY <1>0, <1>2, <1>5
<1>7. i - N = j - N => i = j
  BY <1>0
<1> QED BY <1>6, <1>7

\* What the references added so far are.
LEMMA AddedAre ==
  ASSUME NEW s, Listed(s), Sound(s), NEW r, IsScript(r, s), NEW n \in 0..Len(r)
  PROVE  \A x \in Added(r, n) : \E e \in ToSet(s.entities) : \E a \in ToSet(e.attributes) :
           a.foreign_key # None /\ x = Reference(s, e, a)
<1> SUFFICES ASSUME NEW x \in Added(r, n)
             PROVE  \E e \in ToSet(s.entities) : \E a \in ToSet(e.attributes) :
                      a.foreign_key # None /\ x = Reference(s, e, a)
  OBVIOUS
<1>1. PICK j \in 1..n : x = r[j] /\ r[j].do = "add foreign key"
  BY DEF Added
<1>2. Len(r) \in Nat
  BY ScriptShape
<1>3. j \in 1..Len(r)
  BY <1>2
<1>4. j \notin DOMAIN s.entities
  BY <1>1, <1>3, StatementAt
<1>5. Later(r[j], s)
  BY <1>3, <1>4, StatementAt
<1> QED BY <1>1, <1>5 DEF Later

\* At the end of the script the references are those that were drawn.
LEMMA AllAdded ==
  ASSUME NEW s, Listed(s), Sound(s), NEW r, IsScript(r, s)
  PROVE  \A x : x \in Added(r, Len(r)) <=>
           \E e \in ToSet(s.entities) : \E a \in ToSet(e.attributes) :
             a.foreign_key # None /\ x = Reference(s, e, a)
<1> DEFINE N == Len(s.entities)
           F == ForeignKeys(s)
           m == Len(F)
<1>1. /\ Len(r) \in Nat /\ N \in Nat /\ m \in Nat /\ N + m <= Len(r)
      /\ \A k \in (N + 1)..(N + m) : r[k] = F[k - N]
  BY ScriptShape
<1>2. DOMAIN F = 1..m
  BY ReferencesAll, SequenceShape
<1>3. Len(r) \in 0..Len(r)
  BY <1>1
<1>4. ASSUME NEW e \in ToSet(s.entities), NEW a \in ToSet(e.attributes), a.foreign_key # None
      PROVE  Reference(s, e, a) \in Added(r, Len(r))
  <2>1. Reference(s, e, a) \in ToSet(F)
    BY <1>4, ReferencesAll
  <2>2. PICK k \in DOMAIN F : F[k] = Reference(s, e, a)
    BY <2>1 DEF ToSet
  <2> HIDE DEF F, N, m
  <2>3. PICK q \in 1..Len(r) : q = k + N /\ q - N = k /\ q \in (N + 1)..(N + m)
    BY <1>1, <1>2
  <2>4. r[q] = Reference(s, e, a)
    BY <1>1, <2>2, <2>3
  <2>5. Reference(s, e, a).do = "add foreign key"
    BY DEF Reference
  <2> QED BY <2>4, <2>5 DEF Added
<1> HIDE DEF F, N, m
<1> QED BY <1>3, <1>4, AddedAre

\* Every part of the request, in the order it is made.
DdlInv ==
  /\ IsDrawing(payload)
  /\ stage \in {"asked", "invalid", "unimplemented", "not found", "verified", "withheld", "generated"}
  /\ stage \in {"verified", "withheld", "generated"} => Drawn(schema) /\ report = Verify(schema)
  /\ stage # "generated" => script = <<>> /\ at = 0 /\ catalog = EmptyCatalog
  /\ Generated => /\ IsValid(report) /\ IsScript(script, schema)
                  /\ at \in 0..Len(script) /\ Holds(schema, script, at, catalog)

\* A request begins with a drawing and nothing else.
LEMMA InitDdl == Init => DdlInv
<1> SUFFICES ASSUME Init PROVE DdlInv
  OBVIOUS
<1>1. IsDrawing(payload)
  BY PayloadsAssumption DEF Init
<1> QED BY <1>1 DEF Init, DdlInv, Generated

\* A schema read from a payload that verifies is sound.
LEMMA SoundWhenValid ==
  ASSUME NEW s, Drawn(s), IsValid(Verify(s))
  PROVE  Listed(s) /\ Sound(s)
  BY Verified DEF Drawn

\* Every step of a request keeps the invariant.
LEMMA NextDdl == DdlInv /\ [Next]_vars => DdlInv'
<1> SUFFICES ASSUME DdlInv, [Next]_vars PROVE DdlInv'
  OBVIOUS
<1>1. CASE \E outcome \in {"invalid", "unimplemented", "not found"} : Answer(outcome)
  BY <1>1 DEF Answer, DdlInv, Generated
<1>2. CASE VerifySchema
  <2>1. Drawn(SchemaFrom(payload))
    BY ReadAsDrawn DEF DdlInv
  <2>2. Drawn(schema') /\ report' = Verify(schema')
    BY <1>2, <2>1 DEF VerifySchema
  <2>3. /\ stage = "asked" /\ stage' = "verified" /\ payload' = payload /\ script' = script /\ at' = at
        /\ catalog' = catalog
    BY <1>2 DEF VerifySchema
  <2> QED BY <2>2, <2>3 DEF DdlInv, Generated
<1>3. CASE Withhold
  BY <1>3 DEF Withhold, DdlInv, Generated
<1>4. ASSUME NEW c \in BOOLEAN, GenerateDdl(c) PROVE DdlInv'
  <2>1. /\ stage = "verified" /\ stage' = "generated" /\ IsValid(report) /\ script' = Generate(schema, c)
        /\ payload' = payload /\ schema' = schema /\ report' = report /\ at' = at /\ catalog' = catalog
    BY <1>4 DEF GenerateDdl
  <2>2. Drawn(schema) /\ report = Verify(schema) /\ at = 0 /\ catalog = EmptyCatalog /\ IsDrawing(payload)
    BY <2>1 DEF DdlInv
  <2>3. Listed(schema) /\ Sound(schema)
    BY <2>1, <2>2, SoundWhenValid
  <2>4. IsScript(script', schema)
    BY <2>1 DEF IsScript
  <2>5. Len(script') \in Nat
    BY <2>3, <2>4, ScriptShape
  <2>6. Holds(schema, script', 0, EmptyCatalog)
    BY <2>3, NothingHeld
  <2>7. at' \in 0..Len(script')
    BY <2>1, <2>2, <2>5
  <2>8. Holds(schema', script', at', catalog')
    BY <2>1, <2>2, <2>6
  <2> QED BY <2>1, <2>2, <2>4, <2>7, <2>8 DEF DdlInv, Generated
<1>5. CASE RunStatement
  <2>1. /\ stage = "generated" /\ at < Len(script) /\ Accepts(catalog, script[at + 1])
        /\ catalog' = After(catalog, script[at + 1]) /\ at' = at + 1
        /\ payload' = payload /\ stage' = stage /\ schema' = schema /\ report' = report /\ script' = script
    BY <1>5 DEF RunStatement
  <2>2. /\ Drawn(schema) /\ report = Verify(schema) /\ IsValid(report) /\ IsScript(script, schema)
        /\ at \in 0..Len(script) /\ Holds(schema, script, at, catalog) /\ IsDrawing(payload)
    BY <2>1 DEF DdlInv, Generated
  <2>3. Listed(schema) /\ Sound(schema)
    BY <2>2, SoundWhenValid
  <2>4. Len(script) \in Nat
    BY <2>2, <2>3, ScriptShape
  <2>5. at \in Nat
    BY <2>2, <2>4
  <2>6. Holds(schema, script, at + 1, After(catalog, script[at + 1]))
    BY <2>1, <2>2, <2>3, <2>5, StatementKeeps
  <2>7. at' \in 0..Len(script')
    BY <2>1, <2>2, <2>4
  <2>8. Holds(schema', script', at', catalog')
    BY <2>1, <2>6
  <2> QED BY <2>1, <2>2, <2>7, <2>8 DEF DdlInv, Generated
<1>6. CASE UNCHANGED vars
  BY <1>6 DEF vars, DdlInv, Generated
<1>7. RefusePayload \/ OtherDialect \/ NoSuchSchema => \E outcome \in {"invalid", "unimplemented", "not found"} : Answer(outcome)
  BY DEF RefusePayload, OtherDialect, NoSuchSchema
<1> QED BY <1>1, <1>2, <1>3, <1>4, <1>5, <1>6, <1>7 DEF Next

\* Whatever is drawn, of whatever size: what a request holds at each of its
\* stages is what mapper, verify and generate made of the drawing, a script
\* is only handed out for a schema without errors, and the database holds
\* the tables and references of the statements it has taken, no more.
THEOREM RequestInvariant == Spec => []DdlInv
  BY InitDdl, NextDdl, PTL DEF Spec

-----------------------------------------------------------------------------
(* Every statement is accepted.                                            *)

\* Once the tables are there, each is the one that was drawn.
LEMMA TablesHeld ==
  ASSUME NEW s, NEW r, NEW n, NEW cat, Holds(s, r, n, cat), Built(s, n) = DOMAIN s.entities
  PROVE  /\ \A id : id \in DOMAIN cat <=> \E e \in ToSet(s.entities) : id = Identifier(e.name)
         /\ \A e, f \in ToSet(s.entities) : Identifier(e.name) = Identifier(f.name) => e = f
         /\ \A e \in ToSet(s.entities) : Apart(e) /\ cat[Identifier(e.name)] = TableIn(e, Added(r, n))
  BY DEF Holds, ToSet

\* A foreign key leaves the rest of its table alone.
LEMMA FieldsOfTable ==
  ASSUME NEW e, NEW added
  PROVE  LET t == TableOf(CreateTable(e))
             u == TableIn(e, added)
         IN /\ u.columns = t.columns /\ u.key = t.key /\ u.unique_keys = t.unique_keys
            /\ u.foreign_keys = OnTable(Identifier(e.name), added)
<1> DEFINE t == TableOf(CreateTable(e))
<1>1. TableIn(e, added) = [columns |-> t.columns, key |-> t.key, unique_keys |-> t.unique_keys,
                           foreign_keys |-> OnTable(Identifier(e.name), added)]
  BY DEF TableIn
<1> HIDE DEF t
<1>2. /\ TableIn(e, added).columns = t.columns /\ TableIn(e, added).key = t.key
      /\ TableIn(e, added).unique_keys = t.unique_keys
      /\ TableIn(e, added).foreign_keys = OnTable(Identifier(e.name), added)
  BY <1>1
<1> QED BY <1>2 DEF t

\* Columns with different names are different columns of the table.
LEMMA CutApart ==
  ASSUME NamesSurviveCut, Sound(schema), NEW e \in Entities
  PROVE  Apart(e)
<1> SUFFICES ASSUME NEW i \in DOMAIN e.attributes, NEW j \in DOMAIN e.attributes, i # j
             PROVE  Identifier(e.attributes[i].name) # Identifier(e.attributes[j].name)
  BY DEF Apart
<1>1. e.attributes[i].name # e.attributes[j].name
  BY DEF Sound, Entities
<1>2. e.attributes[i] \in AttributesOf(e) /\ e.attributes[j] \in AttributesOf(e)
  BY DEF AttributesOf, ToSet
<1> QED BY <1>1, <1>2 DEF NamesSurviveCut

\* A table is new, its columns differ and its keys can be indexed.
LEMMA TableAccepted ==
  ASSUME NamesSurviveCut, TypesAgree, Listed(schema), Sound(schema), NEW n \in Nat, NEW r, NEW cat,
         Holds(schema, r, n, cat), n + 1 \in DOMAIN schema.entities
  PROVE  AcceptsTable(cat, CreateTable(schema.entities[n + 1]))
<1> DEFINE p == n + 1
           e == schema.entities[p]
           st == CreateTable(e)
           t == TableOf(st)
<1>1. e \in Entities /\ IsSequence(e.attributes)
  BY DEF Entities, ToSet, Listed
<1>2. Apart(e)
  <2> HIDE DEF e
  <2> QED BY <1>1, CutApart
<1>3. st.table = e.name /\ DOMAIN st.columns = DOMAIN e.attributes
      /\ \A k \in DOMAIN e.attributes : st.columns[k].name = e.attributes[k].name
  <2> HIDE DEF e
  <2>1. st.table = e.name /\ st.columns = [k \in DOMAIN e.attributes |-> Column(e.attributes[k])]
    BY DEF CreateTable
  <2> HIDE DEF st
  <2> QED BY <2>1, ColumnFields
<1>4. Identifier(st.table) \notin DOMAIN cat
  <2>1. ASSUME NEW k \in Built(schema, n) PROVE Identifier(schema.entities[k].name) # Identifier(e.name)
    <3>1. k \in DOMAIN schema.entities /\ k # p
      <4>1. DOMAIN schema.entities = 1..Len(schema.entities) /\ Len(schema.entities) \in Nat
        BY SequenceShape DEF Listed
      <4>2. k \in DOMAIN schema.entities /\ k <= n
        BY <2>1 DEF Built
      <4> QED BY <4>1, <4>2
    <3>2. schema.entities[k].name # e.name
      BY <3>1 DEF Sound
    <3>3. schema.entities[k] \in Entities
      BY <3>1 DEF Entities, ToSet
    <3> HIDE DEF e
    <3> QED BY <1>1, <3>2, <3>3 DEF NamesSurviveCut
  <2> HIDE DEF e, st
  <2> QED BY <1>3, <2>1 DEF Holds
<1>5. \A j, k \in DOMAIN st.columns : j # k => Identifier(st.columns[j].name) # Identifier(st.columns[k].name)
  <2> HIDE DEF e, st
  <2> QED BY <1>2, <1>3 DEF Apart
<1> HIDE DEF e
<1>6. ASSUME NEW name \in UNION t.unique_keys PROVE Ordered(t.columns[name].kind)
  <2>1. /\ t.key = Named(ToSet(PrimaryKey(e)))
        /\ t.unique_keys = {t.key} \cup {{Identifier(a.name)} : a \in {b \in ToSet(e.attributes) : b.unique /\ ~b.primary_key}}
    <3>1. PrimaryKey(e) # <<>>
      BY <1>1 DEF Sound, Entities
    <3> QED BY <1>1, <3>1, TableDrawn
  <2>2. ToSet(PrimaryKey(e)) = {a \in ToSet(e.attributes) : a.primary_key}
    BY <1>1, KeyColumns
  <2>3. PICK a \in ToSet(e.attributes) : (a.primary_key \/ a.unique) /\ name = Identifier(a.name)
    <3> HIDE DEF t
    <3>1. CASE name \in t.key
      BY <2>1, <2>2, <3>1 DEF Named
    <3>2. CASE name \notin t.key
      <4>1. PICK a \in {b \in ToSet(e.attributes) : b.unique /\ ~b.primary_key} : name \in {Identifier(a.name)}
        BY <2>1, <3>2
      <4> QED BY <4>1
    <3> QED BY <3>1, <3>2
  <2>4. t.columns[name].kind = a.data_type.kind
    BY <1>1, <1>2, <2>3, ColumnDrawn
  <2>5. Ordered(a.data_type.kind)
    BY <1>1, <2>3 DEF TypesAgree, AttributesOf
  <2> QED BY <2>4, <2>5
<1> HIDE DEF st, t
<1>7. AcceptsTable(cat, st)
  BY <1>4, <1>5, <1>6 DEF AcceptsTable, t
<1> QED BY <1>7 DEF st, e

\* What the statement of a reference names.
LEMMA ReferenceFields ==
  ASSUME NEW s, NEW e, NEW a
  PROVE  LET t == Reference(s, e, a)
             found == Resolve(s, a.foreign_key)
         IN /\ t.table = e.name /\ t.column = a.name
            /\ t.target = found.entity.name /\ t.key = found.attribute.name
            /\ t.name = ConstraintName(e.name, a.name)
  BY DEF Reference

\* A reference comes after its tables, to a column that is unique and of a
\* type that compares, and its name is not taken.
LEMMA ReferenceAccepted ==
  ASSUME NamesSurviveCut, TypesAgree, ~UniqueInsideKey, Listed(schema), Sound(schema),
         NEW r, IsScript(r, schema), NEW n \in Nat, n + 1 \in 1..Len(r), NEW cat,
         Holds(schema, r, n, cat), Built(schema, n) = DOMAIN schema.entities,
         NEW e \in Entities, NEW a \in ToSet(e.attributes), a.foreign_key # None
  PROVE  r[n + 1] = Reference(schema, e, a) => AcceptsForeignKey(cat, Reference(schema, e, a))
<1> DEFINE st == Reference(schema, e, a)
<1>0. SUFFICES ASSUME r[n + 1] = st PROVE AcceptsForeignKey(cat, st)
  OBVIOUS
<1> DEFINE found == Resolve(schema, a.foreign_key)
           g == found.entity
           b == found.attribute
           T(x) == TableOf(CreateTable(x))
           Id(x) == Identifier(x.name)
           added == Added(r, n)
<1>1. found # None /\ IsUniqueKey(g, b)
  BY DEF Sound, Entities
<1>2. g \in Entities /\ b \in ToSet(g.attributes)
  BY <1>1, Resolved DEF Entities
<1>14. st.do = "add foreign key"
  BY DEF Reference
<1>3. /\ st.table = e.name /\ st.column = a.name
      /\ st.target = g.name /\ st.key = b.name /\ st.name = ConstraintName(e.name, a.name)
  BY ReferenceFields
<1>4. /\ \A id : id \in DOMAIN cat <=> \E x \in Entities : id = Id(x)
      /\ \A x, y \in Entities : Id(x) = Id(y) => x = y
      /\ \A x \in Entities : Apart(x) /\ cat[Id(x)] = TableIn(x, added)
  BY TablesHeld DEF Entities
<1>5. \A x \in Entities : /\ IsSequence(x.attributes) /\ PrimaryKey(x) # <<>>
                          /\ ~(Len(PrimaryKey(x)) > 1 /\ \E y \in ToSet(PrimaryKey(x)) : y.unique)
  <2>1. \A x \in Entities : IsSequence(x.attributes)
    BY DEF Listed, Entities
  <2>2. \A x \in Entities : PrimaryKey(x) # <<>>
    BY DEF Sound, Entities
  <2>3. \A x \in Entities : ~(Len(PrimaryKey(x)) > 1 /\ \E y \in ToSet(PrimaryKey(x)) : y.unique)
    BY Zenon DEF UniqueInsideKey, KeyHidesUnique
  <2> QED BY <2>1, <2>2, <2>3
<1>6. TypesAgree => Comparable(a.data_type.kind, b.data_type.kind)
  BY DEF TypesAgree, AttributesOf
<1> HIDE DEF found, g, b, added, st
<1>7. \A x \in Entities : /\ cat[Id(x)].columns = T(x).columns /\ cat[Id(x)].unique_keys = T(x).unique_keys
                          /\ cat[Id(x)].foreign_keys = OnTable(Id(x), added)
  BY <1>4, FieldsOfTable
<1>8. {Id(e), Id(g)} \subseteq DOMAIN cat
  BY <1>2, <1>4
<1>9. Id(a) \in DOMAIN cat[Id(e)].columns
  <2>1. DOMAIN T(e).columns = Named(ToSet(e.attributes))
    BY <1>5, TableDrawn
  <2> QED BY <1>7, <2>1 DEF Named
<1>10. Id(b) \in DOMAIN cat[Id(g)].columns
  <2>1. DOMAIN T(g).columns = Named(ToSet(g.attributes))
    BY <1>2, <1>5, TableDrawn
  <2> QED BY <1>2, <1>7, <2>1 DEF Named
<1>11. {Id(b)} \in cat[Id(g)].unique_keys
  <2>1. {Id(b)} \in T(g).unique_keys
    BY <1>1, <1>2, <1>4, <1>5, UniqueDrawn
  <2> QED BY <1>2, <1>7, <2>1
<1>12. Comparable(cat[Id(e)].columns[Id(a)].kind, cat[Id(g)].columns[Id(b)].kind)
  <2>1. T(e).columns[Id(a)].kind = a.data_type.kind
    BY <1>4, <1>5, ColumnDrawn
  <2>2. T(g).columns[Id(b)].kind = b.data_type.kind
    BY <1>2, <1>4, <1>5, ColumnDrawn
  <2> HIDE DEF T
  <2> QED BY <1>2, <1>6, <1>7, <2>1, <2>2
<1>13. ASSUME NEW f \in cat[Id(e)].foreign_keys PROVE f.name # st.name
  <2>1. PICK u \in added : f = Constraint(u) /\ Identifier(u.table) = Id(e)
    BY <1>7 DEF OnTable
  <2>2. PICK j \in 1..n : u = r[j] /\ r[j].do = "add foreign key"
    BY <2>1 DEF Added, added
  <2>3. Len(r) \in Nat /\ n \in 0..Len(r) /\ j \in 1..Len(r) /\ j # n + 1
    <3>1. Len(r) \in Nat
      BY ScriptShape
    <3> QED BY <3>1
  <2>4. PICK x \in Entities : \E y \in ToSet(x.attributes) : y.foreign_key # None /\ u = Reference(schema, x, y)
    BY <2>1, <2>3, AddedAre DEF added, Entities
  <2>5. PICK y \in ToSet(x.attributes) : y.foreign_key # None /\ u = Reference(schema, x, y)
    BY <2>4
  <2>6. u.table = x.name /\ u.name = ConstraintName(x.name, y.name)
    BY <2>5 DEF Reference
  <2>7. x = e
    BY <1>4, <2>1, <2>6
  <2>8. y # a
    <3> SUFFICES ASSUME y = a PROVE FALSE
      OBVIOUS
    <3>1. r[j] = st
      BY <2>2, <2>5, <2>7 DEF st
    <3>2. PICK q \in 1..Len(r) : q = n + 1
      OBVIOUS
    <3>3. r[q] = r[j] /\ r[j].do = "add foreign key"
      BY <1>0, <1>14, <3>1, <3>2
    <3> QED BY <2>3, <3>2, <3>3, ReferencesOnce
  <2>9. ConstraintName(e.name, y.name) # ConstraintName(e.name, a.name)
    BY <2>5, <2>7, <2>8 DEF NamesSurviveCut, AttributesOf
  <2>10. f.name = u.name
    BY <2>1 DEF Constraint
  <2> QED BY <1>3, <2>6, <2>7, <2>9, <2>10
<1> QED BY <1>3, <1>8, <1>9, <1>10, <1>11, <1>12, <1>13 DEF AcceptsForeignKey

\* So the next statement is one PostgreSQL accepts.
LEMMA ScriptAccepted == DdlInv => VerifiedScriptRuns
<1> SUFFICES ASSUME DdlInv, Generated, ~UniqueInsideKey, NamesSurviveCut, TypesAgree, at < Len(script)
             PROVE  Accepts(catalog, script[at + 1])
  BY DEF VerifiedScriptRuns, NextIsAccepted
<1>1. /\ Drawn(schema) /\ report = Verify(schema) /\ IsValid(report) /\ IsScript(script, schema)
      /\ at \in 0..Len(script) /\ Holds(schema, script, at, catalog)
  BY DEF DdlInv, Generated
<1>2. Listed(schema) /\ Sound(schema)
  BY <1>1, SoundWhenValid
<1>3. Len(script) \in Nat /\ at \in Nat
  BY <1>1, <1>2, ScriptShape
<1>4. PICK p \in 1..Len(script) : p = at + 1
  BY <1>3
<1> DEFINE st == script[p]
<1>5. CASE p \in DOMAIN schema.entities
  <2>1. st = CreateTable(schema.entities[p]) /\ st.do = "create table"
    BY <1>1, <1>2, <1>5, StatementAt
  <2>2. AcceptsTable(catalog, CreateTable(schema.entities[p]))
    BY <1>1, <1>2, <1>3, <1>4, <1>5, TableAccepted
  <2> HIDE DEF st
  <2>3. Accepts(catalog, st)
    BY <2>1, <2>2 DEF Accepts
  <2> QED BY <1>4, <2>3 DEF st
<1>6. CASE p \notin DOMAIN schema.entities
  <2>1. Later(st, schema)
    BY <1>1, <1>2, <1>6, StatementAt
  <2>2. Built(schema, at) = DOMAIN schema.entities
    <3>1. Len(schema.entities) \in Nat /\ DOMAIN schema.entities = 1..Len(schema.entities)
      BY <1>2, SequenceShape DEF Listed
    <3> QED BY <1>3, <1>4, <1>6, <3>1, BuiltNext
  <2>3. /\ \A id : id \in DOMAIN catalog <=> \E e \in Entities : id = Identifier(e.name)
        /\ \A e \in Entities : catalog[Identifier(e.name)] = TableIn(e, Added(script, at))
    BY <1>1, <2>2, TablesHeld DEF Entities
  <2> HIDE DEF st
  <2>4. PICK e \in Entities :
          \/ \E a \in ToSet(e.attributes) : a.foreign_key # None /\ st = Reference(schema, e, a)
          \/ st.do = "comment on table" /\ st.table = e.name
          \/ \E a \in ToSet(e.attributes) :
               st.do = "comment on column" /\ st.table = e.name /\ st.column = a.name
    BY <2>1 DEF Later, Entities
  <2>5. ASSUME NEW a \in ToSet(e.attributes), a.foreign_key # None, st = Reference(schema, e, a)
        PROVE  Accepts(catalog, st)
    <3>1. script[at + 1] = Reference(schema, e, a) /\ at + 1 \in 1..Len(script)
      BY <1>4, <2>5 DEF st
    <3>2. AcceptsForeignKey(catalog, st)
      BY <1>1, <1>2, <1>3, <2>2, <2>5, <3>1, ReferenceAccepted
    <3>3. st.do = "add foreign key"
      BY <2>5 DEF Reference
    <3> QED BY <3>2, <3>3 DEF Accepts
  <2>6. ASSUME st.do = "comment on table", st.table = e.name PROVE Accepts(catalog, st)
    BY <2>3, <2>6 DEF Accepts
  <2>7. ASSUME NEW a \in ToSet(e.attributes), st.do = "comment on column", st.table = e.name, st.column = a.name
        PROVE  Accepts(catalog, st)
    <3>1. DOMAIN TableOf(CreateTable(e)).columns = Named(ToSet(e.attributes))
      BY <1>2, TableDrawn DEF Listed, Entities
    <3>2. catalog[Identifier(e.name)].columns = TableOf(CreateTable(e)).columns
      BY <2>3, FieldsOfTable
    <3>3. Identifier(st.column) \in DOMAIN catalog[Identifier(st.table)].columns
      BY <2>7, <3>1, <3>2 DEF Named
    <3>4. Identifier(st.table) \in DOMAIN catalog
      BY <2>3, <2>7
    <3> QED BY <2>7, <3>3, <3>4 DEF Accepts
  <2>8. Accepts(catalog, st)
    BY <2>4, <2>5, <2>6, <2>7
  <2> QED BY <1>4, <2>8 DEF st
<1> QED BY <1>5, <1>6

\* For every drawing whose names survive the cut to 63 bytes, whose types
\* compare and that has no unique column inside a composite key, PostgreSQL
\* accepts every statement of the script generate_ddl hands out: the verifier
\* refuses what would fail, and the generator puts every table before the
\* references to it.
THEOREM AcceptedToTheLast == Spec => []VerifiedScriptRuns
  BY RequestInvariant, ScriptAccepted, PTL

-----------------------------------------------------------------------------
(* The database of a script that was run to its end.                       *)

\* The database a whole script leaves.
LEMMA AfterTheRun ==
  ASSUME DdlInv, ScriptRun
  PROVE  /\ Drawn(schema) /\ Listed(schema) /\ Sound(schema) /\ report = Verify(schema)
         /\ \A id : id \in DOMAIN catalog <=> \E e \in Entities : id = Identifier(e.name)
         /\ \A e, f \in Entities : Identifier(e.name) = Identifier(f.name) => e = f
         /\ \A e \in Entities :
              LET table == catalog[Identifier(e.name)]
                  drawn == TableOf(CreateTable(e))
              IN /\ IsSequence(e.attributes) /\ PrimaryKey(e) # <<>> /\ Apart(e)
                 /\ table.columns = drawn.columns /\ table.key = drawn.key /\ table.unique_keys = drawn.unique_keys
                 /\ \A f : f \in table.foreign_keys <=>
                      \E a \in ToSet(e.attributes) :
                        a.foreign_key # None /\ f = Constraint(Reference(schema, e, a))
<1>1. /\ Drawn(schema) /\ report = Verify(schema) /\ IsValid(report) /\ IsScript(script, schema)
      /\ at = Len(script) /\ Holds(schema, script, at, catalog)
  BY DEF DdlInv, Generated, ScriptRun
<1>2. Listed(schema) /\ Sound(schema)
  BY <1>1, SoundWhenValid
<1>3. Built(schema, at) = DOMAIN schema.entities
  <2>1. /\ Len(script) \in Nat /\ Len(schema.entities) \in Nat /\ Len(ForeignKeys(schema)) \in Nat
        /\ Len(schema.entities) + Len(ForeignKeys(schema)) <= Len(script)
    BY <1>1, <1>2, ScriptShape
  <2>2. DOMAIN schema.entities = 1..Len(schema.entities)
    BY <1>2, SequenceShape DEF Listed
  <2>3. Len(schema.entities) <= at
    <3>1. PICK x \in Nat : x = Len(schema.entities)
      BY <2>1
    <3>2. PICK y \in Nat : y = Len(ForeignKeys(schema))
      BY <2>1
    <3>3. PICK z \in Nat : z = Len(script)
      BY <2>1
    <3>4. x + y <= z => x <= z
      OBVIOUS
    <3> QED BY <1>1, <2>1, <3>1, <3>2, <3>3, <3>4
  <2>4. \A k \in 1..Len(schema.entities) : k <= at
    BY <1>1, <2>1, <2>3
  <2> QED BY <2>2, <2>4 DEF Built
<1> DEFINE added == Added(script, at)
<1>4. /\ \A id : id \in DOMAIN catalog <=> \E e \in Entities : id = Identifier(e.name)
      /\ \A e, f \in Entities : Identifier(e.name) = Identifier(f.name) => e = f
      /\ \A e \in Entities : Apart(e) /\ catalog[Identifier(e.name)] = TableIn(e, added)
  BY <1>1, <1>3, TablesHeld DEF Entities
<1>5. \A x : x \in added <=> \E e \in Entities : \E a \in ToSet(e.attributes) :
                               a.foreign_key # None /\ x = Reference(schema, e, a)
  BY <1>1, <1>2, AllAdded DEF Entities
<1>6. \A e \in Entities : IsSequence(e.attributes) /\ PrimaryKey(e) # <<>>
  BY <1>2 DEF Listed, Sound, Entities
<1> HIDE DEF added
<1>7. ASSUME NEW e \in Entities
      PROVE  LET table == catalog[Identifier(e.name)]
                 drawn == TableOf(CreateTable(e))
             IN /\ table.columns = drawn.columns /\ table.key = drawn.key /\ table.unique_keys = drawn.unique_keys
                /\ table.foreign_keys = OnTable(Identifier(e.name), added)
  BY <1>4, FieldsOfTable
<1>8. ASSUME NEW e \in Entities, NEW f
      PROVE  f \in OnTable(Identifier(e.name), added) <=>
               \E a \in ToSet(e.attributes) :
                 a.foreign_key # None /\ f = Constraint(Reference(schema, e, a))
  <2>1. f \in OnTable(Identifier(e.name), added) <=>
          \E t \in added : Identifier(t.table) = Identifier(e.name) /\ f = Constraint(t)
    BY DEF OnTable
  <2>2. ASSUME NEW t \in added, Identifier(t.table) = Identifier(e.name), f = Constraint(t)
        PROVE  \E a \in ToSet(e.attributes) : a.foreign_key # None /\ f = Constraint(Reference(schema, e, a))
    <3>1. PICK g \in Entities : \E a \in ToSet(g.attributes) : a.foreign_key # None /\ t = Reference(schema, g, a)
      BY <1>5
    <3>2. PICK a \in ToSet(g.attributes) : a.foreign_key # None /\ t = Reference(schema, g, a)
      BY <3>1
    <3>3. t.table = g.name
      BY <3>2, ReferenceFields
    <3>4. g = e
      BY <1>4, <2>2, <3>3
    <3> QED BY <2>2, <3>2, <3>4
  <2>3. ASSUME NEW a \in ToSet(e.attributes), a.foreign_key # None, f = Constraint(Reference(schema, e, a))
        PROVE  \E t \in added : Identifier(t.table) = Identifier(e.name) /\ f = Constraint(t)
    <3>1. Reference(schema, e, a) \in added
      BY <1>5, <2>3
    <3>2. Reference(schema, e, a).table = e.name
      BY ReferenceFields
    <3> QED BY <2>3, <3>1, <3>2
  <2> QED BY <2>1, <2>2, <2>3
<1>9. \A e \in Entities :
              LET table == catalog[Identifier(e.name)]
                  drawn == TableOf(CreateTable(e))
              IN /\ IsSequence(e.attributes) /\ PrimaryKey(e) # <<>> /\ Apart(e)
                 /\ table.columns = drawn.columns /\ table.key = drawn.key /\ table.unique_keys = drawn.unique_keys
                 /\ \A f : f \in table.foreign_keys <=>
                      \E a \in ToSet(e.attributes) :
                        a.foreign_key # None /\ f = Constraint(Reference(schema, e, a))
  BY <1>4, <1>6, <1>7, <1>8
<1> QED BY <1>1, <1>2, <1>4, <1>9

\* What the foreign key of a reference names.
LEMMA ConstraintFields ==
  ASSUME NEW s, NEW e, NEW a
  PROVE  LET f == Constraint(Reference(s, e, a))
             found == Resolve(s, a.foreign_key)
         IN /\ f.column = Identifier(a.name) /\ f.target = Identifier(found.entity.name)
            /\ f.key = Identifier(found.attribute.name)
<1> DEFINE t == Reference(s, e, a)
           found == Resolve(s, a.foreign_key)
<1>1. t.column = a.name /\ t.target = found.entity.name /\ t.key = found.attribute.name
  BY ReferenceFields
<1> HIDE DEF t, found
<1>2. /\ Constraint(t).column = Identifier(t.column) /\ Constraint(t).target = Identifier(t.target)
      /\ Constraint(t).key = Identifier(t.key)
  BY DEF Constraint
<1>3. /\ Constraint(t).column = Identifier(a.name) /\ Constraint(t).target = Identifier(found.entity.name)
      /\ Constraint(t).key = Identifier(found.attribute.name)
  BY <1>1, <1>2
<1> QED BY <1>3 DEF t, found

\* The database of a whole script is the drawing.
LEMMA CatalogDrawn == DdlInv => CatalogMatchesDrawing
<1>0. DdlInv /\ ScriptRun => DOMAIN catalog = {Identifier(e.name) : e \in Entities}
  BY AfterTheRun
<1> SUFFICES ASSUME DdlInv, ScriptRun, NEW e \in Entities
             PROVE  TableAsDrawn(e)
  BY <1>0 DEF CatalogMatchesDrawing
<1> DEFINE table == catalog[Identifier(e.name)]
           t == TableOf(CreateTable(e))
           A == ToSet(e.attributes)
           uniques == {a \in A : a.unique}
           references == {a \in A : a.foreign_key # None}
           Shown(f) == [column |-> f.column, target |-> f.target, key |-> f.key]
           Meant(a) == [column |-> Identifier(a.name),
                        target |-> Identifier(Resolve(schema, a.foreign_key).entity.name),
                        key |-> Identifier(Resolve(schema, a.foreign_key).attribute.name)]
<1>1. /\ IsSequence(e.attributes) /\ PrimaryKey(e) # <<>> /\ Apart(e)
      /\ table.columns = t.columns /\ table.key = t.key /\ table.unique_keys = t.unique_keys
      /\ \A f : f \in table.foreign_keys <=>
           \E a \in A : a.foreign_key # None /\ f = Constraint(Reference(schema, e, a))
  BY AfterTheRun
<1>2. \A a \in A : a.primary_key => ~a.nullable
  BY AfterTheRun DEF Drawn, Entities
<1>3. DOMAIN t.columns = Named(A) /\ t.key = Named(ToSet(PrimaryKey(e)))
  BY <1>1, TableDrawn
<1>4. \A a \in A : t.columns[Identifier(a.name)].not_null <=> ~a.nullable
  BY <1>1, <1>2, ColumnDrawn
<1>5. KeyHidesUnique(e) \/ t.unique_keys = {t.key} \cup {{name} : name \in Named(uniques)}
  <2> SUFFICES ASSUME ~KeyHidesUnique(e)
               PROVE  t.unique_keys = {t.key} \cup {{name} : name \in Named(uniques)}
    OBVIOUS
  <2>1. t.unique_keys = {t.key} \cup {{Identifier(a.name)} : a \in {b \in A : b.unique /\ ~b.primary_key}}
    BY <1>1, TableDrawn
  <2>2. ASSUME NEW a \in A, a.unique
        PROVE  {Identifier(a.name)} \in t.unique_keys
    <3>1. IsUniqueKey(e, a)
      BY <2>2 DEF IsUniqueKey
    <3>2. ~(Len(PrimaryKey(e)) > 1 /\ \E b \in ToSet(PrimaryKey(e)) : b.unique)
      BY Zenon DEF KeyHidesUnique
    <3> QED BY <1>1, <3>1, <3>2, UniqueDrawn
  <2>3. \A name : name \in Named(uniques) <=> \E a \in A : a.unique /\ name = Identifier(a.name)
    BY DEF Named
  <2> HIDE DEF t, A, uniques
  <2>4. \A x : x \in t.unique_keys => x = t.key \/ \E a \in A : a.unique /\ x = {Identifier(a.name)}
    BY <2>1
  <2>5. \A x : x = t.key \/ (\E a \in A : a.unique /\ x = {Identifier(a.name)}) => x \in t.unique_keys
    BY <2>1, <2>2
  <2> QED BY <2>3, <2>4, <2>5
<1>6. {Shown(f) : f \in table.foreign_keys} = {Meant(a) : a \in references}
  <2>1. \A a : Shown(Constraint(Reference(schema, e, a))) = Meant(a)
    BY ConstraintFields
  <2>2. \A a : a \in references <=> a \in A /\ a.foreign_key # None
    OBVIOUS
  <2> HIDE DEF Shown, Meant, references, table
  <2> QED BY <1>1, <2>1, <2>2
<1> HIDE DEF t
<1>7. /\ DOMAIN table.columns = Named(A)
      /\ \A a \in A : table.columns[Identifier(a.name)].not_null <=> ~a.nullable
      /\ table.key = Named(ToSet(PrimaryKey(e)))
      /\ KeyHidesUnique(e) \/ table.unique_keys = {table.key} \cup {{name} : name \in Named(uniques)}
  BY <1>1, <1>3, <1>4, <1>5
<1> QED BY <1>6, <1>7 DEF Named, AttributesOf, TableAsDrawn

\* A script that was run leaves a database with exactly the tables that were
\* drawn, each with the columns, the NULLs, the key and the references drawn
\* in it, and with the unique keys its drawing asks for unless its key is
\* composite and has a unique column, whose UNIQUE is lost.  It holds however
\* many tables there are and even where names collide when cut (such a script
\* does not run to its end).
THEOREM DatabaseIsTheDrawing == Spec => []CatalogMatchesDrawing
  BY RequestInvariant, CatalogDrawn, PTL

\* A line resolves to what the foreign key of its holder does.
LEMMA HolderRefers ==
  ASSUME NEW s, Drawn(s), NEW other, NEW h,
         Resolve(s, other) # None, NEW o, o = Resolve(s, other), PointsAt(h, o)
  PROVE  h.attribute.foreign_key # None /\ Resolve(s, h.attribute.foreign_key) = o
<1>1. /\ o.entity \in ToSet(s.entities) /\ o.attribute \in ToSet(o.entity.attributes)
      /\ o.entity.id = other.entity_id /\ o.attribute.id = other.attribute_id
  BY Resolved DEF Drawn
<1> DEFINE ref == h.attribute.foreign_key
<1>2. ref = [entity_id |-> o.entity.id, attribute_id |-> o.attribute.id]
  BY DEF PointsAt
<1>3. ref # None
  BY <1>1, <1>2 DEF Drawn
<1> HIDE DEF ref
<1>4. ref.entity_id = other.entity_id /\ ref.attribute_id = other.attribute_id
  BY <1>1, <1>2
<1>5. Resolve(s, ref) = Resolve(s, other)
  BY <1>4 DEF Resolve
<1> QED BY <1>3, <1>5 DEF ref

\* Each line is a foreign key from its holder to the other end.
LEMMA LinesHold == DdlInv => RelationshipsEnforced
<1> SUFFICES ASSUME DdlInv, ScriptRun, ~UniqueInsideKey, NEW link \in ToSet(schema.relationships),
                    link.cardinality # "N:M"
             PROVE  LET from == Resolve(schema, link.from)
                        to == Resolve(schema, link.to)
                        warned == \E d \in ToSet(report) :
                            d.code = "SF-REL-CARDINALITY" /\ link.id = d.about[1]
                        Held(h, other) ==
                            LET table == catalog[Identifier(h.entity.name)]
                                column == Identifier(h.attribute.name)
                                unique == {column} \in table.unique_keys
                            IN /\ \E f \in table.foreign_keys :
                                    /\ f.column = column
                                    /\ f.target = Identifier(other.entity.name)
                                    /\ f.key = Identifier(other.attribute.name)
                               /\ warned \/ (unique <=> link.cardinality = "1:1")
                    IN Held(from, to) \/ Held(to, from)
  BY DEF RelationshipsEnforced
<1> DEFINE from == Resolve(schema, link.from)
           to == Resolve(schema, link.to)
           warned == \E d \in ToSet(report) : d.code = "SF-REL-CARDINALITY" /\ link.id = d.about[1]
           Table(h) == catalog[Identifier(h.entity.name)]
           Col(h) == Identifier(h.attribute.name)
           Refers(h, other) == \E f \in Table(h).foreign_keys :
                                    /\ f.column = Col(h)
                                    /\ f.target = Identifier(other.entity.name)
                                    /\ f.key = Identifier(other.attribute.name)
           Counted(h) == warned \/ ({Col(h)} \in Table(h).unique_keys <=> link.cardinality = "1:1")
<1>1. Drawn(schema) /\ Listed(schema) /\ Sound(schema) /\ report = Verify(schema)
  BY AfterTheRun
<1>2. from # None /\ to # None /\ Holder(from, to) # None
  BY <1>1 DEF Sound
<1>3. link.cardinality \in {"1:1", "1:N"}
  BY <1>1 DEF Drawn
<1>4. /\ from.entity \in Entities /\ from.attribute \in ToSet(from.entity.attributes)
      /\ to.entity \in Entities /\ to.attribute \in ToSet(to.entity.attributes)
  BY <1>1, <1>2, Resolved DEF Entities
<1>5. LET holder == Holder(from, to)
      IN CardinalityMismatch(link.cardinality, IsUniqueKey(holder.entity, holder.attribute)) => warned
  <2>1. \A d \in ToSet(CheckRelationships(schema)) : d \in ToSet(report)
    BY <1>1, Verified
  <2> QED BY <1>1, <1>2, <2>1, RelationshipsChecked
<1>6. PointsAt(from, to) => from.attribute.foreign_key # None /\ Resolve(schema, from.attribute.foreign_key) = to
  BY <1>1, <1>2, HolderRefers
<1>7. PointsAt(to, from) => to.attribute.foreign_key # None /\ Resolve(schema, to.attribute.foreign_key) = from
  BY <1>1, <1>2, HolderRefers
<1> HIDE DEF from, to, warned
<1>8. ASSUME NEW h, NEW other, h.entity \in Entities, h.attribute \in ToSet(h.entity.attributes),
             h.attribute.foreign_key # None, Resolve(schema, h.attribute.foreign_key) = other,
             CardinalityMismatch(link.cardinality, IsUniqueKey(h.entity, h.attribute)) => warned
      PROVE  Refers(h, other) /\ Counted(h)
  <2> DEFINE e == h.entity
             a == h.attribute
             f == Constraint(Reference(schema, e, a))
             drawn == TableOf(CreateTable(e))
  <2>1. e \in Entities /\ a \in ToSet(e.attributes)
    BY <1>8
  <2>2. f \in Table(h).foreign_keys
    BY <1>8, <2>1, AfterTheRun
  <2>3. f.column = Col(h) /\ f.target = Identifier(other.entity.name) /\ f.key = Identifier(other.attribute.name)
    BY <1>8, ConstraintFields
  <2>4. /\ IsSequence(e.attributes) /\ PrimaryKey(e) # <<>> /\ Apart(e)
        /\ Table(h).unique_keys = drawn.unique_keys
    BY <2>1, AfterTheRun
  <2>5. ~(Len(PrimaryKey(e)) > 1 /\ \E b \in ToSet(PrimaryKey(e)) : b.unique)
    BY <2>1, Zenon DEF UniqueInsideKey, KeyHidesUnique
  <2>6. {Col(h)} \in Table(h).unique_keys <=> IsUniqueKey(e, a)
    BY <2>1, <2>4, <2>5, UniqueDrawn
  <2>7. Refers(h, other)
    <3> HIDE DEF f, Table, Col
    <3> QED BY <2>2, <2>3
  <2>8. Counted(h)
    <3> HIDE DEF Table, Col
    <3> QED BY <1>3, <1>8, <2>6 DEF CardinalityMismatch
  <2> QED BY <2>7, <2>8
<1> HIDE DEF Refers, Counted
<1>9. CASE PointsAt(from, to)
  <2>1. Holder(from, to) = from
    BY <1>9 DEF Holder
  <2>2. Refers(from, to) /\ Counted(from)
    BY <1>4, <1>5, <1>6, <1>8, <1>9, <2>1
  <2> QED BY <2>2 DEF Refers, Counted, from, to, warned
<1>10. CASE ~PointsAt(from, to)
  <2>1. Holder(from, to) = to /\ PointsAt(to, from)
    BY <1>2, <1>10 DEF Holder
  <2>2. Refers(to, from) /\ Counted(to)
    BY <1>4, <1>5, <1>7, <1>8, <2>1
  <2> QED BY <2>2 DEF Refers, Counted, from, to, warned
<1> QED BY <1>9, <1>10

\* Every one-to-one and one-to-many line of the diagram is a foreign key of
\* the database between its two columns, and unless the verifier warned, unique
\* exactly for a one-to-one line: check_relationships and is_unique_key see the
\* keys the generator writes. A many-to-many line is no part of it: the
\* generator makes nothing of one.
THEOREM LinesAreEnforced == Spec => []RelationshipsEnforced
  BY RequestInvariant, LinesHold, PTL

\* No two entities have one id.
DistinctIds == \A i, j \in DOMAIN schema.entities : i # j => schema.entities[i].id # schema.entities[j].id

\* With distinct ids the cycle check's map holds the entity resolve finds.
LEMMA LastIsOnly ==
  ASSUME NEW s, Listed(s), NEW k \in DOMAIN s.entities,
         \A j \in DOMAIN s.entities : s.entities[j].id = s.entities[k].id => j = k
  PROVE  IndexOf(s, s.entities[k].id) = k
<1> DEFINE items == s.entities
           I == {i \in 1..Len(items) : items[i].id = items[k].id}
<1>1. Len(items) \in Nat /\ DOMAIN items = 1..Len(items)
  BY SequenceShape DEF Listed
<1>2. I = {k}
  BY <1>1
<1>3. IndexOf(s, s.entities[k].id) = IF I # {} THEN Max(I) ELSE 0
  BY DEF IndexOf, SelectLastInSeq
<1>4. Max({k}) = k
  <2>1. k \in Nat
    BY <1>1
  <2> QED BY <2>1 DEF Max
<1> HIDE DEF I
<1> QED BY <1>2, <1>3, <1>4

\* A circle of NOT NULL foreign keys in the database is a circle of
\* dependencies in the drawing, which check_cycles has ruled out.
LEMMA TablesFill == DdlInv /\ DistinctIds => EveryTableFillable
<1> SUFFICES ASSUME DdlInv, DistinctIds, ScriptRun, NEW S \in (SUBSET DOMAIN catalog) \ {{}},
                    \A t \in S : \E f \in catalog[t].foreign_keys :
                      f.target \in S \ {t} /\ catalog[t].columns[f.column].not_null
             PROVE  FALSE
  BY DEF EveryTableFillable
<1> DEFINE E == schema.entities
           Id(k) == Identifier(E[k].name)
           graph == Dependencies(schema, TRUE)
           P == {k \in DOMAIN E : Id(k) \in S}
<1>1. Drawn(schema) /\ Listed(schema) /\ Sound(schema)
  BY AfterTheRun
<1>2. Len(E) \in Nat /\ DOMAIN E = 1..Len(E) /\ \A e : e \in Entities <=> \E k \in DOMAIN E : e = E[k]
  BY <1>1, SequenceShape DEF Listed, Entities, ToSet
<1>3. DOMAIN graph = 1..Len(E)
  BY <1>2 DEF Dependencies
<1>4. \A k \in DOMAIN E : graph[k] \subseteq 1..Len(E)
  <2>1. ASSUME NEW id PROVE IndexOf(schema, id) \in 0..Len(E)
    <3>1. CASE \E k \in DOMAIN E : E[k].id = id
      <4>1. PICK k \in DOMAIN E : E[k].id = id
        BY <3>1
      <4>2. IndexOf(schema, E[k].id) = k
        BY <1>1, LastIsOnly DEF DistinctIds
      <4>3. k \in 0..Len(E)
        BY <1>2
      <4> QED BY <4>1, <4>2, <4>3
    <3>2. CASE ~\E k \in DOMAIN E : E[k].id = id
      <4> DEFINE I == {i \in 1..Len(E) : E[i].id = id}
      <4>1. IndexOf(schema, id) = IF I # {} THEN Max(I) ELSE 0
        BY DEF IndexOf, SelectLastInSeq
      <4>2. I = {}
        BY <1>2, <3>2
      <4> QED BY <1>2, <4>1, <4>2
    <3> QED BY <3>1, <3>2
  <2>2. ASSUME NEW k \in DOMAIN E, NEW x \in graph[k] PROVE x \in 1..Len(E)
    <3>1. PICK a : x = IndexOf(schema, a.foreign_key.entity_id) /\ x # 0
      BY <2>2 DEF Dependencies
    <3>2. x \in 0..Len(E)
      BY <2>1, <3>1
    <3> QED BY <1>2, <3>1, <3>2
  <2> QED BY <2>2
<1>5. ASSUME NEW k \in P PROVE graph[k] \cap (P \ {k}) # {}
  <2> DEFINE e == E[k]
             t == Id(k)
  <2>1. e \in Entities /\ t \in S /\ k \in DOMAIN E /\ t = Identifier(e.name)
    BY <1>2, <1>5
  <2>2. PICK f \in catalog[t].foreign_keys : f.target \in S \ {t} /\ catalog[t].columns[f.column].not_null
    BY <2>1
  <2> HIDE DEF e, t
  <2>3. PICK a \in ToSet(e.attributes) : a.foreign_key # None /\ f = Constraint(Reference(schema, e, a))
    <3>1. \A g : g \in catalog[Identifier(e.name)].foreign_keys <=>
            \E a \in ToSet(e.attributes) : a.foreign_key # None /\ g = Constraint(Reference(schema, e, a))
      BY <2>1, AfterTheRun
    <3>2. f \in catalog[Identifier(e.name)].foreign_keys
      BY <2>1
    <3> QED BY <3>1, <3>2
  <2> DEFINE found == Resolve(schema, a.foreign_key)
  <2>4. found # None
    BY <1>1, <2>1, <2>3 DEF Sound, Entities
  <2>5. found.entity \in Entities /\ found.entity.id = a.foreign_key.entity_id
    BY <1>1, <2>4, Resolved DEF Entities
  <2>6. f.column = Identifier(a.name) /\ f.target = Identifier(found.entity.name)
    BY <2>3, ConstraintFields
  <2> HIDE DEF found
  <2>7. PICK j \in DOMAIN E : found.entity = E[j]
    BY <1>2, <2>5
  <2>8. IndexOf(schema, E[j].id) = j
    BY <1>1, LastIsOnly DEF DistinctIds
  <2>9. IndexOf(schema, a.foreign_key.entity_id) = j
    BY <2>5, <2>7, <2>8
  <2>10. j \in P /\ j # k
    BY <2>2, <2>6, <2>7 DEF t
  <2>11. ~a.nullable
    <3>1. CatalogMatchesDrawing
      BY CatalogDrawn
    <3>2. TableAsDrawn(e)
      BY <2>1, <3>1 DEF CatalogMatchesDrawing
    <3>3. \A b \in AttributesOf(e) : catalog[Identifier(e.name)].columns[Identifier(b.name)].not_null <=> ~b.nullable
      BY <3>2 DEF TableAsDrawn
    <3> QED BY <2>1, <2>2, <2>3, <2>6, <3>3 DEF AttributesOf
  <2>12. j \in graph[k]
    <3>1. j \notin {0, k}
      BY <1>2, <2>10
    <3>2. graph[k] = {IndexOf(schema, b.foreign_key.entity_id) :
                        b \in {c \in ToSet(schema.entities[k].attributes) :
                                 /\ c.foreign_key # None
                                 /\ IndexOf(schema, c.foreign_key.entity_id) \notin {0, k}
                                 /\ TRUE => ~c.nullable}}
      BY <2>1 DEF Dependencies
    <3>3. a \in ToSet(schema.entities[k].attributes)
      BY DEF e
    <3> HIDE DEF graph
    <3> QED BY <2>3, <2>9, <2>11, <3>1, <3>2, <3>3
  <2> HIDE DEF P, graph
  <2> QED BY <2>10, <2>12
<1>6. P # {}
  <2>1. PICK t \in S : t \in DOMAIN catalog
    OBVIOUS
  <2>2. PICK e \in Entities : t = Identifier(e.name)
    BY <2>1, AfterTheRun
  <2>3. PICK k \in DOMAIN E : e = E[k]
    BY <1>2
  <2> QED BY <2>1, <2>2, <2>3
<1>7. P \in SUBSET (1..Len(E)) /\ Stuck(P, graph)
  <2>1. P \subseteq 1..Len(E)
    BY <1>2
  <2> HIDE DEF P, graph
  <2> QED BY <1>5, <1>6, <2>1 DEF Stuck
<1> HIDE DEF P, graph
<1>8. \E C \in MutualGroups(graph) : C \cap P # {}
  <2>1. \A k \in 1..Len(E) : graph[k] \subseteq 1..Len(E)
    BY <1>2, <1>4
  <2> HIDE DEF E
  <2>2. Len(E) \in Nat
    BY <1>2
  <2> QED BY <1>3, <1>7, <2>1, <2>2, StuckHasGroup
<1>9. MutualGroups(graph) = {}
  BY <1>1 DEF Sound, graph
<1> QED BY <1>8, <1>9

\* When no two entities have one id, the tables of a generated script can be
\* filled: check_cycles finds every circle of NOT NULL references the
\* database would have. The ids matter: nothing refuses two entities with
\* one, and then the cycle check's map keeps the last of them where resolve
\* takes the first.
THEOREM TablesCanBeFilled == Spec => [](DistinctIds => EveryTableFillable)
<1>1. DdlInv => (DistinctIds => EveryTableFillable)
  BY TablesFill
<1> QED BY <1>1, RequestInvariant, PTL

-----------------------------------------------------------------------------
(* Which end of a line is drawn first.                                     *)

\* All but the checks on lines read the tables only.
LEMMA SameTables ==
  ASSUME NEW s, NEW t, s.entities = t.entities
  PROVE  /\ CheckNotEmpty(s) = CheckNotEmpty(t)
         /\ CheckNames(s) = CheckNames(t)
         /\ CheckTypeParameters(s) = CheckTypeParameters(t)
         /\ CheckDuplicateNames(s) = CheckDuplicateNames(t)
         /\ CheckPrimaryKeys(s) = CheckPrimaryKeys(t)
         /\ CheckForeignKeys(s) = CheckForeignKeys(t)
         /\ CheckCycles(s) = CheckCycles(t)
         /\ \A ref : Resolve(s, ref) = Resolve(t, ref)
<1>1. CheckNotEmpty(s) = CheckNotEmpty(t)
  BY DEF CheckNotEmpty
<1>2. CheckNames(s) = CheckNames(t)
  BY DEF CheckNames, PerEntity, PerItem
<1>3. CheckTypeParameters(s) = CheckTypeParameters(t)
  BY DEF CheckTypeParameters, PerAttribute, PerEntity, PerItem
<1>4. CheckDuplicateNames(s) = CheckDuplicateNames(t)
  BY DEF CheckDuplicateNames, PerEntity, PerItem
<1>5. CheckPrimaryKeys(s) = CheckPrimaryKeys(t)
  BY DEF CheckPrimaryKeys, PerEntity, PerItem
<1>6. \A ref : Resolve(s, ref) = Resolve(t, ref)
  BY DEF Resolve
<1>7. CheckForeignKeys(s) = CheckForeignKeys(t)
  <2>1. \A e, a : CheckForeignKey(s, e, a) = CheckForeignKey(t, e, a)
    BY <1>6 DEF CheckForeignKey
  <2> QED BY <2>1 DEF CheckForeignKeys, PerAttribute, PerEntity, PerItem
<1>8. CheckCycles(s) = CheckCycles(t)
  <2>1. \A id : IndexOf(s, id) = IndexOf(t, id)
    BY DEF IndexOf
  <2>2. \A required \in BOOLEAN : Dependencies(s, required) = Dependencies(t, required)
    BY <2>1 DEF Dependencies
  <2> QED BY <2>2 DEF CheckCycles
<1> QED BY <1>1, <1>2, <1>3, <1>4, <1>5, <1>6, <1>7, <1>8

\* The diagram with every line drawn from its other end.
LEMMA TurnedAround ==
  ASSUME Drawn(schema)
  PROVE  /\ Flipped.entities = schema.entities
         /\ DOMAIN Flipped.relationships = DOMAIN schema.relationships
         /\ \A k \in DOMAIN schema.relationships :
              LET link == schema.relationships[k]
                  turned == Flipped.relationships[k]
              IN /\ turned.id = link.id /\ turned.description = link.description
                 /\ turned.cardinality = link.cardinality
                 /\ turned.from = link.to /\ turned.to = link.from
<1> DEFINE R == schema.relationships
           turned == [k \in DOMAIN R |-> [R[k] EXCEPT !.from = R[k].to, !.to = R[k].from]]
<1>1. Flipped = [schema EXCEPT !.relationships = turned]
  BY DEF Flipped
<1>2. schema = [entities |-> schema.entities, relationships |-> schema.relationships]
  BY DEF Drawn
<1>3. Flipped.entities = schema.entities /\ Flipped.relationships = turned
  <2> HIDE DEF turned
  <2> QED BY <1>1, <1>2
<1>4. \A k \in DOMAIN R : DOMAIN R[k] = {"id", "description", "from", "to", "cardinality"}
  BY DEF Drawn, ToSet
<1>5. \A k \in DOMAIN R : turned[k] = [R[k] EXCEPT !.from = R[k].to, !.to = R[k].from]
  OBVIOUS
<1>6. DOMAIN turned = DOMAIN R
  OBVIOUS
<1> HIDE DEF R, turned
<1>7. ASSUME NEW k \in DOMAIN R
      PROVE  /\ turned[k].id = R[k].id /\ turned[k].description = R[k].description
             /\ turned[k].cardinality = R[k].cardinality
             /\ turned[k].from = R[k].to /\ turned[k].to = R[k].from
  BY <1>4, <1>5
<1> QED BY <1>3, <1>6, <1>7 DEF R

\* The checks on lines look at both ends, and find the same.
LEMMA SameLines ==
  ASSUME Drawn(schema), \A link \in ToSet(schema.relationships) : ~PointAtEachOther(link)
  PROVE  Verify(Flipped) = Verify(schema)
<1> DEFINE R == schema.relationships
           Q == Flipped.relationships
<1>1. /\ Flipped.entities = schema.entities /\ DOMAIN Q = DOMAIN R
      /\ \A k \in DOMAIN R :
           /\ Q[k].id = R[k].id /\ Q[k].description = R[k].description /\ Q[k].cardinality = R[k].cardinality
           /\ Q[k].from = R[k].to /\ Q[k].to = R[k].from
  BY TurnedAround
<1>2. \A ref : Resolve(Flipped, ref) = Resolve(schema, ref)
  BY <1>1, SameTables
<1>3. CheckRelationshipEnds(Flipped) = CheckRelationshipEnds(schema)
  <2> DEFINE Said(s, link) == When(None \in {Resolve(s, link.from), Resolve(s, link.to)},
                                   Error("SF-REL-DANGLING", <<link.id>>))
  <2>1. /\ CheckRelationshipEnds(Flipped) = FlattenSeq([k \in DOMAIN Q |-> Said(Flipped, Q[k])])
        /\ CheckRelationshipEnds(schema) = FlattenSeq([k \in DOMAIN R |-> Said(schema, R[k])])
    BY DEF CheckRelationshipEnds, PerItem
  <2>2. \A k \in DOMAIN R : Said(Flipped, Q[k]) = Said(schema, R[k])
    <3> SUFFICES ASSUME NEW k \in DOMAIN R PROVE Said(Flipped, Q[k]) = Said(schema, R[k])
      OBVIOUS
    <3>1. {Resolve(Flipped, Q[k].from), Resolve(Flipped, Q[k].to)} = {Resolve(schema, R[k].from), Resolve(schema, R[k].to)}
      BY <1>1, <1>2
    <3>2. Q[k].id = R[k].id
      BY <1>1
    <3> HIDE DEF Q, R
    <3> QED BY <3>1, <3>2
  <2> HIDE DEF Said, Q, R
  <2> QED BY <1>1, <2>1, <2>2
<1>4. CheckRelationships(Flipped) = CheckRelationships(schema)
  <2>1. /\ CheckRelationships(Flipped) = FlattenSeq([k \in DOMAIN Q |-> CheckRelationship(Flipped, Q[k])])
        /\ CheckRelationships(schema) = FlattenSeq([k \in DOMAIN R |-> CheckRelationship(schema, R[k])])
    BY DEF CheckRelationships, PerItem
  <2>2. ASSUME NEW k \in DOMAIN R PROVE CheckRelationship(Flipped, Q[k]) = CheckRelationship(schema, R[k])
    <3> DEFINE from == Resolve(schema, R[k].from)
               to == Resolve(schema, R[k].to)
               Said(holder, id, card, x, y) ==
                 IF card = "N:M" \/ None \in {x, y} THEN <<>>
                 ELSE IF holder = None THEN <<Error("SF-REL-NO-FK", <<id>>)>>
                 ELSE When(CardinalityMismatch(card, IsUniqueKey(holder.entity, holder.attribute)),
                           Warning("SF-REL-CARDINALITY", <<id, holder.entity.id, holder.attribute.id>>))
    <3>1. CheckRelationship(schema, R[k]) = Said(Holder(from, to), R[k].id, R[k].cardinality, from, to)
      BY DEF CheckRelationship
    <3>2. CheckRelationship(Flipped, Q[k])
            = Said(Holder(Resolve(Flipped, Q[k].from), Resolve(Flipped, Q[k].to)), Q[k].id, Q[k].cardinality,
                   Resolve(Flipped, Q[k].from), Resolve(Flipped, Q[k].to))
      BY DEF CheckRelationship
    <3>3. Resolve(Flipped, Q[k].from) = to /\ Resolve(Flipped, Q[k].to) = from
      BY <1>1, <1>2
    <3>4. None \notin {from, to} => ~(PointsAt(from, to) /\ PointsAt(to, from))
      <4>1. R[k] \in ToSet(schema.relationships)
        BY DEF ToSet
      <4> QED BY <4>1 DEF PointAtEachOther
    <3>5. Q[k].id = R[k].id /\ Q[k].cardinality = R[k].cardinality
      BY <1>1
    <3> HIDE DEF Said, from, to, Q, R
    <3>6. None \notin {from, to} => Holder(to, from) = Holder(from, to)
      BY <3>4 DEF Holder
    <3>7. CheckRelationship(Flipped, Q[k]) = Said(Holder(to, from), R[k].id, R[k].cardinality, to, from)
      BY <3>2, <3>3, <3>5
    <3>8. None \in {from, to} \/ None \notin {from, to}
      OBVIOUS
    <3>9. \A x, y, i, c : None \in {from, to} => Said(x, i, c, to, from) = Said(y, i, c, from, to)
      BY DEF Said
    <3>10. \A x, i, c : Said(x, i, c, to, from) = Said(x, i, c, from, to)
      BY DEF Said
    <3> QED BY <3>1, <3>6, <3>7, <3>8, <3>9, <3>10
  <2> HIDE DEF Q, R
  <2> QED BY <1>1, <2>1, <2>2
<1>5. CheckDocumentation(Flipped) = CheckDocumentation(schema)
  <2> DEFINE Said(link) == When(link.description = Blank, Warning("SF-DOC-MISSING", <<link.id>>))
             Undocumented(e) == Where(e.attributes, LAMBDA a : a.description = Blank)
             Tables(E) == FlattenSeq([k \in DOMAIN E |->
                            When(E[k].description = Blank \/ Undocumented(E[k]) # <<>>,
                                 Warning("SF-DOC-MISSING", <<E[k].id>> \o Ids(Undocumented(E[k]))))])
  <2>1. /\ CheckDocumentation(Flipped)
             = Tables(Flipped.entities) \o FlattenSeq([k \in DOMAIN Q |-> Said(Q[k])])
        /\ CheckDocumentation(schema)
             = Tables(schema.entities) \o FlattenSeq([k \in DOMAIN R |-> Said(R[k])])
    BY DEF CheckDocumentation, PerEntity, PerItem
  <2>2. \A k \in DOMAIN R : Said(Q[k]) = Said(R[k])
    <3> HIDE DEF Q, R
    <3> QED BY <1>1
  <2> HIDE DEF Said, Q, R, Tables
  <2>3. [k \in DOMAIN Q |-> Said(Q[k])] = [k \in DOMAIN R |-> Said(R[k])]
    BY <1>1, <2>2
  <2> QED BY <1>1, <2>1, <2>3
<1> QED BY <1>1, <1>3, <1>4, <1>5, SameTables DEF Verify

\* Both drawings get the same report.
LEMMA EitherDirection == DdlInv => DirectionDoesNotMatter
<1> SUFFICES ASSUME DdlInv, stage = "verified",
                    \A link \in ToSet(schema.relationships) : ~PointAtEachOther(link)
             PROVE  Findings(Verify(Flipped)) = Findings(report)
  BY DEF DirectionDoesNotMatter
<1>1. Drawn(schema) /\ report = Verify(schema)
  BY DEF DdlInv
<1>2. Verify(Flipped) = report
  BY <1>1, SameLines
<1> QED BY <1>2

\* verify says the same of a drawing and of the drawing with every line turned
\* around, unless the two columns of a line refer to each other.
THEOREM EitherEndFirst == Spec => []DirectionDoesNotMatter
  BY RequestInvariant, EitherDirection, PTL
=============================================================================
