------------------------------ MODULE Comparing -----------------------------
(***************************************************************************)
(* exchange::compare: "How much of `expected` came back in `actual`."  A   *)
(* comparison is the sequence of what was looked at, each                  *)
(* [category, kind, path, changes] with kind "matched", "missing", "extra" *)
(* or "changed"; the counts and ratios of domain/comparison.rs are taken   *)
(* from it.  A path is the names that lead there.                          *)
(***************************************************************************)
EXTENDS Diagram

Seen(category, kind, path) ==
    [category |-> category, kind |-> kind, path |-> path, changes |-> {}]

(* settle: "One count for the thing, however many of its fields moved."    *)
(* `fields` are triples of a field's name and its two values.              *)
Settle(category, path, fields) ==
    LET moved == {field \in fields : field[2] # field[3]}
    IN [Seen(category, IF moved = {} THEN "matched" ELSE "changed", path)
           EXCEPT !.changes = {field[1] : field \in moved}]

(* Mutant: a thing is looked for among all of the other side's. *)
PairingAmongAll(lefts, rights) ==
    [k \in DOMAIN lefts |-> SelectInSeq(rights, LAMBDA right : Same(right, lefts[k]))]

(* The loops with `taken`: for each name of the left the first of the      *)
(* right of the same name that no earlier one took, or 0.                  *)
Pairing(lefts, rights) ==
    LET Take(pairs, name) ==
            LET free == {j \in DOMAIN rights : j \notin ToSet(pairs) /\ Same(rights[j], name)}
            IN Append(pairs, IF free = {} THEN 0 ELSE Min(free))
    IN FoldLeft(Take, <<>>, lefts)

Untaken(rights, pairs) ==
    SelectSeq([j \in DOMAIN rights |-> j], LAMBDA j : j \notin ToSet(pairs))

NamesOf(items) == [k \in DOMAIN items |-> items[k].name]

(* description: "Two blank ones agreeing is not documentation that         *)
(* survived."                                                              *)
CompareProse(path, expected, actual) ==
    LET here == Append(path, "description")
    IN IF Blank \notin {expected, actual}
       THEN <<Settle("descriptions", here, {<<"description", expected, actual>>})>>
       ELSE IF expected # Blank THEN <<Seen("descriptions", "missing", here)>>
       ELSE IF actual # Blank THEN <<Seen("descriptions", "extra", here)>>
       ELSE <<>>

(* keys: "counted only when one of the two schemas says it is one". *)
CompareKeys(path, expected, actual) ==
    LET Flagged(attribute) == attribute.primary_key \/ attribute.unique
    IN IF Flagged(expected) /\ Flagged(actual)
       THEN <<Settle("keys", path,
                     {<<"primaryKey", expected.primary_key, actual.primary_key>>,
                      <<"unique", expected.unique, actual.unique>>})>>
       ELSE IF Flagged(expected) THEN <<Seen("keys", "missing", path)>>
       ELSE IF Flagged(actual) THEN <<Seen("keys", "extra", path)>>
       ELSE <<>>

OptionalText(value) == IF value = None THEN Blank ELSE value

(* attribute *)
CompareAttribute(table, expected, actual) ==
    LET path == <<table, expected.name>>
    IN <<Settle("columns", path,
                {<<"dataType", expected.data_type, actual.data_type>>,
                 <<"nullable", expected.nullable, actual.nullable>>,
                 <<"default", OptionalText(expected.default_value),
                              OptionalText(actual.default_value)>>})>>
       \o CompareKeys(path, expected, actual)
       \o CompareProse(path, expected.description, actual.description)

(* Both loops of entities and of entity: the pairs and what had none. *)
MatchingBy(pairs, category, path, lefts, rights, Paired(_, _)) ==
    LET rest == Untaken(rights, pairs)
    IN FlattenSeq([k \in DOMAIN lefts |->
           IF pairs[k] = 0 THEN <<Seen(category, "missing", Append(path, lefts[k].name))>>
           ELSE Paired(lefts[k], rights[pairs[k]])])
       \o [k \in DOMAIN rest |-> Seen(category, "extra", Append(path, rights[rest[k]].name))]

Matching(category, path, lefts, rights, Paired(_, _)) ==
    MatchingBy(Pairing(NamesOf(lefts), NamesOf(rights)), category, path, lefts, rights, Paired)

(* entity *)
CompareEntity(expected, actual, include_positions) ==
    LET path == <<expected.name>>
    IN CompareProse(path, expected.description, actual.description)
       \o (IF include_positions
           THEN <<Settle("positions", path, {<<"position", expected.position, actual.position>>})>>
           ELSE <<>>)
       \o Matching("columns", path, expected.attributes, actual.attributes,
                   LAMBDA left, right : CompareAttribute(expected.name, left, right))

(* point_at: an end as `table.column`; "the ids are written through" where *)
(* nothing resolves.                                                       *)
PointAt(draft, end) ==
    LET entity == FirstWithId(draft.entities, end.entity_id)
        attribute == IF entity = None THEN None
                     ELSE FirstWithId(entity.attributes, end.attribute_id)
    IN (IF entity = None THEN end.entity_id ELSE entity.name) \o <<".">>
       \o (IF attribute = None THEN end.attribute_id ELSE attribute.name)

(* references: every foreign key by its holder and its target. *)
References(draft) ==
    FlattenSeq([k \in DOMAIN draft.entities |->
        LET entity == draft.entities[k]
            held == SelectSeq(entity.attributes, LAMBDA a : a.foreign_key # None)
        IN [j \in DOMAIN held |->
               [holder |-> entity.name \o <<".">> \o held[j].name,
                target |-> PointAt(draft, held[j].foreign_key)]]])

(* foreign_keys, found by holder and never taken. *)
ReferencesHeld(left, right) ==
    LET At(list, holder) == SelectInSeq(list, LAMBDA item : Same(item.holder, holder))
        extra == SelectSeq(right, LAMBDA item : At(left, item.holder) = 0)
    IN [k \in DOMAIN left |->
           LET at == At(right, left[k].holder)
           IN IF at = 0 THEN Seen("foreign_keys", "missing", <<left[k].holder>>)
              ELSE Seen("foreign_keys",
                        IF Same(right[at].target, left[k].target) THEN "matched" ELSE "changed",
                        <<left[k].holder>>)]
       \o [k \in DOMAIN extra |-> Seen("foreign_keys", "extra", <<extra[k].holder>>)]

CompareReferences(expected, actual) ==
    ReferencesHeld(References(expected), References(actual))

(* links: both ends of a line. *)
Links(draft) ==
    [k \in DOMAIN draft.relationships |->
        PointAt(draft, draft.relationships[k].from) \o <<" -> ">>
        \o PointAt(draft, draft.relationships[k].to)]

(* relationships *)
LinksHeld(expected, actual, left, right, pairs) ==
    LET rest == Untaken(right, pairs)
        Paired(link, other, path) ==
            <<Settle("relationships", path,
                     {<<"cardinality", link.cardinality, other.cardinality>>})>>
            \o CompareProse(path, link.description, other.description)
    IN FlattenSeq([k \in DOMAIN left |->
           IF pairs[k] = 0 THEN <<Seen("relationships", "missing", <<left[k]>>)>>
           ELSE Paired(expected.relationships[k], actual.relationships[pairs[k]], <<left[k]>>)])
       \o [k \in DOMAIN rest |-> Seen("relationships", "extra", <<right[rest[k]]>>)]

CompareRelationships(expected, actual) ==
    LinksHeld(expected, actual, Links(expected), Links(actual),
              Pairing(Links(expected), Links(actual)))

(* compare: "matching is by name throughout". *)
CompareDrafts(expected, actual, include_positions) ==
    LET Paired(left, right) ==
            <<Seen("tables", "matched", <<left.name>>)>>
            \o CompareEntity(left, right, include_positions)
        tables == Matching("tables", <<>>, expected.entities, actual.entities, Paired)
    IN tables \o CompareReferences(expected, actual) \o CompareRelationships(expected, actual)

Categories ==
    {"tables", "columns", "keys", "foreign_keys", "relationships", "descriptions", "positions"}

(* Counts *)
CountOf(comparison, category, kind) ==
    Len(SelectSeq(comparison, LAMBDA seen : seen.category = category /\ seen.kind = kind))

(* precision and recall, as matched over total; an empty total is a        *)
(* perfect score.                                                          *)
Ratio(comparison, category, lost) ==
    LET matched == CountOf(comparison, category, "matched")
        total == matched + CountOf(comparison, category, lost)
                 + CountOf(comparison, category, "changed")
    IN IF total = 0 THEN <<1, 1>> ELSE <<matched, total>>
Precision(comparison, category) == Ratio(comparison, category, "extra")
Recall(comparison, category) == Ratio(comparison, category, "missing")

(* is_equal: every category is clean. *)
IsEqual(comparison) ==
    \A category \in Categories :
        \A kind \in {"missing", "extra", "changed"} :
            CountOf(comparison, category, kind) = 0
=============================================================================
