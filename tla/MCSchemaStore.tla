--------------------------- MODULE MCSchemaStore ---------------------------
(* SchemaStore on small instances. "a" and "A" are two spellings of one    *)
(* name, "b" is another name, and the blank name is one check_draft refuses.*)
EXTENDS SchemaStore, TLC

MCNames == {"", "a", "A", "b"}
MCLower(n) == IF n = "A" THEN "a" ELSE n

\* One key per owner and spelling: hashtext without a collision.
MCLockKey(o, l) == <<o, l>>
MCKeys == Owners \X MCNames

\* The rows of these instances are rows of the model.
ASSUME RowsAssumption ==
  \A n \in Names, t, u \in 0..MaxClock : [name |-> n, created |-> t, updated |-> u] \in Row

Symmetry == Permutations(Clients) \cup Permutations(Ids) \cup Permutations(Owners)
=============================================================================
