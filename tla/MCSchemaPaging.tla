--------------------------- MODULE MCSchemaPaging ---------------------------
(* SchemaPaging on small instances. Ids are numbers so that they have an   *)
(* order.                                                                  *)
EXTENDS SchemaPaging, TLC

MCIdBefore(i, j) == i < j

Symmetry == Permutations(Clients)
=============================================================================
