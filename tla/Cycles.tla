------------------------------- MODULE Cycles -------------------------------
(***************************************************************************)
(* What a dependency cycle between tables is, apart from the algorithm     *)
(* that finds it.  Tables are the positions 1..count of a schema, a graph  *)
(* gives each table the set of tables it refers to.                        *)
(***************************************************************************)
EXTENDS Integers, Sequences, FiniteSets, SequencesExt

(* Nothing leads out of S. *)
Closed(S, graph) == \A x \in S : graph[x] \subseteq S

(* y can be reached from x: no set that holds x and that nothing leads out *)
(* of is without y.                                                        *)
Reaches(x, y, graph) ==
    \A S \in SUBSET DOMAIN graph : x \in S /\ Closed(S, graph) => y \in S

(* The tables that can each reach the other. *)
Group(x, graph) ==
    {y \in DOMAIN graph : Reaches(x, y, graph) /\ Reaches(y, x, graph)}

(* "Groups of two or more tables that can each reach the others". *)
MutualGroups(graph) ==
    {C \in {Group(x, graph) : x \in DOMAIN graph} : Cardinality(C) > 1}

(* Disjoint groups in the order of their first table, as sorting the       *)
(* sorted groups leaves them.                                              *)
InSchemaOrder(groups) ==
    CHOOSE s \in SetToSeqs(groups) :
        \A j, k \in DOMAIN s : j < k => Min(s[j]) < Min(s[k])

(* A set of tables each of which needs a row of another one of them before *)
(* it can take its first row: none of them ever takes one.                 *)
Stuck(S, graph) == S # {} /\ \A x \in S : graph[x] \cap (S \ {x}) # {}
=============================================================================
