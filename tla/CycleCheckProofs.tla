-------------------------- MODULE CycleCheckProofs --------------------------
(***************************************************************************)
(* check_cycles is right for every schema: Tarjan's algorithm, as          *)
(* verifier/cycles.rs writes it, finds exactly the groups of tables that   *)
(* reach one another, and the report built from its two runs calls an      *)
(* error exactly the groups with tables that never take a first row.       *)
(***************************************************************************)
EXTENDS CycleCheck, Lemmas

-----------------------------------------------------------------------------
(* The inductive invariant.  Graph is what the run in progress looks at.   *)

Graph == Adjacency(pass)
Waiting == ToSet(stack)
Gone == UNION components

\* The neighbours of t that visit has dealt with: all of them, once it left t.
Handled(t) ==
  {Target(t, k) : k \in {key \in KeysOf(pass, t) :
     \A d \in DOMAIN calls : calls[d].node = t => key \notin calls[d].left}}

\* u was on the stack before frame d called the next frame.
Before(u, d) == d = Len(calls) \/ index[u] < index[calls[d + 1].node]

Frame == [node : Tables, left : SUBSET Nat]

Types ==
  /\ entities \in Schemas
  /\ pass \in {"required", "all", "reported"}
  /\ root \in Nat \ {0}
  /\ calls \in Seq(Frame)
  /\ index \in [Tables -> Nat \cup {None}]
  /\ low \in [Tables -> Nat]
  /\ on_stack \in [Tables -> BOOLEAN]
  /\ stack \in Seq(Tables)
  /\ next \in Nat
  /\ components \subseteq SUBSET Tables

\* A table has an index when it is on the stack or in a finished component,
\* and the stack is in the order of the indices.
Stacked ==
  /\ \A t \in Tables : index[t] # None <=> t \in Waiting \/ t \in Gone
  /\ Waiting \cap Gone = {}
  /\ \A t \in Tables : on_stack[t] <=> t \in Waiting
  /\ \A i, j \in DOMAIN stack : i < j => index[stack[i]] < index[stack[j]]
  /\ \A t \in Waiting : index[t] < next

\* The loop leaves no table behind.
Looped == \A t \in Tables : t < root => index[t] # None

\* Each frame waits for the next one, at the key it looks at.
Framed ==
  /\ \A d \in DOMAIN calls :
       calls[d].node \in Waiting /\ calls[d].left \subseteq KeysOf(pass, calls[d].node)
  /\ \A d \in 1..(Len(calls) - 1) :
       /\ calls[d].left # {}
       /\ calls[d + 1].node = Target(calls[d].node, Min(calls[d].left))
  /\ \A d, e \in DOMAIN calls : d < e => index[calls[d].node] < index[calls[e].node]
  /\ IF calls = <<>> THEN stack = <<>> ELSE stack # <<>> /\ calls[1].node = stack[1]

\* What is on the stack is connected through the frames.
Connected ==
  \A d \in DOMAIN calls, u \in Waiting :
    /\ Before(u, d) => Reaches(u, calls[d].node, Graph)
    /\ index[calls[d].node] <= index[u] => Reaches(calls[d].node, u, Graph)

\* low is the index of a table that is reached, ...
LowReached ==
  \A u \in Waiting : /\ low[u] <= index[u]
                     /\ \E w \in Waiting : index[w] = low[u] /\ Reaches(u, w, Graph)

\* ... and of none above those that the tables above refer to.
LowCovers ==
  /\ \A u \in Waiting : \A w \in Handled(u) \cap Waiting : low[u] <= index[w]
  /\ \A d \in DOMAIN calls, u \in Waiting :
       index[calls[d].node] <= index[u] /\ Before(u, d) => low[calls[d].node] <= low[u]

HandledSeen == \A u \in Waiting : Handled(u) \subseteq Waiting \cup Gone

\* A finished component is one of the groups sought.
WholeGroups ==
  \A C \in components : /\ C # {}
                        /\ \A x \in C : C = Group(x, Graph)

\* Tables that wait for one another do not all end in components of one.
StuckSeen ==
  \A S \in SUBSET Tables : S \cap Gone # {} /\ Stuck(S, Graph) =>
    \E C \in components : Cardinality(C) > 1 /\ C \cap S # {}

TarjanInv ==
  /\ Types /\ Stacked /\ Looped /\ Framed /\ Connected /\ LowReached /\ LowCovers
  /\ HandledSeen /\ PoppedForGood /\ WholeGroups /\ StuckSeen

\* What the first run leaves for the report.
BlockedKnown ==
  pass # "required" =>
    /\ blocked = InSchemaOrder(MutualGroups(Adjacency("required")))
    /\ \A S \in SUBSET Tables : Stuck(S, Adjacency("required")) =>
         \E C \in MutualGroups(Adjacency("required")) : C \cap S # {}

\* The report pairs the groups of the second run with their severities.
Reported ==
  pass = "reported" =>
    LET found == InSchemaOrder(MutualGroups(Adjacency("all")))
    IN report = [k \in DOMAIN found |->
                   [tables |-> found[k], severity |-> Severity(found[k])]]

CycleInv == TarjanInv /\ BlockedKnown /\ Reported

-----------------------------------------------------------------------------
(* Facts about the state.                                                  *)

\* Tables are numbered from one.
LEMMA SchemaShape ==
  ASSUME Types
  PROVE  /\ Len(entities) \in Nat /\ Tables = 1..Len(entities)
         /\ IsFiniteSet(Tables)
         /\ \A of : \A t \in Tables : KeysOf(of, t) \subseteq Nat
<1>1. entities \in Seq(ToSet(entities))
  BY SchemasAssumption DEF Types
<1>2. \A t \in Tables : DOMAIN entities[t].references \subseteq Nat
  BY SchemasAssumption DEF Types, Tables
<1>3. Len(entities) \in Nat /\ Tables = 1..Len(entities)
  BY <1>1 DEF Tables
<1>4. IsFiniteSet(Tables)
  BY <1>3, FS_Interval
<1> QED BY <1>2, <1>3, <1>4 DEF KeysOf

\* Both graphs have the tables for nodes.
LEMMA GraphShape ==
  /\ DOMAIN Graph = Tables
  /\ \A t \in Tables : Graph[t] = {Target(t, k) : k \in KeysOf(pass, t)}
  BY DEF Graph, Adjacency

\* The positions a map of ids to positions has.
LEMMA TargetsAreTables ==
  ASSUME Types, NEW of, NEW t \in Tables, NEW k \in KeysOf(of, t)
  PROVE  Target(t, k) \in Tables
<1> DEFINE id == entities[t].references[k].entity_id
           I == {i \in 1..Len(entities) : entities[i].id = id}
<1>1. PositionOf(id) = IF I # {} THEN Max(I) ELSE 0
  BY DEF PositionOf, SelectLastInSeq
<1>2. I # {}
  BY <1>1 DEF KeysOf, Target
<1>3. PICK top \in I : \A i \in I : top >= i
  <2>1. Len(entities) \in Nat
    BY SchemaShape
  <2> DEFINE J == {Len(entities) - i : i \in I}
  <2>2. J \in SUBSET Nat /\ J # {}
    BY <1>2, <2>1
  <2>3. Min(J) \in J /\ \A m \in J : Min(J) <= m
    BY <2>2, LeastNumber
  <2>4. PICK i \in I : Min(J) = Len(entities) - i
    BY <2>3
  <2>5. \A j \in I : Len(entities) - j \in J
    OBVIOUS
  <2>6. \A j \in I : i >= j
    <3> SUFFICES ASSUME NEW j \in I PROVE i >= j
      OBVIOUS
    <3>1. Min(J) <= Len(entities) - j
      BY <2>3, <2>5
    <3>2. i \in Nat /\ j \in Nat
      OBVIOUS
    <3> HIDE DEF I, J
    <3> QED BY <2>1, <2>4, <3>1, <3>2
  <2> QED BY <2>6
<1>4. Max(I) \in I
  BY <1>3 DEF Max
<1> QED BY <1>1, <1>2, <1>4, SchemaShape DEF Target

\* The graph of a run, and what is built from it, only change between runs.
LEMMA SameGraph ==
  ASSUME UNCHANGED <<entities, pass>>
  PROVE  /\ Tables' = Tables /\ Graph' = Graph
         /\ \A t, k : Target(t, k)' = Target(t, k)
         /\ \A t : KeysOf(pass, t)' = KeysOf(pass, t)
  BY DEF Tables, Graph, Adjacency, Target, KeysOf, PositionOf, SelectLastInSeq

\* A table that waits on the stack has an index and a low.
LEMMA OnStack ==
  ASSUME Types, Stacked, NEW u \in Waiting
  PROVE  u \in Tables /\ index[u] \in Nat /\ index[u] < next /\ low[u] \in Nat
  BY NoneAssumption DEF Types, Stacked, Waiting, ToSet

\* The pending calls and what each of them is about.
LEMMA FrameShape ==
  ASSUME Types, Framed, NEW d \in DOMAIN calls
  PROVE  /\ Len(calls) \in Nat /\ DOMAIN calls = 1..Len(calls)
         /\ calls[d].node \in Waiting /\ calls[d].node \in Tables
         /\ calls[d].left \subseteq KeysOf(pass, calls[d].node)
         /\ calls[d].left # {} => Min(calls[d].left) \in calls[d].left
<1>1. Len(calls) \in Nat /\ DOMAIN calls = 1..Len(calls) /\ calls[d] \in Frame
  BY DEF Types
<1>2. calls[d].node \in Tables /\ calls[d].left \in SUBSET Nat
  BY <1>1 DEF Frame
<1> QED BY <1>1, <1>2, LeastNumber DEF Framed

\* The key a frame looks at leads to a neighbour.
LEMMA LooksAtNeighbour ==
  ASSUME Types, Framed, NEW d \in DOMAIN calls, calls[d].left # {}
  PROVE  Target(calls[d].node, Min(calls[d].left)) \in Graph[calls[d].node]
  BY FrameShape, GraphShape

-----------------------------------------------------------------------------
(* visit starts: a table without an index is pushed.                       *)

\* visit begins: the table is indexed and pushed.
LEMMA EnterKeepsInv ==
  ASSUME TarjanInv, NEW node \in Tables, index[node] = None, Enter(node),
         UNCHANGED <<entities, pass>>, calls = <<>> \/ AtNeighbour(node),
         root' \in Nat \ {0}, \A t \in Tables : t < root' => t < root \/ t = node
  PROVE  TarjanInv'
<1> DEFINE n == Len(calls)
<1>0. Types /\ Stacked /\ Framed
  BY DEF TarjanInv
<1>1. /\ Tables' = Tables /\ Graph' = Graph
      /\ \A t, k : Target(t, k)' = Target(t, k)
      /\ \A t : KeysOf(pass, t)' = KeysOf(pass, t)
  BY SameGraph
<1>2. /\ n \in Nat /\ DOMAIN calls = 1..n /\ Len(calls') = n + 1 /\ DOMAIN calls' = 1..(n + 1)
      /\ \A d \in 1..n : calls'[d] = calls[d]
      /\ calls'[n + 1].node = node /\ calls'[n + 1].left = KeysOf(pass, node)
  BY <1>0 DEF Types, Enter
<1>s. /\ Len(stack) \in Nat /\ DOMAIN stack = 1..Len(stack) /\ DOMAIN stack' = 1..(Len(stack) + 1)
      /\ \A i \in 1..Len(stack) : stack'[i] = stack[i]
      /\ stack'[Len(stack) + 1] = node
  <2>1. stack \in Seq(Tables) /\ stack' = Append(stack, node)
    BY <1>0 DEF Enter, Types
  <2> QED BY <2>1
<1>3. Waiting' = Waiting \cup {node} /\ Gone' = Gone /\ components' = components
  <2>3. Waiting' = Waiting \cup {node}
    BY <1>s DEF Waiting, ToSet
  <2> QED BY <2>3 DEF Enter, Gone
<1>4. node \notin Waiting /\ node \notin Gone
  BY <1>0 DEF Stacked
<1>5. /\ index'[node] = next /\ low'[node] = next /\ next' = next + 1 /\ next \in Nat
      /\ \A t \in Tables \ {node} : index'[t] = index[t] /\ low'[t] = low[t]
  BY <1>0 DEF Enter, Types
<1>6. \A u \in Waiting : /\ index'[u] = index[u] /\ low'[u] = low[u] /\ index[u] \in Nat
                         /\ index[u] < next /\ low[u] \in Nat /\ u \in Tables /\ u # node
  BY <1>0, <1>4, <1>5, OnStack
<1>7. Types'
  <2>1. KeysOf(pass, node) \subseteq Nat
    BY <1>0, SchemaShape
  <2>2. calls' \in Seq(Frame) /\ stack' \in Seq(Tables)
    BY <1>0, <2>1 DEF Enter, Types, Frame
  <2> QED BY <1>0, <1>1, <2>2 DEF Enter, Types, Frame
<1>8. Stacked'
  <2>1. \A t \in Tables : index'[t] # None <=> t \in Waiting' \/ t \in Gone'
    BY <1>0, <1>3, <1>5, NoneAssumption DEF Stacked
  <2>2. Waiting' \cap Gone' = {}
    BY <1>0, <1>3, <1>4 DEF Stacked
  <2>3. \A t \in Tables : on_stack'[t] <=> t \in Waiting'
    BY <1>0, <1>3 DEF Stacked, Types, Enter
  <2>4. ASSUME NEW i \in DOMAIN stack', NEW j \in DOMAIN stack', i < j
        PROVE  index'[stack'[i]] < index'[stack'[j]]
    <3> DEFINE s == Len(stack)
    <3>0. s \in Nat /\ i \in 1..(s + 1) /\ j \in 1..(s + 1)
      BY <1>s
    <3>1. i \in DOMAIN stack /\ stack'[i] = stack[i] /\ stack[i] \in Waiting
      <4>1. i \in 1..s
        <5> HIDE DEF s
        <5> QED BY <2>4, <3>0
      <4> QED BY <1>s, <4>1 DEF Waiting, ToSet
    <3>2. CASE j \in DOMAIN stack
      <4>1. stack'[j] = stack[j] /\ stack[j] \in Waiting
        BY <1>s, <3>2 DEF Waiting, ToSet
      <4> QED BY <1>0, <1>6, <2>4, <3>1, <3>2, <4>1 DEF Stacked
    <3>3. CASE j \notin DOMAIN stack
      <4>1. stack'[j] = node
        <5>1. j = s + 1
          <6>1. j \notin 1..s
            BY <1>s, <3>3
          <6> HIDE DEF s
          <6> QED BY <3>0, <6>1
        <5> QED BY <1>s, <5>1
      <4> QED BY <1>5, <1>6, <3>1, <4>1
    <3> QED BY <3>2, <3>3
  <2>5. \A t \in Waiting' : index'[t] < next'
    BY <1>3, <1>5, <1>6
  <2> QED BY <1>1, <2>1, <2>2, <2>3, <2>4, <2>5 DEF Stacked
<1>9. Looped'
  BY <1>1, <1>5, NoneAssumption DEF TarjanInv, Looped
<1>10. n > 0 => /\ calls[n].left # {} /\ calls[n].node \in Waiting
                /\ node = Target(calls[n].node, Min(calls[n].left))
                /\ Reaches(calls[n].node, node, Graph)
  <2> HAVE n > 0
  <2>1. calls # <<>> /\ n \in DOMAIN calls
    BY <1>2
  <2>2. calls[n].left # {} /\ node = Target(calls[n].node, Min(calls[n].left))
    BY <2>1 DEF AtNeighbour, Top
  <2> QED BY <1>0, <2>1, <2>2, FrameShape, LooksAtNeighbour, ReachesNeighbour
<1>11. Framed'
  <2>1. \A d \in 1..n : /\ calls[d].node \in Waiting
                        /\ calls[d].left \subseteq KeysOf(pass, calls[d].node)
    BY <1>0, <1>2, FrameShape
  <2>2. \A d \in DOMAIN calls' : /\ calls'[d].node \in Waiting'
                                 /\ calls'[d].left \subseteq KeysOf(pass, calls[d].node)'
    BY <1>1, <1>2, <1>3, <2>1
  <2>3. \A d \in 1..(Len(calls') - 1) :
          /\ calls'[d].left # {}
          /\ calls'[d + 1].node = Target(calls[d].node, Min(calls[d].left))'
    <3>1. n \in Nat /\ Len(calls') - 1 = n
      BY <1>2
    <3>2. \A d \in 1..n : d = n \/ d \in 1..(n - 1)
      BY <3>1
    <3>3. \A d \in 1..(n - 1) :
            /\ d \in 1..n /\ d + 1 \in 1..n /\ calls[d].left # {}
            /\ calls[d + 1].node = Target(calls[d].node, Min(calls[d].left))
      BY <1>0, <3>1 DEF Framed
    <3>4. \A d \in 1..(n - 1) :
            /\ calls'[d].left # {}
            /\ calls'[d + 1].node = Target(calls[d].node, Min(calls[d].left))'
      BY <1>1, <1>2, <3>3
    <3>5. ASSUME NEW d \in 1..n, d = n
          PROVE  /\ calls'[d].left # {}
                 /\ calls'[d + 1].node = Target(calls[d].node, Min(calls[d].left))'
      <4>1. d > 0 /\ calls'[d] = calls[d] /\ calls'[d + 1].node = node
        BY <1>2, <3>1, <3>5
      <4> QED BY <1>1, <1>10, <3>5, <4>1
    <3> HIDE DEF n
    <3> QED BY <3>1, <3>2, <3>4, <3>5
  <2>4. \A d, e \in DOMAIN calls' : d < e => index'[calls'[d].node] < index'[calls'[e].node]
    BY <1>0, <1>2, <1>5, <1>6, <2>1 DEF Framed
  <2>5. calls' # <<>> /\ stack' # <<>> /\ calls'[1].node = stack'[1]
    BY <1>0, <1>2 DEF Framed, Enter, Types
  <2> QED BY <2>2, <2>3, <2>4, <2>5 DEF Framed
<1>12. \A u \in Waiting, d \in 1..n : Before(u, d)' => Before(u, d)
  <2>1. \A d \in 1..(n - 1) : calls'[d + 1] = calls[d + 1] /\ calls[d + 1].node \in Waiting
    BY <1>0, <1>2, FrameShape
  <2> SUFFICES ASSUME NEW u \in Waiting, NEW d \in 1..n, Before(u, d)', d # n
               PROVE  index[u] < index[calls[d + 1].node]
    BY DEF Before
  <2>0. n \in Nat /\ Len(calls') = n + 1
    BY <1>2
  <2>2. d # Len(calls')
    BY <2>0
  <2>3. index'[u] < index'[calls'[d + 1].node]
    BY <2>2 DEF Before
  <2>4. d \in 1..(n - 1)
    BY <2>0
  <2> QED BY <1>6, <2>1, <2>3, <2>4
<1>13. \A d \in 1..n : ~Before(node, d)'
  <2> SUFFICES ASSUME NEW d \in 1..n, Before(node, d)' PROVE FALSE
    OBVIOUS
  <2>1. next < index'[calls'[d + 1].node]
    BY <1>2, <1>5 DEF Before
  <2>2. CASE d = n
    BY <1>2, <1>5, <2>1, <2>2
  <2>3. CASE d < n
    <3>1. calls'[d + 1].node \in Waiting
      BY <1>0, <1>2, <2>3, FrameShape
    <3> QED BY <1>5, <1>6, <2>1, <3>1
  <2>4. n \in Nat
    BY <1>2
  <2> QED BY <2>2, <2>3, <2>4
<1>14. Connected'
  <2> SUFFICES ASSUME NEW d \in 1..(n + 1), NEW u \in Waiting \cup {node}
               PROVE  /\ Before(u, d)' => Reaches(u, calls'[d].node, Graph)
                      /\ index'[calls'[d].node] <= index'[u] => Reaches(calls'[d].node, u, Graph)
    BY <1>1, <1>2, <1>3 DEF Connected
  <2>1. CASE d = n + 1
    <3>1. CASE u = node
      BY <1>2, <2>1, <3>1, ReachesItself
    <3>2. CASE u \in Waiting
      <4>1. n > 0
        BY <1>0, <1>2, <3>2 DEF Framed, Waiting, ToSet
      <4>2. Reaches(u, calls[n].node, Graph)
        BY <1>2, <3>2, <4>1 DEF TarjanInv, Connected, Before
      <4>3. Reaches(u, node, Graph)
        BY <1>10, <4>1, <4>2, ReachesOn
      <4> QED BY <1>2, <1>5, <1>6, <2>1, <3>2, <4>3
    <3> QED BY <3>1, <3>2
  <2>2. CASE d \in 1..n
    <3>1. CASE u \in Waiting
      <4>1. calls[d].node \in Waiting
        BY <1>0, <1>2, <2>2, FrameShape
      <4> QED BY <1>2, <1>6, <1>12, <2>2, <3>1, <4>1 DEF TarjanInv, Connected
    <3>2. CASE u = node
      <4>1. calls[d].node \in Waiting /\ calls[n].node \in Waiting
        BY <1>0, <1>2, <2>2, FrameShape
      <4>2. index[calls[d].node] <= index[calls[n].node]
        <5>1. n \in Nat /\ DOMAIN calls = 1..n
          BY <1>2
        <5>0. n \in Nat
          BY <1>2
        <5> HIDE DEF n
        <5>2. d \in 1..n /\ n \in 1..n /\ (d = n \/ d < n)
          BY <2>2, <5>0
        <5>3. d = n \/ index[calls[d].node] < index[calls[n].node]
          BY <1>0, <5>1, <5>2 DEF Framed
        <5>4. index[calls[d].node] \in Nat /\ index[calls[n].node] \in Nat
          BY <1>6, <4>1
        <5> QED BY <5>3, <5>4
      <4>3. Reaches(calls[d].node, calls[n].node, Graph)
        BY <1>2, <2>2, <4>1, <4>2 DEF TarjanInv, Connected
      <4>4. Reaches(calls[d].node, node, Graph)
        BY <1>2, <1>10, <2>2, <4>3, ReachesOn
      <4> QED BY <1>2, <1>13, <2>2, <3>2, <4>4
    <3> QED BY <3>1, <3>2
  <2> QED BY <1>2, <2>1, <2>2
<1>15. LowReached'
  <2> SUFFICES ASSUME NEW u \in Waiting \cup {node}
               PROVE  /\ low'[u] <= index'[u]
                      /\ \E w \in Waiting \cup {node} :
                           index'[w] = low'[u] /\ Reaches(u, w, Graph)
    BY <1>1, <1>3 DEF LowReached
  <2>1. CASE u = node
    BY <1>5, <2>1, ReachesItself
  <2>2. CASE u \in Waiting
    <3>1. low[u] <= index[u]
      BY <2>2 DEF TarjanInv, LowReached
    <3>2. PICK w \in Waiting : index[w] = low[u] /\ Reaches(u, w, Graph)
      BY <2>2 DEF TarjanInv, LowReached
    <3> QED BY <1>6, <2>2, <3>1, <3>2
  <2> QED BY <2>1, <2>2
<1>16. Handled(node)' = {}
  BY <1>1, <1>2 DEF Handled
<1>17. \A u \in Waiting : Handled(u)' = Handled(u)
  <2> SUFFICES ASSUME NEW u \in Waiting PROVE Handled(u)' = Handled(u)
    OBVIOUS
  <2>1. ASSUME NEW key
        PROVE  (\A d \in DOMAIN calls' : calls'[d].node = u => key \notin calls'[d].left)
                 <=> (\A d \in DOMAIN calls : calls[d].node = u => key \notin calls[d].left)
    BY <1>2, <1>6
  <2> QED BY <1>1, <2>1 DEF Handled
<1>18. LowCovers' /\ HandledSeen'
  <2>1. \A u \in Waiting : Handled(u) \subseteq Waiting \cup Gone
    BY DEF TarjanInv, HandledSeen
  <2>2. HandledSeen'
    BY <1>3, <1>16, <1>17, <2>1 DEF HandledSeen
  <2>3. \A u \in Waiting' : \A w \in Handled(u)' \cap Waiting' : low'[u] <= index'[w]
    BY <1>3, <1>4, <1>6, <1>16, <1>17, <2>1 DEF TarjanInv, LowCovers
  <2>4. ASSUME NEW d \in 1..(n + 1), NEW u \in Waiting \cup {node},
               index'[calls'[d].node] <= index'[u], Before(u, d)'
        PROVE  low'[calls'[d].node] <= low'[u]
    <3>1. CASE d = n + 1
      BY <1>2, <1>5, <1>6, <2>4, <3>1
    <3>2. CASE d \in 1..n
      <4>1. u \in Waiting /\ Before(u, d)
        BY <1>12, <1>13, <2>4, <3>2
      <4>2. calls[d].node \in Waiting /\ calls'[d] = calls[d]
        BY <1>0, <1>2, <3>2, FrameShape
      <4> QED BY <1>2, <1>6, <2>4, <3>2, <4>1, <4>2 DEF TarjanInv, LowCovers
    <3> QED BY <1>2, <3>1, <3>2
  <2> QED BY <1>2, <1>3, <2>2, <2>3, <2>4 DEF LowCovers
<1>19. PoppedForGood' /\ WholeGroups' /\ StuckSeen'
  BY <1>1, <1>3 DEF TarjanInv, PoppedForGood, WholeGroups, StuckSeen, Graph, Gone
<1> QED BY <1>7, <1>8, <1>9, <1>11, <1>14, <1>15, <1>18, <1>19 DEF TarjanInv

-----------------------------------------------------------------------------
(* visit deals with a neighbour that has an index.                         *)

\* A neighbour that was indexed before lowers low, if it is on the stack.
LEMMA NeighbourKeepsInv ==
  ASSUME TarjanInv, NEW w \in Tables, AtNeighbour(w), index[w] # None, NeighbourDone,
         UNCHANGED <<entities, pass, root, index, on_stack, stack, next, components>>,
         \/ w \in Waiting /\ low' = [low EXCEPT ![Top.node] = MinOf(@, index[w])]
         \/ w \notin Waiting /\ low' = low
  PROVE  TarjanInv'
<1> DEFINE n == Len(calls)
           f == calls[n].node
           key == Min(calls[n].left)
<1>0. Types /\ Stacked /\ Framed
  BY DEF TarjanInv
<1>1. /\ Tables' = Tables /\ Graph' = Graph
      /\ \A t, k : Target(t, k)' = Target(t, k)
      /\ \A t : KeysOf(pass, t)' = KeysOf(pass, t)
  BY SameGraph
<1>2. n \in Nat /\ DOMAIN calls = 1..n /\ n \in 1..n
  BY <1>0 DEF Types, AtNeighbour
<1>n. n \in Nat
  BY <1>2
<1>3. /\ f \in Waiting /\ f \in Tables /\ calls[n].left # {} /\ key \in calls[n].left
      /\ w = Target(f, key) /\ calls[n] \in Frame
  BY <1>0, <1>2, FrameShape DEF AtNeighbour, Top, Types
<1>4. Len(calls') = n /\ DOMAIN calls' = 1..n
  BY <1>0, <1>2 DEF NeighbourDone, Types
<1>5. /\ \A d \in 1..n : d # n => calls'[d] = calls[d]
      /\ calls'[n] = [calls[n] EXCEPT !.left = @ \ {key}]
  BY <1>0, <1>2 DEF NeighbourDone, Types
<1>6. calls'[n].node = f /\ calls'[n].left = calls[n].left \ {key}
  BY <1>3, <1>5 DEF Frame
<1>7. \A d \in 1..n : calls'[d].node = calls[d].node
  BY <1>5, <1>6
<1>8. Waiting' = Waiting /\ Gone' = Gone
  BY DEF Waiting, Gone
<1>9. \A u \in Waiting : u \in Tables /\ index[u] \in Nat /\ low[u] \in Nat
  BY <1>0, OnStack
<1>10. /\ low' \in [Tables -> Nat]
       /\ \A u \in Waiting : u # f => low'[u] = low[u]
       /\ low'[f] \in Nat /\ low'[f] <= low[f]
       /\ w \in Waiting => low'[f] <= index[w]
       /\ low'[f] # low[f] => w \in Waiting /\ low'[f] = index[w]
  <2>1. low \in [Tables -> Nat] /\ f \in Tables /\ low[f] \in Nat
    BY <1>0, <1>3 DEF Types
  <2>2. \A u \in Waiting : u \in Tables
    BY <1>9
  <2>3. CASE w \notin Waiting
    <3>1. low' = low
      BY <2>3
    <3> QED BY <2>1, <2>3, <3>1
  <2>4. CASE w \in Waiting
    <3> DEFINE m == MinOf(low[f], index[w])
    <3>1. low' = [low EXCEPT ![f] = m]
      BY <2>4 DEF Top
    <3>2. m \in Nat /\ m <= low[f] /\ m <= index[w] /\ (m = low[f] \/ m = index[w])
      BY <1>9, <2>1, <2>4 DEF MinOf
    <3> HIDE DEF m
    <3>3. /\ low'[f] = m /\ low' \in [Tables -> Nat]
          /\ \A u \in Tables : u # f => low'[u] = low[u]
      BY <2>1, <3>1, <3>2
    <3> QED BY <2>2, <2>4, <3>2, <3>3
  <2> QED BY <2>3, <2>4
<1>11. \A u : \A d \in 1..n : Before(u, d)' <=> Before(u, d)
  <2> SUFFICES ASSUME NEW u, NEW d \in 1..n PROVE Before(u, d)' <=> Before(u, d)
    OBVIOUS
  <2>1. d # n => d + 1 \in 1..n
    BY <1>n
  <2>2. d # n => calls'[d + 1].node = calls[d + 1].node
    BY <1>7, <2>1
  <2> QED BY <1>4, <2>2 DEF Before
<1>12. Types'
  <2>1. [calls[n] EXCEPT !.left = @ \ {key}] \in Frame
    BY <1>3 DEF Frame
  <2>2. calls' \in Seq(Frame)
    BY <1>0, <1>2, <2>1 DEF NeighbourDone, Types
  <2> QED BY <1>0, <1>1, <1>10, <2>2 DEF Types, Frame
<1>13. Stacked' /\ Looped'
  BY <1>1, <1>8 DEF TarjanInv, Stacked, Looped
<1>14. Framed'
  <2>1. \A d \in DOMAIN calls' : /\ calls'[d].node \in Waiting'
                                 /\ calls'[d].left \subseteq KeysOf(pass, calls[d].node)'
    <3>1. \A d \in 1..n : /\ calls[d].node \in Waiting
                          /\ calls[d].left \subseteq KeysOf(pass, calls[d].node)
      BY <1>0, <1>2 DEF Framed
    <3>2. \A d \in 1..n : calls'[d].left \subseteq calls[d].left
      BY <1>5, <1>6
    <3> QED BY <1>1, <1>4, <1>7, <1>8, <3>1, <3>2
  <2>2. \A d \in 1..(Len(calls') - 1) :
          /\ calls'[d].left # {}
          /\ calls'[d + 1].node = Target(calls[d].node, Min(calls[d].left))'
    <3>1. \A d \in 1..(n - 1) : /\ calls[d].left # {}
                                /\ calls[d + 1].node = Target(calls[d].node, Min(calls[d].left))
      BY <1>0 DEF Framed
    <3>2. \A d \in 1..(n - 1) : d \in 1..n /\ d # n /\ d + 1 \in 1..n
      BY <1>n
    <3> QED BY <1>1, <1>4, <1>5, <1>7, <3>1, <3>2
  <2>3. \A d, e \in DOMAIN calls' : d < e => index'[calls'[d].node] < index'[calls'[e].node]
    BY <1>0, <1>2, <1>4, <1>7 DEF Framed
  <2>4. calls # <<>> /\ calls' # <<>> /\ calls'[1].node = calls[1].node
    BY <1>0, <1>2, <1>4, <1>7 DEF AtNeighbour
  <2>5. stack' # <<>> /\ calls'[1].node = stack'[1]
    BY <1>0, <2>4 DEF Framed
  <2> QED BY <2>1, <2>2, <2>3, <2>4, <2>5 DEF Framed
<1>15. Connected'
  BY <1>1, <1>2, <1>4, <1>7, <1>8, <1>11 DEF TarjanInv, Connected
<1>16. LowReached'
  <2> SUFFICES ASSUME NEW u \in Waiting
               PROVE  /\ low'[u] <= index[u]
                      /\ \E v \in Waiting : index[v] = low'[u] /\ Reaches(u, v, Graph)
    BY <1>1, <1>8 DEF LowReached
  <2>1. /\ low[u] <= index[u]
        /\ \E v \in Waiting : index[v] = low[u] /\ Reaches(u, v, Graph)
    BY DEF TarjanInv, LowReached
  <2>2. Reaches(f, w, Graph)
    <3>1. w \in Graph[f]
      BY <1>0, <1>2, <1>3, LooksAtNeighbour
    <3> QED BY <3>1, ReachesNeighbour
  <2>3. low'[u] # low[u] => u = f /\ w \in Waiting /\ low'[u] = index[w]
    BY <1>10
  <2>4. low'[u] <= low[u] /\ low'[u] \in Nat
    BY <1>9, <1>10
  <2> QED BY <1>9, <2>1, <2>2, <2>3, <2>4
<1>17. \A u \in Waiting : /\ u # f => Handled(u)' = Handled(u)
                          /\ Handled(u)' \subseteq Handled(u) \cup {w}
  <2> SUFFICES ASSUME NEW u \in Waiting
               PROVE  /\ u # f => Handled(u)' = Handled(u)
                      /\ Handled(u)' \subseteq Handled(u) \cup {w}
    OBVIOUS
  <2> DEFINE Done(k)  == \A d \in DOMAIN calls : calls[d].node = u => k \notin calls[d].left
             After(k) == \A d \in DOMAIN calls' : calls'[d].node = u => k \notin calls'[d].left
  <2>1. Handled(u) = {Target(u, k) : k \in {m \in KeysOf(pass, u) : Done(m)}}
    BY DEF Handled
  <2>2. Handled(u)' = {Target(u, k) : k \in {m \in KeysOf(pass, u) : After(m)}}
    BY <1>1 DEF Handled
  <2>3. u # f => \A k : After(k) <=> Done(k)
    BY <1>2, <1>4, <1>5, <1>6
  <2>4. u = f => \A k : After(k) => Done(k) \/ k = key
    BY <1>2, <1>4, <1>5, <1>6
  <2> HIDE DEF Done, After
  <2> QED BY <1>3, <2>1, <2>2, <2>3, <2>4
<1>18. LowCovers'
  <2>1. ASSUME NEW u \in Waiting, NEW v \in Handled(u)' \cap Waiting PROVE low'[u] <= index[v]
    <3>1. v \in Handled(u) => low[u] <= index[v]
      BY <2>1 DEF TarjanInv, LowCovers
    <3>2. CASE u # f
      <4>1. v \in Handled(u)
        BY <1>17, <2>1, <3>2
      <4> QED BY <1>10, <3>1, <3>2, <4>1
    <3>3. CASE u = f
      <4>1. v \in Handled(u) \/ v = w
        BY <1>17, <2>1
      <4> QED BY <1>9, <1>10, <2>1, <3>1, <3>3, <4>1
    <3> QED BY <3>2, <3>3
  <2>2. ASSUME NEW d \in 1..n, NEW u \in Waiting, index[calls[d].node] <= index[u], Before(u, d)
        PROVE  low'[calls[d].node] <= low'[u]
    <3>1. low[calls[d].node] <= low[u] /\ calls[d].node \in Waiting
      BY <1>0, <1>2, <2>2, FrameShape DEF TarjanInv, LowCovers
    <3>2. CASE calls[d].node = f
      BY <1>9, <1>10, <3>1, <3>2
    <3>3. CASE calls[d].node # f /\ u # f
      BY <1>10, <3>1, <3>3
    <3>4. CASE calls[d].node # f /\ u = f
      <4>0. d # n
        BY <3>4
      <4>1. d # n /\ d + 1 \in 1..n
        BY <1>n, <4>0
      <4>2. index[f] < index[calls[d + 1].node]
        BY <2>2, <3>4, <4>1 DEF Before
      <4>3. calls[d + 1].node \in Waiting
        BY <1>0, <1>2, <4>1, FrameShape
      <4>4. d + 1 = n \/ d + 1 < n
        BY <1>n, <4>1
      <4>5. d + 1 = n \/ index[calls[d + 1].node] < index[f]
        BY <1>0, <1>2, <4>1, <4>4 DEF Framed
      <4> QED BY <1>3, <1>9, <4>2, <4>3, <4>5
    <3> QED BY <3>2, <3>3, <3>4
  <2> QED BY <1>4, <1>7, <1>8, <1>11, <2>1, <2>2 DEF LowCovers
<1>19. HandledSeen'
  <2>1. w \in Waiting \cup Gone
    BY <1>0 DEF Stacked
  <2> QED BY <1>8, <1>17, <2>1 DEF TarjanInv, HandledSeen
<1>20. PoppedForGood' /\ WholeGroups' /\ StuckSeen'
  BY <1>1, <1>8 DEF TarjanInv, PoppedForGood, WholeGroups, StuckSeen, Graph, Gone
<1> QED BY <1>12, <1>13, <1>14, <1>15, <1>16, <1>18, <1>19, <1>20 DEF TarjanInv

-----------------------------------------------------------------------------
(* visit returns to its caller.                                            *)

\* The frame of the first call belongs to the bottom of the stack, so nothing
\* it could be lowered to lies below it.
LEMMA FirstFrameCloses ==
  ASSUME TarjanInv, Len(calls) = 1
  PROVE  low[Top.node] = index[Top.node]
<1> DEFINE f == calls[1].node
<1>0. Types /\ Stacked /\ Framed
  BY DEF TarjanInv
<1>1. calls # <<>>
  OBVIOUS
<1>2. stack # <<>> /\ f = stack[1] /\ f \in Waiting
  <2>1. stack # <<>> /\ f = stack[1]
    BY <1>0, <1>1 DEF Framed
  <2>2. stack \in Seq(Tables)
    BY <1>0 DEF Types
  <2> QED BY <2>1, <2>2 DEF Waiting, ToSet
<1>3. PICK w \in Waiting : index[w] = low[f]
  BY <1>2 DEF TarjanInv, LowReached
<1>4. PICK i \in DOMAIN stack : w = stack[i]
  BY DEF Waiting, ToSet
<1>5. i = 1 \/ index[stack[1]] < index[stack[i]]
  <2>1. stack \in Seq(Tables)
    BY <1>0 DEF Types
  <2>2. 1 \in DOMAIN stack /\ (i = 1 \/ 1 < i)
    BY <1>2, <2>1
  <2> QED BY <1>0, <2>2 DEF Stacked
<1>6. low[f] <= index[f]
  BY <1>2 DEF TarjanInv, LowReached
<1>7. index[f] \in Nat /\ low[f] \in Nat
  BY <1>0, <1>2, OnStack
<1> QED BY <1>2, <1>3, <1>4, <1>5, <1>6, <1>7 DEF Top

\* The caller goes on with the key after the one that led to the callee.
LEMMA ReturnFrames ==
  ASSUME Types, Framed, Len(calls) > 1, Top.left = {}, UNCHANGED <<entities, pass>>,
         calls' = [Front(calls) EXCEPT ![Len(calls) - 1].left = @ \ {Min(@)}]
  PROVE  LET m == Len(calls) - 1 IN
         /\ m \in Nat /\ m \in 1..m /\ DOMAIN calls = 1..(m + 1)
         /\ Len(calls') = m /\ DOMAIN calls' = 1..m /\ calls' \in Seq(Frame)
         /\ \A d \in 1..m : calls'[d].node = calls[d].node /\ calls'[d].left \subseteq calls[d].left
         /\ \A d \in 1..m : d # m => calls'[d] = calls[d]
         /\ \A u : u # calls[m].node => Handled(u)' = Handled(u)
         /\ \A u : Handled(u)' \subseteq Handled(u) \cup {Top.node}
<1> DEFINE m == Len(calls) - 1
           f == Top.node
           key == Min(calls[m].left)
<1>1. calls \in Seq(Frame) /\ Len(calls) \in Nat /\ DOMAIN calls = 1..Len(calls)
  BY DEF Types
<1>2. m \in Nat /\ Len(calls) = m + 1 /\ m \in 1..m /\ m \in 1..(m + 1) /\ m + 1 \in 1..(m + 1)
  BY <1>1
<1>3. Top = calls[m + 1]
  BY <1>2 DEF Top
<1> HIDE DEF m
<1>4. DOMAIN calls = 1..(m + 1)
  BY <1>1, <1>2
<1>5. /\ Front(calls) \in Seq(Frame) /\ Len(Front(calls)) = m /\ DOMAIN Front(calls) = 1..m
      /\ \A d \in 1..m : Front(calls)[d] = calls[d]
  BY <1>1, <1>2 DEF Front
<1>6. calls[m] \in Frame
  BY <1>1, <1>2
<1>7. calls' = [Front(calls) EXCEPT ![m] = [calls[m] EXCEPT !.left = @ \ {key}]]
  BY <1>2, <1>5 DEF m
<1>8. [calls[m] EXCEPT !.left = @ \ {key}] \in Frame
  BY <1>6 DEF Frame
<1>9. /\ calls' \in Seq(Frame) /\ Len(calls') = m /\ DOMAIN calls' = 1..m
      /\ calls'[m] = [calls[m] EXCEPT !.left = @ \ {key}]
      /\ \A d \in 1..m : d # m => calls'[d] = calls[d]
  <2> DEFINE frames == Front(calls)
             frame  == [calls[m] EXCEPT !.left = @ \ {key}]
  <2> HIDE DEF frames, frame
  <2>1. calls' = [frames EXCEPT ![m] = frame] /\ frame \in Frame
    BY <1>7, <1>8 DEF frames, frame
  <2>2. frames \in Seq(Frame) /\ Len(frames) = m /\ DOMAIN frames = 1..m
    BY <1>5 DEF frames
  <2>3. calls' \in Seq(Frame) /\ Len(calls') = m /\ DOMAIN calls' = 1..m
    <3>1. m \in Nat
      BY <1>2
    <3>2. frames \in [1..m -> Frame]
      BY <2>2
    <3>3. calls' \in [1..m -> Frame]
      BY <2>1, <3>2
    <3> QED BY <3>1, <3>3, FunctionIsSequence
  <2>4. calls'[m] = frame /\ \A d \in 1..m : d # m => calls'[d] = frames[d]
    BY <1>2, <2>1, <2>2
  <2> QED BY <1>5, <2>3, <2>4 DEF frames, frame
<1>10. calls'[m].node = calls[m].node /\ calls'[m].left = calls[m].left \ {key}
  BY <1>6, <1>9 DEF Frame
<1>11. \A d \in 1..m : calls'[d].node = calls[d].node /\ calls'[d].left \subseteq calls[d].left
  BY <1>9, <1>10
<1>12. f = Target(calls[m].node, key)
  BY <1>2, <1>3 DEF Framed, m
<1>13. /\ \A u : u # calls[m].node => Handled(u)' = Handled(u)
       /\ \A u : Handled(u)' \subseteq Handled(u) \cup {f}
  <2> SUFFICES ASSUME NEW u
               PROVE  /\ u # calls[m].node => Handled(u)' = Handled(u)
                      /\ Handled(u)' \subseteq Handled(u) \cup {f}
    OBVIOUS
  <2> DEFINE Done(k)  == \A d \in DOMAIN calls : calls[d].node = u => k \notin calls[d].left
             After(k) == \A d \in DOMAIN calls' : calls'[d].node = u => k \notin calls'[d].left
  <2>1. Handled(u) = {Target(u, k) : k \in {j \in KeysOf(pass, u) : Done(j)}}
    BY DEF Handled
  <2>2. Handled(u)' = {Target(u, k) : k \in {j \in KeysOf(pass, u) : After(j)}}
    BY SameGraph DEF Handled
  <2>3. \A k : Done(k) <=> \A d \in 1..m : calls[d].node = u => k \notin calls[d].left
    BY <1>2, <1>3, <1>4
  <2>4. \A k : After(k) <=> \A d \in 1..m : calls[d].node = u => k \notin calls'[d].left
    BY <1>9, <1>11
  <2> HIDE DEF Done, After
  <2>5. u # calls[m].node => \A k : After(k) <=> Done(k)
    BY <1>9, <2>3, <2>4
  <2>6. u = calls[m].node => \A k : After(k) => Done(k) \/ k = key
    BY <1>9, <1>10, <2>3, <2>4
  <2> QED BY <1>12, <2>1, <2>2, <2>5, <2>6
<1> QED BY <1>2, <1>4, <1>9, <1>11, <1>13 DEF m

\* low # index: the callee stays on the stack, and so does what it reached.
LEMMA LeaveOpenKeepsInv ==
  ASSUME TarjanInv, LeaveOpen
  PROVE  TarjanInv'
<1> DEFINE m == Len(calls) - 1
           f == Top.node
           p == calls[m].node
<1>0. Types /\ Stacked /\ Framed
  BY DEF TarjanInv
<1>1. /\ Tables' = Tables /\ Graph' = Graph
      /\ \A t, k : Target(t, k)' = Target(t, k)
      /\ \A t : KeysOf(pass, t)' = KeysOf(pass, t)
  BY SameGraph DEF LeaveOpen
<1>2. Len(calls) # 1 /\ Len(calls) > 1
  <2>1. calls \in Seq(Frame) /\ calls # <<>>
    BY <1>0 DEF Types, LeaveOpen
  <2>2. Len(calls) \in Nat /\ Len(calls) # 0
    BY <2>1
  <2>3. Len(calls) # 1
    BY FirstFrameCloses DEF LeaveOpen
  <2> DEFINE n == Len(calls)
  <2> HIDE DEF n
  <2>4. n > 1
    <3>1. n \in Nat /\ n # 0 /\ n # 1
      BY <2>2, <2>3 DEF n
    <3> QED BY <3>1
  <2> QED BY <2>3, <2>4 DEF n
<1>3. /\ low' = [low EXCEPT ![p] = MinOf(@, low[f])]
      /\ calls' = [Front(calls) EXCEPT ![Len(calls) - 1].left = @ \ {Min(@)}]
  <2>1. Return /\ Len(calls) # 1
    BY <1>2 DEF LeaveOpen
  <2> QED BY <2>1 DEF Return
<1>4. Top.left = {} /\ low[f] # index[f]
  BY DEF LeaveOpen
<1>5. UNCHANGED <<entities, pass, root, index, on_stack, stack, next, components>>
  BY DEF LeaveOpen
<1>6. /\ m \in Nat /\ m \in 1..m /\ DOMAIN calls = 1..(m + 1)
      /\ Len(calls') = m /\ DOMAIN calls' = 1..m /\ calls' \in Seq(Frame)
      /\ \A d \in 1..m : calls'[d].node = calls[d].node /\ calls'[d].left \subseteq calls[d].left
      /\ \A d \in 1..m : d # m => calls'[d] = calls[d]
      /\ \A u : u # calls[m].node => Handled(u)' = Handled(u)
      /\ \A u : Handled(u)' \subseteq Handled(u) \cup {f}
  BY <1>0, <1>2, <1>3, <1>4, <1>5, ReturnFrames
<1>7. m \in Nat /\ Len(calls) = m + 1 /\ f = calls[m + 1].node
  BY <1>0, <1>2 DEF Types, Top
<1>8. \A d \in 1..(m + 1) : calls[d].node \in Waiting
  BY <1>0, <1>6 DEF Framed
<1>9. p \in Waiting /\ f \in Waiting
  <2>1. m \in 1..(m + 1) /\ m + 1 \in 1..(m + 1)
    BY <1>2, <1>7
  <2> QED BY <1>7, <1>8, <2>1
<1>10. Waiting' = Waiting /\ Gone' = Gone
  BY <1>5 DEF Waiting, Gone
<1>11. \A u \in Waiting : u \in Tables /\ index[u] \in Nat /\ low[u] \in Nat
  BY <1>0, OnStack
<1> HIDE DEF m
<1>12. index[p] < index[f]
  <2>1. m \in 1..(m + 1) /\ m + 1 \in 1..(m + 1) /\ m < m + 1
    BY <1>6, <1>7
  <2> QED BY <1>0, <1>6, <1>7, <2>1 DEF Framed
<1>13. /\ low' \in [Tables -> Nat]
       /\ \A u \in Waiting : u # p => low'[u] = low[u]
       /\ low'[p] \in Nat /\ low'[p] <= low[p] /\ low'[p] <= low[f]
       /\ low'[p] # low[p] => low'[p] = low[f]
  <2> DEFINE least == MinOf(low[p], low[f])
  <2>1. least \in Nat /\ least <= low[p] /\ least <= low[f] /\ (least # low[p] => least = low[f])
    BY <1>9, <1>11 DEF MinOf
  <2>2. low' = [low EXCEPT ![p] = least] /\ low \in [Tables -> Nat] /\ p \in Tables
    BY <1>0, <1>3, <1>9, <1>11 DEF Types
  <2> HIDE DEF least
  <2> QED BY <1>11, <2>1, <2>2
<1>14. \A u : \A d \in 1..m : Before(u, d)' => d = m \/ Before(u, d)
  <2> SUFFICES ASSUME NEW u, NEW d \in 1..m, d # m, Before(u, d)' PROVE Before(u, d)
    OBVIOUS
  <2>1. d # Len(calls) /\ d + 1 \in 1..m
    BY <1>7
  <2>2. d # Len(calls') /\ calls'[d + 1].node = calls[d + 1].node
    BY <1>6, <2>1
  <2> QED BY <1>5, <2>1, <2>2 DEF Before
<1>15. \A u \in Waiting : /\ Before(u, m) <=> index[u] < index[f]
                          /\ Before(u, m + 1)
  BY <1>7 DEF Before
<1>16. Types'
  BY <1>0, <1>1, <1>5, <1>6, <1>13 DEF Types, Frame
<1>17. Stacked' /\ Looped'
  BY <1>1, <1>5, <1>10 DEF TarjanInv, Stacked, Looped
<1>18. Framed'
  <2>1. \A d \in DOMAIN calls' : /\ calls'[d].node \in Waiting'
                                 /\ calls'[d].left \subseteq KeysOf(pass, calls[d].node)'
    <3>1. \A d \in 1..m : d \in 1..(m + 1)
      BY <1>7
    <3>2. \A d \in 1..m : calls[d].left \subseteq KeysOf(pass, calls[d].node)
      BY <1>0, <1>6, <3>1 DEF Framed
    <3> QED BY <1>1, <1>6, <1>8, <1>10, <3>1, <3>2
  <2>2. \A d \in 1..(Len(calls') - 1) :
          /\ calls'[d].left # {}
          /\ calls'[d + 1].node = Target(calls[d].node, Min(calls[d].left))'
    <3>1. \A d \in 1..m : /\ calls[d].left # {}
                          /\ calls[d + 1].node = Target(calls[d].node, Min(calls[d].left))
      BY <1>0 DEF Framed, m
    <3>2. \A d \in 1..(m - 1) : d \in 1..m /\ d # m /\ d + 1 \in 1..m
      BY <1>7
    <3> QED BY <1>1, <1>6, <3>1, <3>2
  <2>3. \A d, e \in DOMAIN calls' : d < e => index'[calls'[d].node] < index'[calls'[e].node]
    <3>1. \A d \in 1..m : d \in 1..(m + 1)
      BY <1>7
    <3> QED BY <1>0, <1>5, <1>6, <3>1 DEF Framed
  <2>4. 1 \in 1..m /\ calls # <<>> /\ calls' # <<>>
    BY <1>2, <1>6, <1>7
  <2>5. stack' # <<>> /\ calls'[1].node = stack'[1]
    BY <1>0, <1>5, <1>6, <2>4 DEF Framed
  <2> QED BY <2>1, <2>2, <2>3, <2>4, <2>5 DEF Framed
<1>19. PICK v \in Waiting : index[v] = low[f] /\ Reaches(f, v, Graph) /\ low[f] < index[f]
  BY <1>4, <1>9, <1>11 DEF TarjanInv, LowReached
<1>20. Connected'
  <2> SUFFICES ASSUME NEW d \in 1..m, NEW u \in Waiting
               PROVE  /\ Before(u, d)' => Reaches(u, calls[d].node, Graph)
                      /\ index[calls[d].node] <= index[u] => Reaches(calls[d].node, u, Graph)
    BY <1>1, <1>5, <1>6, <1>10 DEF Connected
  <2>1. d \in DOMAIN calls
    BY <1>6, <1>7
  <2>2. Before(u, d) => Reaches(u, calls[d].node, Graph)
    BY <2>1 DEF TarjanInv, Connected
  <2>3. d = m => Reaches(u, calls[d].node, Graph)
    <3>1. m \in DOMAIN calls /\ m + 1 \in DOMAIN calls
      BY <1>6, <1>7
    <3>2. Reaches(u, f, Graph)
      BY <1>7, <1>15, <3>1 DEF TarjanInv, Connected
    <3>3. Reaches(v, p, Graph)
      BY <1>15, <1>19, <3>1 DEF TarjanInv, Connected
    <3> QED BY <1>19, <3>2, <3>3, ReachesOn
  <2>4. index[calls[d].node] <= index[u] => Reaches(calls[d].node, u, Graph)
    BY <2>1 DEF TarjanInv, Connected
  <2> QED BY <1>14, <2>2, <2>3, <2>4
<1>21. LowReached'
  <2> SUFFICES ASSUME NEW u \in Waiting
               PROVE  /\ low'[u] <= index[u]
                      /\ \E w \in Waiting : index[w] = low'[u] /\ Reaches(u, w, Graph)
    BY <1>1, <1>5, <1>10 DEF LowReached
  <2>1. /\ low[u] <= index[u]
        /\ \E w \in Waiting : index[w] = low[u] /\ Reaches(u, w, Graph)
    BY DEF TarjanInv, LowReached
  <2>2. Reaches(p, v, Graph)
    <3>1. m \in DOMAIN calls
      BY <1>6, <1>7
    <3>2. Reaches(p, f, Graph)
      BY <1>9, <1>11, <1>12, <3>1 DEF TarjanInv, Connected
    <3> QED BY <1>19, <3>2, ReachesOn
  <2>3. low'[u] # low[u] => u = p /\ low'[u] = index[v]
    BY <1>13, <1>19
  <2>4. low'[u] <= low[u] /\ low'[u] \in Nat
    BY <1>11, <1>13
  <2> QED BY <1>11, <1>19, <2>1, <2>2, <2>3, <2>4
<1>22. LowCovers'
  <2>1. ASSUME NEW u \in Waiting, NEW w \in Handled(u)' \cap Waiting PROVE low'[u] <= index[w]
    <3>1. w \in Handled(u) => low[u] <= index[w]
      BY <2>1 DEF TarjanInv, LowCovers
    <3>2. CASE u # p
      <4>1. w \in Handled(u)
        BY <1>6, <2>1, <3>2
      <4> QED BY <1>13, <3>1, <3>2, <4>1
    <3>3. CASE u = p
      <4>1. w \in Handled(u) \/ w = f
        BY <1>6, <2>1
      <4>2. low[f] <= index[f]
        BY <1>19, <1>9, <1>11
      <4> QED BY <1>9, <1>11, <1>13, <2>1, <3>1, <3>3, <4>1, <4>2
    <3> QED BY <3>2, <3>3
  <2>2. ASSUME NEW d \in 1..m, NEW u \in Waiting, index[calls[d].node] <= index[u], Before(u, d)'
        PROVE  low'[calls[d].node] <= low'[u]
    <3>1. d \in DOMAIN calls /\ calls[d].node \in Waiting
      BY <1>6, <1>7, <1>8
    <3>2. Before(u, d) => low[calls[d].node] <= low[u]
      BY <2>2, <3>1 DEF TarjanInv, LowCovers
    <3>3. CASE d = m
      <4>1. u = p => low'[p] <= low'[u]
        BY <1>13
      <4>2. Before(u, m) => low[p] <= low[u]
        BY <3>2, <3>3
      <4>3. ~Before(u, m) => low[f] <= low[u]
        <5> HAVE ~Before(u, m)
        <5>1. index[f] <= index[u]
          BY <1>9, <1>11, <1>15
        <5>2. m + 1 \in DOMAIN calls
          BY <1>6, <1>7
        <5> QED BY <1>7, <1>15, <5>1, <5>2 DEF TarjanInv, LowCovers
      <4> QED BY <1>9, <1>11, <1>13, <3>3, <4>1, <4>2, <4>3
    <3>4. CASE d # m
      <4>1. d + 1 \in 1..m /\ d < m /\ m \in DOMAIN calls /\ d + 1 \in DOMAIN calls
        BY <1>6, <1>7, <3>4
      <4>2. Before(u, d) /\ calls[d].node # p
        <5>1. index[calls[d].node] < index[p]
          BY <1>0, <3>1, <4>1 DEF Framed
        <5> QED BY <1>9, <1>11, <1>14, <2>2, <3>4, <5>1
      <4>3. u # p
        <5>1. index[u] < index[calls[d + 1].node]
          BY <1>7, <2>2, <4>1, <4>2 DEF Before
        <5>2. d + 1 = m \/ d + 1 < m
          BY <1>7, <4>1
        <5>3. d + 1 = m \/ index[calls[d + 1].node] < index[p]
          BY <1>0, <4>1, <5>2 DEF Framed
        <5>4. calls[d + 1].node \in Waiting
          BY <1>6, <1>8, <4>1
        <5> QED BY <1>9, <1>11, <5>1, <5>3, <5>4
      <4> QED BY <1>13, <3>1, <3>2, <4>2, <4>3
    <3> QED BY <3>3, <3>4
  <2> QED BY <1>5, <1>6, <1>10, <2>1, <2>2 DEF LowCovers
<1>23. HandledSeen'
  BY <1>6, <1>9, <1>10 DEF TarjanInv, HandledSeen
<1>24. PoppedForGood' /\ WholeGroups' /\ StuckSeen'
  BY <1>1, <1>5, <1>10 DEF TarjanInv, PoppedForGood, WholeGroups, StuckSeen, Graph, Gone
<1> QED BY <1>16, <1>17, <1>18, <1>20, <1>21, <1>22, <1>23, <1>24 DEF TarjanInv

-----------------------------------------------------------------------------
(* low = index: what lies above the callee on the stack is a group.        *)

\* A table is on the stack once, and the indices tell what is above it.
LEMMA AboveOnStack ==
  ASSUME Types, Stacked, NEW f \in Waiting
  PROVE  LET at == SelectLastInSeq(stack, LAMBDA t : t = f) IN
         /\ at \in 1..Len(stack) /\ at \in Nat /\ stack[at] = f
         /\ ToSet(SubSeq(stack, at, Len(stack))) = {u \in Waiting : index[f] <= index[u]}
         /\ ToSet(SubSeq(stack, 1, at - 1)) = {u \in Waiting : index[u] < index[f]}
         /\ SubSeq(stack, 1, at - 1) \in Seq(Tables)
         /\ DOMAIN SubSeq(stack, 1, at - 1) = 1..(at - 1)
         /\ \A i \in 1..(at - 1) : SubSeq(stack, 1, at - 1)[i] = stack[i]
<1> DEFINE n == Len(stack)
           I == {i \in 1..n : stack[i] = f}
           at == SelectLastInSeq(stack, LAMBDA t : t = f)
<1>1. stack \in Seq(Tables) /\ n \in Nat /\ DOMAIN stack = 1..n
  BY DEF Types
<1>2. PICK i \in 1..n : stack[i] = f
  BY <1>1 DEF Waiting, ToSet
<1>3. \A u \in Waiting : index[u] \in Nat
  BY OnStack
<1>4. \A j \in 1..n : stack[j] \in Waiting /\ index[stack[j]] \in Nat
  BY <1>1, <1>3 DEF Waiting, ToSet
<1>5. i \in Nat /\ \A j \in 1..n : j \in Nat
  BY <1>1
<1>6. \A j \in 1..n : /\ j < i => index[stack[j]] < index[f]
                      /\ i < j => index[f] < index[stack[j]]
  BY <1>1, <1>2 DEF Stacked
<1>7. \A j \in 1..n : j < i <=> index[stack[j]] < index[f]
  <2> SUFFICES ASSUME NEW j \in 1..n PROVE j < i <=> index[stack[j]] < index[f]
    OBVIOUS
  <2>1. j < i \/ j = i \/ i < j
    BY <1>5
  <2> QED BY <1>2, <1>4, <1>5, <1>6, <2>1
<1>8. I = {i}
  <2>1. \A j \in I : ~(j < i) /\ ~(i < j)
    BY <1>2, <1>4, <1>6
  <2>2. \A j \in I : j \in Nat
    BY <1>5
  <2>3. i \in I
    BY <1>2
  <2> HIDE DEF I
  <2>4. \A j \in I : j = i
    BY <1>5, <2>1, <2>2
  <2> QED BY <2>3, <2>4
<1>9. at = i
  <2>1. at = IF I # {} THEN Max(I) ELSE 0
    BY DEF SelectLastInSeq
  <2>2. Max({i}) = i
    BY <1>5 DEF Max
  <2> QED BY <1>8, <2>1, <2>2
<1>10. /\ SubSeq(stack, 1, i - 1) \in Seq(Tables)
       /\ DOMAIN SubSeq(stack, 1, i - 1) = 1..(i - 1)
       /\ \A j \in 1..(i - 1) : SubSeq(stack, 1, i - 1)[j] = stack[j]
  BY <1>1, <1>2
<1>11. ToSet(SubSeq(stack, 1, i - 1)) = {stack[j] : j \in 1..(i - 1)}
  BY <1>10 DEF ToSet
<1>12. ToSet(SubSeq(stack, i, n)) = {stack[j] : j \in i..n}
  <2>1. DOMAIN SubSeq(stack, i, n) = 1..(n - i + 1)
    BY <1>1, <1>2
  <2>2. \A j \in 1..(n - i + 1) : SubSeq(stack, i, n)[j] = stack[j + i - 1] /\ j + i - 1 \in i..n
    BY <1>1, <1>2
  <2>3. \A j \in i..n : j - i + 1 \in 1..(n - i + 1) /\ SubSeq(stack, i, n)[j - i + 1] = stack[j]
    BY <1>1, <1>2
  <2> DEFINE above == SubSeq(stack, i, n)
             K == 1..(n - i + 1)
  <2> HIDE DEF above, K
  <2>4. /\ ToSet(above) = {above[j] : j \in K}
        /\ \A j \in K : above[j] = stack[j + i - 1] /\ j + i - 1 \in i..n
        /\ \A j \in i..n : \E k \in K : above[k] = stack[j]
    BY <2>1, <2>2, <2>3 DEF ToSet, above, K
  <2>5. ToSet(above) = {stack[j] : j \in i..n}
    BY <2>4
  <2> QED BY <2>5 DEF above
<1>13. Waiting = {stack[j] : j \in 1..n}
  BY <1>1 DEF Waiting, ToSet
<1>14. /\ \A j \in 1..(i - 1) : j \in 1..n /\ j < i
       /\ \A j \in i..n : j \in 1..n /\ ~(j < i)
       /\ \A j \in 1..n : IF j < i THEN j \in 1..(i - 1) ELSE j \in i..n
  BY <1>1, <1>2
<1>15. \A j \in 1..n : index[f] <= index[stack[j]] <=> ~(j < i)
  <2>1. index[f] \in Nat
    BY <1>3
  <2> QED BY <1>4, <1>7, <2>1
<1>16. ToSet(SubSeq(stack, i, n)) = {u \in Waiting : index[f] <= index[u]}
  BY <1>12, <1>13, <1>14, <1>15
<1>17. ToSet(SubSeq(stack, 1, i - 1)) = {u \in Waiting : index[u] < index[f]}
  BY <1>7, <1>11, <1>13, <1>14
<1> HIDE DEF at
<1>18. /\ at \in 1..Len(stack) /\ at \in Nat /\ stack[at] = f
       /\ ToSet(SubSeq(stack, at, Len(stack))) = {u \in Waiting : index[f] <= index[u]}
       /\ ToSet(SubSeq(stack, 1, at - 1)) = {u \in Waiting : index[u] < index[f]}
       /\ SubSeq(stack, 1, at - 1) \in Seq(Tables)
       /\ DOMAIN SubSeq(stack, 1, at - 1) = 1..(at - 1)
       /\ \A j \in 1..(at - 1) : SubSeq(stack, 1, at - 1)[j] = stack[j]
  BY <1>2, <1>5, <1>9, <1>10, <1>16, <1>17
<1> QED BY <1>18 DEF at

\* visit ends at the root of a component and pops it.
LEMMA PopComponentKeepsInv ==
  ASSUME TarjanInv, PopComponent
  PROVE  TarjanInv'
<1> DEFINE m == Len(calls) - 1
           f == Top.node
           p == calls[m].node
           at == SelectLastInSeq(stack, LAMBDA t : t = f)
           popped == {u \in Waiting : index[f] <= index[u]}
<1>0. Types /\ Stacked /\ Framed
  BY DEF TarjanInv
<1>1. /\ Tables' = Tables /\ Graph' = Graph
      /\ \A t, k : Target(t, k)' = Target(t, k)
      /\ \A t : KeysOf(pass, t)' = KeysOf(pass, t)
  BY SameGraph DEF PopComponent
<1>2. Top.left = {} /\ low[f] = index[f] /\ UNCHANGED <<entities, pass, root, index, next>>
  BY DEF PopComponent
<1>3. /\ m \in Nat /\ Len(calls) = m + 1 /\ DOMAIN calls = 1..(m + 1) /\ m + 1 \in 1..(m + 1)
      /\ Top = calls[m + 1]
  <2>1. calls \in Seq(Frame) /\ calls # <<>>
    BY <1>0 DEF Types, PopComponent
  <2>2. m \in Nat /\ Len(calls) = m + 1 /\ DOMAIN calls = 1..(m + 1) /\ m + 1 \in 1..(m + 1)
    BY <2>1
  <2> QED BY <2>2 DEF Top
<1>4. m \in Nat
  BY <1>3
<1>5. \A d \in 1..(m + 1) : calls[d].node \in Waiting
  BY <1>0, <1>3 DEF Framed
<1>6. f \in Waiting
  BY <1>3, <1>5
<1>7. \A u \in Waiting : u \in Tables /\ index[u] \in Nat /\ low[u] \in Nat
  BY <1>0, OnStack
<1>8. \A d \in 1..m : d \in 1..(m + 1) /\ calls[d].node \in Waiting /\ index[calls[d].node] < index[f]
  <2>1. \A d \in 1..m : d \in 1..(m + 1) /\ d < m + 1
    BY <1>4
  <2> QED BY <1>0, <1>3, <1>5, <2>1 DEF Framed
<1>9. /\ at \in 1..Len(stack) /\ at \in Nat /\ stack[at] = f
      /\ ToSet(SubSeq(stack, at, Len(stack))) = popped
      /\ ToSet(SubSeq(stack, 1, at - 1)) = {u \in Waiting : index[u] < index[f]}
      /\ SubSeq(stack, 1, at - 1) \in Seq(Tables)
      /\ DOMAIN SubSeq(stack, 1, at - 1) = 1..(at - 1)
      /\ \A i \in 1..(at - 1) : SubSeq(stack, 1, at - 1)[i] = stack[i]
  BY <1>0, <1>6, AboveOnStack
<1>10. /\ stack' = SubSeq(stack, 1, at - 1)
       /\ on_stack' = [t \in Tables |-> on_stack[t] /\ t \notin popped]
       /\ components' = components \cup {popped}
  BY <1>9 DEF PopComponent
<1> HIDE DEF at, m
<1>11. /\ Waiting' = {u \in Waiting : index[u] < index[f]}
       /\ Gone' = Gone \cup popped
  BY <1>9, <1>10 DEF Waiting, Gone
<1>12. Waiting = Waiting' \cup popped /\ Waiting' \cap popped = {} /\ f \in popped
  BY <1>6, <1>7, <1>11
<1>13. /\ low' = low
       /\ Len(calls') = m /\ DOMAIN calls' = 1..m /\ calls' \in Seq(Frame)
       /\ \A d \in 1..m : calls'[d].node = calls[d].node /\ calls'[d].left \subseteq calls[d].left
       /\ \A d \in 1..m : d # m => calls'[d] = calls[d]
       /\ m # 0 => /\ \A u : u # p => Handled(u)' = Handled(u)
                   /\ \A u : Handled(u)' \subseteq Handled(u) \cup {f}
  <2>1. CASE m = 0
    <3>1. Len(calls) = 1
      BY <1>3, <2>1
    <3>2. calls' = <<>> /\ low' = low
      BY <3>1 DEF PopComponent, Return
    <3>3. Len(calls') = 0 /\ DOMAIN calls' = 1..0 /\ calls' \in Seq(Frame)
      BY <3>2
    <3>4. \A d : d \notin 1..0
      OBVIOUS
    <3> QED BY <2>1, <3>2, <3>3, <3>4
  <2>2. CASE m # 0
    <3>1. m > 0 /\ m \in 1..m
      BY <1>4, <2>2
    <3>2. Len(calls) # 1 /\ Len(calls) > 1
      BY <1>3, <1>4, <3>1
    <3>3. Return /\ Len(calls) # 1
      BY <3>2 DEF PopComponent
    <3>4. /\ low' = [low EXCEPT ![p] = MinOf(@, low[f])]
          /\ calls' = [Front(calls) EXCEPT ![Len(calls) - 1].left = @ \ {Min(@)}]
      BY <3>3 DEF Return, m
    <3>5. p \in Waiting /\ index[p] < index[f]
      BY <1>8, <3>1
    <3>6. low' = low
      <4>1. low[p] <= index[p]
        BY <3>5 DEF TarjanInv, LowReached
      <4>2. MinOf(low[p], low[f]) = low[p]
        BY <1>2, <1>6, <1>7, <3>5, <4>1 DEF MinOf
      <4>3. low \in [Tables -> Nat] /\ p \in Tables
        BY <1>0, <1>7, <3>5 DEF Types
      <4> QED BY <3>4, <4>2, <4>3
    <3> QED BY <1>0, <1>2, <3>2, <3>4, <3>6, ReturnFrames DEF m
  <2> QED BY <2>1, <2>2
<1>14. \A u \in Waiting' : u \in Waiting /\ u \in Tables /\ index[u] < index[f] /\ u # f
  BY <1>7, <1>11
<1>15. m = 0 => Waiting' = {}
  <2> HAVE m = 0
  <2>1. 1 \in 1..(m + 1) /\ calls # <<>> /\ f = calls[1].node
    BY <1>3
  <2>2. f = stack[1] /\ 1 \in DOMAIN stack
    BY <1>0, <2>1 DEF Framed, Types
  <2>3. \A i \in DOMAIN stack : i = 1 \/ 1 < i
    BY <1>0 DEF Types
  <2>4. \A i \in DOMAIN stack : i = 1 \/ index[f] < index[stack[i]]
    BY <1>0, <2>2, <2>3 DEF Stacked
  <2>5. \A u \in Waiting : u = f \/ index[f] < index[u]
    BY <2>2, <2>4 DEF Waiting, ToSet
  <2> QED BY <1>6, <1>7, <1>14, <2>5
<1>16. \A u \in Waiting' : \A d \in 1..m : Before(u, d)' => Before(u, d)
  <2> SUFFICES ASSUME NEW u \in Waiting', NEW d \in 1..m, Before(u, d)' PROVE Before(u, d)
    OBVIOUS
  <2>1. CASE d = m
    BY <1>3, <1>14, <2>1 DEF Before
  <2>2. CASE d # m
    <3>1. d + 1 \in 1..m /\ d # Len(calls')
      BY <1>4, <1>13, <2>2
    <3>2. index[u] < index[calls[d + 1].node]
      BY <1>2, <1>13, <3>1 DEF Before
    <3> QED BY <3>2 DEF Before
  <2> QED BY <2>1, <2>2
<1>17. \A u \in Waiting' : /\ Handled(u)' \subseteq Handled(u) \cup {f}
                           /\ Handled(u)' \cap Waiting' \subseteq Handled(u)
  BY <1>13, <1>14, <1>15
<1>18. \A u \in popped : Graph[u] \subseteq popped \cup Gone
  <2> SUFFICES ASSUME NEW u \in popped, NEW w \in Graph[u] PROVE w \in popped \cup Gone
    OBVIOUS
  <2>1. \A d \in DOMAIN calls : calls[d].node = u => calls[d].left = {}
    <3> SUFFICES ASSUME NEW d \in 1..(m + 1), calls[d].node = u PROVE calls[d].left = {}
      BY <1>3
    <3>1. d = m + 1 \/ d \in 1..m
      BY <1>4
    <3>2. d \notin 1..m
      BY <1>6, <1>7, <1>8
    <3> QED BY <1>2, <1>3, <3>1, <3>2
  <2>2. w \in Handled(u)
    BY <1>7, <2>1, GraphShape DEF Handled
  <2>3. w \in Waiting \cup Gone
    BY <2>2 DEF TarjanInv, HandledSeen
  <2>4. w \in Waiting => low[u] <= index[w]
    BY <2>2 DEF TarjanInv, LowCovers
  <2>5. low[f] <= low[u]
    <3>1. Before(u, m + 1) /\ m + 1 \in DOMAIN calls /\ f = calls[m + 1].node
      BY <1>3 DEF Before
    <3> QED BY <3>1 DEF TarjanInv, LowCovers
  <2> QED BY <1>2, <1>6, <1>7, <2>3, <2>4, <2>5
<1>19. popped \subseteq Tables /\ Gone \subseteq Tables
  BY <1>0, <1>7 DEF Types, Gone
<1>20. DOMAIN Graph = Tables /\ Closed(Gone, Graph) /\ Closed(Gone \cup popped, Graph)
  <2>1. \A x \in Gone : Graph[x] \subseteq Gone
    BY DEF TarjanInv, PoppedForGood, Gone, Graph
  <2> QED BY <1>18, <2>1, GraphShape DEF Closed
<1>21. \A x \in popped : popped = Group(x, Graph)
  <2> SUFFICES ASSUME NEW x \in popped PROVE popped = Group(x, Graph)
    OBVIOUS
  <2>1. \A u \in popped : Reaches(u, f, Graph) /\ Reaches(f, u, Graph)
    <3>1. \A u : Before(u, m + 1)
      BY <1>3 DEF Before
    <3>2. m + 1 \in DOMAIN calls /\ f = calls[m + 1].node
      BY <1>3
    <3> QED BY <3>1, <3>2 DEF TarjanInv, Connected
  <2>2. \A y \in popped : y \in Group(x, Graph)
    BY <1>19, <1>20, <2>1, ReachesOn DEF Group
  <2>3. ASSUME NEW y \in Group(x, Graph) PROVE y \in popped
    <3> HIDE DEF popped
    <3>1. Reaches(x, y, Graph) /\ Reaches(y, x, Graph)
      BY <2>3 DEF Group
    <3>2. y \in Gone \cup popped
      BY <1>19, <1>20, <3>1, ReachesInside
    <3>3. y \in Gone => x \in Gone
      BY <1>19, <1>20, <3>1, ReachesInside
    <3>4. x \notin Gone
      BY <1>0, <1>12 DEF Stacked
    <3> QED BY <3>2, <3>3, <3>4
  <2> QED BY <2>2, <2>3
<1>22. Types'
  <2>1. on_stack' \in [Tables -> BOOLEAN]
    BY <1>10
  <2>2. components' \subseteq SUBSET Tables
    BY <1>0, <1>10, <1>19 DEF Types
  <2> QED BY <1>0, <1>1, <1>2, <1>9, <1>10, <1>13, <2>1, <2>2 DEF Types, Frame
<1>23. Stacked'
  <2>1. \A t \in Tables : index[t] # None <=> t \in Waiting' \/ t \in Gone'
    BY <1>0, <1>11, <1>12 DEF Stacked
  <2>2. Waiting' \cap Gone' = {}
    BY <1>0, <1>11, <1>12 DEF Stacked
  <2>3. \A t \in Tables : on_stack'[t] <=> t \in Waiting'
    BY <1>0, <1>10, <1>12 DEF Stacked
  <2>4. \A i \in 1..(at - 1) : i \in DOMAIN stack
    BY <1>0, <1>9 DEF Types
  <2>5. \A i, j \in DOMAIN stack' : i < j => index[stack'[i]] < index[stack'[j]]
    <3>1. DOMAIN stack' = 1..(at - 1) /\ \A i \in 1..(at - 1) : stack'[i] = stack[i]
      BY <1>9, <1>10
    <3>2. \A i, j \in DOMAIN stack : i < j => index[stack[i]] < index[stack[j]]
      BY <1>0 DEF Stacked
    <3> QED BY <2>4, <3>1, <3>2
  <2>6. \A t \in Waiting' : index[t] < next
    BY <1>0, <1>14 DEF Stacked
  <2> QED BY <1>1, <1>2, <2>1, <2>2, <2>3, <2>5, <2>6 DEF Stacked
<1>24. Looped'
  BY <1>1, <1>2 DEF TarjanInv, Looped
<1>25. Framed'
  <2>1. \A d \in DOMAIN calls' : /\ calls'[d].node \in Waiting'
                                 /\ calls'[d].left \subseteq KeysOf(pass, calls[d].node)'
    <3>1. \A d \in 1..m : calls[d].left \subseteq KeysOf(pass, calls[d].node)
      BY <1>0, <1>3, <1>8 DEF Framed
    <3> QED BY <1>1, <1>8, <1>11, <1>13, <3>1
  <2>2. \A d \in 1..(Len(calls') - 1) :
          /\ calls'[d].left # {}
          /\ calls'[d + 1].node = Target(calls[d].node, Min(calls[d].left))'
    <3>1. \A d \in 1..m : /\ calls[d].left # {}
                          /\ calls[d + 1].node = Target(calls[d].node, Min(calls[d].left))
      BY <1>0 DEF Framed, m
    <3>2. \A d \in 1..(m - 1) : d \in 1..m /\ d # m /\ d + 1 \in 1..m
      BY <1>4
    <3> QED BY <1>1, <1>13, <3>1, <3>2
  <2>3. \A d, e \in DOMAIN calls' : d < e => index'[calls'[d].node] < index'[calls'[e].node]
    BY <1>0, <1>2, <1>3, <1>8, <1>13 DEF Framed
  <2>4. CASE m = 0
    <3>1. calls' = <<>>
      BY <1>13, <2>4
    <3>2. stack' = <<>>
      <4>1. DOMAIN stack' = {}
        BY <1>15, <2>4 DEF Waiting, ToSet
      <4> QED BY <1>9, <1>10, <4>1
    <3> QED BY <2>1, <2>2, <2>3, <3>1, <3>2 DEF Framed
  <2>5. CASE m # 0
    <3>1. 1 \in 1..m
      BY <1>4, <2>5
    <3>2. calls' # <<>> /\ calls # <<>>
      BY <1>3, <1>13, <3>1
    <3>3. calls'[1].node = stack[1] /\ 1 \in DOMAIN stack
      BY <1>0, <1>13, <3>1, <3>2 DEF Framed, Types
    <3>4. at # 1
      BY <1>7, <1>8, <1>9, <1>13, <3>1, <3>3
    <3>5. 1 \in 1..(at - 1)
      BY <1>9, <3>4
    <3>6. stack' # <<>> /\ stack'[1] = stack[1]
      BY <1>9, <1>10, <3>5
    <3> QED BY <2>1, <2>2, <2>3, <3>2, <3>3, <3>6 DEF Framed
  <2> QED BY <2>4, <2>5
<1>26. Connected'
  <2> SUFFICES ASSUME NEW d \in 1..m, NEW u \in Waiting'
               PROVE  /\ Before(u, d)' => Reaches(u, calls[d].node, Graph)
                      /\ index[calls[d].node] <= index[u] => Reaches(calls[d].node, u, Graph)
    BY <1>1, <1>2, <1>13 DEF Connected
  <2>1. d \in DOMAIN calls /\ u \in Waiting
    BY <1>3, <1>8, <1>14
  <2> QED BY <1>16, <2>1 DEF TarjanInv, Connected
<1>27. LowReached'
  <2> SUFFICES ASSUME NEW u \in Waiting'
               PROVE  /\ low[u] <= index[u]
                      /\ \E w \in Waiting' : index[w] = low[u] /\ Reaches(u, w, Graph)
    BY <1>1, <1>2, <1>13 DEF LowReached
  <2>1. PICK w \in Waiting : index[w] = low[u] /\ Reaches(u, w, Graph)
    BY <1>14 DEF TarjanInv, LowReached
  <2>2. low[u] <= index[u]
    BY <1>14 DEF TarjanInv, LowReached
  <2>3. w \in Waiting'
    BY <1>6, <1>7, <1>11, <1>14, <2>1, <2>2
  <2> QED BY <2>1, <2>2, <2>3
<1>28. LowCovers'
  <2>1. ASSUME NEW u \in Waiting', NEW w \in Handled(u)' \cap Waiting' PROVE low[u] <= index[w]
    BY <1>14, <1>17, <2>1 DEF TarjanInv, LowCovers
  <2>2. ASSUME NEW d \in 1..m, NEW u \in Waiting', index[calls[d].node] <= index[u], Before(u, d)'
        PROVE  low[calls[d].node] <= low[u]
    <3>1. d \in DOMAIN calls /\ u \in Waiting /\ Before(u, d)
      BY <1>3, <1>8, <1>14, <1>16, <2>2
    <3> QED BY <2>2, <3>1 DEF TarjanInv, LowCovers
  <2> QED BY <1>2, <1>13, <2>1, <2>2 DEF LowCovers
<1>29. HandledSeen'
  <2>1. Waiting' \cup Gone' = Waiting \cup Gone
    BY <1>11, <1>12
  <2> QED BY <1>6, <1>14, <1>17, <2>1 DEF TarjanInv, HandledSeen
<1>30. PoppedForGood'
  <2>1. \A t \in Gone' : Graph'[t] \subseteq Gone'
    BY <1>1, <1>11, <1>20 DEF Closed
  <2> QED BY <2>1 DEF PoppedForGood, Graph, Gone
<1>31. WholeGroups'
  BY <1>1, <1>10, <1>12, <1>21 DEF TarjanInv, WholeGroups
<1>32. StuckSeen'
  <2> SUFFICES ASSUME NEW S \in SUBSET Tables, S \cap Gone' # {}, Stuck(S, Graph)
               PROVE  \E C \in components' : Cardinality(C) > 1 /\ C \cap S # {}
    BY <1>1 DEF StuckSeen
  <2>1. CASE S \cap Gone # {}
    BY <1>10, <2>1 DEF TarjanInv, StuckSeen
  <2>2. CASE S \cap Gone = {}
    <3>1. PICK x \in S : x \in popped
      BY <1>11, <2>2
    <3>2. PICK z \in S : z \in Graph[x] /\ z # x
      BY DEF Stuck
    <3>3. z \in popped
      BY <1>18, <2>2, <3>1, <3>2
    <3>4. IsFiniteSet(popped)
      BY <1>0, <1>19, SchemaShape, FS_Subset
    <3> HIDE DEF popped
    <3>5. Cardinality(popped) > 1
      BY <3>1, <3>2, <3>3, <3>4, TwoMembers
    <3> QED BY <1>10, <3>1, <3>5
  <2> QED BY <2>1, <2>2
<1> QED BY <1>22, <1>23, <1>24, <1>25, <1>26, <1>27, <1>28, <1>29, <1>30, <1>31, <1>32 DEF TarjanInv

-----------------------------------------------------------------------------
(* The loop, the ends of the two runs, and steps that change nothing here. *)

\* Within a run the graph does not change.
LEMMA OneGraph ==
  ASSUME UNCHANGED entities, pass' = "required" <=> pass = "required"
  PROVE  /\ Tables' = Tables /\ Graph' = Graph
         /\ \A t, k : Target(t, k)' = Target(t, k)
         /\ \A t : KeysOf(pass, t)' = KeysOf(pass, t)
<1>1. Tables' = Tables /\ \A t, k : Target(t, k)' = Target(t, k)
  BY DEF Tables, Target, PositionOf, SelectLastInSeq
<1>2. ASSUME NEW t PROVE KeysOf(pass, t)' = KeysOf(pass, t)
  BY <1>1 DEF KeysOf
<1> QED BY <1>1, <1>2 DEF Graph, Adjacency

\* Steps that move on without touching Tarjan's state.
LEMMA QuietKeepsInv ==
  ASSUME TarjanInv, UNCHANGED <<entities, calls, tarjan>>,
         pass' \in {"required", "all", "reported"}, pass' = "required" <=> pass = "required",
         root' \in Nat \ {0}, \A t \in Tables : t < root' => t < root \/ index[t] # None
  PROVE  TarjanInv'
<1>1. /\ Tables' = Tables /\ Graph' = Graph
      /\ \A t, k : Target(t, k)' = Target(t, k)
      /\ \A t : KeysOf(pass, t)' = KeysOf(pass, t)
  BY OneGraph
<1>2. UNCHANGED <<entities, calls, index, low, on_stack, stack, next, components>>
  BY DEF tarjan
<1>3. Waiting' = Waiting /\ Gone' = Gone
  BY <1>2 DEF Waiting, Gone
<1>4. \A u : Handled(u)' = Handled(u)
  BY <1>1, <1>2 DEF Handled
<1>5. \A u, d : Before(u, d)' <=> Before(u, d)
  BY <1>2 DEF Before
<1>6. Types'
  BY <1>1, <1>2 DEF TarjanInv, Types, Frame
<1>7. Stacked' /\ Looped' /\ HandledSeen'
  BY <1>1, <1>2, <1>3, <1>4 DEF TarjanInv, Stacked, Looped, HandledSeen
<1>8. Framed'
  BY <1>1, <1>2, <1>3 DEF TarjanInv, Framed
<1>9. Connected' /\ LowReached'
  BY <1>1, <1>2, <1>3, <1>5 DEF TarjanInv, Connected, LowReached
<1>10. LowCovers'
  BY <1>1, <1>2, <1>3, <1>4, <1>5 DEF TarjanInv, LowCovers
<1>11. PoppedForGood' /\ WholeGroups' /\ StuckSeen'
  BY <1>1, <1>2, <1>3 DEF TarjanInv, PoppedForGood, WholeGroups, StuckSeen, Graph, Gone
<1> QED BY <1>6, <1>7, <1>8, <1>9, <1>10, <1>11 DEF TarjanInv

\* The loop over the tables starts a visit or passes one by.
LEMMA NextRootKeepsInv ==
  ASSUME TarjanInv, NextRoot
  PROVE  TarjanInv'
<1>0. Types
  BY DEF TarjanInv
<1>1. /\ root \in Tables /\ root' = root + 1 /\ root' \in Nat \ {0}
      /\ \A t \in Tables : t < root' => t < root \/ t = root
  <2>1. Len(entities) \in Nat /\ Tables = 1..Len(entities)
    BY <1>0, SchemaShape
  <2>2. root \in Nat \ {0} /\ root <= Len(entities) /\ root' = root + 1
    BY <1>0 DEF Types, NextRoot
  <2> QED BY <2>1, <2>2
<1>2. CASE index[root] = None
  <2>1. Enter(root) /\ calls = <<>> /\ UNCHANGED <<entities, pass>>
    BY <1>2 DEF NextRoot
  <2> QED BY <1>1, <1>2, <2>1, EnterKeepsInv
<1>3. CASE index[root] # None
  <2>1. UNCHANGED <<entities, pass, calls, tarjan>>
    BY <1>3 DEF NextRoot
  <2>2. pass' \in {"required", "all", "reported"}
    BY <1>0, <2>1 DEF Types
  <2> QED BY <1>1, <1>3, <2>1, <2>2, QuietKeepsInv
<1> QED BY <1>2, <1>3

\* When the loop is over, the components are the groups.
LEMMA RunFindsGroups ==
  ASSUME TarjanInv, calls = <<>>, root > Len(entities)
  PROVE  /\ {C \in components : Cardinality(C) > 1} = MutualGroups(Graph)
         /\ Gone = Tables
<1>0. Types /\ Stacked /\ Framed
  BY DEF TarjanInv
<1>1. Waiting = {}
  BY <1>0 DEF Framed, Waiting, ToSet
<1>2. \A t \in Tables : t < root
  <2>1. Len(entities) \in Nat /\ Tables = 1..Len(entities) /\ root \in Nat
    BY <1>0, SchemaShape DEF Types
  <2> QED BY <2>1
<1>3. Gone = Tables
  BY <1>0, <1>1, <1>2 DEF TarjanInv, Looped, Stacked, Types, Gone
<1>4. components = {Group(x, Graph) : x \in Tables}
  <2>1. ASSUME NEW C \in components PROVE \E x \in Tables : C = Group(x, Graph)
    BY <1>0 DEF TarjanInv, WholeGroups, Types
  <2>2. ASSUME NEW x \in Tables PROVE Group(x, Graph) \in components
    BY <1>3 DEF TarjanInv, WholeGroups, Gone
  <2> QED BY <2>1, <2>2
<1> QED BY <1>3, <1>4, GraphShape DEF MutualGroups

\* The first run starts with nothing indexed.
LEMMA InitInv ==
  ASSUME Init
  PROVE  CycleInv
<1>1. Types
  BY DEF Init, Types, ForEach
<1>2. Waiting = {} /\ Gone = {}
  BY DEF Init, Waiting, ToSet, Gone
<1>3. Stacked
  BY <1>2 DEF Init, Stacked, ForEach
<1>4. Looped
  <2>1. \A t \in Tables : ~(t < 1)
    BY <1>1, SchemaShape
  <2> QED BY <2>1 DEF Init, Looped
<1>5. Framed
  BY DEF Init, Framed
<1>6. Connected /\ LowReached /\ LowCovers /\ HandledSeen
  BY <1>2 DEF Init, Connected, LowReached, LowCovers, HandledSeen
<1>7. PoppedForGood /\ WholeGroups /\ StuckSeen
  BY <1>2 DEF Init, PoppedForGood, WholeGroups, StuckSeen
<1>8. BlockedKnown /\ Reported
  BY DEF Init, BlockedKnown, Reported
<1> QED BY <1>1, <1>3, <1>4, <1>5, <1>6, <1>7, <1>8 DEF CycleInv, TarjanInv

\* The run over the NOT NULL references ends with all of their groups.
LEMMA FinishRequiredKeepsInv ==
  ASSUME TarjanInv, FinishRequired
  PROVE  TarjanInv' /\ BlockedKnown'
<1>0. Types
  BY DEF TarjanInv
<1>1. /\ UNCHANGED entities /\ calls' = <<>> /\ pass' = "all" /\ root' = 1 /\ stack' = <<>>
      /\ index' = ForEach(None) /\ low' = ForEach(0) /\ on_stack' = ForEach(FALSE)
      /\ next' = 0 /\ components' = {}
  BY DEF FinishRequired, RunDone
<1>2. Tables' = Tables
  BY <1>1 DEF Tables
<1>3. Types'
  BY <1>0, <1>1, <1>2 DEF Types, ForEach
<1>4. Waiting' = {} /\ Gone' = {}
  BY <1>1 DEF Waiting, ToSet, Gone
<1>5. Stacked'
  BY <1>1, <1>2, <1>4 DEF Stacked, ForEach
<1>6. Looped'
  <2>1. \A t \in Tables : ~(t < 1)
    BY <1>0, SchemaShape
  <2> QED BY <1>1, <1>2, <2>1 DEF Looped
<1>7. Framed'
  BY <1>1 DEF Framed
<1>8. Connected' /\ LowReached' /\ LowCovers' /\ HandledSeen'
  BY <1>4 DEF Connected, LowReached, LowCovers, HandledSeen
<1>9. PoppedForGood' /\ WholeGroups' /\ StuckSeen'
  BY <1>1, <1>4 DEF PoppedForGood, WholeGroups, StuckSeen
<1>10. BlockedKnown'
  <2>1. pass = "required" /\ calls = <<>> /\ root > Len(entities) /\ blocked' = Result
    BY DEF FinishRequired, RunDone
  <2>2. Graph = Adjacency("required") /\ Adjacency("required")' = Adjacency("required")
    BY <1>1, <2>1 DEF Graph, Adjacency, Tables, Target, KeysOf, PositionOf, SelectLastInSeq
  <2>3. /\ {C \in components : Cardinality(C) > 1} = MutualGroups(Adjacency("required"))
        /\ Gone = Tables
    BY <2>1, <2>2, RunFindsGroups
  <2>4. blocked' = InSchemaOrder(MutualGroups(Adjacency("required")))
    BY <2>1, <2>3 DEF Result
  <2>5. ASSUME NEW S \in SUBSET Tables, Stuck(S, Adjacency("required"))
        PROVE  \E C \in MutualGroups(Adjacency("required")) : C \cap S # {}
    <3>1. S \cap Gone # {}
      BY <2>3, <2>5 DEF Stuck
    <3>2. PICK C \in components : Cardinality(C) > 1 /\ C \cap S # {}
      BY <2>2, <2>5, <3>1 DEF TarjanInv, StuckSeen
    <3> QED BY <2>3, <3>2
  <2> QED BY <1>2, <2>2, <2>4, <2>5 DEF BlockedKnown
<1> QED BY <1>3, <1>5, <1>6, <1>7, <1>8, <1>9, <1>10 DEF TarjanInv

-----------------------------------------------------------------------------
(* What the groups of a graph are, for the report.                         *)

\* A group is a finite set of two tables or more.
LEMMA GroupShape ==
  ASSUME Types, NEW graph, DOMAIN graph = Tables, NEW C \in MutualGroups(graph)
  PROVE  /\ C # {} /\ C \subseteq Tables /\ IsFiniteSet(C) /\ Cardinality(C) > 1
         /\ \A x \in C : C = Group(x, graph)
  BY SchemaShape, MutualGroupShape

\* The groups, sorted by their first table.
LEMMA MutualGroupsAreSorted ==
  ASSUME Types, NEW graph, DOMAIN graph = Tables
  PROVE  LET s == InSchemaOrder(MutualGroups(graph)) IN
         /\ s = [k \in DOMAIN s |-> s[k]]
         /\ \A k \in DOMAIN s : s[k] \in MutualGroups(graph)
         /\ \A C \in MutualGroups(graph) : \E k \in DOMAIN s : s[k] = C
  BY SchemaShape, MutualGroupsSorted

\* More foreign keys connect more.
LEMMA MoreKeysReachMore ==
  ASSUME NEW x, NEW y, Reaches(x, y, Adjacency("required"))
  PROVE  Reaches(x, y, Adjacency("all"))
<1>1. \A t : KeysOf("required", t) \subseteq KeysOf("all", t)
  BY DEF KeysOf
<1>2. /\ DOMAIN Adjacency("required") = DOMAIN Adjacency("all")
      /\ \A t \in DOMAIN Adjacency("all") : Adjacency("required")[t] \subseteq Adjacency("all")[t]
  BY <1>1 DEF Adjacency
<1> QED BY <1>2 DEF Reaches, Closed

\* Tables that reach one another through NOT NULL keys all wait for another.
LEMMA GroupIsStuck ==
  ASSUME Types, NEW B \in MutualGroups(Adjacency("required"))
  PROVE  Stuck(B, Adjacency("required"))
<1> DEFINE R == Adjacency("required")
<1>1. DOMAIN R = Tables /\ \A t \in DOMAIN R : R[t] \subseteq DOMAIN R
  BY TargetsAreTables DEF Adjacency
<1> HIDE DEF R
<1>2. /\ B # {} /\ B \subseteq Tables /\ IsFiniteSet(B) /\ Cardinality(B) > 1
      /\ \A x \in B : B = Group(x, R)
  BY <1>1, GroupShape DEF R
<1>3. ASSUME NEW x \in B PROVE R[x] \cap (B \ {x}) # {}
  <2>1. PICK y \in B : y # x
    BY <1>2, TwoMembers
  <2>2. x \in DOMAIN R /\ y \in DOMAIN R /\ Reaches(x, y, R) /\ Reaches(y, x, R)
    BY <1>1, <1>2, <2>1 DEF Group
  <2>3. \E z \in R[x] : z # x /\ z \in Group(x, R)
    BY <1>1, <2>1, <2>2, GroupStepsInside
  <2> QED BY <1>2, <2>3
<1> QED BY <1>2, <1>3 DEF Stuck, R

-----------------------------------------------------------------------------
(* The invariant holds throughout.                                         *)

\* Steps within a run leave what is reported alone.
LEMMA WithinRun ==
  ASSUME BlockedKnown, Reported, UNCHANGED <<entities, pass, blocked, report>>
  PROVE  BlockedKnown' /\ Reported'
<1>1. Tables' = Tables /\ \A of : Adjacency(of)' = Adjacency(of)
  BY DEF Adjacency, Tables, Target, KeysOf, PositionOf, SelectLastInSeq
<1>2. \A C : Severity(C)' = Severity(C)
  BY DEF Severity
<1> QED BY <1>1, <1>2 DEF BlockedKnown, Reported

\* The run over all references ends, and the report is made.
LEMMA FinishAllKeepsInv ==
  ASSUME CycleInv, FinishAll
  PROVE  CycleInv'
<1>0. TarjanInv /\ Types /\ BlockedKnown
  BY DEF CycleInv, TarjanInv
<1>1. /\ pass = "all" /\ calls = <<>> /\ root > Len(entities) /\ pass' = "reported"
      /\ UNCHANGED <<entities, root, calls, tarjan, blocked>>
  BY DEF FinishAll, RunDone
<1>2. TarjanInv'
  <2>1. root' \in Nat \ {0} /\ \A t \in Tables : t < root' => t < root \/ index[t] # None
    BY <1>0, <1>1 DEF Types
  <2> QED BY <1>0, <1>1, <2>1, QuietKeepsInv
<1>3. Tables' = Tables /\ \A of : Adjacency(of)' = Adjacency(of)
  BY <1>1 DEF Adjacency, Tables, Target, KeysOf, PositionOf, SelectLastInSeq
<1>4. BlockedKnown'
  BY <1>0, <1>1, <1>3 DEF BlockedKnown
<1>5. Reported'
  <2>1. Graph = Adjacency("all")
    BY <1>1 DEF Graph
  <2>2. {C \in components : Cardinality(C) > 1} = MutualGroups(Adjacency("all"))
    BY <1>0, <1>1, <2>1, RunFindsGroups
  <2>3. Result = InSchemaOrder(MutualGroups(Adjacency("all")))
    BY <2>2 DEF Result
  <2>4. report' = [k \in DOMAIN Result |->
                     [tables |-> Result[k], severity |-> Severity(Result[k])]]
    BY DEF FinishAll
  <2>5. \A C : Severity(C)' = Severity(C)
    BY <1>1 DEF Severity
  <2> QED BY <1>3, <2>3, <2>4, <2>5 DEF Reported
<1> QED BY <1>2, <1>4, <1>5 DEF CycleInv

\* Every step.
LEMMA NextInv ==
  ASSUME CycleInv, [Next]_vars
  PROVE  CycleInv'
<1>0. TarjanInv /\ Types /\ Stacked /\ BlockedKnown /\ Reported
  BY DEF CycleInv, TarjanInv
<1>1. CASE NextRoot
  <2>1. BlockedKnown' /\ Reported'
    BY <1>0, <1>1, WithinRun DEF NextRoot
  <2> QED BY <1>0, <1>1, <2>1, NextRootKeepsInv DEF CycleInv
<1>2. CASE VisitNeighbour
  <2>1. PICK neighbour \in Tables :
          /\ AtNeighbour(neighbour) /\ index[neighbour] = None /\ Enter(neighbour)
          /\ UNCHANGED <<entities, pass, root, blocked, report>>
    BY <1>2 DEF VisitNeighbour
  <2>2. root' \in Nat \ {0} /\ \A t \in Tables : t < root' => t < root
    BY <1>0, <2>1 DEF Types
  <2>3. TarjanInv'
    BY <1>0, <2>1, <2>2, EnterKeepsInv
  <2> QED BY <1>0, <2>1, <2>3, WithinRun DEF CycleInv
<1>3. CASE LowerToNeighbour
  <2>1. PICK neighbour \in Tables :
          /\ AtNeighbour(neighbour) /\ index[neighbour] # None /\ on_stack[neighbour]
          /\ low' = [low EXCEPT ![Top.node] = MinOf(@, index[neighbour])]
          /\ NeighbourDone
          /\ UNCHANGED <<entities, pass, root, index, on_stack, stack, next,
                         components, blocked, report>>
    BY <1>3 DEF LowerToNeighbour
  <2>2. neighbour \in Waiting
    BY <1>0, <2>1 DEF Stacked
  <2>3. TarjanInv'
    BY <1>0, <2>1, <2>2, NeighbourKeepsInv
  <2> QED BY <1>0, <2>1, <2>3, WithinRun DEF CycleInv
<1>4. CASE SkipNeighbour
  <2>1. PICK neighbour \in Tables :
          /\ AtNeighbour(neighbour) /\ index[neighbour] # None /\ ~on_stack[neighbour]
          /\ NeighbourDone
          /\ UNCHANGED <<entities, pass, root, tarjan, blocked, report>>
    BY <1>4 DEF SkipNeighbour
  <2>2. neighbour \notin Waiting
    BY <1>0, <2>1 DEF Stacked
  <2>3. UNCHANGED <<entities, pass, root, index, low, on_stack, stack, next, components>>
    BY <2>1 DEF tarjan
  <2>4. TarjanInv'
    BY <1>0, <2>1, <2>2, <2>3, NeighbourKeepsInv
  <2> QED BY <1>0, <2>1, <2>4, WithinRun DEF CycleInv
<1>5. CASE LeaveOpen
  <2>1. BlockedKnown' /\ Reported'
    BY <1>0, <1>5, WithinRun DEF LeaveOpen
  <2> QED BY <1>0, <1>5, <2>1, LeaveOpenKeepsInv DEF CycleInv
<1>6. CASE PopComponent
  <2>1. BlockedKnown' /\ Reported'
    BY <1>0, <1>6, WithinRun DEF PopComponent
  <2> QED BY <1>0, <1>6, <2>1, PopComponentKeepsInv DEF CycleInv
<1>7. CASE FinishRequired
  <2>1. Reported'
    BY <1>7 DEF FinishRequired, Reported
  <2> QED BY <1>0, <1>7, <2>1, FinishRequiredKeepsInv DEF CycleInv
<1>8. CASE FinishAll
  BY <1>8, FinishAllKeepsInv
<1>9. CASE UNCHANGED vars
  <2>1. UNCHANGED <<entities, pass, root, calls, tarjan, blocked, report>>
    BY <1>9 DEF vars
  <2>2. /\ pass' \in {"required", "all", "reported"} /\ root' \in Nat \ {0}
        /\ \A t \in Tables : t < root' => t < root
    BY <1>0, <2>1 DEF Types
  <2>3. TarjanInv'
    BY <1>0, <2>1, <2>2, QuietKeepsInv
  <2> QED BY <1>0, <2>1, <2>3, WithinRun DEF CycleInv
<1>10. CASE Returned
  BY <1>9, <1>10 DEF Returned
<1> QED BY <1>1, <1>2, <1>3, <1>4, <1>5, <1>6, <1>7, <1>8, <1>9, <1>10 DEF Next

(* Tarjan's algorithm as visit writes it keeps its invariant for every     *)
(* schema, however many tables it has and whatever they refer to.          *)
THEOREM CycleInvHolds == Spec => []CycleInv
<1>1. Init => CycleInv
  BY InitInv
<1>2. CycleInv /\ [Next]_vars => CycleInv'
  BY NextInv
<1> QED BY <1>1, <1>2, PTL DEF Spec

(* A component is popped only when nothing its tables refer to is still    *)
(* waiting or unvisited, in both runs and for every schema.                *)
THEOREM PoppedOnlyWhole == Spec => []PoppedForGood
<1>1. CycleInv => PoppedForGood
  BY DEF CycleInv, TarjanInv
<1> QED BY <1>1, CycleInvHolds, PTL

(* The report of check_cycles lists exactly the groups of two or more      *)
(* tables that reach one another, each once, in the order of the schema,   *)
(* for every schema.                                                       *)
THEOREM CyclesAreFound == Spec => []CyclesFound
<1>1. ASSUME CycleInv, pass = "reported"
      PROVE  [k \in DOMAIN report |-> report[k].tables]
               = InSchemaOrder(MutualGroups(Adjacency("all")))
  <2> DEFINE found == InSchemaOrder(MutualGroups(Adjacency("all")))
  <2>1. found = [k \in DOMAIN found |-> found[k]]
    <3>1. Types /\ DOMAIN Adjacency("all") = Tables
      BY <1>1 DEF CycleInv, TarjanInv, Adjacency
    <3> QED BY <3>1, MutualGroupsAreSorted
  <2>2. report = [k \in DOMAIN found |-> [tables |-> found[k], severity |-> Severity(found[k])]]
    BY <1>1 DEF CycleInv, Reported
  <2> HIDE DEF found
  <2>3. [k \in DOMAIN report |-> report[k].tables] = [k \in DOMAIN found |-> found[k]]
    BY <2>2
  <2> QED BY <2>1, <2>3 DEF found
<1>2. CycleInv => CyclesFound
  BY <1>1 DEF CyclesFound
<1> QED BY <1>2, CycleInvHolds, PTL

(* A reported group is an error exactly when some of its tables each need, *)
(* through NOT NULL keys, a row of another of them first, for every schema *)
(* (the severity check_cycles chooses).                                    *)
THEOREM ErrorsAreReal == Spec => []ErrorsAreStuck
<1>1. ASSUME CycleInv, pass = "reported", NEW k \in DOMAIN report
      PROVE  (report[k].severity = "error")
               <=> \E S \in SUBSET report[k].tables : Stuck(S, Adjacency("required"))
  <2> DEFINE A == Adjacency("all")
             R == Adjacency("required")
             found == InSchemaOrder(MutualGroups(A))
             C == found[k]
  <2>1. Types /\ DOMAIN A = Tables /\ DOMAIN R = Tables
    BY <1>1 DEF CycleInv, TarjanInv, Adjacency
  <2>2. report = [i \in DOMAIN found |-> [tables |-> found[i], severity |-> Severity(found[i])]]
    BY <1>1 DEF CycleInv, Reported
  <2>3. k \in DOMAIN found /\ report[k].tables = C /\ report[k].severity = Severity(C)
    <3> HIDE DEF found
    <3> QED BY <1>1, <2>2
  <2>4. C \in MutualGroups(A)
    BY <2>1, <2>3, MutualGroupsAreSorted
  <2>5. C \subseteq Tables /\ \A x \in C : C = Group(x, A)
    BY <2>1, <2>4, GroupShape
  <2>6. blocked = InSchemaOrder(MutualGroups(R))
    BY <1>1 DEF CycleInv, BlockedKnown
  <2>7. /\ \A j \in DOMAIN blocked : blocked[j] \in MutualGroups(R)
        /\ \A B \in MutualGroups(R) : \E j \in DOMAIN blocked : blocked[j] = B
    BY <2>1, <2>6, MutualGroupsAreSorted
  <2>8. \A S \in SUBSET Tables : Stuck(S, R) => \E B \in MutualGroups(R) : B \cap S # {}
    BY <1>1 DEF CycleInv, BlockedKnown
  <2>9. (Severity(C) = "error") <=> \E j \in DOMAIN blocked : blocked[j] \cap C # {}
    BY DEF Severity
  <2> HIDE DEF C, found
  <2>10. ASSUME NEW j \in DOMAIN blocked, blocked[j] \cap C # {}
         PROVE  \E S \in SUBSET C : Stuck(S, R)
    <3> DEFINE B == blocked[j]
    <3>1. B \in MutualGroups(R)
      BY <2>7
    <3> HIDE DEF B
    <3>2. PICK z \in B : z \in C
      BY <2>10 DEF B
    <3>3. B = Group(z, R)
      BY <2>1, <3>1, GroupShape
    <3>4. \A w \in B : w \in Tables /\ Reaches(z, w, A) /\ Reaches(w, z, A)
      BY <2>1, <3>3, MoreKeysReachMore DEF Group
    <3>5. B \subseteq C
      BY <2>1, <2>5, <3>2, <3>4 DEF Group
    <3>6. Stuck(B, R)
      BY <2>1, <3>1, GroupIsStuck
    <3> QED BY <3>5, <3>6
  <2>11. ASSUME NEW S \in SUBSET C, Stuck(S, R)
         PROVE  \E j \in DOMAIN blocked : blocked[j] \cap C # {}
    <3>1. PICK B \in MutualGroups(R) : B \cap S # {}
      BY <2>5, <2>8, <2>11
    <3> QED BY <2>7, <3>1
  <2> QED BY <2>3, <2>9, <2>10, <2>11
<1>2. CycleInv => ErrorsAreStuck
  BY <1>1 DEF ErrorsAreStuck
<1> QED BY <1>2, CycleInvHolds, PTL
=============================================================================
