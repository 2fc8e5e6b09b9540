----------------------------- MODULE CycleCheck -----------------------------
(***************************************************************************)
(* check_cycles of the schema verifier (verifier/cycles.rs) step by step:  *)
(* two runs of Tarjan's algorithm, the first over the NOT NULL foreign     *)
(* keys, the second over all of them, and the report made from both.       *)
(* visit is recursive in the code; calls is its call stack here.           *)
(***************************************************************************)
EXTENDS Cycles

CONSTANTS
    Schemas,    \* the inputs: sequences of entities [id, references]; a
                \* reference is a foreign key [entity_id, nullable]
    None        \* index of a table not visited yet

ASSUME NoneAssumption == None \notin Nat

ASSUME SchemasAssumption ==
    \A schema \in Schemas :
        /\ schema \in Seq(ToSet(schema))
        /\ \A t \in DOMAIN schema :
               schema[t].references \in Seq(ToSet(schema[t].references))

VARIABLES
    entities,   \* the schema under check
    pass,       \* the run in progress, "required" or "all", then "reported"
    root,       \* strongly_connected: the next node of its loop
    calls,      \* visit: frames [node, left], left = keys to deal with
    index, low, on_stack, stack, next, components,  \* struct Tarjan
    blocked,    \* the result of the first run
    report      \* diagnostics [tables, severity], in the order pushed

tarjan == <<index, low, on_stack, stack, next, components>>
vars == <<entities, pass, root, calls, tarjan, blocked, report>>

Tables == DOMAIN entities

(* index: a map from id to position; a later entity replaces an earlier    *)
(* one with its id.  0 when there is none.                                 *)
PositionOf(id) == SelectLastInSeq(entities, LAMBDA e : e.id = id)

(* The table a foreign key leads to. *)
Target(from, k) == PositionOf(entities[from].references[k].entity_id)

(* The keys behind the two edge vectors: references to no table and to the *)
(* table itself are left out, the first run keeps NOT NULL ones.           *)
KeysOf(of, from) ==
    {k \in DOMAIN entities[from].references :
        /\ Target(from, k) \notin {0, from}
        /\ of = "required" => ~entities[from].references[k].nullable}

(* The adjacency lists; visit goes through each in the order of its keys. *)
Adjacency(of) ==
    [from \in Tables |-> {Target(from, k) : k \in KeysOf(of, from)}]

Top == calls[Len(calls)]
MinOf(a, b) == IF a < b THEN a ELSE b

(* A vec![value; count] of strongly_connected. *)
ForEach(value) == [t \in Tables |-> value]

Init ==
    /\ entities \in Schemas
    /\ pass = "required"
    /\ root = 1
    /\ calls = <<>>
    /\ index = ForEach(None)
    /\ low = ForEach(0)
    /\ on_stack = ForEach(FALSE)
    /\ stack = <<>>
    /\ next = 0
    /\ components = {}
    /\ blocked = <<>>
    /\ report = <<>>

-----------------------------------------------------------------------------
(* visit, its first five assignments. *)
Enter(node) ==
    /\ index' = [index EXCEPT ![node] = next]
    /\ low' = [low EXCEPT ![node] = next]
    /\ next' = next + 1
    /\ stack' = Append(stack, node)
    /\ on_stack' = [on_stack EXCEPT ![node] = TRUE]
    /\ calls' = Append(calls, [node |-> node, left |-> KeysOf(pass, node)])
    /\ UNCHANGED components

(* strongly_connected: for node in 0..count, visit it if it has no index. *)
NextRoot ==
    /\ pass # "reported"
    /\ calls = <<>>
    /\ root <= Len(entities)
    /\ root' = root + 1
    /\ IF index[root] = None THEN Enter(root) ELSE UNCHANGED <<calls, tarjan>>
    /\ UNCHANGED <<entities, pass, blocked, report>>

(* The neighbour the frame on top looks at. *)
AtNeighbour(neighbour) ==
    /\ calls # <<>>
    /\ Top.left # {}
    /\ neighbour = Target(Top.node, Min(Top.left))

NeighbourDone == calls' = [calls EXCEPT ![Len(calls)].left = @ \ {Min(@)}]

(* A neighbour with no index is visited first. *)
VisitNeighbour ==
    \E neighbour \in Tables :
        /\ AtNeighbour(neighbour)
        /\ index[neighbour] = None
        /\ Enter(neighbour)
        /\ UNCHANGED <<entities, pass, root, blocked, report>>

(* Mutant: the on_stack test is left out. *)
LowerToAnyNeighbour ==
    \E neighbour \in Tables :
        /\ AtNeighbour(neighbour)
        /\ index[neighbour] # None
        /\ low' = [low EXCEPT ![Top.node] = MinOf(@, index[neighbour])]
        /\ NeighbourDone
        /\ UNCHANGED <<entities, pass, root, index, on_stack, stack, next,
                       components, blocked, report>>

(* A neighbour still on the stack lowers the node to its index. *)
LowerToNeighbour ==
    \E neighbour \in Tables :
        /\ AtNeighbour(neighbour)
        /\ index[neighbour] # None
        /\ on_stack[neighbour]
        /\ low' = [low EXCEPT ![Top.node] = MinOf(@, index[neighbour])]
        /\ NeighbourDone
        /\ UNCHANGED <<entities, pass, root, index, on_stack, stack, next,
                       components, blocked, report>>

(* A neighbour of a finished component changes nothing. *)
SkipNeighbour ==
    \E neighbour \in Tables :
        /\ AtNeighbour(neighbour)
        /\ index[neighbour] # None
        /\ ~on_stack[neighbour]
        /\ NeighbourDone
        /\ UNCHANGED <<entities, pass, root, tarjan, blocked, report>>

(* Mutant: the caller does not take over what its callee reached. *)
ReturnKeepingLow ==
    /\ UNCHANGED low
    /\ IF Len(calls) = 1
       THEN calls' = <<>>
       ELSE calls' = [Front(calls) EXCEPT ![Len(calls) - 1].left = @ \ {Min(@)}]

(* Back in the caller, which lowers its node to the callee's and goes on   *)
(* to its next neighbour; the first call was made by the loop.             *)
Return ==
    IF Len(calls) = 1
    THEN calls' = <<>> /\ UNCHANGED low
    ELSE LET caller == calls[Len(calls) - 1].node
         IN /\ low' = [low EXCEPT ![caller] = MinOf(@, low[Top.node])]
            /\ calls' = [Front(calls) EXCEPT ![Len(calls) - 1].left = @ \ {Min(@)}]

(* low # index: the node belongs to a component that is still open. *)
LeaveOpen ==
    /\ calls # <<>>
    /\ Top.left = {}
    /\ low[Top.node] # index[Top.node]
    /\ Return
    /\ UNCHANGED <<entities, pass, root, index, on_stack, stack, next,
                   components, blocked, report>>

(* low = index: everything above the node on the stack is its component. *)
PopComponent ==
    /\ calls # <<>>
    /\ Top.left = {}
    /\ low[Top.node] = index[Top.node]
    /\ LET at == SelectLastInSeq(stack, LAMBDA t : t = Top.node)
           popped == ToSet(SubSeq(stack, at, Len(stack)))
       IN /\ stack' = SubSeq(stack, 1, at - 1)
          /\ on_stack' = [t \in Tables |-> on_stack[t] /\ t \notin popped]
          /\ components' = components \cup {popped}
    /\ Return
    /\ UNCHANGED <<entities, pass, root, index, next, blocked, report>>

(* The end of strongly_connected: components of two or more, sorted. *)
Result == InSchemaOrder({C \in components : Cardinality(C) > 1})

RunDone(of) == pass = of /\ calls = <<>> /\ root > Len(entities)

FinishRequired ==
    /\ RunDone("required")
    /\ UNCHANGED <<entities, calls, report>>
    /\ blocked' = Result
    /\ pass' = "all"
    /\ root' = 1
    /\ index' = ForEach(None)
    /\ low' = ForEach(0)
    /\ on_stack' = ForEach(FALSE)
    /\ stack' = <<>>
    /\ next' = 0
    /\ components' = {}

(* Mutant: only a group that is blocked as a whole is an error. *)
SeverityOfWhole(component) ==
    IF component \in ToSet(blocked) THEN "error" ELSE "warning"

Severity(component) ==
    IF \E k \in DOMAIN blocked : blocked[k] \cap component # {}
    THEN "error" ELSE "warning"

FinishAll ==
    /\ RunDone("all")
    /\ pass' = "reported"
    /\ report' = [k \in DOMAIN Result |->
                    [tables |-> Result[k], severity |-> Severity(Result[k])]]
    /\ UNCHANGED <<entities, root, calls, tarjan, blocked>>

(* The caller has its report. *)
Returned == pass = "reported" /\ UNCHANGED vars

Next ==
    \/ NextRoot \/ VisitNeighbour \/ LowerToNeighbour \/ SkipNeighbour
    \/ LeaveOpen \/ PopComponent \/ FinishRequired \/ FinishAll \/ Returned

Spec == Init /\ [][Next]_vars

-----------------------------------------------------------------------------
(* The report names exactly the groups of two or more tables that can each *)
(* reach the others through foreign keys, each once and in the order of    *)
(* the schema, whatever order the recursion took (strongly_connected).     *)
CyclesFound ==
    pass = "reported" =>
        [k \in DOMAIN report |-> report[k].tables]
            = InSchemaOrder(MutualGroups(Adjacency("all")))

(* A group is an error exactly when some of its tables can never take a    *)
(* first row: each of them needs, through NOT NULL keys, a row of another  *)
(* one of them first.  A group that one nullable key opens is a warning    *)
(* (the comment on check_cycles).                                          *)
ErrorsAreStuck ==
    pass = "reported" =>
        \A k \in DOMAIN report :
            (report[k].severity = "error")
                <=> \E S \in SUBSET report[k].tables :
                        Stuck(S, Adjacency("required"))

(* A component is only popped when it is whole: nothing the tables popped  *)
(* so far refer to is still waiting, on the stack or unvisited.            *)
PoppedForGood ==
    \A t \in UNION components :
        Adjacency(pass)[t] \subseteq UNION components
=============================================================================
