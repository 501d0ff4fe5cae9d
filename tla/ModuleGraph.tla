---------------------------- MODULE ModuleGraph ----------------------------
(***************************************************************************)
(* The dependency graph of dag/graph.py.  Edges are lists, to which each   *)
(* registration adds: a module that is registered again has its edges      *)
(* twice, and keeps those its new manifest lacks.  A dependency is a node  *)
(* whether it is ever registered or not.                                   *)
(***************************************************************************)
EXTENDS Manifests

VARIABLES
    nodes,         (* _nodes                                                   *)
    edges,         (* _edges: the dependencies of each module, in their order  *)
    reverseEdges,  (* _reverse_edges: the modules that depend on each          *)
    declared       (* ghost: <<m, d>> when a manifest of m has ever named d    *)

graphVars == <<nodes, edges, reverseEdges, declared>>

GraphInit ==
    /\ nodes = {}
    /\ edges = [m \in Module |-> <<>>]
    /\ reverseEdges = [m \in Module |-> <<>>]
    /\ declared = {}

(* How often d occurs in a list. *)
Times(s, d) == Cardinality({k \in DOMAIN s : s[k] = d})

(* register() *)
GraphRegister(x) ==
    /\ nodes' = nodes \cup {x.name} \cup Range(x.dependencies)
    /\ edges' = [edges EXCEPT ![x.name] = @ \o x.dependencies]
    /\ reverseEdges' = [d \in Module |->
           reverseEdges[d] \o [k \in 1..Times(x.dependencies, d) |-> x.name]]
    /\ declared' = declared \cup {<<x.name, d>> : d \in Range(x.dependencies)}

(* Mutant: a dependency counts once, however often it was registered. *)
InDegreeOfSet == [n \in nodes |-> Cardinality(Range(edges[n]))]
InDegree == [n \in nodes |-> Len(edges[n])]

(* The loops of get_startup_order().  "pending" is what the inner one has    *)
(* still to deal with: dependents of the last node of the order.             *)
Sorting == [degree : [nodes -> Int], queue : Seq(Module), pending : Seq(Module),
            order : Seq(Module)]

Unblock(s) ==
    LET n == Head(s.pending)
    IN  [degree  |-> [s.degree EXCEPT ![n] = @ - 1],
         queue   |-> IF s.degree[n] = 1 THEN Append(s.queue, n) ELSE s.queue,
         pending |-> Tail(s.pending),
         order   |-> s.order]

PlaceNext(s) ==
    LET n == Head(s.queue)
    IN  [degree  |-> s.degree,
         queue   |-> Tail(s.queue),
         pending |-> reverseEdges[n],
         order   |-> Append(s.order, n)]

Sorted(s) ==
    LET loop[t \in Sorting] ==
            IF t.pending # <<>> THEN loop[Unblock(t)]
            ELSE IF t.queue # <<>> THEN loop[PlaceNext(t)]
            ELSE t.order
    IN  loop[s]

(* What get_startup_order() may compute; the set of nodes has no order.  It  *)
(* raises when some node is missing in the result.                           *)
StartupOrders ==
    LET free == {n \in nodes : InDegree[n] = 0}
    IN  {Sorted([degree |-> InDegree, queue |-> q, pending |-> <<>>, order |-> <<>>]) :
            q \in SetToSeqs(free)}

(* The recursion dfs() of get_dependents().  "pending" is what the loops of  *)
(* the calls under way have still to look at, those of the innermost first.  *)
Searching == [result : Seq(Module), pending : Seq(Module)]

(* Mutant: the search does not go on from what it finds. *)
VisitOnce(s) ==
    LET d == Head(s.pending)
    IN  IF d \in Range(s.result) THEN [s EXCEPT !.pending = Tail(@)]
        ELSE [result |-> Append(s.result, d), pending |-> Tail(s.pending)]

Visit(s) ==
    LET d == Head(s.pending)
    IN  IF d \in Range(s.result) THEN [s EXCEPT !.pending = Tail(@)]
        ELSE [result |-> Append(s.result, d), pending |-> reverseEdges[d] \o Tail(s.pending)]

Found(s) ==
    LET dfs[t \in Searching] == IF t.pending # <<>> THEN dfs[Visit(t)] ELSE t.result
    IN  dfs[s]

(* get_dependents() of a node; propagate_failure() is the same. *)
Dependents(m) == Found([result |-> <<>>, pending |-> reverseEdges[m]])

----------------------------------------------------------------------------

(* No cycle: among any modules there is one that needs none of them. *)
Acyclic ==
    \A S \in (SUBSET nodes) \ {{}} : \E m \in S : \A d \in S : <<m, d>> \notin declared

(* S has all that depends on m, directly or through others. *)
TakesIn(S, m) == \A e \in declared : e[2] \in S \cup {m} => e[1] \in S

(* However modules were registered, again, with other or doubled             *)
(* dependencies or with ones that never came, get_startup_order() succeeds   *)
(* if and only if all dependencies ever declared form no cycle, and then     *)
(* lists every node once, after all that it depends on (graph.py:52-68).     *)
StartupOrderExact ==
    \A order \in StartupOrders :
        IF Acyclic
        THEN /\ Range(order) = nodes
             /\ Len(order) = Cardinality(nodes)
             /\ \A i, j \in 1..Len(order) : <<order[i], order[j]>> \in declared => j < i
        ELSE Len(order) # Cardinality(nodes)

(* A failure is propagated to exactly the modules that depend on the failed  *)
(* one, directly or not, to each once; in a cycle that is the module itself  *)
(* as well (graph.py:73-85).                                                 *)
DependentsExact ==
    \A m \in nodes :
        /\ TakesIn(Range(Dependents(m)), m)
        /\ \A S \in SUBSET nodes : TakesIn(S, m) => Range(Dependents(m)) \subseteq S
        /\ IsInjective(Dependents(m))
=============================================================================
