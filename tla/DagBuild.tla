------------------------------ MODULE DagBuild ------------------------------
(***************************************************************************)
(* The dependency graph a pipeline runs by (pine-cpp/src/dag/dag.cpp).     *)
(*                                                                         *)
(* A pipeline is a sequence of operators, each of which declares the       *)
(* fields it reads and writes.  build_dag scans that sequence twice, once  *)
(* for the common fields and once for the item fields, with one tracker    *)
(* per field, and adds an edge for every hazard it meets; then come the    *)
(* explicit `sources' edges, a cycle check and the transitive reduction.   *)
(* Nothing else orders two operators: whatever this graph leaves unordered *)
(* the scheduler may run at the same time.                                 *)
(*                                                                         *)
(* Operators are named by their position in the expanded sequence.         *)
(***************************************************************************)
EXTENDS Naturals

CONSTANTS
    N,             \* length of the expanded operator sequence
    CommonFields,  \* common field names
    ItemFields,    \* item field names
    RowSet,        \* the sentinel field "_row_set_"
    OpShapes       \* the operator declarations a configuration may use

Nodes == 1 .. N
Forward == {e \in Nodes \X Nodes : e[1] < e[2]}

(* What the DAG needs of an OperatorConfig.  commonReads stands for        *)
(* Metadata::common_read_fields(), the union of the business, skip and     *)
(* template inputs.  0 in sources stands for an operator that the          *)
(* configuration defines but the pipeline tree does not contain.           *)
OperatorConfig ==
    [commonReads  : SUBSET CommonFields,
     commonWrites : SUBSET CommonFields,
     itemReads    : SUBSET ItemFields,
     itemWrites   : SUBSET ItemFields,
     additive     : BOOLEAN,
     consumes     : BOOLEAN,
     mutates      : BOOLEAN,
     sources      : SUBSET (0 .. N)]

(* validate_config refuses an operator that is both additive and mutating. *)
ASSUME DagAssumption ==
    /\ N \in Nat
    /\ RowSet \notin ItemFields
    /\ OpShapes \subseteq OperatorConfig
    /\ \A o \in OpShapes : ~(o.additive /\ o.mutates)

VARIABLES
    ops,       \* the configuration: the operator at each position
    pass,      \* which part of build_dag is running
    pos,       \* the position it has reached in the sequence
    trackers,  \* the FieldTracker of every field of the current scan
    edges,     \* the edges of the graph
    verdict    \* "none", "ok" or the error that was thrown

vars == <<ops, pass, pos, trackers, edges, verdict>>

Scans  == {"common", "item"}
Passes == Scans \cup {"sources", "check", "reduce", "built"}
Errors == {"ConfigError", "ValidationError", "CycleError"}

Fields(p) == IF p = "common" THEN CommonFields ELSE ItemFields \cup {RowSet}

---------------------------------------------------------------------------
(* The accesses an operator makes in a scan.                               *)

(* Mutated form: only a declared consumer reads the row set.               *)
ReadsRowSetDeclared(o) == o.consumes

(* An operator that touches item fields without being additive reads the   *)
(* row set even if it does not say so.                                     *)
ReadsRowSet(o) ==
    o.consumes \/ (~o.additive /\ o.itemReads \cup o.itemWrites # {})

Reads(p, o, f) ==
    IF p = "common" THEN f \in o.commonReads
    ELSE f \in o.itemReads \/ (f = RowSet /\ ReadsRowSet(o))

(* additive is false throughout the common scan.                           *)
Adds(p, o, f) ==
    p # "common" /\ o.additive /\ (f \in o.itemWrites \/ f = RowSet)

Mutates(p, o, f) ==
    IF p = "common" THEN f \in o.commonWrites
    ELSE (~o.additive /\ f \in o.itemWrites) \/ (o.mutates /\ f = RowSet)

---------------------------------------------------------------------------
(* The field tracker.  mut is 0 while there is no mutating writer.         *)

Tracker == [mut : 0 .. N, add : SUBSET Nodes, rd : SUBSET Nodes]
NewTracker == [mut |-> 0, add |-> {}, rd |-> {}]

LastMut(t) == {t.mut} \ {0}

OnRead(t, i)   == [t EXCEPT !.rd = @ \cup {i}]
OnAdd(t, i)    == [t EXCEPT !.add = @ \cup {i}]
OnMutate(t, i) == [mut |-> i, add |-> {}, rd |-> {}]

ReadSources(t)   == LastMut(t) \cup t.add
AddSources(t)    == LastMut(t) \cup t.rd
(* Mutated form: write-after-read forgotten.                               *)
MutateSourcesNoReaders(t) == LastMut(t) \cup t.add
MutateSources(t) == LastMut(t) \cup t.add \cup t.rd

(* The tracker after the operator's reads, and after its writes.           *)
AfterReads(p, o, f, t, i) == IF Reads(p, o, f) THEN OnRead(t, i) ELSE t
AfterScan(p, o, f, t, i) ==
    LET r == AfterReads(p, o, f, t, i)
    IN  IF Mutates(p, o, f) THEN OnMutate(r, i)
        ELSE IF Adds(p, o, f) THEN OnAdd(r, i) ELSE r

(* The operators add_edge links to i for this field; add_edge drops i.     *)
EdgeSources(p, o, f, t, i) ==
    LET r == AfterReads(p, o, f, t, i)
    IN  ((IF Reads(p, o, f) THEN ReadSources(t) ELSE {})
         \cup (IF Adds(p, o, f) THEN AddSources(r) ELSE {})
         \cup (IF Mutates(p, o, f) THEN MutateSources(r) ELSE {})) \ {i}

NewEdges(p, o, i) ==
    UNION {EdgeSources(p, o, f, trackers[f], i) \X {i} : f \in Fields(p)}

---------------------------------------------------------------------------
Init ==
    /\ ops \in [Nodes -> OpShapes]
    /\ pass = "common"
    /\ pos = 1
    /\ trackers = [f \in Fields("common") |-> NewTracker]
    /\ edges = {}
    /\ verdict = "none"

(* One iteration of the loop of scan_fields.                               *)
ScanOp ==
    /\ pass \in Scans
    /\ pos \in Nodes
    /\ trackers' = [f \in Fields(pass) |->
                        AfterScan(pass, ops[pos], f, trackers[f], pos)]
    /\ edges' = edges \cup NewEdges(pass, ops[pos], pos)
    /\ pos' = pos + 1
    /\ UNCHANGED <<ops, pass, verdict>>

(* scan_fields returns; the next scan starts with fresh trackers.          *)
ScanDone ==
    /\ pass \in Scans
    /\ pos \notin Nodes
    /\ pos' = 1
    /\ \/ /\ pass = "common"
          /\ pass' = "item"
          /\ trackers' = [f \in Fields("item") |-> NewTracker]
       \/ /\ pass = "item"
          /\ pass' = "sources"
          /\ UNCHANGED trackers
    /\ UNCHANGED <<ops, edges, verdict>>

Throw(e) ==
    /\ verdict' = e
    /\ UNCHANGED <<ops, pass, pos, trackers, edges>>

(* Mutated form: no forward-reference test.                                *)
LinkSourcesUnchecked ==
    /\ pass = "sources"
    /\ pos \in Nodes
    /\ verdict = "none"
    /\ edges' = edges \cup ((ops[pos].sources \ {0, pos}) \X {pos})
    /\ pos' = pos + 1
    /\ UNCHANGED <<ops, pass, trackers, verdict>>

(* The `sources' of one operator: unknown names and forward references are *)
(* refused, the others become edges.                                       *)
LinkSources ==
    /\ pass = "sources"
    /\ pos \in Nodes
    /\ verdict = "none"
    /\ \/ /\ 0 \in ops[pos].sources
          /\ Throw("ConfigError")
       \/ /\ \E s \in ops[pos].sources : s >= pos
          /\ Throw("ValidationError")
       \/ /\ \A s \in ops[pos].sources : 0 < s /\ s < pos
          /\ edges' = edges \cup (ops[pos].sources \X {pos})
          /\ pos' = pos + 1
          /\ UNCHANGED <<ops, pass, trackers, verdict>>

SourcesDone ==
    /\ pass = "sources"
    /\ pos \notin Nodes
    /\ pass' = "check"
    /\ UNCHANGED <<ops, pos, trackers, edges, verdict>>

(* topological_check takes nodes of in-degree zero away until none is      *)
(* left: what stays is the largest set of nodes that each have a           *)
(* predecessor in the set.                                                 *)
KahnLeftover(E) ==
    UNION {S \in SUBSET Nodes : \A v \in S : \E u \in S : <<u, v>> \in E}

TopologicalCheck ==
    LET cyclic == KahnLeftover(edges) # {}
    IN  /\ pass = "check"
        /\ verdict = "none"
        /\ verdict' = IF cyclic THEN "CycleError" ELSE verdict
        /\ pass' = IF cyclic THEN pass ELSE "reduce"
        /\ UNCHANGED <<ops, pos, trackers, edges>>

---------------------------------------------------------------------------
(* Reachability.  A breadth-first search that starts with the nodes of     *)
(* Start in its queue visits the least set that has them and is closed     *)
(* under the edges.                                                        *)
Succs(E, u) == {v \in Nodes : <<u, v>> \in E}

Closed(E, S) == \A x \in S : Succs(E, x) \subseteq S

Visited(E, Start) ==
    {v \in Nodes : \A S \in SUBSET Nodes :
                      (Start \subseteq S /\ Closed(E, S)) => v \in S}

Reaches(E, u, v) == v \in Visited(E, Succs(E, u))

(* The search of reachable_without: the edge u -> v itself is not taken.   *)
ReachableWithout(E, u, v) == v \in Visited(E, Succs(E, u) \ {v})

(* Mutated form: reduce keeps every edge.                                  *)
NotReduced(E) == E

Reduced(E) == {e \in E : ~ReachableWithout(E, e[1], e[2])}

Reduce ==
    /\ pass = "reduce"
    /\ edges' = Reduced(edges)
    /\ pass' = "built"
    /\ verdict' = "ok"
    /\ UNCHANGED <<ops, pos, trackers>>

(* build_dag has returned or thrown.                                       *)
Returned == verdict # "none" /\ UNCHANGED vars

Next ==
    \/ ScanOp
    \/ ScanDone
    \/ LinkSources
    \/ SourcesDone
    \/ TopologicalCheck
    \/ Reduce
    \/ Returned

Spec == Init /\ [][Next]_vars

---------------------------------------------------------------------------
(* What the graph must order: two operators that access the same field,    *)
(* unless both only read it or both only add to it.                        *)
Touches(p, o, f) == Reads(p, o, f) \/ Adds(p, o, f) \/ Mutates(p, o, f)

Conflict(p, f, a, b) ==
    \/ Mutates(p, a, f) /\ Touches(p, b, f)
    \/ Touches(p, a, f) /\ Mutates(p, b, f)
    \/ Reads(p, a, f) /\ Adds(p, b, f)
    \/ Adds(p, a, f) /\ Reads(p, b, f)

Hazards ==
    {e \in Forward : \E p \in Scans : \E f \in Fields(p) :
                         Conflict(p, f, ops[e[1]], ops[e[2]])}

Required == Hazards \cup {e \in Forward : e[1] \in ops[e[2]].sources}

---------------------------------------------------------------------------
(* Every variable has its type, and an edge never points backwards.        *)
TypeOK ==
    /\ ops \in [Nodes -> OpShapes]
    /\ pass \in Passes
    /\ pos \in 1 .. N + 1
    /\ trackers \in [Fields(IF pass = "common" THEN "common" ELSE "item") -> Tracker]
    /\ edges \subseteq Forward
    /\ verdict \in {"none", "ok"} \cup Errors

(* The finished graph orders exactly what has to be ordered: there is a    *)
(* path from one operator to another if and only if a chain of field       *)
(* conflicts and explicit sources leads there.  The trackers forget every  *)
(* access that precedes a mutating write and reduce drops edges, so both   *)
(* rely on paths through other operators; a missing path is a data race    *)
(* between operators, an extra one needless serialisation.                 *)
ExactOrder ==
    pass = "built" =>
        \A u, v \in Nodes : Reaches(edges, u, v) <=> Reaches(Required, u, v)

(* After reduce no edge is implied by a path through other operators, so   *)
(* that an operator's in-degree counts only what it really waits for.      *)
NoRedundantEdge ==
    pass = "built" =>
        \A e \in edges : ~ReachableWithout(edges, e[1], e[2])

(* Every edge points from an earlier operator to a later one (sources that *)
(* do not are refused first), so topological_check never throws: a         *)
(* pipeline cannot be refused for a cycle.                                 *)
NeverCyclic == verdict # "CycleError"
=============================================================================
