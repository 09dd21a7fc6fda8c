--------------------------- MODULE DagBuildProofs ---------------------------
(***************************************************************************)
(* Proofs about DagBuild, for every length of the pipeline, every set of   *)
(* fields and every operator declaration.                                  *)
(***************************************************************************)
EXTENDS DagBuild, WellFoundedInduction, TLAPS

---------------------------------------------------------------------------
(* Reachability.                                                           *)

(* A non-empty set of naturals has a least element.                        *)
LEMMA LeastNatural ==
    ASSUME NEW T, T \subseteq Nat, T # {}
    PROVE  \E m \in T : \A n \in T : m <= n
<1>1. PICK m \in T : \A n \in T : ~(<<n, m>> \in OpToRel(<, Nat))
  BY NatLessThanWellFounded, WFMin
<1>2. \A n \in T : ~(n < m)
  BY <1>1 DEF OpToRel
<1> QED
  BY <1>2

(* An edge is a path.                                                      *)
LEMMA EdgeReaches ==
    ASSUME NEW E, NEW u \in Nodes, NEW v \in Nodes, <<u, v>> \in E
    PROVE  Reaches(E, u, v)
BY DEF Reaches, Visited, Succs

(* Paths can be joined.                                                    *)
LEMMA ReachesTransitive ==
    ASSUME NEW E, NEW u \in Nodes, NEW w \in Nodes, NEW v \in Nodes,
           Reaches(E, u, w), Reaches(E, w, v)
    PROVE  Reaches(E, u, v)
<1> SUFFICES ASSUME NEW S \in SUBSET Nodes, Succs(E, u) \subseteq S, Closed(E, S)
             PROVE  v \in S
  BY DEF Reaches, Visited
<1>1. w \in S
  BY DEF Reaches, Visited
<1>2. Succs(E, w) \subseteq S
  BY <1>1 DEF Closed
<1> QED
  BY <1>2 DEF Reaches, Visited

(* If every edge of E is a path of F then every path of E is one of F.     *)
LEMMA ReachesCovered ==
    ASSUME NEW E, NEW F,
           \A x, y \in Nodes : <<x, y>> \in E => Reaches(F, x, y),
           NEW u \in Nodes, NEW v \in Nodes, Reaches(E, u, v)
    PROVE  Reaches(F, u, v)
<1> SUFFICES ASSUME NEW S \in SUBSET Nodes, Succs(F, u) \subseteq S, Closed(F, S)
             PROVE  v \in S
  BY DEF Reaches, Visited
<1>1. Succs(E, u) \subseteq S
  <2> SUFFICES ASSUME NEW y \in Nodes, <<u, y>> \in E PROVE y \in S
    BY DEF Succs
  <2> QED BY DEF Reaches, Visited
<1>2. ASSUME NEW x \in S, NEW y \in Nodes, <<x, y>> \in E PROVE y \in S
  <2>1. Reaches(F, x, y)
    BY <1>2
  <2>2. Succs(F, x) \subseteq S
    BY DEF Closed
  <2> QED BY <2>1, <2>2 DEF Reaches, Visited
<1>3. Closed(E, S)
  BY <1>2 DEF Closed, Succs
<1> QED
  BY <1>1, <1>3 DEF Reaches, Visited

(* More edges, more paths.                                                 *)
LEMMA ReachesMonotone ==
    ASSUME NEW E, NEW F, E \subseteq F,
           NEW u \in Nodes, NEW v \in Nodes, Reaches(E, u, v)
    PROVE  Reaches(F, u, v)
<1>1. \A x, y \in Nodes : <<x, y>> \in E => Reaches(F, x, y)
  BY EdgeReaches
<1> QED
  BY <1>1, ReachesCovered

(* reduce drops an edge u -> v only if v can be reached without it, but    *)
(* the path it finds may use edges that are dropped as well.  Take a       *)
(* dropped edge of least span that has lost its path: every edge of the    *)
(* path that replaces it has a smaller span, so it still has one.          *)
LEMMA ReducedKeepsEdges ==
    ASSUME NEW E, E \subseteq Forward, N \in Nat,
           NEW u \in Nodes, NEW v \in Nodes, <<u, v>> \in E
    PROVE  Reaches(Reduced(E), u, v)
<1> DEFINE R == Reduced(E)
           Lost == {e \in E : ~Reaches(R, e[1], e[2])}
           Spans == {e[2] - e[1] : e \in Lost}
<1> SUFFICES ASSUME ~Reaches(R, u, v) PROVE FALSE
  OBVIOUS
<1>1. Spans \subseteq Nat
  BY DEF Forward, Nodes
<1>2. Spans # {}
  <2>1. <<u, v>> \in Lost
    OBVIOUS
  <2> QED BY <2>1
<1>3. PICK m \in Spans : \A n \in Spans : m <= n
  <2> HIDE DEF Spans
  <2> QED BY <1>1, <1>2, LeastNatural
<1>4. PICK d \in Lost : m = d[2] - d[1]
  OBVIOUS
<1>5. PICK a \in Nodes, b \in Nodes : d = <<a, b>> /\ a < b
  BY <1>4 DEF Forward
<1>6. <<a, b>> \in E /\ ~Reaches(R, a, b) /\ m = b - a
  BY <1>4, <1>5
<1>7. ASSUME NEW x \in Nodes, NEW y \in Nodes, <<x, y>> \in E, y - x < b - a
      PROVE  Reaches(R, x, y)
  <2> SUFFICES ASSUME ~Reaches(R, x, y) PROVE FALSE
    OBVIOUS
  <2>1. <<x, y>> \in Lost
    BY <1>7
  <2>2. y - x \in Spans
    BY <2>1
  <2>3. b - a <= y - x
    BY <2>2, <1>3, <1>6
  <2> QED
    BY <2>3, <1>7 DEF Nodes
<1> HIDE DEF Lost, Spans
<1>8. CASE ~ReachableWithout(E, a, b)
  <2>1. <<a, b>> \in R
    BY <1>6, <1>8 DEF Reduced
  <2> HIDE DEF R
  <2> QED BY <2>1, <1>6, EdgeReaches
<1>9. CASE ReachableWithout(E, a, b)
  <2> SUFFICES ASSUME NEW S \in SUBSET Nodes, Succs(R, a) \subseteq S, Closed(R, S)
               PROVE  b \in S
    BY <1>6 DEF Reaches, Visited
  <2> DEFINE T == {x \in Nodes : (x \in S /\ a < x) \/ b < x}
  <2> HIDE DEF R
  <2>1. ASSUME NEW w \in Nodes, <<a, w>> \in E, w # b PROVE w \in T
    <3>1. a < w
      BY <2>1 DEF Forward
    <3>2. CASE b < w
      BY <3>2
    <3>3. CASE w < b
      <4>1. Reaches(R, a, w)
        BY <1>7, <2>1, <3>3, <1>5 DEF Nodes
      <4>2. w \in S
        BY <4>1 DEF Reaches, Visited
      <4> QED BY <4>2, <3>1
    <3> QED BY <3>2, <3>3, <2>1 DEF Nodes
  <2>2. ASSUME NEW x \in T, NEW y \in Nodes, <<x, y>> \in E PROVE y \in T
    <3>1. x \in Nodes /\ x < y
      BY <2>2 DEF Forward
    <3>2. CASE b < y
      BY <3>2
    <3>3. CASE y <= b
      <4>1. x \in S /\ a < x
        BY <3>1, <3>3, <1>5 DEF Nodes
      <4>2. y - x < b - a
        BY <4>1, <3>1, <3>3, <1>5 DEF Nodes
      <4>3. Reaches(R, x, y)
        BY <1>7, <2>2, <3>1, <4>2
      <4>4. Succs(R, x) \subseteq S
        BY <4>1 DEF Closed
      <4>5. y \in S
        BY <4>3, <4>4 DEF Reaches, Visited
      <4> QED BY <4>5, <4>1, <3>1, <1>5 DEF Nodes
    <3> QED BY <3>2, <3>3, <1>5 DEF Nodes
  <2>3. T \in SUBSET Nodes /\ Succs(E, a) \ {b} \subseteq T /\ Closed(E, T)
    <3>1. Succs(E, a) \ {b} \subseteq T
      BY <2>1 DEF Succs
    <3>2. Closed(E, T)
      BY <2>2 DEF Succs, Closed
    <3> QED BY <3>1, <3>2
  <2>4. b \in T
    <3> HIDE DEF T
    <3> QED BY <2>3, <1>9 DEF ReachableWithout, Visited
  <2> QED
    BY <2>4 DEF Nodes
<1> QED
  BY <1>8, <1>9

(* reduce keeps the order.                                                 *)
LEMMA ReducedReaches ==
    ASSUME NEW E, E \subseteq Forward, N \in Nat,
           NEW u \in Nodes, NEW v \in Nodes
    PROVE  Reaches(Reduced(E), u, v) <=> Reaches(E, u, v)
<1>1. \A x, y \in Nodes : <<x, y>> \in E => Reaches(Reduced(E), x, y)
  BY ReducedKeepsEdges
<1>2. Reduced(E) \subseteq E
  BY DEF Reduced
<1> QED
  BY <1>1, <1>2, ReachesCovered, ReachesMonotone

(* reduce leaves no edge that another path of the reduced graph implies.   *)
LEMMA ReducedMinimal ==
    ASSUME NEW E, E \subseteq Forward,
           NEW e \in Reduced(E)
    PROVE  ~ReachableWithout(Reduced(E), e[1], e[2])
<1> DEFINE R == Reduced(E)
<1>1. e \in E /\ ~ReachableWithout(E, e[1], e[2]) /\ R \subseteq E
  BY DEF Reduced
<1>2. e[1] \in Nodes /\ e[2] \in Nodes
  BY <1>1 DEF Forward
<1>3. PICK S \in SUBSET Nodes :
        Succs(E, e[1]) \ {e[2]} \subseteq S /\ Closed(E, S) /\ e[2] \notin S
  BY <1>1, <1>2 DEF ReachableWithout, Visited
<1> HIDE DEF R
<1>4. Succs(R, e[1]) \ {e[2]} \subseteq S
  BY <1>1, <1>3 DEF Succs
<1>5. Closed(R, S)
  BY <1>1, <1>3 DEF Closed, Succs
<1>6. ~ReachableWithout(R, e[1], e[2])
  BY <1>3, <1>4, <1>5 DEF ReachableWithout, Visited
<1> QED
  BY <1>6 DEF R

(* A graph whose edges all point forwards passes the topological check.    *)
LEMMA ForwardAcyclic ==
    ASSUME NEW E, E \subseteq Forward, N \in Nat
    PROVE  KahnLeftover(E) = {}
<1> SUFFICES ASSUME NEW S \in SUBSET Nodes, S # {},
                    \A v \in S : \E u \in S : <<u, v>> \in E
             PROVE  FALSE
  BY DEF KahnLeftover
<1>0. S \subseteq Nat
  BY DEF Nodes
<1>1. PICK m \in S : \A n \in S : m <= n
  BY <1>0, LeastNatural
<1>2. PICK u \in S : <<u, m>> \in E
  OBVIOUS
<1>3. u < m
  BY <1>2 DEF Forward
<1> QED
  BY <1>1, <1>3 DEF Nodes

---------------------------------------------------------------------------
(* The inductive invariant.                                                *)

(* The scan p has dealt with operator j.                                   *)
Scanned(p, j) ==
    \/ pass = p /\ j < pos
    \/ pass # p /\ (p = "common" \/ pass # "common")

(* Operator i comes no later than m in the order of the graph.             *)
Behind(i, m) == i = m \/ Reaches(edges, i, m)

(* What the tracker of a field knows: who it names really makes that       *)
(* access, and an access it does not name lies behind the last mutating    *)
(* writer.                                                                 *)
TrackerSound(f) ==
    /\ trackers[f].mut < pos
    /\ trackers[f].mut # 0 => Mutates(pass, ops[trackers[f].mut], f)
    /\ \A i \in trackers[f].rd : i < pos /\ Reads(pass, ops[i], f)
    /\ \A i \in trackers[f].add : i < pos /\ Adds(pass, ops[i], f)

TrackerComplete(f) ==
    \A i \in Nodes :
        i < pos =>
            /\ Mutates(pass, ops[i], f) => Behind(i, trackers[f].mut)
            /\ Reads(pass, ops[i], f) =>
                   i \in trackers[f].rd \/ Behind(i, trackers[f].mut)
            /\ Adds(pass, ops[i], f) =>
                   i \in trackers[f].add \/ Behind(i, trackers[f].mut)

TrackerInv ==
    pass \in Scans => \A f \in Fields(pass) : TrackerSound(f) /\ TrackerComplete(f)

(* Every conflict the scans have met is ordered by a path.                 *)
ConflictsOrdered ==
    \A p \in Scans : \A f \in Fields(p) : \A i, j \in Nodes :
        i < j /\ Scanned(p, j) /\ Conflict(p, f, ops[i], ops[j])
            => Reaches(edges, i, j)

(* So is every explicit source that has been linked.                       *)
SourcesOrdered ==
    \A j \in Nodes :
        pass \in {"check", "reduce", "built"} \/ (pass = "sources" /\ j < pos)
            => \A i \in ops[j].sources : i \in Nodes /\ Reaches(edges, i, j)

(* No edge is there without a reason.                                      *)
EdgesJustified == edges \subseteq Required

IInv ==
    /\ TypeOK
    /\ NeverCyclic
    /\ TrackerInv
    /\ ConflictsOrdered
    /\ SourcesOrdered
    /\ EdgesJustified
    /\ NoRedundantEdge

---------------------------------------------------------------------------
(* Preservation.                                                           *)

LEMMA InitIInv == Init => IInv
<1> SUFFICES ASSUME Init PROVE IInv
  OBVIOUS
<1> USE DagAssumption
<1>1. TypeOK
  BY DEF Init, TypeOK, Passes, Scans, Tracker, NewTracker
<1>2. TrackerInv
  BY DEF Init, TrackerInv, TrackerSound, TrackerComplete, NewTracker, Scans, Nodes
<1>3. ConflictsOrdered
  BY DEF Init, ConflictsOrdered, Scanned, Scans, Nodes
<1>4. NeverCyclic /\ SourcesOrdered /\ EdgesJustified /\ NoRedundantEdge
  BY DEF Init, NeverCyclic, SourcesOrdered, EdgesJustified, NoRedundantEdge
<1> QED
  BY <1>1, <1>2, <1>3, <1>4 DEF IInv

(* What one iteration of a scan reads off a tracker are operators before   *)
(* the current one that conflict with it.                                  *)
LEMMA EdgeSourcesConflict ==
    ASSUME IInv, pass \in Scans, pos \in Nodes, NEW f \in Fields(pass),
           NEW k \in EdgeSources(pass, ops[pos], f, trackers[f], pos)
    PROVE  k \in Nodes /\ k < pos /\ Conflict(pass, f, ops[k], ops[pos])
<1> DEFINE t == trackers[f]
           o == ops[pos]
           r == AfterReads(pass, o, f, t, pos)
<1>1. TrackerSound(f) /\ t \in Tracker
  BY DEF IInv, TrackerInv, TypeOK, Scans, Fields
<1>2. /\ LastMut(t) \subseteq Nodes /\ t.add \subseteq Nodes /\ t.rd \subseteq Nodes
      /\ \A x \in LastMut(t) : x < pos /\ Mutates(pass, ops[x], f)
      /\ \A x \in t.add : x < pos /\ Adds(pass, ops[x], f)
      /\ \A x \in t.rd : x < pos /\ Reads(pass, ops[x], f)
  BY <1>1 DEF TrackerSound, Tracker, LastMut, Nodes
<1>3. r.add = t.add /\ r.mut = t.mut /\ r.rd \subseteq t.rd \cup {pos}
  BY <1>1 DEF AfterReads, OnRead, Tracker
<1>4. LastMut(r) = LastMut(t)
  BY <1>3 DEF LastMut
<1>5. \/ Reads(pass, o, f) /\ k \in LastMut(t) \cup t.add
      \/ Adds(pass, o, f) /\ k \in LastMut(t) \cup t.rd
      \/ Mutates(pass, o, f) /\ k \in LastMut(t) \cup t.add \cup t.rd
  BY <1>3, <1>4 DEF EdgeSources, ReadSources, AddSources, MutateSources
<1> QED
  BY <1>2, <1>5 DEF Conflict, Touches

(* A conflict with an earlier operator either is an edge or lies behind    *)
(* the last mutating writer, which is one.                                 *)
LEMMA ConflictFound ==
    ASSUME IInv, pass \in Scans, pos \in Nodes, NEW f \in Fields(pass),
           NEW k \in Nodes, k < pos, Conflict(pass, f, ops[k], ops[pos])
    PROVE  \E x \in EdgeSources(pass, ops[pos], f, trackers[f], pos) :
               x \in Nodes /\ Behind(k, x)
<1> DEFINE t == trackers[f]
           o == ops[pos]
           r == AfterReads(pass, o, f, t, pos)
           X == EdgeSources(pass, o, f, t, pos)
<1>1. TrackerComplete(f) /\ TrackerSound(f) /\ t \in Tracker
  BY DEF IInv, TrackerInv, TypeOK, Scans, Fields
<1>2. r.add = t.add /\ r.mut = t.mut /\ t.rd \subseteq r.rd
  BY <1>1 DEF AfterReads, OnRead, Tracker
<1>3. /\ Reads(pass, o, f) => (LastMut(t) \cup t.add) \ {pos} \subseteq X
      /\ Adds(pass, o, f) => (LastMut(t) \cup t.rd) \ {pos} \subseteq X
      /\ Mutates(pass, o, f) => (LastMut(t) \cup t.add \cup t.rd) \ {pos} \subseteq X
  BY <1>2 DEF EdgeSources, ReadSources, AddSources, MutateSources, LastMut
<1>4. Touches(pass, o, f)
  BY DEF Conflict, Touches
<1>5. CASE Behind(k, t.mut)
  <2>1. t.mut \in Nodes
    BY <1>5, <1>1 DEF Behind, Reaches, Visited, Tracker
  <2>2. t.mut \in LastMut(t) /\ t.mut # pos
    BY <2>1, <1>1 DEF LastMut, TrackerSound, Nodes
  <2>3. t.mut \in X
    BY <2>2, <1>3, <1>4 DEF Touches
  <2> QED BY <2>1, <2>3, <1>5
<1>6. CASE ~Behind(k, t.mut)
  <2>1. /\ ~Mutates(pass, ops[k], f)
        /\ Reads(pass, ops[k], f) => k \in t.rd
        /\ Adds(pass, ops[k], f) => k \in t.add
    BY <1>6, <1>1 DEF TrackerComplete
  <2>2. k \in X
    BY <2>1, <1>3 DEF Conflict, Touches, Nodes
  <2> QED BY <2>2 DEF Behind
<1> QED
  BY <1>5, <1>6

(* One iteration of a scan.                                                *)
LEMMA ScanOpIInv == ASSUME IInv, ScanOp PROVE IInv'
<1> USE DagAssumption
<1>0. /\ pass \in Scans /\ pos \in Nodes /\ pos' = pos + 1
      /\ pass' = pass /\ ops' = ops /\ verdict' = verdict
      /\ edges' = edges \cup NewEdges(pass, ops[pos], pos)
      /\ TypeOK
  BY DEF ScanOp, IInv
<1>1. \A f \in Fields(pass) :
        /\ trackers[f] \in Tracker
        /\ trackers'[f] = AfterScan(pass, ops[pos], f, trackers[f], pos)
        /\ trackers'[f] \in Tracker
  <2>1. \A f \in Fields(pass) : trackers[f] \in Tracker
    BY <1>0 DEF TypeOK, Scans, Fields
  <2> QED
    BY <2>1, <1>0 DEF ScanOp, AfterScan, AfterReads, OnRead, OnAdd, OnMutate, Tracker, Nodes
<1>2. \A e \in edges' : e \in edges \/ \E f \in Fields(pass) :
        \E k \in EdgeSources(pass, ops[pos], f, trackers[f], pos) : e = <<k, pos>>
  BY <1>0 DEF NewEdges
<1>3. \A f \in Fields(pass) : \A k \in EdgeSources(pass, ops[pos], f, trackers[f], pos) :
        <<k, pos>> \in edges'
  BY <1>0 DEF NewEdges
<1>4. \A x, y \in Nodes : Reaches(edges, x, y) => Reaches(edges', x, y)
  BY <1>0, ReachesMonotone
<1>5. Required' = Required
  BY <1>0 DEF Required, Hazards
<1>6. EdgesJustified'
  <2> SUFFICES ASSUME NEW e \in edges' PROVE e \in Required
    BY <1>5 DEF EdgesJustified
  <2>1. CASE e \in edges
    BY <2>1 DEF IInv, EdgesJustified
  <2>2. ASSUME NEW f \in Fields(pass),
               NEW k \in EdgeSources(pass, ops[pos], f, trackers[f], pos), e = <<k, pos>>
        PROVE  e \in Required
    <3>1. k \in Nodes /\ k < pos /\ Conflict(pass, f, ops[k], ops[pos])
      BY <1>0, EdgeSourcesConflict
    <3> QED
      BY <3>1, <2>2, <1>0 DEF Required, Hazards, Forward
  <2> QED BY <1>2, <2>1, <2>2
<1>7. TypeOK'
  <2>1. edges' \subseteq Forward
    BY <1>5, <1>6 DEF EdgesJustified, Required, Hazards
  <2>2. pos' \in 1 .. N + 1
    BY <1>0 DEF Nodes
  <2>3. trackers' \in [Fields(IF pass = "common" THEN "common" ELSE "item") -> Tracker]
    BY <1>0, <1>1 DEF ScanOp, Scans
  <2> QED
    BY <2>1, <2>2, <2>3, <1>0 DEF TypeOK
<1>8. ASSUME NEW f \in Fields(pass), NEW k \in Nodes, k < pos,
             Conflict(pass, f, ops[k], ops[pos])
      PROVE  Reaches(edges', k, pos)
  <2>1. PICK x \in EdgeSources(pass, ops[pos], f, trackers[f], pos) :
            x \in Nodes /\ Behind(k, x)
    BY <1>0, <1>8, ConflictFound
  <2>2. Reaches(edges', x, pos)
    BY <2>1, <1>3, <1>0, EdgeReaches
  <2>3. k = x \/ Reaches(edges', k, x)
    BY <2>1, <1>4 DEF Behind
  <2> QED
    BY <2>1, <2>2, <2>3, <1>0, ReachesTransitive
<1>9. ConflictsOrdered'
  <2> SUFFICES ASSUME NEW p \in Scans, NEW f \in Fields(p), NEW i \in Nodes,
                      NEW j \in Nodes, i < j, Scanned(p, j)',
                      Conflict(p, f, ops[i], ops[j])
               PROVE  Reaches(edges', i, j)
    BY <1>0 DEF ConflictsOrdered
  <2>1. CASE Scanned(p, j)
    BY <2>1, <1>4 DEF IInv, ConflictsOrdered
  <2>2. CASE ~Scanned(p, j)
    <3>1. p = pass /\ j = pos
      BY <2>2, <1>0 DEF Scanned, Nodes
    <3> QED BY <3>1, <1>8
  <2> QED BY <2>1, <2>2
<1>10. TrackerInv'
  <2> SUFFICES ASSUME NEW f \in Fields(pass) PROVE TrackerSound(f)' /\ TrackerComplete(f)'
    BY <1>0 DEF TrackerInv
  <2>0. TrackerSound(f) /\ TrackerComplete(f)
    BY <1>0 DEF IInv, TrackerInv
  <2> DEFINE t == trackers[f]
             o == ops[pos]
             r == AfterReads(pass, o, f, t, pos)
  <2>1. /\ r.add = t.add /\ r.mut = t.mut
        /\ r.rd = IF Reads(pass, o, f) THEN t.rd \cup {pos} ELSE t.rd
        /\ r \in Tracker
    BY <1>0, <1>1 DEF AfterReads, OnRead, Tracker, Nodes
  <2>2. CASE Mutates(pass, o, f)
    <3>1. trackers'[f] = [mut |-> pos, add |-> {}, rd |-> {}]
      BY <2>2, <1>1 DEF AfterScan, OnMutate
    <3>2. TrackerSound(f)'
      BY <3>1, <2>2, <1>0 DEF TrackerSound, Nodes
    <3>3. ASSUME NEW i \in Nodes, i < pos + 1, Touches(pass, ops[i], f)
          PROVE  i = pos \/ Reaches(edges', i, pos)
      <4>1. CASE i = pos
        BY <4>1
      <4>2. CASE i < pos
        BY <4>2, <3>3, <2>2, <1>8 DEF Conflict
      <4> QED BY <4>1, <4>2, <3>3, <1>0 DEF Nodes
    <3>4. ASSUME NEW i \in Nodes, i < pos + 1, Touches(pass, ops[i], f)
          PROVE  Behind(i, trackers[f].mut)'
      BY <3>1, <3>3, <3>4 DEF Behind
    <3>5. TrackerComplete(f)'
      BY <3>4, <1>0 DEF TrackerComplete, Touches
    <3> QED BY <3>2, <3>5
  <2>3. CASE ~Mutates(pass, o, f)
    <3>1. /\ trackers'[f].mut = t.mut
          /\ trackers'[f].rd = r.rd
          /\ trackers'[f].add = IF Adds(pass, o, f) THEN t.add \cup {pos} ELSE t.add
      BY <2>1, <2>3, <1>1 DEF AfterScan, OnAdd, Tracker
    <3>2. TrackerSound(f)'
      <4>1. \A i \in trackers'[f].rd : i < pos + 1 /\ Reads(pass, ops[i], f)
        BY <3>1, <2>0, <2>1, <1>0, <1>1 DEF TrackerSound, Nodes, Tracker
      <4>2. \A i \in trackers'[f].add : i < pos + 1 /\ Adds(pass, ops[i], f)
        BY <3>1, <2>0, <1>0, <1>1 DEF TrackerSound, Nodes, Tracker
      <4>3. t.mut < pos + 1
        BY <2>0, <1>0, <1>1 DEF TrackerSound, Nodes, Tracker
      <4> QED BY <4>1, <4>2, <4>3, <3>1, <2>0, <1>0 DEF TrackerSound
    <3>3. \A i \in Nodes : Behind(i, t.mut) => Behind(i, t.mut)'
      <4> SUFFICES ASSUME NEW i \in Nodes, Reaches(edges, i, t.mut)
                   PROVE  Reaches(edges', i, t.mut)
        BY <3>1 DEF Behind
      <4>1. t.mut \in Nodes
        BY DEF Reaches, Visited
      <4> QED BY <4>1, <1>4
    <3>4. ASSUME NEW i \in Nodes, i < pos + 1
          PROVE  /\ Mutates(pass, ops[i], f) => Behind(i, t.mut)'
                 /\ Reads(pass, ops[i], f) => i \in trackers'[f].rd \/ Behind(i, t.mut)'
                 /\ Adds(pass, ops[i], f) => i \in trackers'[f].add \/ Behind(i, t.mut)'
      <4>1. CASE i = pos
        BY <4>1, <3>1, <2>1, <2>3
      <4>2. CASE i < pos
        BY <4>2, <3>1, <3>3, <2>0, <2>1 DEF TrackerComplete
      <4> QED BY <4>1, <4>2, <3>4, <1>0 DEF Nodes
    <3>5. TrackerComplete(f)'
      BY <3>4, <1>0 DEF TrackerComplete
    <3> QED BY <3>2, <3>5
  <2> QED BY <2>2, <2>3
<1>11. NeverCyclic' /\ SourcesOrdered' /\ NoRedundantEdge'
  BY <1>0 DEF IInv, NeverCyclic, SourcesOrdered, NoRedundantEdge, Scans
<1> QED
  BY <1>6, <1>7, <1>9, <1>10, <1>11 DEF IInv

(* The end of a scan: everything it had to order is ordered.               *)
LEMMA ScanDoneIInv == ASSUME IInv, ScanDone PROVE IInv'
<1> USE DagAssumption
<1>0. /\ pass \in Scans /\ pos \notin Nodes /\ pos' = 1
      /\ ops' = ops /\ edges' = edges /\ verdict' = verdict
      /\ \/ /\ pass = "common" /\ pass' = "item"
            /\ trackers' = [f \in Fields("item") |-> NewTracker]
         \/ /\ pass = "item" /\ pass' = "sources" /\ trackers' = trackers
      /\ TypeOK
  BY DEF ScanDone, IInv
<1>1. TypeOK'
  BY <1>0 DEF TypeOK, Passes, Scans, Tracker, NewTracker
<1>2. TrackerInv'
  BY <1>0 DEF TrackerInv, TrackerSound, TrackerComplete, NewTracker, Scans, Nodes
<1>3. ConflictsOrdered'
  <2> SUFFICES ASSUME NEW p \in Scans, NEW f \in Fields(p), NEW i \in Nodes,
                      NEW j \in Nodes, i < j, Scanned(p, j)',
                      Conflict(p, f, ops[i], ops[j])
               PROVE  Reaches(edges, i, j)
    BY <1>0 DEF ConflictsOrdered
  <2>1. \A x \in Nodes : x < pos
    BY <1>0 DEF TypeOK, Nodes
  <2>2. Scanned(p, j)
    BY <2>1, <1>0 DEF Scanned, Scans, Nodes
  <2> QED BY <2>2 DEF IInv, ConflictsOrdered
<1>4. NeverCyclic' /\ SourcesOrdered' /\ EdgesJustified' /\ NoRedundantEdge'
  BY <1>0 DEF IInv, NeverCyclic, SourcesOrdered, EdgesJustified, Required, Hazards,
              NoRedundantEdge, Nodes
<1> QED
  BY <1>1, <1>2, <1>3, <1>4 DEF IInv

(* A throw changes nothing but the verdict.                                *)
LEMMA ThrowIInv == ASSUME IInv, NEW e \in Errors \ {"CycleError"}, Throw(e) PROVE IInv'
<1>0. ops' = ops /\ pass' = pass /\ pos' = pos /\ trackers' = trackers /\ edges' = edges
      /\ verdict' = e
  BY DEF Throw
<1>1. TypeOK' /\ NeverCyclic'
  BY <1>0 DEF IInv, TypeOK, NeverCyclic, Errors
<1>2. TrackerInv' /\ ConflictsOrdered' /\ SourcesOrdered'
  BY <1>0 DEF IInv, TrackerInv, TrackerSound, TrackerComplete, Behind,
              ConflictsOrdered, Scanned, SourcesOrdered
<1>3. EdgesJustified' /\ NoRedundantEdge'
  BY <1>0 DEF IInv, EdgesJustified, Required, Hazards, NoRedundantEdge
<1> QED
  BY <1>1, <1>2, <1>3 DEF IInv

LEMMA LinkSourcesIInv == ASSUME IInv, LinkSources PROVE IInv'
<1> USE DagAssumption
<1>1. CASE Throw("ConfigError") \/ Throw("ValidationError")
  BY <1>1, ThrowIInv DEF Errors
<1>2. CASE /\ \A s \in ops[pos].sources : 0 < s /\ s < pos
           /\ edges' = edges \cup (ops[pos].sources \X {pos})
           /\ pos' = pos + 1
           /\ UNCHANGED <<ops, pass, trackers, verdict>>
  <2>0. /\ pass = "sources" /\ pos \in Nodes /\ TypeOK
        /\ ops' = ops /\ pass' = pass /\ trackers' = trackers /\ verdict' = verdict
    BY <1>2 DEF LinkSources, IInv
  <2>1. ops[pos].sources \subseteq Nodes
    <3>1. ops[pos].sources \in SUBSET (0 .. N)
      BY <2>0 DEF TypeOK, OperatorConfig
    <3> QED BY <3>1, <1>2 DEF Nodes
  <2>2. Required' = Required
    BY <2>0 DEF Required, Hazards
  <2>3. EdgesJustified'
    <3> SUFFICES ASSUME NEW s \in ops[pos].sources PROVE <<s, pos>> \in Required
      BY <2>2, <1>2 DEF IInv, EdgesJustified
    <3> QED
      BY <2>0, <2>1, <1>2 DEF Required, Forward
  <2>4. TypeOK'
    <3>1. edges' \subseteq Forward
      BY <2>2, <2>3 DEF EdgesJustified, Required, Hazards
    <3>2. pos' \in 1 .. N + 1
      BY <2>0, <1>2 DEF Nodes
    <3> QED BY <3>1, <3>2, <2>0 DEF TypeOK
  <2>5. \A x, y \in Nodes : Reaches(edges, x, y) => Reaches(edges', x, y)
    BY <1>2, ReachesMonotone
  <2>6. TrackerInv'
    BY <2>0 DEF TrackerInv, Scans
  <2>7. ConflictsOrdered'
    BY <2>0, <2>5 DEF IInv, ConflictsOrdered, Scanned, Scans
  <2>8. SourcesOrdered'
    <3> SUFFICES ASSUME NEW j \in Nodes, j < pos + 1, NEW i \in ops[j].sources
                 PROVE  i \in Nodes /\ Reaches(edges', i, j)
      BY <2>0, <1>2 DEF SourcesOrdered
    <3>1. CASE j < pos
      BY <3>1, <2>0, <2>5 DEF IInv, SourcesOrdered
    <3>2. CASE j = pos
      BY <3>2, <2>1, <1>2, EdgeReaches
    <3> QED BY <3>1, <3>2, <2>0 DEF Nodes
  <2>9. NeverCyclic' /\ NoRedundantEdge'
    BY <2>0 DEF IInv, NeverCyclic, NoRedundantEdge
  <2> QED
    BY <2>3, <2>4, <2>6, <2>7, <2>8, <2>9 DEF IInv
<1> QED
  BY <1>1, <1>2 DEF LinkSources

LEMMA SourcesDoneIInv == ASSUME IInv, SourcesDone PROVE IInv'
<1> USE DagAssumption
<1>0. /\ pass = "sources" /\ pass' = "check" /\ pos \notin Nodes /\ pos' = pos /\ TypeOK
      /\ ops' = ops /\ trackers' = trackers /\ verdict' = verdict /\ edges' = edges
  BY DEF SourcesDone, IInv
<1>1. TypeOK'
  BY <1>0 DEF TypeOK, Passes
<1>2. SourcesOrdered'
  <2>1. \A j \in Nodes : j < pos
    BY <1>0 DEF TypeOK, Nodes
  <2> QED
    BY <2>1, <1>0 DEF IInv, SourcesOrdered
<1>3. TrackerInv' /\ ConflictsOrdered' /\ EdgesJustified' /\ NeverCyclic' /\ NoRedundantEdge'
  BY <1>0 DEF IInv, TrackerInv, ConflictsOrdered, Scanned, Scans, EdgesJustified,
              Required, Hazards, NeverCyclic, NoRedundantEdge
<1> QED
  BY <1>1, <1>2, <1>3 DEF IInv

LEMMA TopologicalCheckIInv == ASSUME IInv, TopologicalCheck PROVE IInv'
<1> USE DagAssumption
<1>1. KahnLeftover(edges) = {}
  BY ForwardAcyclic DEF IInv, TypeOK
<1>0. /\ pass = "check" /\ pass' = "reduce" /\ pos' = pos /\ TypeOK
      /\ ops' = ops /\ trackers' = trackers /\ verdict' = verdict /\ edges' = edges
  BY <1>1 DEF TopologicalCheck, IInv
<1>2. TypeOK'
  BY <1>0 DEF TypeOK, Passes
<1>3. TrackerInv' /\ ConflictsOrdered' /\ SourcesOrdered' /\ EdgesJustified'
        /\ NeverCyclic' /\ NoRedundantEdge'
  BY <1>0 DEF IInv, TrackerInv, ConflictsOrdered, Scanned, Scans, SourcesOrdered,
              EdgesJustified, Required, Hazards, NeverCyclic, NoRedundantEdge
<1> QED
  BY <1>2, <1>3 DEF IInv

LEMMA ReduceIInv == ASSUME IInv, Reduce PROVE IInv'
<1> USE DagAssumption
<1>0. /\ pass = "reduce" /\ pass' = "built" /\ pos' = pos /\ TypeOK
      /\ ops' = ops /\ trackers' = trackers /\ verdict' = "ok"
      /\ edges' = Reduced(edges) /\ edges \subseteq Forward
  BY DEF Reduce, IInv, TypeOK
<1>1. edges' \subseteq edges
  BY <1>0 DEF Reduced
<1>2. \A x, y \in Nodes : Reaches(edges, x, y) => Reaches(edges', x, y)
  BY <1>0, ReducedReaches
<1>3. TypeOK' /\ NeverCyclic'
  BY <1>0, <1>1 DEF TypeOK, Passes, NeverCyclic
<1>4. TrackerInv' /\ ConflictsOrdered' /\ SourcesOrdered'
  BY <1>0, <1>2 DEF IInv, TrackerInv, ConflictsOrdered, Scanned, Scans, SourcesOrdered
<1>5. EdgesJustified'
  BY <1>0, <1>1 DEF IInv, EdgesJustified, Required, Hazards
<1>6. NoRedundantEdge'
  BY <1>0, ReducedMinimal DEF NoRedundantEdge
<1> QED
  BY <1>3, <1>4, <1>5, <1>6 DEF IInv

LEMMA StutterIInv == ASSUME IInv, UNCHANGED vars PROVE IInv'
BY DEF vars, IInv, TypeOK, NeverCyclic, TrackerInv, TrackerSound, TrackerComplete,
       Behind, ConflictsOrdered, Scanned, SourcesOrdered, EdgesJustified, Required,
       Hazards, NoRedundantEdge

(* The invariant orders exactly what is required.                          *)
LEMMA IInvExactOrder == IInv => ExactOrder
<1> USE DagAssumption
<1> SUFFICES ASSUME IInv, pass = "built", NEW u \in Nodes, NEW v \in Nodes
             PROVE  Reaches(edges, u, v) <=> Reaches(Required, u, v)
  BY DEF ExactOrder
<1>1. ASSUME NEW x \in Nodes, NEW y \in Nodes, <<x, y>> \in Required
      PROVE  Reaches(edges, x, y)
  <2>1. CASE <<x, y>> \in Hazards
    <3>1. PICK p \in Scans : \E f \in Fields(p) : Conflict(p, f, ops[x], ops[y])
      BY <2>1 DEF Hazards
    <3>2. x < y /\ Scanned(p, y)
      BY <2>1 DEF Hazards, Forward, Scanned, Scans
    <3> QED BY <3>1, <3>2 DEF IInv, ConflictsOrdered
  <2>2. CASE x \in ops[y].sources
    BY <2>2 DEF IInv, SourcesOrdered
  <2> QED BY <1>1, <2>1, <2>2 DEF Required
<1>2. edges \subseteq Required
  BY DEF IInv, EdgesJustified
<1> QED
  BY <1>1, <1>2, ReachesCovered, ReachesMonotone

LEMMA NextIInv == IInv /\ [Next]_vars => IInv'
<1> SUFFICES ASSUME IInv, [Next]_vars PROVE IInv'
  OBVIOUS
<1>1. CASE Returned
  BY <1>1, StutterIInv DEF Returned
<1> QED
  BY <1>1, ScanOpIInv, ScanDoneIInv, LinkSourcesIInv, SourcesDoneIInv,
     TopologicalCheckIInv, ReduceIInv, StutterIInv DEF Next

(* The inductive invariant holds in every state of build_dag.              *)
THEOREM DagInvariant == Spec => []IInv
BY InitIInv, NextIInv, PTL DEF Spec

(* The variables of build_dag keep their types, and no edge points         *)
(* backwards in the operator sequence.                                     *)
THEOREM DagTypes == Spec => []TypeOK
<1>1. IInv => TypeOK
  BY DEF IInv
<1> QED BY <1>1, DagInvariant, PTL

(* The graph build_dag returns orders two operators exactly when a chain   *)
(* of field conflicts and sources does: the trackers forget nothing and    *)
(* the transitive reduction loses nothing, for any pipeline.               *)
THEOREM DagExactOrder == Spec => []ExactOrder
BY DagInvariant, IInvExactOrder, PTL

(* No edge of the returned graph is implied by the others.                 *)
THEOREM DagMinimal == Spec => []NoRedundantEdge
<1>1. IInv => NoRedundantEdge
  BY DEF IInv
<1> QED BY <1>1, DagInvariant, PTL

(* The cycle check of build_dag never throws, for any pipeline: sources    *)
(* and conflicts only ever point forward in the operator sequence.         *)
THEOREM DagNeverCyclic == Spec => []NeverCyclic
<1>1. IInv => NeverCyclic
  BY DEF IInv
<1> QED BY <1>1, DagInvariant, PTL
=============================================================================
