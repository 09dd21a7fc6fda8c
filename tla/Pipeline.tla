------------------------------- MODULE Pipeline -------------------------------
(***************************************************************************)
(* A request's run over its data: the node body of run_dag and             *)
(* parallel_execute (pine-cpp/src/runtime/engine.cpp) over a Frame, with   *)
(* the order of nodes that DagBuild requires and DagRun keeps.             *)
(*                                                                         *)
(* Every lock window on the frame is a step of its own.  An operator's own *)
(* reads are one step, Run: StableView shows that what it can read does    *)
(* not change from Begin to Finish.  A node takes any worker that is free, *)
(* here the first one, since the buffers of idle workers are all alike.    *)
(***************************************************************************)
EXTENDS Operators

CONSTANTS
    Plans,      \* the pipelines, as sequences of operator configurations
    Requests,   \* records of common fields and items
    MaxOps      \* the longest plan

(* What the configurations are: an operator's C++ class says whether it    *)
(* reads, changes or adds to the rows, and says so for its type; one that  *)
(* only adds rows reads none.  The requests hold fields and rows.          *)
ASSUME PipelineAssumption ==
    /\ IsFiniteSet(CommonFields) /\ IsFiniteSet(ItemFields)
    /\ MaxOps \in Nat
    /\ \A ops \in Plans :
          /\ IsList(ops) /\ Len(ops) <= MaxOps
          /\ \A i \in 1 .. Len(ops) : WellFormed(ops[i]) /\ WellMarked(ops[i])
    /\ \A r \in Requests : IsCommon(r.common) /\ IsList(r.items) /\ \A k \in 1 .. Len(r.items) : IsRow(r.items[k])

Workers == 1 .. MaxOps

VARIABLES
    plan,     \* the operators of the pipeline
    edges,    \* which must end before which
    request,  \* what the caller sent
    frame,    \* the request's data
    warnings, \* the frame's warnings, each by the node that it is of
    phase,    \* where each node's body is
    view,     \* a node's template parameter, cached item count and what it saw
    shards,   \* the shards of a node that have not run yet, and their views
    worker,   \* the worker a node runs on, 0 for none
    tls_out,  \* the OperatorOutput of each worker, reused from node to node
    shard_outs, \* the outputs of a node's shards
    outcome,  \* what became of each node, an error from when it is thrown
    fatal     \* the first node to fail, 0 for none

vars == <<plan, edges, request, frame, warnings, phase, view, shards, worker, tls_out, shard_outs, outcome, fatal>>

Nodes == DOMAIN plan

---------------------------------------------------------------------------
(* The order the graph keeps.                                              *)

RowSet == "_row_set_"
Shape(op) ==
    [commonReads |-> op.common_input \cup Excluded(op), commonWrites |-> op.common_output,
     itemReads |-> op.item_input, itemWrites |-> op.item_output,
     additive |-> op.additive, consumes |-> op.consumes, mutates |-> op.mutates, sources |-> {}]

Dag == INSTANCE DagBuild WITH N <- MaxOps, OpShapes <- {}, ops <- <<>>, pass <- "built", pos <- 1,
                              trackers <- <<>>, edges <- {}, verdict <- "ok"

Required(ops) ==
    {e \in (DOMAIN ops) \X (DOMAIN ops) :
        e[1] < e[2] /\ \E p \in Dag!Scans : \E f \in Dag!Fields(p) :
                          Dag!Conflict(p, f, Shape(ops[e[1]]), Shape(ops[e[2]]))}

---------------------------------------------------------------------------
NoView == [templated |-> Null, count |-> 0, seen |-> Null]

Init ==
    /\ plan \in Plans
    /\ edges = Required(plan)
    /\ request \in Requests
    /\ \E mode \in {"row", "column"} : frame = MakeFrame(mode, request.common, request.items)
    /\ warnings = <<>>
    /\ phase = [i \in Nodes |-> "waiting"]
    /\ view = [i \in Nodes |-> NoView]
    /\ shards = [i \in Nodes |-> <<>>]
    /\ worker = [i \in Nodes |-> 0]
    /\ tls_out = [w \in Workers |-> EmptyOutput]
    /\ shard_outs = [i \in Nodes |-> <<>>]
    /\ outcome = [i \in Nodes |-> "none"]
    /\ fatal = 0

Ended(i) == phase[i] = "ended"
Startable(i) == phase[i] = "waiting" /\ fatal = 0 /\ \A e \in edges : e[2] = i => Ended(e[1])
FreeWorker == CHOOSE w \in Workers : (\A i \in Nodes : worker[i] # w)
                                     /\ \A v \in 1 .. w - 1 : \E i \in Nodes : worker[i] = v

(* What an operator can tell of a frame; see StableView.                   *)
Seen(fr, op) == [fields |-> Visibly(fr, op),
                 count  |-> IF Dag!ReadsRowSet(Shape(op)) THEN ItemCount(fr) ELSE 0]

(* The node body ends and lets its worker go.                              *)
End(i, how) ==
    /\ phase' = [phase EXCEPT ![i] = "ended"]
    /\ outcome' = [outcome EXCEPT ![i] = how]
    /\ worker' = [worker EXCEPT ![i] = 0]

(* An exception leaves the try block, for catch (...) to see to.  Until it *)
(* does, the others run on.                                                *)
Throw(i, how) ==
    /\ phase' = [phase EXCEPT ![i] = "caught"]
    /\ outcome' = [outcome EXCEPT ![i] = how]
    /\ UNCHANGED <<warnings, fatal>>

(* The next statement of the try block is reached, or is not.              *)
Proceed(i, to, error) ==
    \/ error = "none" /\ phase' = [phase EXCEPT ![i] = to] /\ UNCHANGED <<warnings, outcome, fatal>>
    \/ error # "none" /\ Throw(i, error)

(* should_skip, the template parameters and, for an operator that is to be *)
(* sharded, the number of items and the views.                             *)
Begun(i, op, w, params, items) ==
    LET sharded == params.error = "none" /\ op.data_parallel > 1 /\ items > 0
    IN  /\ Proceed(i, IF sharded THEN "shards" ELSE "common", params.error)
        /\ worker' = [worker EXCEPT ![i] = w]
        /\ view' = [view EXCEPT ![i] = [templated |-> params.value, count |-> 0, seen |-> Seen(frame, op)]]
        /\ shards' = [shards EXCEPT ![i] =
                         IF sharded THEN ShardViews(items, Min({op.data_parallel, items})) ELSE <<>>]

Begin(i) ==
    /\ Startable(i)
    /\ \E w \in {FreeWorker} :
          /\ tls_out' = [tls_out EXCEPT ![w] = Reset(@)]
          /\ IF ShouldSkip(frame, plan[i])
             THEN End(i, "skipped") /\ UNCHANGED <<warnings, view, shards, fatal>>
             ELSE Begun(i, plan[i], w, ResolveTemplate(frame, plan[i]), ItemCount(frame))
    /\ UNCHANGED <<plan, edges, request, frame, shard_outs>>

(* One window of build_operator_input.                                     *)
Check(i, from, to, error) ==
    /\ phase[i] = from
    /\ Proceed(i, to, error)
    /\ UNCHANGED <<plan, edges, request, frame, shards, worker, tls_out, shard_outs>>

CheckCommon(i)   == Check(i, "common", "strict", CommonWindow(frame, plan[i])) /\ UNCHANGED view
CheckStrict(i)   == Check(i, "strict", "nullable", StrictWindow(frame, Master, plan[i])) /\ UNCHANGED view
CheckNullable(i) ==
    /\ Check(i, "nullable", "ready", NullableWindow(frame, Master, plan[i]))
    /\ view' = [view EXCEPT ![i].count = ItemCount(frame)]

(* dispatch_with_recovery; a shard builds its own input first.  What       *)
(* becomes of the other shards when one fails is ShardExecutor's.          *)
Dispatched(op, range, count, params, error) ==
    IF error # "none" THEN Throws(EmptyOutput, error)
    ELSE Execute(op, OperatorInput(frame, range, op, count, params))

Run(i) ==
    /\ phase[i] = "ready"
    /\ LET r == Dispatched(plan[i], Master, view[i].count, view[i].templated, "none")
       IN  /\ tls_out' = [tls_out EXCEPT ![worker[i]] = Onto(@, r.out)]
           /\ Proceed(i, "executed", r.error)
    /\ UNCHANGED <<plan, edges, request, frame, view, shards, worker, shard_outs>>

RunShard(i) ==
    /\ phase[i] = "shards"
    /\ Len(shard_outs[i]) < Len(shards[i])
    /\ LET v == shards[i][Len(shard_outs[i]) + 1]
           r == Dispatched(plan[i], v, v.count, view[i].templated, BuildError(frame, v, plan[i]))
       IN  /\ shard_outs' = [shard_outs EXCEPT ![i] = Append(@, r.out)]
           /\ Proceed(i, "shards", r.error)
    /\ UNCHANGED <<plan, edges, request, frame, view, shards, worker, tls_out>>

(* An output that may not be merged is met after those before it have been. *)
Merge(i) ==
    /\ phase[i] = "shards"
    /\ Len(shard_outs[i]) = Len(shards[i])
    /\ tls_out' = [tls_out EXCEPT ![worker[i]] =
                      MergeShards(@, Mergeable(shard_outs[i]), [k \in DOMAIN shards[i] |-> shards[i][k].offset])]
    /\ Proceed(i, "executed",
               IF \A k \in DOMAIN shards[i] : ShardMayMerge(shard_outs[i][k]) THEN "none" ELSE "shard output")
    /\ UNCHANGED <<plan, edges, request, frame, view, shards, worker, shard_outs>>

(* The frame after apply_output, or the error before or in it.             *)
Applied(fr, op, i, out) ==
    IF ~ValidType(op, out) THEN Bad(fr, "type violation")
    ELSE IF ~ValidDeclared(op, out) THEN Bad(fr, "undeclared")
    ELSE ApplyOutput(fr, out, i, op.operator_type = "recall")

(* apply_output takes the warning last, under the lock it has; when it     *)
(* throws, what it had written by then stays.  Then the buffer is reset.   *)
AfterApply(i, r, out) ==
    /\ frame' = r.frame
    /\ \/ /\ r.error = "none"
          /\ warnings' = IF out.has_warning THEN Append(warnings, i) ELSE warnings
          /\ tls_out' = [tls_out EXCEPT ![worker[i]] = Reset(Husk(@, frame.layout))]
          /\ End(i, "done")
          /\ UNCHANGED fatal
       \/ /\ r.error # "none"
          /\ Throw(i, r.error)
          /\ UNCHANGED <<worker, tls_out>>

Finish(i) ==
    /\ phase[i] = "executed"
    /\ AfterApply(i, Applied(frame, plan[i], i, tls_out[worker[i]]), tls_out[worker[i]])
    /\ UNCHANGED <<plan, edges, request, view, shards, shard_outs>>

(* catch (...): the operator's warning is kept, by a lock window of its    *)
(* own, and then the first error is the run's.                             *)
PushWarning(i) ==
    /\ phase[i] = "caught"
    /\ tls_out[worker[i]].has_warning
    /\ warnings' = Append(warnings, i)
    /\ phase' = [phase EXCEPT ![i] = "failing"]
    /\ UNCHANGED <<plan, edges, request, frame, view, shards, worker, tls_out, shard_outs, outcome, fatal>>

Fail(i) ==
    /\ phase[i] = "failing" \/ (phase[i] = "caught" /\ ~tls_out[worker[i]].has_warning)
    /\ fatal' = IF fatal = 0 THEN i ELSE fatal
    /\ tls_out' = [tls_out EXCEPT ![worker[i]] = Reset(@)]
    /\ End(i, outcome[i])
    /\ UNCHANGED <<plan, edges, request, frame, warnings, view, shards, shard_outs>>

Finished == \A i \in Nodes : Ended(i) \/ (phase[i] = "waiting" /\ fatal # 0)
Returned == Finished /\ UNCHANGED vars

Next ==
    \/ \E i \in Nodes :
          \/ Begin(i) \/ CheckCommon(i) \/ CheckStrict(i) \/ CheckNullable(i)
          \/ Run(i) \/ RunShard(i) \/ Merge(i) \/ Finish(i) \/ PushWarning(i) \/ Fail(i)
    \/ Returned

Spec == Init /\ [][Next]_vars

---------------------------------------------------------------------------
(* The reference: a node run by itself, from start to end, unsharded; and  *)
(* whether a warning comes of it.                                          *)
Alone(fr, how, warned) == [frame |-> fr, error |-> how, warned |-> warned]
AloneApply(fr, op, i, r) ==
    LET a == IF r.error # "none" THEN Bad(fr, r.error) ELSE Applied(fr, op, i, r.out)
    IN  Alone(a.frame, IF a.error = "none" THEN "done" ELSE a.error, r.out.has_warning)
AloneExecute(fr, op, i, params, error) ==
    IF error # "none" THEN Alone(fr, error, FALSE)
    ELSE AloneApply(fr, op, i, Execute(op, OperatorInput(fr, Master, op, ItemCount(fr), params.value)))
AloneBuild(fr, op, i, params) ==
    AloneExecute(fr, op, i, params, FirstError(<<params.error, BuildError(fr, Master, op)>>))
RunAlone(fr, op, i) ==
    IF ShouldSkip(fr, op) THEN Alone(fr, "skipped", FALSE)
    ELSE AloneBuild(fr, op, i, ResolveTemplate(fr, op))

Started == {i \in Nodes : outcome[i] # "none"}
Orders ==
    {s \in [1 .. Cardinality(Started) -> Started] :
        IsInjective(s) /\ \A a, b \in DOMAIN s : <<s[a], s[b]>> \in edges => a < b}

(* The layouts differ in what a failed apply_output leaves behind.         *)
ApplyErrors == {"common value", "item index", "item value", "column length", "remove index",
                "order length", "order index", "order duplicate", "added value"}
ReferenceLayout == IF \E i \in Nodes : outcome[i] \in ApplyErrors THEN frame.layout ELSE "row"

(* The nodes run one at a time in the order s.                             *)
Fated(a, i) ==
    LET r == RunAlone(a.frame, plan[i], i)
    IN  [frame |-> r.frame, fates |-> [a.fates EXCEPT ![i] = r.error],
         warned |-> IF r.warned THEN a.warned \cup {i} ELSE a.warned]
Serial(s, layout) ==
    LET after[k \in 0 .. Len(s)] ==
            IF k = 0 THEN [frame |-> MakeFrame(layout, request.common, request.items), fates |-> outcome,
                           warned |-> {}]
            ELSE Fated(after[k - 1], s[k])
    IN  after[Len(s)]

(* Which of its shards' errors a sharded operator fails with depends on    *)
(* the schedule, and the other shards' warnings go with it.                *)
Failed(how) == how \notin {"none", "done", "skipped"}
Sharded     == {i \in Nodes : plan[i].data_parallel > 1}
SameFates(fates) ==
    \A i \in Nodes : fates[i] = outcome[i] \/ (i \in Sharded /\ Failed(fates[i]) /\ Failed(outcome[i]))

(* Each operator warns once or not at all, as it does in series, and their *)
(* warnings are in the order of the series but for those of operators that *)
(* failed, which may come later.                                           *)
Settled(warned) == warned \ {i \in Sharded : Failed(outcome[i])}
SameWarnings(s, warned) ==
    /\ IsInjective(warnings)
    /\ Settled(ToSet(warnings)) = Settled(warned)
    /\ \A a, b \in DOMAIN warnings : a < b /\ outcome[warnings[b]] = "done" =>
          \A k, l \in DOMAIN s : s[k] = warnings[a] /\ s[l] = warnings[b] => k < l

SameRun(s, end, result) ==
    ToResult(end.frame) = result /\ SameFates(end.fates) /\ SameWarnings(s, end.warned)

(* The answer, the warnings and each operator's fate are those of running  *)
(* the operators one at a time in some order that the graph allows; the    *)
(* error that is reported is that of an operator that failed.              *)
InSeries(layout) ==
    Finished =>
        /\ fatal # 0 => Failed(outcome[fatal])
        /\ fatal = 0 => \A i \in Nodes : outcome[i] \in {"done", "skipped"}
        /\ \E s \in Orders : SameRun(s, Serial(s, layout), ToResult(frame))

(* It is so whatever the schedule, the layout and the sharding, for the    *)
(* operators run in the row layout.                                        *)
Serializable == InSeries(ReferenceLayout)

SameAnswer(end) == (fatal = 0 => ToResult(end.frame) = ToResult(frame)) /\ SameFates(end.fates)

(* The storage mode is a choice of speed only: in the other layout every   *)
(* operator has the same fate and the caller the same answer.              *)
LayoutsAgree ==
    Finished => \E s \in Orders : SameAnswer(Serial(s, IF frame.layout = "row" THEN "column" ELSE "row"))

(* What an operator may read does not change from the moment its input is  *)
(* first looked at until its output is applied: checks made under one lock *)
(* still hold under the next, and the cached item count is the count.      *)
StableView ==
    \A i \in Nodes :
        phase[i] \in {"common", "strict", "nullable", "ready", "shards", "executed"} =>
            view[i].seen = Seen(frame, plan[i])

---------------------------------------------------------------------------
(* The items a step had and has.                                           *)
Items     == ToResult(frame).items
Rows(S)   == SetToSortSeq(S, <)
Erased(row, fields) == [f \in ItemFields |-> IF f \in fields THEN Absent ELSE row[f]]
SameBut(a, b, fields) ==
    Len(a) = Len(b) /\ \A k \in DOMAIN a : Erased(a[k], fields) = Erased(b[k], fields)
Pick(s, idx) == [k \in DOMAIN idx |-> s[idx[k]]]

(* What the items may have become: a recall adds rows at the end, with the *)
(* fields it declares and its name; a transform writes its fields; a       *)
(* filter or a merge keeps some of the rows, in their order; a reorder     *)
(* puts them in another one; an observer leaves them alone.                *)
Ascending(p) == \A a, b \in DOMAIN p : a < b => p[a] < p[b]
Grown(old, new, fields) ==
    /\ Len(new) >= Len(old) /\ \A k \in 1 .. Len(old) : new[k] = old[k]
    /\ \A k \in Len(old) + 1 .. Len(new) : Erased(new[k], fields) = BlankItem
Thinned(old, new, fields) ==
    \E p \in [1 .. Len(new) -> 1 .. Len(old)] : Ascending(p) /\ SameBut(new, Pick(old, p), fields)
Permuted(old, new) ==
    \E p \in [1 .. Len(old) -> 1 .. Len(old)] : IsInjective(p) /\ new = Pick(old, p)

Permitted(op, old, new) ==
    LET writes == op.item_output \cup (IF SourceRewrite(op) THEN {Source} ELSE {})
    IN  CASE op.operator_type = "recall"    -> Grown(old, new, op.item_output \cup {Source})
          [] op.operator_type = "transform" -> SameBut(new, old, writes)
          [] op.operator_type \in {"filter", "merge"} -> Thinned(old, new, writes)
          [] op.operator_type = "reorder"   -> Permuted(old, new)
          [] op.operator_type = "observe"   -> new = old

(* A node whose fate is settled, even one that fails in the middle of      *)
(* apply_output, has changed only what its declaration and its type let it *)
(* change, and the steps before and after leave the data as it was.        *)
Settles(i) == outcome[i] = "none" /\ outcome[i]' # "none"
OnlyDeclared ==
    [][/\ \A i \in Nodes : Settles(i) =>
             /\ \A f \in CommonFields \ plan[i].common_output : frame'.common[f] = frame.common[f]
             /\ Permitted(plan[i], Items, Items')
       /\ (\A i \in Nodes : ~Settles(i)) => UNCHANGED frame]_vars

(* What the built-in operators promise, of the items before and after.     *)
KeepsPromise ==
    [][\A i \in Nodes : (Ended(i)' /\ ~Ended(i) /\ outcome[i]' = "done") =>
         LET op == plan[i]
             n  == Len(Items)
             key(row) == Quantity(row[CHOOSE f \in op.item_input : f # Source])
         IN  CASE op.type_name = "reorder_sort" ->
                    \E p \in [1 .. n -> 1 .. n] :
                        /\ IsInjective(p) /\ Items' = Pick(Items, p)
                        /\ \A a, b \in 1 .. n : a < b =>
                              \/ key(Items'[a]) = key(Items'[b]) /\ p[a] < p[b]
                              \/ (key(Items'[a]) < key(Items'[b])) /\ op.args.order = "asc"
                              \/ (key(Items'[a]) > key(Items'[b])) /\ op.args.order = "desc"
               [] op.type_name = "filter_truncate" ->
                    \E m \in 0 .. n :
                        /\ Items' = SubSeq(Items, 1, m)
                        /\ LET top == IF op.template = {} THEN op.args.top_n ELSE view[i].templated.at \div 2
                           IN  m = top \/ (m = n /\ n < top)
               [] op.type_name = "merge_dedup" ->
                    \E S \in SUBSET (1 .. n) :
                        /\ Items' = Pick(Items, Rows(S))
                        /\ \A a \in 1 .. n : a \in S <=>
                              \A b \in 1 .. a - 1 :
                                 LET f == CHOOSE g \in op.item_input : g # Source
                                     u == Items[a][f] v == Items[b][f]
                                 IN  u # v /\ ~(IsNull(u) /\ IsNull(v))
               [] OTHER -> TRUE]_vars

(* The debug trace's snapshot of an output shows what apply_output leaves  *)
(* in the items, whole columns winning over single writes.                 *)
SnapshotTruthful ==
    [][\A i \in Nodes : (Ended(i)' /\ ~Ended(i) /\ outcome[i]' = "done" /\ plan[i].operator_type = "transform") =>
         \A cell \in SnapshotCells(tls_out[worker[i]]) :
             Items'[cell[1]][cell[2]] = SnapshotOf(tls_out[worker[i]], cell[1], cell[2])]_vars

TypeOK ==
    /\ plan \in Plans /\ request \in Requests
    /\ phase \in [Nodes -> {"waiting", "common", "strict", "nullable", "ready", "shards", "executed",
                           "caught", "failing", "ended"}]
    /\ worker \in [Nodes -> 0 .. MaxOps]
    /\ \A i, j \in Nodes : worker[i] = worker[j] /\ worker[i] # 0 => i = j
    /\ \A w \in Workers : (\A i \in Nodes : worker[i] # w) => tls_out[w] = EmptyOutput
    /\ frame.layout = "column" => Aligned(frame)
    /\ fatal \in {0} \cup Nodes
=============================================================================
