------------------------------ MODULE OperatorIO ------------------------------
(***************************************************************************)
(* What an operator is declared as, what it may write and how the engine   *)
(* checks it (pine-cpp: OperatorConfig and OperatorOutput of pine.hpp,     *)
(* compute_input_field_spec of operator_input.cpp, the validations of      *)
(* engine.cpp).  Constant-level definitions; items are numbered from 1.    *)
(***************************************************************************)
EXTENDS Integers, FiniteSets, SequencesExt

CONSTANTS
    CommonFields,  \* the fields of the request as a whole
    ItemFields,    \* the fields of an item, Source among them
    Source         \* "_source"

---------------------------------------------------------------------------
(* A Variant.  A number counts halves, so that some have a fraction; a     *)
(* composite is an array or an object.  NaN, the infinities and composites *)
(* that hold one are NotFinite.  Absent stands for a key that is not there. *)

Variant(k, n) == [kind |-> k, at |-> n]

Absent    == Variant("absent", 0)
Null      == Variant("null", 0)
Number(n) == Variant("number", n)
Whole(n)  == Number(2 * n)
MinusZero == Number(-1)
NotFinite == -2

IsNull(v)   == v.kind \in {"null", "absent"}
IsNumber(v) == v.kind = "number"
Quantity(v) == IF v = MinusZero THEN 0 ELSE v.at
IsIntegral(v) == IsNumber(v) /\ v.at # NotFinite /\ Quantity(v) % 2 = 0

(* A blank string, false and an empty composite have at = 0; only null and   *)
(* false are not truthy.                                                     *)
Truthy(v) == ~IsNull(v) /\ ~(v.kind = "bool" /\ v.at = 0)

(* validate_frame_value.                                                   *)
Finite(v) == v.kind \in {"number", "composite"} => v.at # NotFinite

(* A list is numbered from 1.  Without(s, S) is s less the places in S, in   *)
(* the order that was.                                                     *)
IsList(s) == Len(s) \in Nat /\ s = [k \in 1 .. Len(s) |-> s[k]]
Without(s, S) ==
    LET rest[k \in 0 .. Len(s)] ==
            IF k = 0 THEN <<>> ELSE IF k \in S THEN rest[k - 1] ELSE Append(rest[k - 1], s[k])
    IN  rest[Len(s)]

BlankItem   == [f \in ItemFields |-> Absent]
BlankCommon == [f \in CommonFields |-> Absent]

(* FlatMap keeps its keys sorted: every map is walked in one order.        *)
CommonOrder == SetToSeq(CommonFields)
ItemOrder   == SetToSeq(ItemFields)

---------------------------------------------------------------------------
(* OperatorOutput: the log of what an operator wants written.              *)

EmptyOutput ==
    [common_writes |-> BlankCommon, item_writes |-> <<>>, column_writes |-> <<>>,
     added_items |-> <<>>, removed_items |-> {}, item_order |-> <<>>,
     has_item_order |-> FALSE, has_warning |-> FALSE]

SetCommon(out, f, v)  == [out EXCEPT !.common_writes[f] = v]
SetItem(out, i, f, v) == [out EXCEPT !.item_writes = Append(@, [index |-> i, field |-> f, value |-> v])]
SetColumn(out, f, vs) == [out EXCEPT !.column_writes = Append(@, [field |-> f, vals |-> vs])]
AddItem(out, row)     == [out EXCEPT !.added_items = Append(@, row)]
RemoveItems(out, S)   == [out EXCEPT !.removed_items = @ \cup S]
SetItemOrder(out, o)  == [out EXCEPT !.item_order = o, !.has_item_order = TRUE]
SetWarning(out)       == [out EXCEPT !.has_warning = TRUE]

(* An operator writes on top of what the buffer holds.                     *)
Overlay(old, new) == [f \in DOMAIN old |-> IF new[f] = Absent THEN old[f] ELSE new[f]]
Onto(buf, out) ==
    [common_writes |-> Overlay(buf.common_writes, out.common_writes),
     item_writes |-> buf.item_writes \o out.item_writes,
     column_writes |-> buf.column_writes \o out.column_writes,
     added_items |-> buf.added_items \o out.added_items,
     removed_items |-> buf.removed_items \cup out.removed_items,
     item_order |-> IF out.has_item_order THEN out.item_order ELSE buf.item_order,
     has_item_order |-> buf.has_item_order \/ out.has_item_order,
     has_warning |-> buf.has_warning \/ out.has_warning]

(* apply_output moves the rows (row layout) or the columns (column layout) *)
(* out, and leaves as many empty ones.                                     *)
Husk(out, layout) ==
    IF layout = "row" THEN [out EXCEPT !.added_items = [k \in DOMAIN @ |-> BlankItem]]
    ELSE [out EXCEPT !.column_writes = [k \in DOMAIN @ |-> [@[k] EXCEPT !.vals = <<>>]]]

(* Mutated form: reset forgets the rows that apply_output moved from.      *)
ResetButAdded(out) == [EmptyOutput EXCEPT !.added_items = out.added_items]

(* reset clears every member, whatever is in them.                         *)
Reset(out) == EmptyOutput

(* merge_shard_output: a shard's writes at their place in the frame.       *)
ShardMayMerge(src) ==
    src.added_items = <<>> /\ ~src.has_item_order /\ src.common_writes = BlankCommon

SingleWrites(cw) == [i \in DOMAIN cw.vals |-> [index |-> i, field |-> cw.field, value |-> cw.vals[i]]]
ShardWrites(src, offset) ==
    LET writes == src.item_writes \o FlattenSeq([k \in DOMAIN src.column_writes |->
                                                    SingleWrites(src.column_writes[k])])
    IN  [k \in DOMAIN writes |-> [writes[k] EXCEPT !.index = @ + offset]]

(* The shards before the first one that may not.                           *)
Mergeable(srcs) == Without(srcs, {k \in DOMAIN srcs : \E j \in 1 .. k : ~ShardMayMerge(srcs[j])})

(* The loop over the shards, in their order.                               *)
MergeShards(dst, srcs, offsets) ==
    [dst EXCEPT
        !.item_writes = @ \o FlattenSeq([k \in DOMAIN srcs |-> ShardWrites(srcs[k], offsets[k])]),
        !.removed_items = @ \cup UNION {{i + offsets[k] : i \in srcs[k].removed_items} : k \in DOMAIN srcs},
        !.has_warning = @ \/ \E k \in DOMAIN srcs : srcs[k].has_warning]

(* snapshot_output: what the debug trace says was written to each item.    *)
Latest(S) == CHOOSE k \in S : \A l \in S : l <= k
SnapshotCells(out) ==
    {<<w.index, w.field>> : w \in ToSet(out.item_writes)}
        \cup UNION {(DOMAIN cw.vals) \X {cw.field} : cw \in ToSet(out.column_writes)}
(* Mutated form: single writes win over whole columns.                     *)
SnapshotOfWrites(out, i, f) ==
    LET items == {k \in DOMAIN out.item_writes :
                     out.item_writes[k].field = f /\ out.item_writes[k].index = i}
        columns == {k \in DOMAIN out.column_writes : out.column_writes[k].field = f}
    IN  IF items # {} THEN out.item_writes[Latest(items)].value
        ELSE out.column_writes[Latest(columns)].vals[i]

SnapshotOf(out, i, f) ==
    LET columns == {k \in DOMAIN out.column_writes :
                        out.column_writes[k].field = f /\ i \in DOMAIN out.column_writes[k].vals}
        items   == {k \in DOMAIN out.item_writes :
                        out.item_writes[k].field = f /\ out.item_writes[k].index = i}
    IN  IF columns # {} THEN out.column_writes[Latest(columns)].vals[i]
        ELSE out.item_writes[Latest(items)].value

---------------------------------------------------------------------------
(* OperatorConfig, with the lists of $metadata as sets.                    *)

Config(name, type, args) ==
    [type_name |-> name, operator_type |-> type, args |-> args,
     common_input |-> {}, common_output |-> {}, item_input |-> {}, item_output |-> {},
     skip |-> {}, template |-> {}, strict_common |-> {}, strict_item |-> {},
     common_defaults |-> BlankCommon, item_defaults |-> BlankItem,
     consumes |-> FALSE, mutates |-> FALSE, additive |-> FALSE, data_parallel |-> 1]

(* compute_input_field_spec: what build_operator_input checks for, and     *)
(* what the operator does not get to see.                                  *)
Excluded(op)  == op.skip \cup op.template
Defaulted(defaults) == {f \in DOMAIN defaults : defaults[f] # Absent}
Visible(op)   == op.common_input \ Excluded(op)
StrictCommon(op)   == (Visible(op) \cap op.strict_common) \ Defaulted(op.common_defaults)
NullableCommon(op) == (Visible(op) \ op.strict_common) \ Defaulted(op.common_defaults)
StrictItem(op)     == (op.item_input \cap op.strict_item) \ Defaulted(op.item_defaults)
NullableItem(op)   == (op.item_input \ op.strict_item) \ Defaulted(op.item_defaults)

---------------------------------------------------------------------------
(* validate_output_against_type: the methods an operator has called, and   *)
(* those its type allows.                                                  *)
Methods(out) ==
    {m \in {"SetCommon", "SetItem", "AddItem", "RemoveItem", "SetItemOrder"} :
        CASE m = "SetCommon"    -> out.common_writes # BlankCommon
          [] m = "SetItem"      -> out.item_writes # <<>> \/ out.column_writes # <<>>
          [] m = "AddItem"      -> out.added_items # <<>>
          [] m = "RemoveItem"   -> out.removed_items # {}
          [] m = "SetItemOrder" -> out.has_item_order}

Allowed ==
    [recall    |-> {"SetCommon", "AddItem"},
     transform |-> {"SetCommon", "SetItem"},
     filter    |-> {"RemoveItem"},
     merge     |-> {"SetItem", "RemoveItem"},
     reorder   |-> {"SetItemOrder"},
     observe   |-> {}]

ValidType(op, out) == Methods(out) \subseteq Allowed[op.operator_type]

(* validate_declared_outputs: every field written is declared, except that *)
(* an operator that mutates the row set and reads _source may rewrite it   *)
(* on the items there are.                                                 *)
Keys(map) == {f \in DOMAIN map : map[f] # Absent}
SourceRewrite(op) == op.mutates /\ Source \in op.item_input
WrittenOnExisting(out) ==
    {w.field : w \in ToSet(out.item_writes)} \cup {cw.field : cw \in ToSet(out.column_writes)}
WrittenOnAdded(out) == UNION {Keys(row) : row \in ToSet(out.added_items)}

(* Mutated form: only the items an operator writes to are looked at.       *)
ValidDeclaredExisting(op, out) ==
    /\ Keys(out.common_writes) \subseteq op.common_output
    /\ WrittenOnExisting(out) \subseteq op.item_output \cup (IF SourceRewrite(op) THEN {Source} ELSE {})

ValidDeclared(op, out) ==
    /\ Keys(out.common_writes) \subseteq op.common_output
    /\ WrittenOnExisting(out) \subseteq op.item_output \cup (IF SourceRewrite(op) THEN {Source} ELSE {})
    /\ WrittenOnAdded(out) \subseteq op.item_output

---------------------------------------------------------------------------
(* The C++ types: what is true of every row, of every OperatorOutput and   *)
(* of every operator whose init has accepted its parameters.               *)
IsRow(row)    == row = [f \in ItemFields |-> row[f]]
IsCommon(map) == map = [f \in CommonFields |-> map[f]]
IsOutput(out) ==
    /\ out = [common_writes |-> out.common_writes, item_writes |-> out.item_writes,
              column_writes |-> out.column_writes, added_items |-> out.added_items,
              removed_items |-> out.removed_items, item_order |-> out.item_order,
              has_item_order |-> out.has_item_order, has_warning |-> out.has_warning]
    /\ IsCommon(out.common_writes)
    /\ IsList(out.item_writes)
    /\ IsList(out.column_writes) /\ \A k \in 1 .. Len(out.column_writes) : IsList(out.column_writes[k].vals)
    /\ IsList(out.added_items) /\ \A k \in 1 .. Len(out.added_items) : IsRow(out.added_items[k])

Flagged(out) ==
    /\ out.has_warning \in BOOLEAN /\ out.has_item_order \in BOOLEAN
    /\ ~out.has_item_order => out.item_order = <<>>

WellFormed(op) ==
    /\ op.common_input \cup Excluded(op) \subseteq CommonFields /\ op.item_input \subseteq ItemFields
    /\ op.operator_type \in DOMAIN Allowed
    /\ op.data_parallel \in Nat
    /\ CASE op.type_name = "recall_static" ->
                /\ IsCommon(op.args.set_common)
                /\ IsList(op.args.items) /\ \A k \in 1 .. Len(op.args.items) : IsRow(op.args.items[k])
          [] op.type_name = "recall_resource" ->
                op.args.resource.shape = "array" =>
                    LET rows == op.args.resource.rows
                    IN  IsList(rows) /\ \A k \in 1 .. Len(rows) : rows[k] = Absent \/ IsRow(rows[k])
          [] op.type_name = "transform_resource_lookup" -> op.args.key \in ItemFields
          [] op.type_name \in {"item_to_item", "transform_normalize"} -> op.item_input # {}
          [] op.type_name = "transform_by_remote_pineapple" ->
                op.args.reply.ok => IsList(op.args.reply.rows)
          [] op.type_name = "custom" ->
                /\ IsOutput(op.args.out) /\ Flagged(op.args.out) /\ op.args.error \notin {"done", "skipped"}
                /\ IsOutput(op.args.then) /\ Flagged(op.args.then)
          [] OTHER -> op.type_name \in
                {"common_to_item", "transform_dispatch", "common_to_common", "item_to_common",
                 "transform_size", "filter_condition", "filter_truncate", "filter_paginate", "reorder_sort",
                 "reorder_shuffle_by_salt", "merge_dedup", "observe_log"}

(* The markers of the row set that go with what an operator may do to it.  *)
WellMarked(op) ==
    /\ op.operator_type = "recall" => op.additive
    /\ op.operator_type \in {"filter", "merge", "reorder"} => op.mutates
    /\ op.additive /\ op.item_input # {} => op.consumes
    /\ op.type_name \in {"transform_size", "transform_by_remote_pineapple", "filter_condition", "filter_truncate",
                         "filter_paginate", "reorder_sort", "reorder_shuffle_by_salt", "merge_dedup"} => op.consumes
    /\ op.type_name \in {"common_to_item", "transform_dispatch"} => ~op.additive

(* The fields that init takes from the metadata are there, and what an     *)
(* operator reads is declared: a lookup's key is a parameter, which only   *)
(* its schema ties to item_input.                                          *)
WellDeclared(op) ==
    CASE op.type_name \in {"common_to_item", "transform_dispatch"} ->
                op.common_input \ op.skip # {} /\ op.item_output # {}
      [] op.type_name = "common_to_common" -> op.common_input \ op.skip # {}
      [] op.type_name \in {"item_to_item", "item_to_common", "transform_normalize", "filter_condition",
                           "reorder_sort"} -> op.item_input # {}
      [] op.type_name = "reorder_shuffle_by_salt" -> op.item_input # {} /\ op.common_input # {}
      [] op.type_name = "merge_dedup" -> op.item_input \ {Source} # {}
      [] op.type_name = "filter_paginate" -> {op.args.page, op.args.size} \subseteq op.common_input
      [] op.type_name = "transform_resource_lookup" -> op.args.key \in op.item_input
      [] OTHER -> TRUE
=============================================================================
