------------------------------- MODULE RowFrame -------------------------------
(***************************************************************************)
(* The row layout of a request's data (pine-cpp/src/dataframe/             *)
(* row_frame.cpp): a map of common fields and one map per item.  An apply  *)
(* that throws half-way leaves what it has written by then, so each of its *)
(* parts returns the frame with the error, if any.  The frame's warnings    *)
(* are Pipeline's.                                                         *)
(***************************************************************************)
EXTENDS OperatorIO

Good(frame)   == [frame |-> frame, error |-> "none"]
Bad(frame, e) == [frame |-> frame, error |-> e]

(* apply_output's parts, in the order in which either layout applies them. *)
Part(what, arg) == [what |-> what, arg |-> arg]
Parts(out) ==
    [k \in DOMAIN CommonOrder |-> Part("common", [field |-> CommonOrder[k], value |-> out.common_writes[CommonOrder[k]]])]
    \o [k \in DOMAIN out.item_writes |-> Part("item", out.item_writes[k])]
    \o [k \in DOMAIN out.column_writes |-> Part("column", out.column_writes[k])]
    \o (IF out.removed_items # {} THEN <<Part("remove", out.removed_items)>> ELSE <<>>)
    \o (IF out.has_item_order THEN <<Part("order", out.item_order)>> ELSE <<>>)
    \o (IF out.added_items # <<>> THEN <<Part("extend", Len(out.added_items))>> ELSE <<>>)
    \o [k \in DOMAIN out.added_items |-> Part("add", [left |-> Len(out.added_items) - k, row |-> out.added_items[k]])]

(* Both layouts keep the common fields alike.                              *)
WriteCommon(frame, w) ==
    IF w.value = Absent THEN Good(frame)
    ELSE IF ~Finite(w.value) THEN Bad(frame, "common value")
    ELSE Good([frame EXCEPT !.common[w.field] = w.value])

(* SetItemOrder must be a permutation of the n items there are.            *)
OrderError(order, n) ==
    IF Len(order) # n THEN "order length"
    ELSE IF \E k \in 1 .. n : order[k] \notin 1 .. n THEN "order index"
    ELSE IF \E k \in 1 .. n : \E j \in 1 .. k - 1 : order[j] = order[k] THEN "order duplicate" ELSE "none"

---------------------------------------------------------------------------
MakeRowFrame(common, items) ==
    [layout |-> "row", common |-> common, items |-> items]

RowCount(frame) == Len(frame.items)

RowWriteItem(frame, w) ==
    IF w.index \notin 1 .. RowCount(frame) THEN Bad(frame, "item index")
    ELSE IF ~Finite(w.value) THEN Bad(frame, "item value")
    ELSE Good([frame EXCEPT !.items[w.index][w.field] = w.value])

RowWriteColumn(frame, cw) ==
    IF Len(cw.vals) # RowCount(frame) THEN Bad(frame, "column length")
    ELSE IF \E v \in ToSet(cw.vals) : ~Finite(v) THEN Bad(frame, "item value")
    ELSE Good([frame EXCEPT !.items = [i \in DOMAIN @ |-> [@[i] EXCEPT ![cw.field] = cw.vals[i]]]])

RowRemove(frame, removed) ==
    IF ~(removed \subseteq 1 .. RowCount(frame)) THEN Bad(frame, "remove index")
    ELSE Good([frame EXCEPT !.items = Without(@, removed)])

RowReorder(frame, order, e) ==
    IF e # "none" THEN Bad(frame, e)
    ELSE Good([frame EXCEPT !.items = [k \in DOMAIN @ |-> @[order[k]]]])

(* A recall's rows bear its name: the text of its place in the pipeline.   *)
NameOf(name) == Variant("string", 2 * name)

(* A row is checked as a whole before it is moved in.                      *)
RowAdd(frame, row, name, recall) ==
    IF \E f \in ItemFields : ~Finite(row[f]) THEN Bad(frame, "added value")
    ELSE Good([frame EXCEPT !.items =
                  Append(@, IF recall THEN [row EXCEPT ![Source] = NameOf(name)] ELSE row)])

(* RowFrame::apply_output, one part of it.                                 *)
RowPart(frame, part, name, recall) ==
    CASE part.what = "common" -> WriteCommon(frame, part.arg)
      [] part.what = "item"   -> RowWriteItem(frame, part.arg)
      [] part.what = "column" -> RowWriteColumn(frame, part.arg)
      [] part.what = "remove" -> RowRemove(frame, part.arg)
      [] part.what = "order"  -> RowReorder(frame, part.arg, OrderError(part.arg, RowCount(frame)))
      [] part.what = "extend" -> Good(frame)
      [] part.what = "add"    -> RowAdd(frame, part.arg.row, name, recall)

---------------------------------------------------------------------------
(* Reading, at a slot that the frame has.                                  *)
RowHas(frame, slot, f) == frame.items[slot][f] # Absent
RowGet(frame, slot, f) == IF RowHas(frame, slot, f) THEN frame.items[slot][f] ELSE Null

(* validate_strict_items: no field is missing or null in the given slots.  *)
RowStrict(frame, slots, fields) ==
    \A f \in fields, s \in slots : ~IsNull(RowGet(frame, s, f))

(* to_result: explicit nulls stay, absent keys do not appear.              *)
RowResult(frame) == [common |-> frame.common, items |-> frame.items]
=============================================================================
