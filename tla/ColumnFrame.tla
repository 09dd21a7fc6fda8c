----------------------------- MODULE ColumnFrame -----------------------------
(***************************************************************************)
(* The column layout of a request's data (pine-cpp/src/dataframe/          *)
(* column_frame.cpp, column_store.cpp and column.cpp): one typed column    *)
(* per item field, with a presence bit per slot.  A column that meets a    *)
(* value its type cannot hold is promoted to a column of Variants.         *)
(***************************************************************************)
EXTENDS RowFrame

NoColumn == [type |-> "none", data |-> <<>>, present |-> <<>>]
NewColumn(type, n) == [type |-> type, data |-> [i \in 1 .. n |-> Null], present |-> [i \in 1 .. n |-> FALSE]]

(* Column::is_present, is_null and get.                                    *)
ColumnNull(col, i) == ~col.present[i] \/ IsNull(col.data[i])
ColumnGet(col, i)  == IF col.present[i] THEN col.data[i] ELSE Null

(* What each column type admits and keeps: an int64 has no negative zero.  *)
ColumnTypes == {"int64", "double", "string", "bool", "json"}
Admits(type, v) ==
    CASE type = "json"   -> TRUE
      [] type = "int64"  -> IsIntegral(v)
      [] type = "double" -> IsNumber(v)
      [] type \in {"string", "bool"} -> v.kind = type
Kept(type, v) == IF type = "int64" THEN Number(Quantity(v)) ELSE v

ColumnSet(col, i, v) == [col EXCEPT !.data[i] = v, !.present[i] = TRUE]
Json(col) == [col EXCEPT !.type = "json"]

(* make_column: the narrowest type for all the (non-null) values.          *)
TypeOf(v) == CASE v.kind \in {"bool", "string"} -> v.kind
               [] v.kind = "number" -> IF IsIntegral(v) THEN "int64" ELSE "double"
               [] OTHER -> "json"
CommonType(vals) ==
    LET types == {TypeOf(v) : v \in vals}
    IN  IF Cardinality(types) = 1 THEN CHOOSE t \in types : TRUE
        ELSE IF types = {"int64", "double"} THEN "double" ELSE "json"

(* The constructor's loop over the rows for one field.                     *)
ColumnFrom(rows, f) ==
    LET vals == {rows[i][f] : i \in DOMAIN rows} \ {Absent}
        type == IF Null \in vals THEN "json" ELSE CommonType(vals)
    IN  IF vals = {} THEN NoColumn
        ELSE [type |-> type,
              data |-> [i \in DOMAIN rows |-> IF rows[i][f] = Absent THEN Null ELSE Kept(type, rows[i][f])],
              present |-> [i \in DOMAIN rows |-> rows[i][f] # Absent]]

MakeColumnFrame(common, items) ==
    [layout |-> "column", common |-> common, n |-> Len(items),
     cols |-> [f \in ItemFields |-> ColumnFrom(items, f)]]

---------------------------------------------------------------------------
(* Rows taken out and put in order, in place and column by column.         *)

(* compact_with_bitmap: a read and a write cursor.                         *)
CompactStep(a, read) ==
    [data |-> [a.data EXCEPT ![a.write] = a.data[read]], write |-> a.write + 1]
CompactSeq(s, removed) ==
    LET moved[read \in 0 .. Len(s)] ==
            IF read = 0 THEN [data |-> s, write |-> 1]
            ELSE IF read \in removed THEN moved[read - 1] ELSE CompactStep(moved[read - 1], read)
    IN  SubSeq(moved[Len(s)].data, 1, moved[Len(s)].write - 1)

(* reorder_in_place: every cycle of the permutation is walked once, with   *)
(* the first slot of the cycle set aside.                                  *)
WalkStep(a, order, first, aside) ==
    LET src == order[a.at]
    IN  [data |-> [a.data EXCEPT ![a.at] = IF src = first THEN aside ELSE a.data[src]],
         visited |-> a.visited \cup {a.at},
         at |-> IF src = first THEN 0 ELSE src]
WalkCycle(a, order, first) ==
    LET walk[k \in 0 .. Len(order)] ==
            IF k = 0 THEN [a EXCEPT !.at = first]
            ELSE IF walk[k - 1].at = 0 THEN walk[k - 1]
            ELSE WalkStep(walk[k - 1], order, first, a.data[first])
    IN  walk[Len(order)]

ReorderSeq(s, order) ==
    LET done[k \in 0 .. Len(s)] ==
            IF k = 0 THEN [data |-> s, visited |-> {}, at |-> 0]
            ELSE IF k \in done[k - 1].visited THEN done[k - 1]
            ELSE WalkCycle(done[k - 1], order, k)
    IN  done[Len(s)].data

OnRows(frame, Change(_), n) ==
    [frame EXCEPT !.n = n,
                  !.cols = [f \in ItemFields |->
                      LET col == frame.cols[f]
                      IN  IF col = NoColumn THEN NoColumn
                          ELSE [col EXCEPT !.data = Change(@), !.present = Change(@)]]]

---------------------------------------------------------------------------
(* write_item_field_locked: a missing column is made for the value (never  *)
(* int64), a null or a misfit promotes it.                                 *)
WriteCell(frame, i, f, v) ==
    LET new  == CASE v.kind \in {"bool", "string"} -> v.kind
                  [] v.kind = "number" -> "double"
                  [] OTHER -> "json"
        col  == IF frame.cols[f] = NoColumn THEN NewColumn(new, frame.n) ELSE frame.cols[f]
        room == IF Admits(col.type, v) THEN col ELSE Json(col)
    IN  [frame EXCEPT !.cols[f] = ColumnSet(room, i, Kept(room.type, v))]

ColumnWriteItem(frame, w) ==
    IF w.index \notin 1 .. frame.n THEN Bad(frame, "item index")
    ELSE IF ~Finite(w.value) THEN Bad(frame, "item value")
    ELSE Good(WriteCell(frame, w.index, w.field, w.value))

(* The column adopts the values as they are.                               *)
ColumnWriteColumn(frame, cw) ==
    IF Len(cw.vals) # frame.n THEN Bad(frame, "column length")
    ELSE IF \E v \in ToSet(cw.vals) : ~Finite(v) THEN Bad(frame, "item value")
    ELSE Good([frame EXCEPT !.cols[cw.field] =
                  [type |-> "double", data |-> cw.vals, present |-> [i \in DOMAIN cw.vals |-> TRUE]]])

ColumnRemove(frame, removed) ==
    IF ~(removed \subseteq 1 .. frame.n) THEN Bad(frame, "remove index")
    ELSE Good(OnRows(frame, LAMBDA s : CompactSeq(s, removed), frame.n - Cardinality(removed)))

ColumnReorder(frame, order, e) ==
    IF e # "none" THEN Bad(frame, e)
    ELSE Good(OnRows(frame, LAMBDA s : ReorderSeq(s, order), frame.n))

(* extend_rows, for all the rows at once.                                  *)
Extend(frame, n) ==
    LET blank == NewColumn("json", n)
    IN  [frame EXCEPT !.n = @ + n,
                      !.cols = [f \in ItemFields |->
                          LET col == frame.cols[f]
                          IN  IF col = NoColumn THEN NoColumn
                              ELSE [col EXCEPT !.data = @ \o blank.data, !.present = @ \o blank.present]]]

(* The fields of one added row, checked and written one after another,     *)
(* and the recall's name over what the row has for Source.                 *)
AddField(frame, i, f, v) ==
    IF v = Absent THEN Good(frame)
    ELSE IF ~Finite(v) THEN Bad(frame, "added value") ELSE Good(WriteCell(frame, i, f, v))
AddNext(a, i, row, name, k) ==
    IF a.error # "none" THEN a
    ELSE IF k > Len(ItemOrder) THEN AddField(a.frame, i, Source, NameOf(name))
    ELSE AddField(a.frame, i, ItemOrder[k], row[ItemOrder[k]])
ColumnAdd(frame, i, row, name, recall) ==
    LET n == Len(ItemOrder) + (IF recall THEN 1 ELSE 0)
        after[k \in 0 .. n] == IF k = 0 THEN Good(frame) ELSE AddNext(after[k - 1], i, row, name, k)
    IN  after[n]

(* ColumnFrame::apply_output, one part of it.                              *)
ColumnPart(frame, part, name, recall) ==
    CASE part.what = "common" -> WriteCommon(frame, part.arg)
      [] part.what = "item"   -> ColumnWriteItem(frame, part.arg)
      [] part.what = "column" -> ColumnWriteColumn(frame, part.arg)
      [] part.what = "remove" -> ColumnRemove(frame, part.arg)
      [] part.what = "order"  -> ColumnReorder(frame, part.arg, OrderError(part.arg, frame.n))
      [] part.what = "extend" -> Good(Extend(frame, part.arg))
      [] part.what = "add"    -> ColumnAdd(frame, frame.n - part.arg.left, part.arg.row, name, recall)

---------------------------------------------------------------------------
(* Reading, at a slot that the frame has.                                  *)
ColumnHas(frame, slot, f) == frame.cols[f] # NoColumn /\ frame.cols[f].present[slot]
ColumnItem(frame, slot, f) == IF ColumnHas(frame, slot, f) THEN frame.cols[f].data[slot] ELSE Null

(* validate_strict_items: a field nothing has ever been written to fails   *)
(* at once, even for no slots.                                             *)
ColumnStrict(frame, slots, fields) ==
    \A f \in fields : frame.cols[f] # NoColumn /\ \A s \in slots : ~ColumnNull(frame.cols[f], s)

ColumnResult(frame) ==
    [common |-> frame.common,
     items |-> [i \in 1 .. frame.n |->
                   [f \in ItemFields |-> IF ColumnHas(frame, i, f) THEN ColumnItem(frame, i, f)
                                          ELSE Absent]]]

(* The columns and the row count agree, and a column holds what its type   *)
(* admits.                                                                 *)
Aligned(frame) ==
    \A f \in ItemFields :
        LET col == frame.cols[f]
        IN  col # NoColumn =>
                /\ Len(col.data) = frame.n /\ Len(col.present) = frame.n
                /\ \A i \in 1 .. frame.n : col.present[i] => Admits(col.type, col.data[i])
=============================================================================
