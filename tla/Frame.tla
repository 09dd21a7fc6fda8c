--------------------------------- MODULE Frame ---------------------------------
(***************************************************************************)
(* The Frame interface over its two layouts, window views, and what an     *)
(* operator gets to read of a frame (pine-cpp/src/dataframe/               *)
(* operator_input.cpp).  A view is a range of the parent's slots; the      *)
(* frame itself is read through the view Whole(frame).                     *)
(***************************************************************************)
EXTENDS ColumnFrame

(* make_frame: only the literal "column" selects the column layout.        *)
MakeFrame(storage_mode, common, items) ==
    IF storage_mode = "column" THEN MakeColumnFrame(common, items) ELSE MakeRowFrame(common, items)

ItemCount(frame) == IF frame.layout = "row" THEN RowCount(frame) ELSE frame.n

(* A part is applied unless an earlier one has thrown.                     *)
ApplyPart(frame, part, name, recall) ==
    IF frame.layout = "row" THEN RowPart(frame, part, name, recall)
    ELSE ColumnPart(frame, part, name, recall)
ApplyParts(frame, parts, name, recall) ==
    LET after[k \in 0 .. Len(parts)] ==
            IF k = 0 THEN Good(frame)
            ELSE IF after[k - 1].error # "none" THEN after[k - 1]
            ELSE ApplyPart(after[k - 1].frame, parts[k], name, recall)
    IN  after[Len(parts)]
ApplyOutput(frame, out, name, recall) == ApplyParts(frame, Parts(out), name, recall)

ToResult(frame) == IF frame.layout = "row" THEN RowResult(frame) ELSE ColumnResult(frame)

(* common() has no null to tell apart from a field that is not there.      *)
CommonValue(frame, f) == IF IsNull(frame.common[f]) THEN Null ELSE frame.common[f]

---------------------------------------------------------------------------
(* A view fixes its offset and its count; the frame's own count moves.     *)
Master == [offset |-> 0, count |-> -1]
Extent(frame, view) == IF view = Master THEN ItemCount(frame) ELSE view.count
Window(frame, view) == view.offset + 1 .. view.offset + Extent(frame, view)

Has(frame, slot, f) == IF frame.layout = "row" THEN RowHas(frame, slot, f) ELSE ColumnHas(frame, slot, f)
Item(frame, slot, f) == IF frame.layout = "row" THEN RowGet(frame, slot, f) ELSE ColumnItem(frame, slot, f)
StrictOk(frame, view, fields) ==
    IF frame.layout = "row" THEN RowStrict(frame, Window(frame, view), fields)
    ELSE ColumnStrict(frame, Window(frame, view), fields)

(* make_window_view for the shards of parallel_execute: n ranges, the      *)
(* first `total % n' of them one longer.                                   *)
ShardViews(total, n) ==
    LET Size(k) == total \div n + (IF k <= total % n THEN 1 ELSE 0)
        cursor[k \in 0 .. n] == IF k = 0 THEN 0 ELSE cursor[k - 1] + Size(k)
    IN  [k \in 1 .. n |-> [offset |-> cursor[k - 1], count |-> Size(k)]]

---------------------------------------------------------------------------
(* build_operator_input, one window of the frame's lock after another.     *)
CommonWindow(frame, op) ==
    IF \E f \in StrictCommon(op) : IsNull(frame.common[f]) THEN "nil in common"
    ELSE IF \E f \in NullableCommon(op) : frame.common[f] = Absent THEN "missing in common"
    ELSE "none"

StrictWindow(frame, view, op) ==
    IF StrictItem(op) # {} /\ ~StrictOk(frame, view, StrictItem(op)) THEN "nil on item" ELSE "none"

NullableWindow(frame, view, op) ==
    IF \E f \in NullableItem(op), s \in Window(frame, view) : ~Has(frame, s, f)
    THEN "missing on item" ELSE "none"

FirstError(errors) ==
    IF \A k \in DOMAIN errors : errors[k] = "none" THEN "none"
    ELSE errors[CHOOSE k \in DOMAIN errors : errors[k] # "none" /\ \A j \in 1 .. k - 1 : errors[j] = "none"]
BuildError(frame, view, op) ==
    FirstError(<<CommonWindow(frame, op), StrictWindow(frame, view, op), NullableWindow(frame, view, op)>>)

(* OperatorInput: what the reads of an operator return, with the count it  *)
(* was built with.  Skip and template fields read as null, and a default   *)
(* stands for a null.                                                      *)
WithDefault(v, default) == IF IsNull(v) /\ default # Absent THEN default ELSE v
InputCommon(frame, op, f) ==
    IF f \in Excluded(op) THEN Null
    ELSE WithDefault(CommonValue(frame, f),
                     IF f \in op.common_input THEN op.common_defaults[f] ELSE Absent)
InputColumn(frame, view, op, f) ==
    [k \in 1 .. Extent(frame, view) |->
        WithDefault(Item(frame, view.offset + k, f),
                    IF f \in op.item_input THEN op.item_defaults[f] ELSE Absent)]

OperatorInput(frame, view, op, count, params) ==
    [common |-> [f \in CommonFields |-> InputCommon(frame, op, f)],
     column |-> [f \in ItemFields |-> InputColumn(frame, view, op, f)],
     count |-> count,
     templated |-> params]

(* What of the frame the operator, and what is checked before it runs, can *)
(* tell apart: the fields it declares or is controlled by.                 *)
Visibly(frame, op) ==
    [common  |-> [f \in op.common_input \cup Excluded(op) |-> frame.common[f]],
     columns |-> {f \in op.item_input : frame.layout = "row" \/ frame.cols[f] # NoColumn},
     items   |-> [f \in op.item_input |->
                     [s \in 1 .. ItemCount(frame) |-> <<Has(frame, s, f), Item(frame, s, f)>>]]]

---------------------------------------------------------------------------
(* should_skip.                                                            *)
ShouldSkip(frame, op) == \E f \in op.skip : Truthy(CommonValue(frame, f))

(* stringify_common and coerce_scalar of a {{field}} parameter that must   *)
(* be an integer; a text is the number it spells.                          *)
Coerced(v) == IF IsIntegral(v) THEN Number(Quantity(v))
              ELSE IF v.kind = "string" /\ v.at > 0 /\ v.at % 2 = 0 THEN Number(v.at) ELSE Absent

(* resolve_templated_params: [error, value].                               *)
ResolveTemplate(frame, op) ==
    IF op.template = {} THEN [error |-> "none", value |-> Null]
    ELSE LET v == frame.common[CHOOSE f \in op.template : TRUE]
         IN  IF IsNull(v) THEN [error |-> "template missing", value |-> Null]
             ELSE IF Coerced(v) = Absent THEN [error |-> "template coerce", value |-> Null]
             ELSE [error |-> "none", value |-> Coerced(v)]
=============================================================================
