------------------------------- MODULE Operators -------------------------------
(***************************************************************************)
(* The built-in operators as functions of what they read (pine-cpp/        *)
(* operators): in is an OperatorInput, the result what the operator has    *)
(* put in its OperatorOutput and the exception it left with, if any.       *)
(***************************************************************************)
EXTENDS Frame

Returns(out)   == [out |-> out, error |-> "none"]
Throws(out, e) == [out |-> out, error |-> e]

(* The text of a value, as far as equality goes.  sprint_value prints a    *)
(* number as the string that spells it and every composite alike;          *)
(* dedup_key sets the kinds apart and knows one zero;                      *)
(* go_format_lookup_key prints negative zero as zero.                      *)
Text(tag, n) == [tag |-> tag, at |-> n]
Sprint(v) ==
    CASE IsNull(v)            -> Text("nil", 0)
      [] v.kind = "composite" -> Text("complex", 0)
      [] v.kind = "bool"      -> Text("bool", v.at)
      [] v.kind = "string" /\ v.at = 0 -> Text("blank", 0)
      [] OTHER                -> Text("digits", v.at)
LookupKey(v) == IF IsNumber(v) THEN Text("digits", Quantity(v)) ELSE Sprint(v)
DedupKey(v) == Text(IF IsNull(v) THEN "null" ELSE v.kind, Quantity(v))
ToText(v) == CASE IsNull(v) -> Text("blank", 0)
               [] v.kind = "composite" -> Text("json", v.at)
               [] OTHER -> Sprint(v)

(* to_double refuses what is not a number.                                 *)
NotNumbers(col) == \E v \in ToSet(col) : ~IsNumber(v)

(* A loop over the items that sets a field to what Value says, but for the *)
(* items that Skips names.                                                 *)
ForItems(out, n, field, Value(_), Skips(_)) ==
    [out EXCEPT !.item_writes =
        Without([i \in 1 .. n |-> [index |-> i, field |-> field, value |-> Value(i)]],
                {i \in 1 .. n : Skips(i)})]
The(S) == CHOOSE x \in S : TRUE

---------------------------------------------------------------------------
RecallStatic(op, in) ==
    Returns([EmptyOutput EXCEPT !.common_writes = op.args.set_common, !.added_items = op.args.items])

(* A resource that is missing, of the wrong shape, or an array of rows of  *)
(* which one may not be an object: the rows before it have been added.     *)
RecallResource(op, in) ==
    LET rows == op.args.resource.rows
        bad  == {k \in 1 .. Len(rows) : rows[k] = Absent}
        before == Without(rows, {k \in 1 .. Len(rows) : \E b \in bad : b <= k})
        out  == [EmptyOutput EXCEPT !.added_items = before]
    IN  IF op.args.resource.shape # "array" THEN Throws(EmptyOutput, "resource")
        ELSE IF bad # {} THEN Throws(out, "resource row") ELSE Returns(out)

ResourceLookup(op, in) ==
    LET col == in.column[op.args.key]
        Answer(v) == IF IsNull(v) \/ LookupKey(v) \notin DOMAIN op.args.table THEN op.args.default
                     ELSE op.args.table[LookupKey(v)]
    IN  Returns(ForItems(EmptyOutput, Len(col), op.args.field, LAMBDA i : Answer(col[i]),
                         LAMBDA i : Answer(col[i]) = Absent))

(* The array of a column, for transform_copy's item_to_common.             *)
ArrayOf(col) ==
    Variant("composite", IF \E v \in ToSet(col) : v.at = NotFinite THEN NotFinite
                         ELSE FoldLeft(LAMBDA n, v : 8 * n + Quantity(v) + 1, 0, col))

(* One input and one output field, as the configurations here have them.   *)
CommonToItem(op, in) ==
    Returns(ForItems(EmptyOutput, in.count, The(op.item_output),
                     LAMBDA i : in.common[The(op.common_input \ op.skip)], LAMBDA i : FALSE))
CommonToCommon(op, in) ==
    Returns(SetCommon(EmptyOutput, The(op.common_output), in.common[The(op.common_input \ op.skip)]))
ItemToItem(op, in) ==
    LET col == in.column[The(op.item_input)]
    IN  Returns(ForItems(EmptyOutput, Len(col), The(op.item_output), LAMBDA i : col[i], LAMBDA i : FALSE))
ItemToCommon(op, in) ==
    Returns(SetCommon(EmptyOutput, The(op.common_output), ArrayOf(in.column[The(op.item_input)])))

Size(op, in) == Returns(SetCommon(EmptyOutput, The(op.common_output), Whole(in.count)))

(* The quotient is rounded down to a half.                                 *)
Normalize(op, in) ==
    LET col == in.column[The(op.item_input)]
        at  == {Quantity(v) : v \in ToSet(col)}
        low == CHOOSE x \in at : \A y \in at : x <= y
        top == CHOOSE x \in at : \A y \in at : x >= y
        Norm(v) == Number(IF top = low THEN 0 ELSE (2 * (Quantity(v) - low)) \div (top - low))
    IN  IF in.count = 0 THEN Returns(EmptyOutput)
        ELSE IF NotNumbers(col) THEN Throws(EmptyOutput, "not a number")
        ELSE Returns(SetColumn(EmptyOutput, The(op.item_output), [i \in DOMAIN col |-> Norm(col[i])]))

FilterCondition(op, in) ==
    LET col == in.column[The(op.item_input)]
    IN  Returns(RemoveItems(EmptyOutput, {i \in DOMAIN col : Sprint(col[i]) = Sprint(op.args.value)}))

Truncate(op, in) ==
    LET top_n == IF IsNumber(in.templated) THEN in.templated.at \div 2 ELSE op.args.top_n
    IN  IF top_n < 0 THEN Throws(EmptyOutput, "negative top_n")
        ELSE Returns(RemoveItems(EmptyOutput, top_n + 1 .. in.count))

(* A page that is not a number or negative is 0, a size that is not positive is 10.    *)
Paginate(op, in) ==
    LET ToInt(v) == IF IsNumber(v) THEN Quantity(v) \div 2 ELSE 0
        page  == ToInt(in.common[op.args.page])
        size  == IF ToInt(in.common[op.args.size]) <= 0 THEN 10 ELSE ToInt(in.common[op.args.size])
        start == (IF page < 0 THEN 0 ELSE page) * size
    IN  Returns(RemoveItems(EmptyOutput, (1 .. in.count) \ (start + 1 .. start + size)))

(* Mutated form: equal items come out in reverse.                          *)
BeforeReversed(order, col, i, j) ==
    IF Quantity(col[i]) = Quantity(col[j]) THEN i > j
    ELSE (Quantity(col[i]) < Quantity(col[j])) = (order = "asc")

(* std::stable_sort, by < or by >.                                         *)
Before(order, col, i, j) ==
    IF Quantity(col[i]) = Quantity(col[j]) THEN i < j
    ELSE (Quantity(col[i]) < Quantity(col[j])) = (order = "asc")

Sort(op, in) ==
    LET col == in.column[The(op.item_input)]
    IN  IF in.count = 0 THEN Returns(EmptyOutput)
        ELSE IF NotNumbers(col) THEN Throws(EmptyOutput, "not a number")
        ELSE IF op.args.order \notin {"asc", "desc"} THEN Throws(EmptyOutput, "order")
        ELSE Returns(SetItemOrder(EmptyOutput,
                SetToSortSeq(DOMAIN col, LAMBDA i, j : Before(op.args.order, col, i, j))))

(* The hash of salt and key stands for any fixed function of the two.      *)
Hash(salt, v) == (3 * salt.at + 5 * ToText(v).at + 1) % 4
Shuffle(op, in) ==
    LET col  == in.column[The(op.item_input)]
        salt == ToText(in.common[The(op.common_input)])
        Rank(i) == <<Hash(salt, col[i]), IF ToText(col[i]).tag = "digits" THEN ToText(col[i]).at ELSE 0, i>>
        Less(a, b) == \E k \in 1 .. 3 : a[k] < b[k] /\ \A l \in 1 .. k - 1 : a[l] = b[l]
    IN  IF in.count = 0 THEN Returns(EmptyOutput)
        ELSE Returns(SetItemOrder(EmptyOutput, SetToSortSeq(DOMAIN col, LAMBDA i, j : Less(Rank(i), Rank(j)))))

Dedup(op, in) ==
    LET col == in.column[The(op.item_input \ {Source})]
    IN  Returns(RemoveItems(EmptyOutput,
            {i \in 1 .. in.count : \E j \in 1 .. i - 1 : DedupKey(col[j]) = DedupKey(col[i])}))

Observe(op, in) == Returns(EmptyOutput)

(* transform_by_remote_pineapple: no reply, a status that is not 200, no   *)
(* JSON object or one with an error is an error, which may be a warning    *)
(* only.  A reply may hold less than was asked for, more items than were   *)
(* sent, or no field at all: what is there is taken.                       *)
TakeReply(op, in, reply) ==
    LET n == IF in.count < Len(reply.rows) THEN in.count ELSE Len(reply.rows)
        common == IF op.common_output = {} \/ reply.common = Absent THEN EmptyOutput
                  ELSE SetCommon(EmptyOutput, The(op.common_output), reply.common)
    IN  ForItems(common, n, The(op.item_output), LAMBDA i : reply.rows[i], LAMBDA i : reply.rows[i] = Absent)
RemotePineapple(op, in) ==
    IF op.args.reply.ok THEN Returns(TakeReply(op, in, op.args.reply))
    ELSE IF op.args.fail_on_error THEN Throws(EmptyOutput, "remote")
    ELSE Returns(SetWarning(EmptyOutput))

(* A custom operator writes what its args say: then, when it has read the  *)
(* value on in a field it declares.                                        *)
CustomOperator(op, in) ==
    [out |-> IF \E f \in op.item_input : op.args.on \in ToSet(in.column[f]) THEN op.args.then ELSE op.args.out,
     error |-> op.args.error]

---------------------------------------------------------------------------
(* dispatch_operator.                                                      *)
Execute(op, in) ==
    CASE op.type_name = "recall_static"    -> RecallStatic(op, in)
      [] op.type_name = "recall_resource"  -> RecallResource(op, in)
      [] op.type_name = "transform_resource_lookup" -> ResourceLookup(op, in)
      [] op.type_name \in {"common_to_item", "transform_dispatch"} -> CommonToItem(op, in)
      [] op.type_name = "common_to_common" -> CommonToCommon(op, in)
      [] op.type_name = "item_to_item"     -> ItemToItem(op, in)
      [] op.type_name = "item_to_common"   -> ItemToCommon(op, in)
      [] op.type_name = "transform_size"   -> Size(op, in)
      [] op.type_name = "transform_normalize" -> Normalize(op, in)
      [] op.type_name = "filter_condition" -> FilterCondition(op, in)
      [] op.type_name = "filter_truncate"  -> Truncate(op, in)
      [] op.type_name = "filter_paginate"  -> Paginate(op, in)
      [] op.type_name = "reorder_sort"     -> Sort(op, in)
      [] op.type_name = "reorder_shuffle_by_salt" -> Shuffle(op, in)
      [] op.type_name = "merge_dedup"      -> Dedup(op, in)
      [] op.type_name = "observe_log"      -> Observe(op, in)
      [] op.type_name = "transform_by_remote_pineapple" -> RemotePineapple(op, in)
      [] op.type_name = "custom"           -> CustomOperator(op, in)
=============================================================================
