------------------------------ MODULE MCPipeline ------------------------------
(* Small pipelines for Pipeline: every pair of the operators below, and    *)
(* some longer ones, on requests of three, two and no items.               *)
EXTENDS Pipeline

CONSTANTS StrictOnEmpty  \* may a strict field meet a request with no items?

Row(f, g) == [BlankItem EXCEPT !["f"] = f, !["g"] = g]
Text_(n)  == Variant("string", n)
NoArgs    == [none |-> 0]

Recall(name, args, item)  == [Config(name, "recall", args) EXCEPT !.additive = TRUE, !.item_output = item]
Transform(name, args)     == Config(name, "transform", args)
Consumer(name, type, args, item) ==
    [Config(name, type, args) EXCEPT !.consumes = TRUE, !.mutates = type # "transform", !.item_input = item]
Custom(type, out, error)  ==
    Config("custom", type, [out |-> out, error |-> error, on |-> Absent, then |-> EmptyOutput])

Lookup == Transform("transform_resource_lookup",
            [key |-> "f", field |-> "g", default |-> Absent,
             table |-> (Text("digits", 2) :> Text_(4) @@ Text("bool", 1) :> Null)])
CopyCF == [Transform("common_to_item", NoArgs) EXCEPT !.common_input = {"c"}, !.item_output = {"f"}]
CopyFG == [Transform("item_to_item", NoArgs) EXCEPT !.item_input = {"f"}, !.item_output = {"g"}]
SortF(order) == Consumer("reorder_sort", "reorder", [order |-> order], {"f"})

Remote(reply, fail_on_error) ==
    [Consumer("transform_by_remote_pineapple", "transform", [reply |-> reply, fail_on_error |-> fail_on_error], {"f"})
        EXCEPT !.common_output = {"c"}, !.item_output = {"g"}]

(* Writers that only a custom operator can be.                             *)
Writes(S) == FoldSet(LAMBDA w, out : SetItem(out, w[1], w[2], w[3]), EmptyOutput, S)
ToG(out, error) == [Custom("transform", out, error) EXCEPT !.item_output = {"g"}, !.item_input = {"f"}]

Catalogue ==
    [recall   |-> Recall("recall_static", [items |-> <<Row(Whole(1), Absent), Row(Number(3), Null)>>,
                                          set_common |-> BlankCommon], {"f", "g"}),
     recallC  |-> [Recall("recall_static", [items |-> <<Row(Text_(2), Absent)>>,
                                           set_common |-> [BlankCommon EXCEPT !["c"] = Whole(2)]], {"f"})
                     EXCEPT !.common_output = {"c"}],
     resource |-> Recall("recall_resource", [resource |-> [shape |-> "array", rows |-> <<Row(Whole(2), Absent), Absent>>]], {"f"}),
     recallG  |-> Recall("recall_static", [items |-> <<Row(Absent, Whole(1))>>, set_common |-> BlankCommon], {"f"}),
     recallW  |-> [Custom("recall", SetWarning(AddItem(EmptyOutput, Row(Whole(3), Absent))), "none")
                     EXCEPT !.additive = TRUE, !.item_output = {"f", "g"}],
     recallBad |-> [Custom("recall", SetWarning(AddItem(AddItem(EmptyOutput, Row(Whole(3), Absent)),
                                                       Row(Whole(1), Number(NotFinite)))), "none")
                     EXCEPT !.additive = TRUE, !.item_output = {"f", "g"}],
     copyCF   |-> CopyCF,
     copyCF2  |-> [CopyCF EXCEPT !.data_parallel = 2],
     copyCD   |-> [Transform("common_to_common", NoArgs) EXCEPT !.common_input = {"c"}, !.common_output = {"d"},
                                                                !.common_defaults["c"] = Whole(1)],
     copyFG   |-> CopyFG,
     copyFG2  |-> [CopyFG EXCEPT !.data_parallel = 2, !.item_defaults["f"] = Whole(2)],
     copyFC   |-> [Transform("item_to_common", NoArgs) EXCEPT !.item_input = {"f"}, !.common_output = {"c"}],
     sizeC    |-> [Consumer("transform_size", "transform", NoArgs, {}) EXCEPT !.common_output = {"c"}],
     normal   |-> [Transform("transform_normalize", NoArgs) EXCEPT !.item_input = {"f"}, !.item_output = {"g"}],
     lookup2  |-> [Lookup EXCEPT !.item_input = {"f"}, !.item_output = {"g"}, !.data_parallel = 2],
     lookupD  |-> [Lookup EXCEPT !.item_input = {"f"}, !.item_output = {"g"}, !.args.default = Variant("bool", 1)],
     cond     |-> Consumer("filter_condition", "filter", [value |-> Whole(1)], {"f"}),
     trunc    |-> Consumer("filter_truncate", "filter", [top_n |-> 1], {}),
     truncC   |-> [Consumer("filter_truncate", "filter", [top_n |-> 0], {}) EXCEPT !.template = {"c"}],
     page     |-> [Consumer("filter_paginate", "filter", [page |-> "c", size |-> "d"], {})
                     EXCEPT !.common_input = {"c", "d"}],
     asc      |-> SortF("asc"),
     desc     |-> [SortF("desc") EXCEPT !.strict_item = {"f"}, !.skip = {"d"}],
     shuffle  |-> [Consumer("reorder_shuffle_by_salt", "reorder", NoArgs, {"f"}) EXCEPT !.common_input = {"d"}],
     dedup    |-> Consumer("merge_dedup", "merge", NoArgs, {"f"}),
     observe  |-> [Config("observe_log", "observe", NoArgs) EXCEPT
                     !.common_input = {"c"}, !.strict_common = {"c"}, !.item_input = {"g"}],
     remote   |-> Remote([ok |-> TRUE, common |-> Whole(1), rows |-> <<Text_(1), Absent, Null, Whole(1)>>], TRUE),
     remoteGone |-> Remote([ok |-> FALSE], FALSE),
     mixed    |-> ToG(SetWarning(Writes({<<1, "g", Null>>, <<2, "g", Text_(2)>>, <<1, "g", Whole(5)>>})), "none"),
     columns  |-> ToG(SetColumn(SetItem(EmptyOutput, 1, "g", Text_(1)), "g", <<Whole(1), Number(3), Whole(4)>>), "none"),
     beyond   |-> ToG(Writes({<<1, "g", Whole(1)>>, <<3, "g", Number(NotFinite)>>}), "none"),
     source   |-> [Custom("merge", SetItem(RemoveItems(EmptyOutput, {2}), 1, "_source", Text_(2)), "none")
                     EXCEPT !.mutates = TRUE, !.item_input = {"_source"}, !.item_defaults["_source"] = Text_(1)],
     wrong    |-> [Custom("filter", SetItemOrder(EmptyOutput, <<2, 1>>), "none") EXCEPT !.mutates = TRUE],
     order    |-> [Custom("reorder", SetItemOrder(EmptyOutput, <<3, 1, 2>>), "none") EXCEPT !.mutates = TRUE],
     throws   |-> ToG(SetWarning(SetItem(EmptyOutput, 1, "g", Null)), "panic"),
     spills   |-> [ToG(SetWarning(EmptyOutput), "none") EXCEPT
                     !.data_parallel = 2, !.args.on = Null, !.args.then = AddItem(EmptyOutput, BlankItem)]]

Names ==
    {<<a, b>> : a \in DOMAIN Catalogue, b \in DOMAIN Catalogue}
    \cup {<<"recallBad", "recallW", "spills">>, <<"recallBad", "recallW", "recallBad">>, <<"recall", "recallC", "dedup">>, <<"recall", "copyCD", "asc">>, <<"copyFC", "lookup2", "order">>,
          <<"recallC", "truncC", "observe">>, <<"sizeC", "recall", "page">>, <<"mixed", "copyCD", "trunc">>, <<"recall", "remote", "page">>, <<"remoteGone", "lookupD", "dedup">>}
MCPlans == {[k \in DOMAIN names |-> Catalogue[names[k]]] : names \in Names}

Common(c, d) == [BlankCommon EXCEPT !["c"] = c, !["d"] = d]
MCRequests ==
    {[common |-> Common(Whole(1), Absent),
      items |-> <<Row(Whole(2), Absent), Row(Number(3), Absent), Row(Whole(2), Absent)>>],
     [common |-> Common(Text_(3), Null),
      items |-> <<Row(Whole(1), Text_(0)), Row(Text_(2), Null), Row(Null, Whole(1))>>],
     [common |-> Common(Absent, Whole(2)),
      items |-> <<Row(Variant("bool", 1), Variant("composite", 1)), Row(Absent, Absent)>>]}
    \cup (IF StrictOnEmpty THEN {[common |-> Common(Whole(0), Null), items |-> <<>>]} ELSE {})
=============================================================================
