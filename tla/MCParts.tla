-------------------------------- MODULE MCParts --------------------------------
(* Instances of the five parts; while one runs the others have one initial *)
(* state.                                                                  *)
EXTENDS Parts, TLC

CONSTANTS u1, u2

---------------------------------------------------------------------------
(* Configurations: every small tree over two operators, two sub-flows and  *)
(* a name that is neither, and every operator that differs from a plain    *)
(* one in what validate_config looks at.                                   *)
Type(t, consumes, mutates, additive, safe, templatable) ==
    [operator_type |-> t, consumes |-> consumes, mutates |-> mutates, additive |-> additive,
     concurrent_safe |-> safe, templatable |-> templatable]

MCRegistry ==
    [transform_copy      |-> Type("transform", FALSE, FALSE, FALSE, TRUE, FALSE),
     transform_redis_set |-> Type("transform", FALSE, FALSE, FALSE, TRUE, TRUE),
     transform_size      |-> Type("transform", TRUE, FALSE, FALSE, FALSE, FALSE),
     recall_static       |-> Type("recall", FALSE, FALSE, TRUE, FALSE, FALSE),
     filter_condition    |-> Type("filter", TRUE, TRUE, FALSE, TRUE, FALSE),
     filter_truncate     |-> Type("filter", TRUE, TRUE, FALSE, TRUE, TRUE),
     reorder_sort        |-> Type("reorder", TRUE, TRUE, FALSE, TRUE, FALSE)]

Plain == [type_name |-> "transform_copy", skip |-> {}, common_input |-> {"x"}, common_input_skip |-> {},
          common_input_template |-> {}, common_output |-> {}, sources |-> {}, consumes |-> FALSE,
          mutates |-> FALSE, additive |-> FALSE, data_parallel |-> 1, param |-> "valid"]

OneGroup(root) == [main |-> root]
Tree(group, map, a) ==
    [storage_mode |-> "column", control |-> {"_if"}, group |-> group, map |-> map,
     operators |-> [a |-> a, b |-> Plain]]

Lists(S, n) == UNION {[1 .. k -> S] : k \in 0 .. n}

Trees ==
    {Tree(OneGroup(root), [s |-> s, t |-> t], Plain) :
        root \in Lists({"a", "b", "s", "t", "gone"}, 2), s \in Lists({"a", "b", "s", "t"}, 2),
        t \in Lists({"b", "s"}, 1)}
    \cup {Tree(g, [s |-> <<"a", "b">>], Plain) :
             g \in {[other |-> <<"s">>], [one |-> <<"a">>, two |-> <<"b">>], <<>>,
                    [main |-> <<"b">>, two |-> <<"a">>]}}
    \cup {Tree(OneGroup(<<"a">>), [a |-> <<"b">>], Plain)}

Declared(op, where) ==
    CASE where = "none"   -> op
      [] where = "inline" -> [op EXCEPT !.skip = {"_if"}, !.common_input = @ \cup {"_if"}]
      [] where = "bucket" -> [op EXCEPT !.skip = {"_if"}, !.common_input_skip = {"_if"}]
      [] where = "absent" -> [op EXCEPT !.skip = {"_if"}]
      [] OTHER            -> [op EXCEPT !.skip = {"x"}]

Variants ==
    {Declared([Plain EXCEPT !.type_name = t, !.mutates = m, !.additive = a, !.data_parallel = dp,
                            !.common_output = out, !.sources = src, !.param = p], where) :
        t \in DOMAIN MCRegistry \cup {"unknown"}, m \in BOOLEAN, a \in BOOLEAN, dp \in {-1, 1, 2}, out \in {{}, {"y"}},
        src \in {{}, {"b"}, {"gone"}}, p \in {"absent", "valid", "wrong", "bare", "mixed"},
        where \in {"none", "inline", "bucket", "absent", "business"}}

MCConfigs ==
    Trees \cup {Tree(OneGroup(<<"b", "a">>), <<>>, v) : v \in Variants}
          \cup {Tree(OneGroup(root), <<>>, [Plain EXCEPT !.sources = {"b"}]) : root \in {<<"a", "b">>, <<"a">>}}
          \cup {[Tree(OneGroup(<<>>), <<>>, [Plain EXCEPT !.type_name = t]) EXCEPT !.storage_mode = m] :
                     m \in {"", "row", "colunm"}, t \in {"transform_copy", "unknown"}}
          \cup {[Tree(g, <<>>, Plain) EXCEPT !.operators = ops] :
                     g \in {<<>>, OneGroup(<<>>)}, ops \in {<<>>, [b |-> Plain]}}

MCOrder == <<"a", "b">>

---------------------------------------------------------------------------
(* A read meets a transaction, or the answer of a write.                   *)
MCPlans == {(u1 :> x[1]) @@ (u2 :> x[2]) @@ (Probe :> "ping") :
               x \in {<<"get", "transaction">>, <<"range", "set">>}}

(* Requests: one of each kind that is answered differently, alone, and     *)
(* followed by a short or a long one.                                      *)
Post(path, length, content) ==
    [method |-> "POST", path |-> path, query |-> "", version |-> "1.1", connection |-> "",
     length |-> length, content |-> content, id |-> 0]
Get(path, query) ==
    [method |-> "GET", path |-> path, query |-> query, version |-> "1.1", connection |-> "",
     length |-> 0, content |-> "", id |-> 0]

MCRoutes == [score |-> "POST", any |-> ""]

MCScripts ==
    LET firsts == {Post("/execute", 2, c) : c \in {"good", "invalid", "failing", "garbage", "array", "nil"}}
                  \cup {Post("score", 2, c) : c \in {"good", "invalid", "garbage"}}
                  \cup {Post("/execute", n, "good") : n \in {-2, 4}} \cup {Post("/health", 1, "good")}
                  \cup {Get(p, "") : p \in {"/health", "/stats", "/dag", "/execute", "score", "any", "/gone"}}
                  \cup {Get("/dag", q) : q \in {"format=?", "collapse=?"}}
                  \cup {[Post("/execute", 2, "good") EXCEPT !.version = v, !.connection = c] :
                            v \in {"1.0", "1.1"}, c \in {"close", "keep-alive"}}
        second == Post("/execute", 2, "good")
    IN  {<<r>> : r \in firsts} \cup {<<r, second>> : r \in firsts} \cup {<<second, Get("/health", "")>>}

ConfigRests == config = Tree(OneGroup(<<"b", "a">>), <<>>, Plain)
LuaRests    == overrides = FALSE
RedisRests  == does[u1] = "get"
HttpRests   == script = <<Get("/health", "")>>
ManagerRests == timed = {} /\ handles = {}

MCInit ==
    /\ C!Init /\ (part # "config" => ConfigRests)
    /\ L!Init /\ (part # "lua" => LuaRests)
    /\ R!Init /\ (part # "redis" => RedisRests)
    /\ X!Init /\ (part # "http" => HttpRests)
    /\ M!Init /\ (part # "manager" => ManagerRests)

(* What is left of Spec for the manager, and for the other parts.          *)
ManagerInit == part = "manager" /\ MCInit
ManagerSpec == ManagerInit /\ [][Next]_vars /\ M!Fairness

OthersInit == part \in {"config", "lua", "redis", "http"} /\ MCInit
MCSpec == OthersInit /\ [][Next]_vars /\ R!Fairness
===============================================================================
