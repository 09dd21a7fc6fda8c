-------------------------------- MODULE Config --------------------------------
(***************************************************************************)
(* From a configuration to an engine: load_config_from_json                *)
(* (pine-cpp/src/config/config.cpp) with apply_registry_traits             *)
(* (src/registry/registry.cpp), and the constructor of Engine              *)
(* (src/runtime/engine.cpp), which flattens the pipeline tree, builds the  *)
(* graph and makes the operators.                                          *)
(*                                                                         *)
(* The JSON text is taken as parsed, with every field of the right type.   *)
(* An operator has one parameter that may matter: absent, valid, a value   *)
(* of a wrong kind, a bare {{field}} marker, or a marker within other      *)
(* text.  The names of operators and sub-flows are one set of entries.     *)
(***************************************************************************)
EXTENDS Integers, FiniteSets, Sequences, SequencesExt, FiniteSetsExt

CONSTANTS
    Registry,  \* a function from operator types to their schema and traits
    Configs,   \* the configurations to load
    Order      \* the operator names, in the order of std::map

VARIABLES
    config,    \* the configuration
    stage,     \* text, config, engine or refused
    error,     \* what was thrown
    sequence,  \* ExpandedSequence::sequence
    subflow,   \* ExpandedSequence::op_to_subflow
    reads,     \* the common fields build_dag takes each operator to read
    plans      \* the templated parameters of each operator

(* OperatorEntry and OperatorConfig, as far as they matter.                *)
OperatorEntry ==
    [operator_type : STRING, consumes : BOOLEAN, mutates : BOOLEAN, additive : BOOLEAN,
     concurrent_safe : BOOLEAN, templatable : BOOLEAN]

Fields == SUBSET STRING
OperatorConfig ==
    [type_name : STRING, skip : Fields, common_input : Fields, common_input_skip : Fields,
     common_input_template : Fields, common_output : Fields, sources : SUBSET STRING,
     consumes : BOOLEAN, mutates : BOOLEAN, additive : BOOLEAN, data_parallel : Int,
     param : {"absent", "valid", "wrong", "bare", "mixed"}]

IsConfig(c) ==
    /\ c = [storage_mode |-> c.storage_mode, control |-> c.control, group |-> c.group,
            map |-> c.map, operators |-> c.operators]
    /\ DOMAIN c.operators \subseteq ToSet(Order)
    /\ \A o \in DOMAIN c.operators : c.operators[o] \in OperatorConfig

vars == <<config, stage, error, sequence, subflow, reads, plans>>

Init ==
    /\ config \in Configs
    /\ stage = "text" /\ error = "none"
    /\ sequence = <<>> /\ subflow = <<>> /\ reads = <<>> /\ plans = {}

(* The first of a sequence of checks <<condition, error>> that fails.      *)
FirstError(checks) ==
    LET failed == {i \in DOMAIN checks : checks[i][1]}
    IN  IF failed = {} THEN "none" ELSE checks[Min(failed)][2]

(* What a check of every operator in turn throws first.                    *)
FirstOf(c, Check(_)) ==
    FirstError([i \in DOMAIN Order |->
                  IF Order[i] \in DOMAIN c.operators
                  THEN LET e == Check(c.operators[Order[i]]) IN <<e # "none", e>>
                  ELSE <<FALSE, "none">>])

---------------------------------------------------------------------------
(* load_config_from_json.                                                  *)

Entry(op) == Registry[op.type_name]

Registered(op) == IF op.type_name \in DOMAIN Registry THEN "none" ELSE "RegistryError"

(* What is thrown before the flags of the operators' classes are known.    *)
Unreadable(c) ==
    IF c.storage_mode \notin {"", "row", "column"} THEN "ConfigError" ELSE FirstOf(c, Registered)

(* The flags of the configuration and those of the operator's class.       *)
Traits(op) ==
    [op EXCEPT !.consumes = @ \/ Entry(op).consumes, !.mutates = @ \/ Entry(op).mutates,
               !.additive = @ \/ Entry(op).additive]

(* The checks that are hard-wired to a type of operator.                   *)
BadParam(op) ==
    CASE op.type_name = "filter_condition"    -> op.param = "absent"
      [] op.type_name = "filter_truncate"     -> op.param \in {"wrong", "mixed"}
      [] op.type_name = "transform_redis_set" -> op.param \in {"wrong", "mixed"}
      [] op.type_name = "reorder_sort"        -> op.param \in {"wrong", "bare", "mixed"}
      [] OTHER -> FALSE

ValidateOperator(c, op) ==
    FirstError(<<
        <<\E f \in op.skip : f \notin c.control
                             \/ f \notin op.common_input \cup op.common_input_skip, "ConfigError">>,
        <<~(op.sources \subseteq DOMAIN c.operators), "ConfigError">>,
        <<op.additive /\ op.mutates, "RegistryError">>,
        <<BadParam(op), "RegistryError">>,
        <<op.data_parallel < 0, "ValidationError">>,
        <<op.data_parallel > 1 /\ Entry(op).operator_type # "transform", "ValidationError">>,
        <<op.data_parallel > 1 /\ op.common_output # {}, "ValidationError">>,
        <<op.data_parallel > 1 /\ ~Entry(op).concurrent_safe, "ValidationError">> >>)

Validate(c) ==
    FirstError(<<
        <<DOMAIN c.operators = {}, "ConfigError">>,
        <<DOMAIN c.group = {}, "ConfigError">>,
        <<FirstOf(c, LAMBDA op : ValidateOperator(c, op)) # "none",
          FirstOf(c, LAMBDA op : ValidateOperator(c, op))>>,
        <<DOMAIN c.operators \cap DOMAIN c.map # {}, "ConfigError">> >>)

WithTraits(c) ==
    [c EXCEPT !.operators = [o \in DOMAIN c.operators |-> Traits(c.operators[o])]]

Settle(e, next) ==
    /\ error' = e
    /\ stage' = IF e = "none" THEN next ELSE "refused"

(* Mutated form: the configuration is validated as it is written.          *)
LoadWithoutTraits ==
    /\ stage = "text"
    /\ IF Unreadable(config) # "none" THEN Settle(Unreadable(config), "config") /\ UNCHANGED config
       ELSE Settle(Validate(config), "config") /\ config' = WithTraits(config)
    /\ UNCHANGED <<sequence, subflow, reads, plans>>

Load ==
    /\ stage = "text"
    /\ IF Unreadable(config) # "none" THEN Settle(Unreadable(config), "config") /\ UNCHANGED config
       ELSE Settle(Validate(WithTraits(config)), "config") /\ config' = WithTraits(config)
    /\ UNCHANGED <<sequence, subflow, reads, plans>>

---------------------------------------------------------------------------
(* The constructor of Engine.                                              *)

Start == [sequence |-> <<>>, subflow |-> <<>>, visiting |-> {}, failed |-> FALSE]

(* An operator takes its place in the sequence; it may have one only.      *)
Place(acc, name, parent) ==
    IF \E i \in DOMAIN acc.sequence : acc.sequence[i] = name THEN [acc EXCEPT !.failed = TRUE]
    ELSE [acc EXCEPT !.sequence = Append(@, name), !.subflow = Append(@, parent)]

Expansions == [sequence : Seq(STRING), subflow : Seq(STRING), visiting : SUBSET STRING, failed : BOOLEAN]

(* Mutated form: a sub-flow that has been left is still being visited.     *)
EnterForGood(c, expand, acc, name) ==
    IF name \in acc.visiting THEN [acc EXCEPT !.failed = TRUE]
    ELSE expand[<<c.map[name], name, [acc EXCEPT !.visiting = @ \cup {name}]>>]

Enter(c, expand, acc, name) ==
    IF name \in acc.visiting THEN [acc EXCEPT !.failed = TRUE]
    ELSE [expand[<<c.map[name], name, [acc EXCEPT !.visiting = @ \cup {name}]>>]
            EXCEPT !.visiting = acc.visiting]

(* A function of the entries, of the sub-flow they are in and of what has  *)
(* been expanded so far.                                                   *)
Expand(c) ==
    LET expand[x \in Seq(STRING) \X STRING \X Expansions] ==
            FoldLeft(LAMBDA acc, name : IF acc.failed THEN acc
                                        ELSE IF name \in DOMAIN c.operators THEN Place(acc, name, x[2])
                                        ELSE IF name \in DOMAIN c.map THEN Enter(c, expand, acc, name)
                                        ELSE [acc EXCEPT !.failed = TRUE],
                     x[3], x[1])
    IN  expand

(* The entries the tree begins with: those of "main", or of the only group.*)
Root(c) == IF "main" \in DOMAIN c.group THEN c.group["main"]
           ELSE c.group[CHOOSE g \in DOMAIN c.group : TRUE]

HasRoot(c) == "main" \in DOMAIN c.group \/ Cardinality(DOMAIN c.group) = 1

Expanded(c) ==
    IF HasRoot(c) THEN Expand(c)[<<Root(c), "", Start>>] ELSE [Start EXCEPT !.failed = TRUE]

CommonReadFields(op) == op.common_input \cup op.common_input_skip \cup op.common_input_template

(* build_templated_param_plan, for the one parameter.                      *)
PlanError(op) ==
    IF op.param \in {"bare", "mixed"} /\ (~Entry(op).templatable \/ op.param = "mixed")
    THEN "ConfigError" ELSE "none"

GraphReads(c) == [i \in DOMAIN sequence' |-> CommonReadFields(c.operators[sequence'[i]])]

(* The control fields of an operator are taken out of its common_input.    *)
WithoutControls(c) ==
    [c EXCEPT !.operators = [o \in DOMAIN c.operators |->
        [c.operators[o] EXCEPT !.common_input = @ \ c.operators[o].skip]]]

(* What build_dag has against the sources of the operator at i.            *)
Earlier(seq, i) == {seq[j] : j \in 1 .. i - 1}
SourceErrors(c, seq, i) ==
    {IF s \in ToSet(seq) THEN "ValidationError" ELSE "ConfigError" :
        s \in c.operators[seq[i]].sources \ Earlier(seq, i)}

(* How the constructor may end: with an error of the graph, of a template, *)
(* or of an operator's init, which may throw what it will.                 *)
Endings(c, seq) ==
    LET bad == {i \in DOMAIN seq : SourceErrors(c, seq, i) # {}}
    IN  IF bad # {} THEN SourceErrors(c, seq, Min(bad)) ELSE {FirstOf(c, PlanError), "init"}

(* Every operator of the configuration is made, in the sequence or not.    *)
Construct ==
    /\ stage = "config"
    /\ LET expanded == Expanded(config)
       IN  IF expanded.failed
           THEN Settle("ConfigError", "engine") /\ UNCHANGED <<config, sequence, subflow, reads, plans>>
           ELSE /\ sequence' = expanded.sequence
                /\ subflow' = expanded.subflow
                /\ reads' = GraphReads(config)
                /\ \E e \in Endings(config, expanded.sequence) : Settle(e, "engine")
                /\ plans' = {o \in DOMAIN config.operators : config.operators[o].param = "bare"}
                /\ config' = WithoutControls(config)

Next == Load \/ Construct

Spec == Init /\ [][Next]_vars

---------------------------------------------------------------------------
(* The tree, level by level: a path of positions and what it leads to.     *)
Level[k \in Nat] ==
    IF k = 1 THEN {<< <<i>>, Root(config)[i] >> : i \in DOMAIN Root(config)}
    ELSE UNION {{<<Append(p[1], i), config.map[p[2]][i]>> : i \in DOMAIN config.map[p[2]]} :
                   p \in {q \in Level[k - 1] : q[2] \in DOMAIN config.map}}

Depth == Cardinality(DOMAIN config.map) + 1

LeftOf(p, q) == \E k \in DOMAIN p[1] \cap DOMAIN q[1] :
                     p[1][k] < q[1][k] /\ \A j \in 1 .. k - 1 : p[1][j] = q[1][j]

(* expand_entries flattens the tree: the sequence holds the operator at    *)
(* the end of every path, in the order of the paths, each with the         *)
(* sub-flow it was named in, and a tree is refused exactly when it nests a *)
(* sub-flow in itself, names an operator twice or names what is not there. *)
(* A sub-flow may be used again.                                           *)
Flattens ==
    stage = "config" /\ HasRoot(config) =>
    LET paths  == UNION {Level[k] : k \in 1 .. Depth}
        leaves == {p \in paths : p[2] \notin DOMAIN config.map}
        named  == {p[2] : p \in leaves}
        good   == /\ \A p \in Level[Depth] : p[2] \notin DOMAIN config.map
                  /\ named \subseteq DOMAIN config.operators
                  /\ Cardinality(named) = Cardinality(leaves)
        result == Expanded(config)
    IN  /\ result.failed = ~good
        /\ good => \E path \in [DOMAIN result.sequence -> leaves] :
               /\ {path[i] : i \in DOMAIN path} = leaves
               /\ \A i, j \in DOMAIN path : i < j => LeftOf(path[i], path[j])
               /\ \A i \in DOMAIN path :
                    /\ result.sequence[i] = path[i][2]
                    /\ IF Len(path[i][1]) = 1 THEN result.subflow[i] = ""
                       ELSE <<Front(path[i][1]), result.subflow[i]>> \in paths

(* What an engine's graph, its shards and its operators rely on holds of   *)
(* every configuration it accepts, with the flags the operators' classes   *)
(* bring along: see DagAssumption of DagBuild, and the control fields,     *)
(* which order an operator after the one that decides whether it is        *)
(* skipped and which it must not see itself, in either layout; and what an *)
(* operator names as its sources comes before it.                          *)
AcceptedIsSafe ==
    stage = "engine" => \A o \in DOMAIN config.operators :
        LET op == config.operators[o] IN
        /\ ~(op.additive /\ op.mutates)
        /\ op.data_parallel >= 0
        /\ op.data_parallel > 1 => Entry(op).concurrent_safe /\ op.common_output = {}
        /\ op.sources \subseteq DOMAIN config.operators
        /\ op.skip \cap op.common_input = {}
        /\ \A i \in DOMAIN sequence : sequence[i] = o =>
              op.skip \subseteq reads[i] /\ op.sources \subseteq Earlier(sequence, i)
===============================================================================
