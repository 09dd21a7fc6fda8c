---------------------------- MODULE ShardExecutor -----------------------------
(***************************************************************************)
(* data_parallel (pine-cpp/src/runtime/engine.cpp, parallel_execute and    *)
(* merge_shard_output): the items of a frame are cut into windows, the     *)
(* operator runs on each in a pool of threads, and the outputs are merged  *)
(* as if it had run once on the whole frame.  A context that the first     *)
(* failing shard cancels tells the others to stop.                         *)
(***************************************************************************)
EXTENDS Integers, FiniteSets

CONSTANTS
    MaxItems,     \* the largest frame
    MaxParallel,  \* the largest data_parallel
    PoolSize      \* threads of the shard pool

ASSUME ShardAssumption == MaxItems \in Nat /\ MaxParallel \in Nat /\ PoolSize \in Nat \ {0}

VARIABLES
    total,      \* item_count of the frame
    par,        \* the operator's data_parallel
    acts,       \* what the operator does when it gets to an item
    column,     \* whether it also writes a whole column
    ctxDone,    \* the run's context is done
    shardDone,  \* shard_ctx is done
    submitted,  \* how many shards are submitted
    phase,      \* where each shard is
    outs,       \* shard_outs
    firstErr,   \* first_err
    skipped,    \* skipped
    result      \* what parallel_execute returns or throws

opVars == <<total, par, acts, column>>
vars == <<opVars, ctxDone, shardDone, submitted, phase, outs, firstErr, skipped, result>>

Acts   == {"item", "remove", "warn", "add", "fail"}
Phases == {"queued", "taken", "running", "done", "failed", "skipped"}
Errors == {"own", "canceled", "contract"}

---------------------------------------------------------------------------
(* The windows: data_parallel of them at most, the first total % n one     *)
(* item longer.                                                            *)

n == IF par > total THEN total ELSE par
Sharded == par > 1 /\ total > 0
Shards == IF Sharded THEN 0 .. n - 1 ELSE {}

Lesser(a, b) == IF a < b THEN a ELSE b
Size(i)   == (total \div n) + (IF i < total % n THEN 1 ELSE 0)
Offset(i) == i * (total \div n) + Lesser(i, total % n)

(* What an operator has to say of the items lo .. lo + size - 1, which it  *)
(* numbers from 0.  A column it writes covers its writes to single items;  *)
(* set_warning keeps the first.                                            *)
NoOut == [writes |-> [i \in {} |-> 0], removed |-> {}, added |-> FALSE, warning |-> -1]

OpOut(lo, size) ==
    LET Local(a) == {i \in 0 .. size - 1 : acts[lo + i] = a}
        warns    == Local("warn")
    IN  [writes  |-> [i \in IF column THEN 0 .. size - 1 ELSE Local("item") |->
                         <<IF column THEN "column" ELSE "item", lo + i>>],
         removed |-> Local("remove"),
         added   |-> Local("add") # {},
         warning |-> IF warns = {} THEN -1 ELSE lo + CHOOSE i \in warns : \A j \in warns : i <= j]

Fails(lo, size) == \E i \in lo .. lo + size - 1 : acts[i] = "fail"

(* merge_shard_output: a shard's writes and removals at their place.       *)
Merged(i) ==
    LET o == Offset(i)
    IN  [writes  |-> [k \in {o + j : j \in DOMAIN outs[i].writes} |-> outs[i].writes[k - o]],
         removed |-> {o + j : j \in outs[i].removed}]

MergedOut ==
    LET writes   == [i \in Shards |-> Merged(i).writes]
        touched  == UNION {DOMAIN writes[i] : i \in Shards}
        warnings == {i \in Shards : outs[i].warning # -1}
    IN  [writes  |-> [k \in touched |->
                         LET wrote == {i \in Shards : k \in DOMAIN writes[i]}
                         IN  writes[CHOOSE i \in wrote : \A j \in wrote : j <= i][k]],
         removed |-> UNION {Merged(i).removed : i \in Shards},
         added   |-> FALSE,
         warning |-> IF warnings = {} THEN -1
                     ELSE outs[CHOOSE i \in warnings : \A j \in warnings : i <= j].warning]

Returns(out) == result' = [kind |-> "ok", out |-> out]
Throws(why)  == result' = [kind |-> "error", why |-> why]

---------------------------------------------------------------------------
Init ==
    /\ total \in 0 .. MaxItems
    /\ par \in 0 .. MaxParallel
    /\ acts \in [0 .. total - 1 -> Acts]
    /\ column \in BOOLEAN
    /\ ctxDone = FALSE /\ shardDone = FALSE
    /\ submitted = 0
    /\ phase = [i \in Shards |-> "queued"]
    /\ outs = [i \in Shards |-> NoOut]
    /\ firstErr = "none" /\ skipped = FALSE
    /\ result = [kind |-> "none"]

(* The caller's context is cancelled or past its deadline, and with it the *)
(* one derived from it for the shards.                                     *)
CancelRun ==
    /\ ~ctxDone
    /\ ctxDone' = TRUE /\ shardDone' = TRUE
    /\ UNCHANGED <<opVars, submitted, phase, outs, firstErr, skipped, result>>

(* Without data_parallel, or without items, the operator runs once on the  *)
(* caller's thread.                                                        *)
RunWhole ==
    /\ ~Sharded
    /\ result.kind = "none"
    /\ \/ Fails(0, total) /\ Throws("own")
       \/ ctxDone /\ Throws("canceled")
       \/ ~Fails(0, total) /\ Returns(OpOut(0, total))
    /\ UNCHANGED <<opVars, ctxDone, shardDone, submitted, phase, outs, firstErr, skipped>>

Submit ==
    /\ Sharded
    /\ submitted < n
    /\ result.kind = "none"
    /\ submitted' = submitted + 1
    /\ UNCHANGED <<opVars, ctxDone, shardDone, phase, outs, firstErr, skipped, result>>

(* The pool refuses a shard: nothing catches that, and parallel_execute is *)
(* unwound without a look at the futures of the shards it has submitted.   *)
(* They go on with locals that are gone; from here on the model shows of   *)
(* them only that they still run.                                          *)
SubmitThrows ==
    /\ Sharded
    /\ submitted < n
    /\ result.kind = "none"
    /\ Throws("submit")
    /\ UNCHANGED <<opVars, ctxDone, shardDone, submitted, phase, outs, firstErr, skipped>>

(* A thread of the pool takes the oldest task.                             *)
Take(i) ==
    /\ phase[i] = "queued" /\ i < submitted
    /\ \A j \in Shards : j < i => phase[j] # "queued"
    /\ Cardinality({j \in Shards : phase[j] \in {"taken", "running"}}) < PoolSize
    /\ phase' = [phase EXCEPT ![i] = "taken"]
    /\ UNCHANGED <<opVars, ctxDone, shardDone, submitted, outs, firstErr, skipped, result>>

(* Mutated form: a shard that never ran leaves no trace.                   *)
BailSilently(i) ==
    /\ phase[i] = "taken" /\ shardDone
    /\ phase' = [phase EXCEPT ![i] = "skipped"]
    /\ UNCHANGED <<opVars, ctxDone, shardDone, submitted, outs, firstErr, skipped, result>>

(* Mutated form: a shard that never ran does not end its task.             *)
BailAndForget(i) ==
    /\ phase[i] = "taken" /\ shardDone
    /\ skipped' = TRUE
    /\ UNCHANGED <<opVars, ctxDone, shardDone, submitted, phase, outs, firstErr, result>>

Bail(i) ==
    /\ phase[i] = "taken" /\ shardDone
    /\ phase' = [phase EXCEPT ![i] = "skipped"]
    /\ skipped' = TRUE
    /\ UNCHANGED <<opVars, ctxDone, shardDone, submitted, outs, firstErr, result>>

Dispatch(i) ==
    /\ phase[i] = "taken" /\ ~shardDone
    /\ phase' = [phase EXCEPT ![i] = "running"]
    /\ UNCHANGED <<opVars, ctxDone, shardDone, submitted, outs, firstErr, skipped, result>>

Finish(i) ==
    /\ phase[i] = "running"
    /\ ~Fails(Offset(i), Size(i))
    /\ phase' = [phase EXCEPT ![i] = "done"]
    /\ outs' = [outs EXCEPT ![i] = OpOut(Offset(i), Size(i))]
    /\ UNCHANGED <<opVars, ctxDone, shardDone, submitted, firstErr, skipped, result>>

(* The operator throws, at an item or because it looks at its context.     *)
Thrown(i) == {e \in {"own", "canceled"} : IF e = "own" THEN Fails(Offset(i), Size(i)) ELSE shardDone}

(* Mutated form: the other shards are told before the error is recorded.   *)
FailTellingFirst(i) ==
    /\ \/ /\ phase[i] = "running"
          /\ \E e \in Thrown(i) : phase' = [phase EXCEPT ![i] = e]
          /\ shardDone' = TRUE
          /\ UNCHANGED firstErr
       \/ /\ phase[i] \in Errors
          /\ phase' = [phase EXCEPT ![i] = "failed"]
          /\ firstErr' = IF firstErr = "none" THEN phase[i] ELSE firstErr
          /\ UNCHANGED shardDone
    /\ UNCHANGED <<opVars, ctxDone, submitted, outs, skipped, result>>

(* Under err_mu the first failure is recorded and cancels the others.      *)
Fail(i) ==
    /\ phase[i] = "running"
    /\ \E e \in Thrown(i) : firstErr' = IF firstErr = "none" THEN e ELSE firstErr
    /\ phase' = [phase EXCEPT ![i] = "failed"]
    /\ shardDone' = TRUE
    /\ UNCHANGED <<opVars, ctxDone, submitted, outs, skipped, result>>

ShardStep(i) == Take(i) \/ Bail(i) \/ Dispatch(i) \/ Finish(i) \/ Fail(i)

(* When all are through: the first error, a cancellation that left a hole, *)
(* or the merged outputs, unless one of them breaks the contract.          *)
Join ==
    /\ Sharded
    /\ submitted = n
    /\ result.kind = "none"
    /\ \A i \in Shards : phase[i] \in {"done", "failed", "skipped"}
    /\ \/ firstErr # "none" /\ Throws(firstErr)
       \/ firstErr = "none" /\ skipped /\ Throws("canceled")
       \/ /\ firstErr = "none" /\ ~skipped
          /\ \E i \in Shards : outs[i].added
          /\ Throws("contract")
       \/ /\ firstErr = "none" /\ ~skipped
          /\ \A i \in Shards : ~outs[i].added
          /\ Returns(MergedOut)
    /\ UNCHANGED <<opVars, ctxDone, shardDone, submitted, phase, outs, firstErr, skipped>>

Next == CancelRun \/ RunWhole \/ Submit \/ SubmitThrows \/ Join \/ \E i \in Shards : ShardStep(i)

Spec == Init /\ [][Next]_vars

(* The caller and the pool's threads get on; nobody need cancel.           *)
FairSpec ==
    /\ Spec
    /\ WF_vars(RunWhole \/ Submit \/ Join)
    /\ WF_vars(\E i \in Shards : ShardStep(i))

---------------------------------------------------------------------------
(* Properties.                                                             *)

(* The variables have their types, and what is returned speaks of items of *)
(* the frame only.                                                         *)
TypeOK ==
    /\ total \in 0 .. MaxItems /\ par \in 0 .. MaxParallel /\ acts \in [0 .. total - 1 -> Acts]
    /\ ctxDone \in BOOLEAN /\ shardDone \in BOOLEAN /\ skipped \in BOOLEAN /\ column \in BOOLEAN
    /\ submitted \in 0 .. Lesser(total, MaxParallel)
    /\ phase \in [Shards -> Phases]
    /\ DOMAIN outs = Shards
    /\ firstErr \in Errors \cup {"none"}
    /\ result.kind = "ok" => DOMAIN result.out.writes \cup result.out.removed \subseteq 0 .. total - 1

(* Sharding cannot be seen: an operator that reports success has written,  *)
(* removed and warned exactly what one run on the whole frame would have   *)
(* (the merge in parallel_execute), with no item left out.                 *)
Transparent ==
    result.kind = "ok" => ~Fails(0, total) /\ result.out = OpOut(0, total)

(* "context canceled" is reported only if the caller's context is done: a  *)
(* shard that stops because another failed never hides that failure        *)
(* (first_err).                                                            *)
ErrorIsCause ==
    result.kind = "error" =>
        /\ result.why = "canceled" => ctxDone
        /\ result.why = "own" => Fails(0, total)

Unwound == result = [kind |-> "error", why |-> "submit"]
InPool  == {i \in Shards : i < submitted /\ phase[i] \in {"queued", "taken", "running"}}

(* parallel_execute returns, whatever fails or is cancelled, and has then  *)
(* no shard in the pool (the wait for the futures), unless the pool        *)
(* refused one.                                                            *)
Completes ==
    /\ <>(result.kind # "none")
    /\ [](result.kind # "none" => Unwound \/ InPool = {})

(* A shard lives no longer than the call whose locals it works on, what    *)
(* its references into them rest on.                                       *)
NothingOutlives == result.kind # "none" => InPool = {}
===============================================================================
