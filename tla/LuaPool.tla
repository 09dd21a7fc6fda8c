-------------------------------- MODULE LuaPool --------------------------------
(***************************************************************************)
(* The pool of Lua states of a transform_by_lua operator                   *)
(* (pine-cpp/src/lua/lua_pool.cpp, with the snapshots of lua_bridge.cpp):  *)
(* the threads that run the operator borrow a state each, run the script's *)
(* function in it and give it back, while the engine is closed.            *)
(*                                                                         *)
(* A global variable of a state is one of three names: a function the      *)
(* script defines, a name of the base library that the script may define   *)
(* as well, and a name that only the inputs of a call set.  Its value says *)
(* who put it there.  The metrics of the pool follow its counters.         *)
(***************************************************************************)
EXTENDS Naturals, FiniteSets, Sequences, SequencesExt

CONSTANTS
    Threads,   \* the threads that execute the operator
    States,    \* names for Lua states
    First,     \* the state the constructor makes
    NoState,   \* a value that is no state
    MaxCalls   \* how often they do so

VARIABLES
    overrides,  \* whether the script defines a name of the base library
    free,       \* free_vms_
    all,        \* all_vms_
    closed,     \* closed_
    globals,    \* the global variables of a state
    mode,       \* where a thread is
    borrowed,   \* the state it has
    snap,       \* Releaser::snap
    calls,      \* executions so far
    counts      \* the counters of the pool

vars == <<overrides, free, all, closed, globals, mode, borrowed, snap, calls, counts>>

Builtins == {"print"}
Names    == {"fn", "field"} \cup Builtins
Values   == {"script", "library", "call", "nil"}

(* A state after load_script.                                              *)
Loaded == [n \in Names |-> CASE n = "fn" -> "script"
                             [] n = "field" -> "nil"
                             [] OTHER -> IF overrides THEN "script" ELSE "library"]

(* baseline_.globals: the names that have a value after load_script.       *)
Baseline == {n \in Names : Loaded[n] # "nil"}

(* Mutated form: only the names the call has added are taken away.         *)
ResetByRemoval(g, s) == [n \in Names |-> IF n \in Baseline THEN g[n] ELSE "nil"]

(* reset_to_baseline: what is no name of the baseline goes away, the       *)
(* libraries are opened again, and the names of the baseline that are not  *)
(* the libraries' are what they were at the borrow.                        *)
Reset(g, s) == [n \in Names |-> CASE n \in Builtins -> "library"
                                  [] n \in Baseline \ Builtins -> s[n]
                                  [] OTHER -> "nil"]

Goto(t, m) == mode' = [mode EXCEPT ![t] = m]

(* The call is over, its handle is gone.                                   *)
Leave(t) ==
    /\ Goto(t, "idle")
    /\ borrowed' = [borrowed EXCEPT ![t] = NoState]
    /\ snap' = [snap EXCEPT ![t] = <<>>]

Add(fields) == counts' = [f \in DOMAIN counts |-> counts[f] + IF f \in fields THEN 1 ELSE 0]

Ended == counts' = [counts EXCEPT !["return"] = @ + 1, !["active"] = @ - 1]

Init ==
    /\ overrides \in BOOLEAN
    /\ free = <<First>> /\ all = {First}
    /\ closed = FALSE
    /\ globals = [v \in States |-> Loaded]
    /\ mode = [t \in Threads |-> "idle"]
    /\ borrowed = [t \in Threads |-> NoState]
    /\ snap = [t \in Threads |-> <<>>]
    /\ calls = 0
    /\ counts = [f \in {"borrow", "return", "create", "reuse", "active"} |->
                    IF f = "create" THEN 1 ELSE 0]

---------------------------------------------------------------------------
(* The critical section of acquire_vm.                                     *)

Refused(t) ==
    /\ mode[t] = "idle" /\ calls < MaxCalls
    /\ closed
    /\ calls' = calls + 1
    /\ UNCHANGED <<overrides, free, all, closed, globals, mode, borrowed, snap, counts>>

(* Mutated form: the state stays on the list of the free ones.             *)
TakeFrontOnly(t) ==
    /\ mode[t] = "idle" /\ calls < MaxCalls
    /\ ~closed /\ free # <<>>
    /\ borrowed' = [borrowed EXCEPT ![t] = Last(free)]
    /\ calls' = calls + 1
    /\ Add({"reuse"})
    /\ Goto(t, "capture")
    /\ UNCHANGED <<overrides, free, all, closed, globals, snap>>

Take(t) ==
    /\ mode[t] = "idle" /\ calls < MaxCalls
    /\ ~closed /\ free # <<>>
    /\ borrowed' = [borrowed EXCEPT ![t] = Last(free)]
    /\ free' = Front(free)
    /\ calls' = calls + 1
    /\ Add({"reuse"})
    /\ Goto(t, "capture")
    /\ UNCHANGED <<overrides, all, closed, globals, snap>>

(* A new state; the script may fail to load in it.                         *)
Create(t) ==
    /\ mode[t] = "idle" /\ calls < MaxCalls
    /\ ~closed /\ free = <<>>
    /\ calls' = calls + 1
    /\ \/ \E v \in States \ all :
            /\ all' = all \cup {v}
            /\ borrowed' = [borrowed EXCEPT ![t] = v]
            /\ globals' = [globals EXCEPT ![v] = Loaded]
            /\ Add({"create"})
            /\ Goto(t, "capture")
       \/ UNCHANGED <<all, borrowed, globals, counts, mode>>
    /\ UNCHANGED <<overrides, free, closed, snap>>

(* capture_values, outside the critical section.                           *)
Capture(t) ==
    /\ mode[t] = "capture"
    /\ \/ /\ snap' = [snap EXCEPT ![t] = globals[borrowed[t]]]
          /\ Add({"borrow", "active"})
          /\ Goto(t, "run")
       \/ Goto(t, "undo") /\ UNCHANGED <<snap, counts>>
    /\ UNCHANGED <<overrides, free, all, closed, globals, borrowed, calls>>

(* The handler of a capture that throws.                                   *)
Undo(t) ==
    /\ mode[t] = "undo"
    /\ free' = IF closed THEN free ELSE Append(free, borrowed[t])
    /\ Leave(t)
    /\ UNCHANGED <<overrides, all, closed, globals, calls, counts>>

(* The operator sets its inputs and calls the script's function, which may *)
(* assign to any other global; that it may fail makes no difference.       *)
Run(t) ==
    /\ mode[t] = "run"
    /\ \E written \in SUBSET (Names \ {"field"}) :
         globals' = [globals EXCEPT ![borrowed[t]] =
                        [n \in Names |-> IF n \in written \cup {"field"} THEN "call" ELSE @[n]]]
    /\ Goto(t, "returning")
    /\ UNCHANGED <<overrides, free, all, closed, borrowed, snap, calls, counts>>

---------------------------------------------------------------------------
(* release_vm.                                                             *)

Look(t) ==
    /\ mode[t] = "returning"
    /\ Goto(t, IF closed THEN "counting" ELSE "resetting")
    /\ UNCHANGED <<overrides, free, all, closed, globals, borrowed, snap, calls, counts>>

(* A state whose reset throws is never used again.                         *)
ResetState(t) ==
    /\ mode[t] = "resetting"
    /\ \/ /\ globals' = [globals EXCEPT ![borrowed[t]] = Reset(@, snap[t])]
          /\ Goto(t, "pushing")
       \/ Goto(t, "counting") /\ UNCHANGED globals
    /\ UNCHANGED <<overrides, free, all, closed, borrowed, snap, calls, counts>>

Push(t) ==
    /\ mode[t] = "pushing"
    /\ free' = IF closed THEN free ELSE Append(free, borrowed[t])
    /\ Goto(t, "counting")
    /\ UNCHANGED <<overrides, all, closed, globals, borrowed, snap, calls, counts>>

Count(t) ==
    /\ mode[t] = "counting"
    /\ Ended
    /\ Leave(t)
    /\ UNCHANGED <<overrides, free, all, closed, globals, calls>>

Close ==
    /\ ~closed
    /\ closed' = TRUE
    /\ UNCHANGED <<overrides, free, all, globals, mode, borrowed, snap, calls, counts>>

Next ==
    \/ \E t \in Threads : \/ Refused(t) \/ Take(t) \/ Create(t) \/ Capture(t) \/ Undo(t)
                          \/ Run(t) \/ Look(t) \/ ResetState(t) \/ Push(t) \/ Count(t)
    \/ Close

Spec == Init /\ [][Next]_vars

---------------------------------------------------------------------------
Out == {t \in Threads : mode[t] \in {"capture", "undo", "run", "returning", "resetting", "pushing"}}

(* A state is on the free list once, or with one thread, or with nobody,   *)
(* whatever fails and whenever the pool is closed.                         *)
OneHolder ==
    /\ \A i, j \in 1 .. Len(free) : free[i] = free[j] => i = j
    /\ \A t \in Out : borrowed[t] \in all \ Range(free)
    /\ \A t, u \in Out : borrowed[t] = borrowed[u] => t = u

(* What a call has left in the globals of a state is gone when the state   *)
(* can be borrowed again: the script's function is the script's and an     *)
(* input that is not set has no value.  A name of the base library is      *)
(* never what a call has made of it.                                       *)
NothingLeaks ==
    \A i \in 1 .. Len(free) : LET g == globals[free[i]]
                              IN  g["fn"] = "script" /\ g["field"] = "nil" /\ g["print"] # "call"

(* pine_lua_pool_active counts the calls that have a state, also after an  *)
(* acquire or a release that fails or meets a closed pool, and the other   *)
(* counters agree with it.                                                 *)
CountsBalance ==
    LET having == {t \in Threads : mode[t] \in {"run", "returning", "resetting", "pushing", "counting"}}
    IN  /\ counts["active"] = Cardinality(having)
        /\ counts["borrow"] = counts["return"] + counts["active"]
        /\ counts["create"] = Cardinality(all)
        /\ counts["reuse"] + counts["create"] >= counts["borrow"]
===============================================================================
