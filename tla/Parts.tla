--------------------------------- MODULE Parts ---------------------------------
(***************************************************************************)
(* Five parts that share no state with each other, side by side: the       *)
(* loading of a configuration, the pool of Lua states, a Redis resource, a *)
(* connection of the server and the manager of dynamic resources.  A       *)
(* behaviour is one of a single part.                                      *)
(***************************************************************************)
EXTENDS Integers, Sequences, FiniteSets

CONSTANTS
    Registry, Configs, Order,                              \* Config
    Threads, States, First, NoState, MaxCalls,             \* LuaPool
    Users, Probe, Conns, NoConn, MaxIdle, MaxWire, Plans,  \* RedisPool
    Scripts, Routes, MaxHead, MaxBody, Pipelined,          \* Exchange
    Managed, MaxStarts, MaxFetches                         \* ResourceManager

VARIABLES
    part,
    config, stage, error, sequence, subflow, reads, plans,
    overrides, free, all, closed, globals, mode, borrowed, snap, calls, counts,
    does, at, step, conn, answers, outcome, wire, txn, soiled, idle, inUse, owner,
    script, unsent, inbox, shut, phase, buffer, request, replies, counted, handed, late,
    timed, handles, registered, manager, todo, starts, started, stopping, value, loaded, fetches, thread, hand

configVars == <<config, stage, error, sequence, subflow, reads, plans>>
luaVars    == <<overrides, free, all, closed, globals, mode, borrowed, snap, calls, counts>>
redisVars  == <<does, at, step, conn, answers, outcome, wire, txn, soiled, idle, inUse, owner>>
httpVars   == <<script, unsent, inbox, shut, phase, buffer, request, replies, counted, handed, late>>
managerVars == <<timed, handles, registered, manager, todo, starts, started, stopping, value, loaded, fetches,
                 thread, hand>>

C == INSTANCE Config
L == INSTANCE LuaPool
R == INSTANCE RedisPool WITH mode <- at, op <- does
X == INSTANCE Exchange WITH answers <- replies
M == INSTANCE ResourceManager WITH N <- Managed, phase <- manager

(* A configuration is what the parser makes of a text; the constructor of  *)
(* StatePool makes one of the states; threads are finitely many; no custom *)
(* route is a built-in endpoint (routes.cpp:39).                           *)
ASSUME PartsAssumption ==
    /\ \A t \in DOMAIN Registry : Registry[t] \in C!OperatorEntry
    /\ \A c \in Configs : C!IsConfig(c)
    /\ Order \in Seq(STRING)
    /\ First \in States /\ IsFiniteSet(Threads)
    /\ IsFiniteSet(Users) /\ NoConn \notin Conns /\ MaxIdle \in Nat
    /\ \A s \in Scripts : s \in Seq(X!Requests)
    /\ DOMAIN Routes \cap X!Builtins = {}
    /\ MaxHead \in Nat /\ MaxBody \in Nat
    /\ Managed \in Nat /\ MaxStarts \in Nat /\ MaxFetches \in Nat

Init ==
    /\ part \in {"config", "lua", "redis", "http", "manager"}
    /\ C!Init /\ L!Init /\ R!Init /\ X!Init /\ M!Init

Next ==
    /\ UNCHANGED part
    /\ \/ part = "config" /\ C!Next /\ UNCHANGED <<luaVars, redisVars, httpVars, managerVars>>
       \/ part = "lua" /\ L!Next /\ UNCHANGED <<configVars, redisVars, httpVars, managerVars>>
       \/ part = "redis" /\ R!Next /\ UNCHANGED <<configVars, luaVars, httpVars, managerVars>>
       \/ part = "http" /\ X!Next /\ UNCHANGED <<configVars, luaVars, redisVars, managerVars>>
       \/ part = "manager" /\ M!Next /\ UNCHANGED <<configVars, luaVars, redisVars, httpVars>>

vars == <<part, configVars, luaVars, redisVars, httpVars, managerVars>>

(* The fairness of the part that runs.                                     *)
Fairness ==
    /\ part = "redis" => R!Fairness
    /\ part = "manager" => M!Fairness

Spec == Init /\ [][Next]_vars /\ Fairness

(* Properties of the parts, stated where they are defined.                 *)

(* The configuration.                                                      *)
Flattens       == C!Flattens
AcceptedIsSafe == C!AcceptedIsSafe

(* A Lua state and a Redis connection are in one place each, and the       *)
(* counters of the two pools say how many are where.                       *)
OneHolder == L!OneHolder /\ L!CountsBalance /\ R!OneBorrower /\ R!PoolAccounts

(* What one borrower of a Lua state or a Redis connection leaves behind    *)
(* does not reach the next one.                                            *)
NothingLeaks == L!NothingLeaks /\ R!CleanHandOver

(* The probe thread of a Redis resource can be stopped.                    *)
DestructorReturns == R!DestructorReturns

(* A client that waits for its answers gets them, in order.                *)
AnsweredInOrder == X!AnsweredInOrder

(* A request's body ends where its Content-Length says.                    *)
BodyWithinLength == X!BodyWithinLength

(* A started manager of resources is complete, has one refresh thread per  *)
(* resource that is to be refreshed, never goes back to an older value,    *)
(* and can be stopped.                                                     *)
StartedIsComplete == M!StartedIsComplete
OneRefresher      == M!OneRefresher
NeverOlder        == M!NeverOlder
StopReturns       == M!StopReturns

(* An execution is answered with the answer to its own command.            *)
OwnAnswers == R!OwnAnswers
===============================================================================
