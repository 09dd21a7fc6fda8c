---------------------------- MODULE DagScheduler ----------------------------
(***************************************************************************)
(* The ready-queue scheduler (run_dag in pine-cpp/src/runtime/engine.cpp)  *)
(* and the thread pool it feeds (pine-cpp/src/runtime/thread_pool.cpp).    *)
(*                                                                         *)
(* The calling thread submits the roots and waits on a condition variable. *)
(* A worker runs a node to its end; then, as part of the same task, it     *)
(* decrements the in-degree of each successor, submits the ones that reach *)
(* zero, decrements the completion latch, and, if it was the last, sets    *)
(* `done' and notifies under done_mu.  If submit throws, the node body is  *)
(* run at once on the submitting thread.                                   *)
(*                                                                         *)
(* The counters, done_mu, done_cv and the closures live on the calling     *)
(* thread's stack: no worker may touch them once run_dag returns.          *)
(***************************************************************************)
EXTENDS Naturals, Sequences, FiniteSets

CONSTANTS
    N,             \* number of nodes of the graph
    Workers,       \* number of threads of dag_pool
    SubmitMayFail  \* whether ThreadPool::submit may throw

ASSUME SchedulerAssumption ==
    /\ N \in Nat
    /\ Workers \in Nat \ {0}
    /\ SubmitMayFail \in BOOLEAN

Nodes   == 1 .. N
Forward == {e \in Nodes \X Nodes : e[1] < e[2]}
Main    == 0   \* the thread that calls run_dag
Threads == {Main} \cup Nodes

VARIABLES
    edges,       \* the graph; every acyclic one is possible
    pc,          \* where each node's body is
    todo,        \* the successors propagate_and_signal has yet to visit
    inDegree,    \* in_degree
    remaining,   \* the completion latch
    status,      \* what became of each operator
    active,      \* active_ops
    tasks,       \* the queue of dag_pool
    calls,       \* the node bodies run at once by whoever failed to submit
    fatal,       \* the node whose error is fatal_err, 0 if none
    notRun,      \* not_run
    callerDone,  \* caller_ctx is done
    runDone,     \* run_ctx is done
    done,        \* the wait predicate
    doneMu,      \* who holds done_mu: {} or {t}
    mainPc,      \* where the calling thread is
    seedIdx,     \* the next node the seeding loop looks at
    outcome      \* what run_dag returned

graphVars == <<edges>>
ctxVars   == <<callerDone, runDone>>
mainVars  == <<mainPc, seedIdx, outcome>>
latchVars == <<remaining, done, doneMu>>
opVars    == <<status, active, fatal, notRun>>
poolVars  == <<tasks, calls>>
nodeVars  == <<pc, todo, inDegree>>
vars == <<graphVars, ctxVars, mainVars, latchVars, opVars, poolVars, nodeVars>>

Succs(i) == {s \in Nodes : <<i, s>> \in edges}
Preds(i) == {p \in Nodes : <<p, i>> \in edges}

Settled  == {"ran", "skipped", "failed", "notrun"}
NodePcs  == {"idle", "queued", "entry", "exec", "release", "propagate",
             "lock", "locked", "notified", "left"}
MainPcs  == {"seed", "lock", "check", "asleep", "finish", "returned"}
Outcomes == {"success", "error", "cancelled"}

Goto(i, l) == pc' = [pc EXCEPT ![i] = l]

(* A thread that runs a node body itself goes on when that body returns.   *)
Blocked(t) == \E s \in Nodes : <<t, s>> \in calls /\ pc[s] # "left"

(* The nodes that occupy a worker of the pool.                             *)
OnWorkers ==
    {i \in Nodes : /\ pc[i] \notin {"idle", "queued", "left"}
                   /\ \A t \in Threads : <<t, i>> \notin calls}

---------------------------------------------------------------------------
Init ==
    /\ edges \in SUBSET Forward
    /\ pc = [i \in Nodes |-> "idle"]
    /\ todo = [i \in Nodes |-> Succs(i)]
    /\ inDegree = [i \in Nodes |-> Cardinality(Preds(i))]
    /\ remaining = N
    /\ status = [i \in Nodes |-> "none"]
    /\ active = 0
    /\ tasks = <<>>
    /\ calls = {}
    /\ fatal = 0
    /\ notRun = FALSE
    /\ callerDone \in BOOLEAN
    /\ runDone = callerDone
    /\ done = FALSE
    /\ doneMu = {}
    /\ mainPc = "seed"
    /\ seedIdx = 1
    /\ outcome = "none"

---------------------------------------------------------------------------
(* ThreadPool.                                                             *)

(* Hand node s to the pool, or run it on thread t if submit throws.        *)
Submit(t, s) ==
    \/ /\ tasks' = Append(tasks, s)
       /\ pc' = [pc EXCEPT ![s] = "queued"]
       /\ UNCHANGED calls
    \/ /\ SubmitMayFail
       /\ calls' = calls \cup {<<t, s>>}
       /\ pc' = [pc EXCEPT ![s] = "entry"]
       /\ UNCHANGED tasks

(* A free worker takes the oldest task.                                    *)
TakeTask ==
    /\ tasks # <<>>
    /\ Cardinality(OnWorkers) < Workers
    /\ Goto(Head(tasks), "entry")
    /\ tasks' = Tail(tasks)
    /\ UNCHANGED <<graphVars, ctxVars, mainVars, latchVars, opVars, calls, todo, inDegree>>

---------------------------------------------------------------------------
(* node_body.                                                              *)

(* The node does not run if run_ctx is done.                               *)
Enter(i) ==
    /\ pc[i] = "entry"
    /\ \/ /\ runDone
          /\ notRun' = TRUE
          /\ status' = [status EXCEPT ![i] = "notrun"]
          /\ Goto(i, "propagate")
          /\ UNCHANGED active
       \/ /\ ~runDone
          /\ active' = active + 1
          /\ Goto(i, "exec")
          /\ UNCHANGED <<status, notRun>>
    /\ UNCHANGED <<graphVars, ctxVars, mainVars, latchVars, poolVars, fatal, todo, inDegree>>

(* The skip condition holds.                                               *)
Skip(i) ==
    /\ pc[i] = "exec"
    /\ status' = [status EXCEPT ![i] = "skipped"]
    /\ active' = active - 1
    /\ Goto(i, "propagate")
    /\ UNCHANGED <<graphVars, ctxVars, mainVars, latchVars, poolVars, fatal, notRun, todo, inDegree>>

(* The operator returns, its output is valid and is applied to the frame.  *)
Succeed(i) ==
    /\ pc[i] = "exec"
    /\ status' = [status EXCEPT ![i] = "ran"]
    /\ Goto(i, "release")
    /\ UNCHANGED <<graphVars, ctxVars, mainVars, latchVars, poolVars, active, fatal, notRun, todo,
                   inDegree>>

(* Mutated form: fail records the error without cancelling run_ctx.        *)
FailWithoutCancel(i) ==
    /\ pc[i] = "exec"
    /\ status' = [status EXCEPT ![i] = "failed"]
    /\ fatal' = IF fatal = 0 THEN i ELSE fatal
    /\ Goto(i, "release")
    /\ UNCHANGED <<graphVars, ctxVars, mainVars, latchVars, poolVars, active, notRun, todo, inDegree>>

(* Any step throws; fail, under fatal_mu, keeps the first error and        *)
(* cancels run_ctx with it.                                                *)
Fail(i) ==
    /\ pc[i] = "exec"
    /\ status' = [status EXCEPT ![i] = "failed"]
    /\ fatal' = IF fatal = 0 THEN i ELSE fatal
    /\ runDone' = TRUE
    /\ Goto(i, "release")
    /\ UNCHANGED <<graphVars, callerDone, mainVars, latchVars, poolVars, active, notRun, todo, inDegree>>

(* The output buffer is reset and active_ops lowered before the signal.    *)
Release(i) ==
    /\ pc[i] = "release"
    /\ active' = active - 1
    /\ Goto(i, "propagate")
    /\ UNCHANGED <<graphVars, ctxVars, mainVars, latchVars, poolVars, status, fatal, notRun, todo, inDegree>>

---------------------------------------------------------------------------
(* propagate_and_signal.                                                   *)

(* One turn of the loop over the successors, in any order.                 *)
Propagate(i, s) ==
    /\ pc[i] = "propagate" /\ ~Blocked(i) /\ s \in todo[i]
    /\ todo' = [todo EXCEPT ![i] = @ \ {s}]
    /\ inDegree' = [inDegree EXCEPT ![s] = @ - 1]
    /\ IF inDegree[s] = 1 THEN Submit(i, s) ELSE UNCHANGED <<poolVars, pc>>
    /\ UNCHANGED <<graphVars, ctxVars, mainVars, latchVars, opVars>>

(* The latch; whoever brings it to zero goes on to signal.                 *)
CountDown(i) ==
    /\ pc[i] = "propagate" /\ ~Blocked(i) /\ todo[i] = {}
    /\ remaining' = remaining - 1
    /\ Goto(i, IF remaining = 1 THEN "lock" ELSE "left")
    /\ UNCHANGED <<graphVars, ctxVars, mainVars, done, doneMu, opVars, poolVars, todo, inDegree>>

LockDone(i) ==
    /\ pc[i] = "lock"
    /\ doneMu = {}
    /\ doneMu' = {i}
    /\ done' = TRUE
    /\ Goto(i, "locked")
    /\ UNCHANGED <<graphVars, ctxVars, mainVars, remaining, opVars, poolVars, todo, inDegree>>

(* Mutated form: the wake-up is forgotten.                                 *)
NotifyNobody(i) ==
    /\ pc[i] = "locked"
    /\ Goto(i, "notified")
    /\ UNCHANGED <<graphVars, ctxVars, mainVars, latchVars, opVars, poolVars, todo, inDegree>>

Notify(i) ==
    /\ pc[i] = "locked"
    /\ mainPc' = IF mainPc = "asleep" THEN "lock" ELSE mainPc
    /\ Goto(i, "notified")
    /\ UNCHANGED <<graphVars, ctxVars, seedIdx, outcome, latchVars, opVars, poolVars, todo, inDegree>>

UnlockDone(i) ==
    /\ pc[i] = "notified"
    /\ doneMu' = {}
    /\ Goto(i, "left")
    /\ UNCHANGED <<graphVars, ctxVars, mainVars, remaining, done, opVars, poolVars, todo, inDegree>>

---------------------------------------------------------------------------
(* The calling thread.                                                     *)

(* The roots are submitted; by then workers may already be running.        *)
Seed ==
    /\ mainPc = "seed" /\ ~Blocked(Main)
    /\ seedIdx \in Nodes
    /\ seedIdx' = seedIdx + 1
    /\ IF Preds(seedIdx) = {} THEN Submit(Main, seedIdx) ELSE UNCHANGED <<poolVars, pc>>
    /\ UNCHANGED <<graphVars, ctxVars, mainPc, outcome, latchVars, opVars, todo, inDegree>>

Seeded ==
    /\ mainPc = "seed" /\ ~Blocked(Main)
    /\ seedIdx \notin Nodes
    /\ mainPc' = "lock"
    /\ UNCHANGED <<graphVars, ctxVars, seedIdx, outcome, latchVars, opVars, poolVars, nodeVars>>

MainLock ==
    /\ mainPc = "lock"
    /\ doneMu = {}
    /\ doneMu' = {Main}
    /\ mainPc' = "check"
    /\ UNCHANGED <<graphVars, ctxVars, seedIdx, outcome, remaining, done, opVars, poolVars, nodeVars>>

(* Mutated form: the bare latch as the wait predicate.                     *)
MainCheckLatch ==
    /\ mainPc = "check"
    /\ mainPc' = IF remaining = 0 THEN "finish" ELSE "asleep"
    /\ doneMu' = {}
    /\ UNCHANGED <<graphVars, ctxVars, seedIdx, outcome, remaining, done, opVars, poolVars, nodeVars>>

(* done_cv.wait: unlock and go on, or unlock and sleep in one step.        *)
MainCheck ==
    /\ mainPc = "check"
    /\ mainPc' = IF done THEN "finish" ELSE "asleep"
    /\ doneMu' = {}
    /\ UNCHANGED <<graphVars, ctxVars, seedIdx, outcome, remaining, done, opVars, poolVars, nodeVars>>

SpuriousWake ==
    /\ mainPc = "asleep"
    /\ mainPc' = "lock"
    /\ UNCHANGED <<graphVars, ctxVars, seedIdx, outcome, latchVars, opVars, poolVars, nodeVars>>

(* A fatal error wins; a node that was not run means cancellation.         *)
Finish ==
    /\ mainPc = "finish"
    /\ mainPc' = "returned"
    /\ outcome' = IF fatal # 0 THEN "error" ELSE IF notRun THEN "cancelled" ELSE "success"
    /\ UNCHANGED <<graphVars, ctxVars, seedIdx, latchVars, opVars, poolVars, nodeVars>>

---------------------------------------------------------------------------
(* The caller's context may end at any time; a stop callback passes that   *)
(* on to run_ctx.                                                          *)
CallerCancels ==
    /\ ~callerDone
    /\ callerDone' = TRUE
    /\ UNCHANGED <<graphVars, runDone, mainVars, latchVars, opVars, poolVars, nodeVars>>

CancelReachesRun ==
    /\ callerDone
    /\ ~runDone
    /\ runDone' = TRUE
    /\ UNCHANGED <<graphVars, callerDone, mainVars, latchVars, opVars, poolVars, nodeVars>>

Returned == mainPc = "returned" /\ UNCHANGED vars

Execute(i) == Skip(i) \/ Succeed(i) \/ Fail(i)

NodeStep(i) ==
    \/ Enter(i)
    \/ Execute(i)
    \/ Release(i)
    \/ \E s \in Nodes : Propagate(i, s)
    \/ CountDown(i)
    \/ Notify(i)
    \/ UnlockDone(i)

MainStep == Seed \/ Seeded \/ MainCheck \/ Finish

Next ==
    \/ TakeTask
    \/ \E i \in Nodes : NodeStep(i) \/ LockDone(i)
    \/ MainStep
    \/ MainLock
    \/ SpuriousWake
    \/ CallerCancels
    \/ CancelReachesRun
    \/ Returned

Spec == Init /\ [][Next]_vars

(* Every thread that can run is eventually run and every operator returns  *)
(* or throws.  done_mu is taken for a few instructions at a time, and a    *)
(* thread that finds it free again and again eventually gets it.           *)
Fairness ==
    /\ WF_vars(TakeTask)
    /\ \A i \in 1 .. N : WF_vars(NodeStep(i)) /\ SF_vars(LockDone(i))
    /\ WF_vars(MainStep)
    /\ SF_vars(MainLock)

FairSpec == Spec /\ Fairness

---------------------------------------------------------------------------
(* Every variable has its type; the latch and the in-degrees do not go     *)
(* below zero.                                                             *)
TypeOK ==
    /\ edges \subseteq Forward
    /\ pc \in [Nodes -> NodePcs]
    /\ todo \in [Nodes -> SUBSET Nodes]
    /\ inDegree \in [Nodes -> Nat]
    /\ remaining \in Nat
    /\ status \in [Nodes -> {"none"} \cup Settled]
    /\ active \in Nat
    /\ tasks \in Seq(Nodes)
    /\ calls \subseteq Threads \X Nodes
    /\ fatal \in Threads
    /\ notRun \in BOOLEAN /\ callerDone \in BOOLEAN /\ runDone \in BOOLEAN /\ done \in BOOLEAN
    /\ doneMu \subseteq Threads
    /\ mainPc \in MainPcs
    /\ seedIdx \in 1 .. N + 1
    /\ outcome \in {"none"} \cup Outcomes

(* No worker touches the stack of run_dag after run_dag returned: the      *)
(* calling thread leaves the wait only when every node body is past its    *)
(* last access to the latch, done_mu and done_cv, whatever wake-ups,       *)
(* spurious ones included, it receives.                                    *)
NoUseAfterReturn ==
    mainPc \in {"finish", "returned"} =>
        /\ \A i \in Nodes : pc[i] = "left"
        /\ doneMu = {}
        /\ tasks = <<>>

(* active_ops, the run's count of operators at work, is back at zero when  *)
(* the run returns, on the skip, error and cancellation paths alike.       *)
GaugeBalanced == mainPc = "returned" => active = 0

(* The scheduler implements DagRun: an operator is running from the moment *)
(* its body has seen a live context until its effect is recorded.          *)
runStatus ==
    [i \in Nodes |-> IF status[i] # "none" THEN status[i]
                     ELSE IF pc[i] = "exec" THEN "running" ELSE "waiting"]

Run == INSTANCE DagRun WITH status <- runStatus, stopped <- runDone

ImplementsDagRun == Run!Spec

(* Nothing downstream of a failure or of a dropped operator ever starts,   *)
(* whichever threads the two are on.                                       *)
NothingRunsAfterFailure == Run!NothingRunsAfterFailure

(* The outcome run_dag reports is what happened to the operators.          *)
OutcomeTruthful == Run!OutcomeTruthful

(* run_dag returns: no wake-up is lost, every node is eventually submitted *)
(* and nobody waits for a worker that waits for it.                        *)
RunReturns == <>(mainPc = "returned")
=============================================================================
