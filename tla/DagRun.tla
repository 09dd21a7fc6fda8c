------------------------------- MODULE DagRun -------------------------------
(***************************************************************************)
(* What one run of a dependency graph promises (run_dag in                 *)
(* pine-cpp/src/runtime/engine.cpp), without threads, queues, counters or  *)
(* locks: an operator starts after all of its predecessors, the first      *)
(* failure or the caller's cancellation stops everything that has not      *)
(* started, and the run ends with an outcome when every operator is        *)
(* settled.  DagScheduler implements this specification.                   *)
(***************************************************************************)
EXTENDS Naturals

CONSTANT N    \* number of operators

Nodes == 1 .. N
Forward == {e \in Nodes \X Nodes : e[1] < e[2]}

VARIABLES
    edges,       \* the dependency graph
    status,      \* what became of each operator
    callerDone,  \* the caller's context is cancelled or past its deadline
    stopped,     \* run_ctx is cancelled
    outcome      \* "none" while the run has not returned

vars == <<edges, status, callerDone, stopped, outcome>>

Settled  == {"ran", "skipped", "failed", "notrun"}
Statuses == {"waiting", "running"} \cup Settled
Outcomes == {"success", "error", "cancelled"}

Preds(i) == {p \in Nodes : <<p, i>> \in edges}

Init ==
    /\ edges \in SUBSET Forward
    /\ status = [i \in Nodes |-> "waiting"]
    /\ callerDone \in BOOLEAN
    /\ stopped = callerDone
    /\ outcome = "none"

Ready(i) == status[i] = "waiting" /\ \A p \in Preds(i) : status[p] \in Settled

Settle(i, s) == status' = [status EXCEPT ![i] = s]

Start(i) ==
    /\ Ready(i)
    /\ ~stopped
    /\ Settle(i, "running")
    /\ UNCHANGED <<edges, callerDone, stopped, outcome>>

(* The operator's turn comes after the run was stopped.                    *)
Drop(i) ==
    /\ Ready(i)
    /\ stopped
    /\ Settle(i, "notrun")
    /\ UNCHANGED <<edges, callerDone, stopped, outcome>>

Complete(i) ==
    /\ status[i] = "running"
    /\ \E s \in {"ran", "skipped"} : Settle(i, s)
    /\ UNCHANGED <<edges, callerDone, stopped, outcome>>

(* The operator throws: nothing starts any more.                           *)
Fail(i) ==
    /\ status[i] = "running"
    /\ Settle(i, "failed")
    /\ stopped' = TRUE
    /\ UNCHANGED <<edges, callerDone, outcome>>

CallerCancels ==
    /\ ~callerDone
    /\ callerDone' = TRUE
    /\ UNCHANGED <<edges, status, stopped, outcome>>

(* The cancellation reaches run_ctx, a child of the caller's context.      *)
Stop ==
    /\ callerDone
    /\ ~stopped
    /\ stopped' = TRUE
    /\ UNCHANGED <<edges, status, callerDone, outcome>>

(* A failure wins over a cancellation, which counts only if it kept some   *)
(* operator from running.                                                  *)
Verdict ==
    IF \E i \in Nodes : status[i] = "failed" THEN "error"
    ELSE IF \E i \in Nodes : status[i] = "notrun" THEN "cancelled"
    ELSE "success"

Return ==
    /\ outcome = "none"
    /\ \A i \in Nodes : status[i] \in Settled
    /\ outcome' = Verdict
    /\ UNCHANGED <<edges, status, callerDone, stopped>>

Returned == outcome # "none" /\ UNCHANGED vars

Next ==
    \/ \E i \in Nodes : Start(i) \/ Drop(i) \/ Complete(i) \/ Fail(i)
    \/ CallerCancels
    \/ Stop
    \/ Return
    \/ Returned

Spec == Init /\ [][Next]_vars

---------------------------------------------------------------------------
TypeOK ==
    /\ edges \subseteq Forward
    /\ status \in [Nodes -> Statuses]
    /\ callerDone \in BOOLEAN
    /\ stopped \in BOOLEAN
    /\ outcome \in {"none"} \cup Outcomes

(* Nothing downstream of a failure or of a dropped operator ever starts,   *)
(* however the threads interleave: its input would be half written.        *)
NothingRunsAfterFailure ==
    \A e \in edges : status[e[1]] \in {"failed", "notrun"} =>
                         status[e[2]] \in {"waiting", "notrun"}

(* The outcome tells the truth: success means that every operator ran or   *)
(* was skipped, an error that one really failed, and a run is reported as  *)
(* cancelled only if the caller's context ended and an operator was left   *)
(* out because of it.                                                      *)
OutcomeTruthful ==
    /\ outcome = "success" => \A i \in Nodes : status[i] \in {"ran", "skipped"}
    /\ outcome = "error" => \E i \in Nodes : status[i] = "failed"
    /\ outcome = "cancelled" =>
          /\ callerDone
          /\ \E i \in Nodes : status[i] = "notrun"
          /\ \A i \in Nodes : status[i] # "failed"
=============================================================================
