------------------------- MODULE DagSchedulerProofs -------------------------
(***************************************************************************)
(* Proofs about DagScheduler, for every graph, every number of workers,    *)
(* and with or without submits that fail.                                  *)
(***************************************************************************)
EXTENDS DagScheduler, FiniteSetTheorems, TLAPS

---------------------------------------------------------------------------
(* The inductive invariant.                                                *)

Before     == {"idle", "queued", "entry", "exec", "release"}
Signalling == {"lock", "locked", "notified"}
Counted    == Signalling \cup {"left"}

(* An in-degree counts the predecessors that have not reported yet.        *)
Owing(s) == {p \in Nodes : s \in todo[p]}
DegreeInv == \A s \in Nodes : inDegree[s] = Cardinality(Owing(s))

TodoInv ==
    \A i \in Nodes :
        /\ todo[i] \subseteq Succs(i)
        /\ pc[i] \in Before => todo[i] = Succs(i)

(* A node is submitted once: by the seeding loop if it is a root, by the   *)
(* last predecessor that reports otherwise.                                *)
ReadyInv ==
    \A i \in Nodes :
        pc[i] # "idle" => inDegree[i] = 0 /\ (Preds(i) = {} => i < seedIdx)

QueueInv ==
    /\ \A k \in 1 .. Len(tasks) : pc[tasks[k]] = "queued"
    /\ \A k, l \in 1 .. Len(tasks) : tasks[k] = tasks[l] => k = l

(* The latch counts the node bodies that have not reached it.              *)
Uncounted == {i \in Nodes : pc[i] \notin Counted}
LatchInv == remaining = Cardinality(Uncounted)

(* Only the last node signals, when all others are gone.                   *)
SignalInv ==
    \A i \in Nodes :
        pc[i] \in Signalling => \A j \in Nodes \ {i} : pc[j] = "left"

DoneInv == done => \A i \in Nodes : pc[i] \in {"locked", "notified", "left"}

MutexInv ==
    /\ \A i \in Nodes : i \in doneMu <=> pc[i] \in {"locked", "notified"}
    /\ Main \in doneMu <=> mainPc = "check"
    /\ \A t, u \in doneMu : t = u

MainInv ==
    /\ mainPc \in {"finish", "returned"} => \A i \in Nodes : pc[i] = "left"
    /\ outcome = "none" <=> mainPc # "returned"

Running == {i \in Nodes : pc[i] \in {"exec", "release"}}
ActiveInv == active = Cardinality(Running)

StatusInv ==
    \A i \in Nodes : status[i] = "none" <=> pc[i] \in {"idle", "queued", "entry", "exec"}

FatalInv ==
    /\ fatal # 0 <=> \E i \in Nodes : status[i] = "failed"
    /\ notRun <=> \E i \in Nodes : status[i] = "notrun"

IInv ==
    /\ TypeOK
    /\ DegreeInv
    /\ TodoInv
    /\ ReadyInv
    /\ QueueInv
    /\ LatchInv
    /\ SignalInv
    /\ DoneInv
    /\ MutexInv
    /\ MainInv
    /\ ActiveInv
    /\ StatusInv
    /\ FatalInv

---------------------------------------------------------------------------
(* Counting nodes.                                                         *)

LEMMA NodesFinite == IsFiniteSet(Nodes) /\ Cardinality(Nodes) = N
BY SchedulerAssumption, FS_Interval DEF Nodes

LEMMA CountNodes ==
    ASSUME NEW S, S \subseteq Nodes
    PROVE  IsFiniteSet(S) /\ Cardinality(S) \in Nat /\ (Cardinality(S) = 0 <=> S = {})
BY NodesFinite, FS_Subset, FS_CardinalityType, FS_EmptySet

LEMMA AddNode ==
    ASSUME NEW S, S \subseteq Nodes, NEW i \in Nodes \ S
    PROVE  Cardinality(S \cup {i}) = Cardinality(S) + 1
BY CountNodes, FS_AddElement

LEMMA DropNode ==
    ASSUME NEW S, S \subseteq Nodes, NEW i \in S
    PROVE  Cardinality(S \ {i}) = Cardinality(S) - 1
BY CountNodes, FS_RemoveElement

---------------------------------------------------------------------------
(* Facts that several steps share.                                         *)

(* The predecessors of a node that was submitted are settled.              *)
LEMMA PredsSettled ==
    ASSUME IInv, NEW i \in Nodes, pc[i] # "idle", NEW p \in Preds(i)
    PROVE  status[p] # "none"
<1>1. inDegree[i] = 0 /\ inDegree[i] = Cardinality(Owing(i))
  BY DEF IInv, ReadyInv, DegreeInv
<1>2. Owing(i) = {}
  <2>1. Owing(i) \subseteq Nodes
    BY DEF Owing
  <2> QED BY <2>1, <1>1, CountNodes
<1>3. p \in Nodes /\ i \in Succs(p) /\ i \notin todo[p]
  BY <1>2 DEF Preds, Succs, Owing
<1>4. pc[p] \notin Before
  BY <1>3 DEF IInv, TodoInv
<1> QED
  BY <1>3, <1>4 DEF IInv, StatusInv, Before

(* While a node has not reached the latch, a step that moves a node short  *)
(* of it disturbs none of the signalling.                                  *)
LEMMA QuietStep ==
    ASSUME IInv, NEW i \in Nodes, NEW l \in NodePcs,
           pc[i] \notin Counted, l \notin Counted,
           pc' = [pc EXCEPT ![i] = l],
           UNCHANGED latchVars, mainPc' = mainPc, outcome' = outcome
    PROVE  pc' \in [Nodes -> NodePcs] /\ LatchInv' /\ SignalInv' /\ DoneInv' /\ MutexInv' /\ MainInv'
<1>0. /\ pc \in [Nodes -> NodePcs]
      /\ remaining' = remaining /\ done' = done /\ doneMu' = doneMu
      /\ \A j \in Nodes : pc'[j] = IF j = i THEN l ELSE pc[j]
  BY DEF IInv, TypeOK, latchVars
<1>1. pc' \in [Nodes -> NodePcs]
  BY <1>0
<1>2. Uncounted' = Uncounted
  BY <1>0 DEF Uncounted
<1>3. LatchInv'
  BY <1>0, <1>2 DEF IInv, LatchInv
<1>4. \A j \in Nodes : pc[j] \notin Signalling
  BY DEF IInv, SignalInv, Counted, Signalling
<1>5. SignalInv'
  BY <1>0, <1>4 DEF SignalInv, Signalling, Counted
<1>6. DoneInv' /\ MutexInv' /\ MainInv'
  BY <1>0 DEF IInv, DoneInv, MutexInv, MainInv, Counted, Signalling
<1> QED
  BY <1>1, <1>3, <1>5, <1>6

(* Nor does a step that only moves one submitted node forward disturb the  *)
(* counting of predecessors or the queue.                                  *)
LEMMA ForwardStep ==
    ASSUME IInv, NEW i \in Nodes, NEW l \in NodePcs,
           pc[i] \notin {"idle", "queued"}, l \notin {"idle", "queued"},
           l \in Before => pc[i] \in Before,
           pc' = [pc EXCEPT ![i] = l],
           UNCHANGED <<edges, todo, inDegree, tasks, seedIdx>>
    PROVE  DegreeInv' /\ TodoInv' /\ ReadyInv' /\ QueueInv'
<1>0. TypeOK /\ \A j \in Nodes : pc'[j] = IF j = i THEN l ELSE pc[j]
  BY DEF IInv, TypeOK
<1>1. DegreeInv'
  BY DEF IInv, DegreeInv, Owing
<1>2. TodoInv'
  BY <1>0 DEF IInv, TodoInv, Succs
<1>3. ReadyInv'
  <2>1. \A j \in Nodes : Preds(j)' = Preds(j)
    BY DEF Preds
  <2> QED BY <1>0, <2>1 DEF IInv, ReadyInv
<1>4. QueueInv'
  <2>1. \A k \in 1 .. Len(tasks) : tasks[k] \in Nodes /\ tasks[k] # i
    BY <1>0 DEF IInv, TypeOK, QueueInv
  <2>2. QueueInv
    BY DEF IInv
  <2> QED BY <1>0, <2>1, <2>2 DEF QueueInv
<1> QED
  BY <1>1, <1>2, <1>3, <1>4

(* What a submit does to a node that was never submitted.                  *)
LEMMA SubmitStep ==
    ASSUME IInv, NEW t \in Threads, NEW s \in Nodes, pc[s] = "idle", Submit(t, s)
    PROVE  /\ pc' = [pc EXCEPT ![s] = pc'[s]]
           /\ pc'[s] \in {"queued", "entry"}
           /\ tasks' \in Seq(Nodes)
           /\ calls' \subseteq Threads \X Nodes
           /\ QueueInv'
<1>0. TypeOK /\ QueueInv
  BY DEF IInv
<1>1. CASE /\ tasks' = Append(tasks, s)
           /\ pc' = [pc EXCEPT ![s] = "queued"]
           /\ UNCHANGED calls
  <2>1. Len(tasks') = Len(tasks) + 1 /\ Len(tasks) \in Nat
    BY <1>0, <1>1 DEF TypeOK
  <2>2. \A k \in 1 .. Len(tasks') :
           tasks'[k] = IF k = Len(tasks) + 1 THEN s ELSE tasks[k]
    BY <1>0, <1>1, <2>1 DEF TypeOK
  <2>3. \A k \in 1 .. Len(tasks) : tasks[k] # s /\ tasks[k] \in Nodes
    BY <1>0 DEF TypeOK, QueueInv
  <2>4. \A k \in 1 .. Len(tasks') : pc'[tasks'[k]] = "queued"
    BY <1>0, <1>1, <2>1, <2>2, <2>3 DEF TypeOK, QueueInv
  <2>5. \A k, m \in 1 .. Len(tasks') : tasks'[k] = tasks'[m] => k = m
    BY <1>0, <2>1, <2>2, <2>3 DEF QueueInv
  <2> QED
    BY <1>0, <1>1, <2>4, <2>5 DEF TypeOK, QueueInv
<1>2. CASE /\ calls' = calls \cup {<<t, s>>}
           /\ pc' = [pc EXCEPT ![s] = "entry"]
           /\ UNCHANGED tasks
  BY <1>0, <1>2 DEF TypeOK, QueueInv
<1> QED
  BY <1>1, <1>2 DEF Submit

---------------------------------------------------------------------------
(* Preservation, one lemma per action.                                     *)

LEMMA InitIInv == Init => IInv
<1> SUFFICES ASSUME Init PROVE IInv
  OBVIOUS
<1> USE SchedulerAssumption
<1>1. TypeOK
  <2>1. \A i \in Nodes : Cardinality(Preds(i)) \in Nat
    BY CountNodes DEF Preds
  <2>2. \A i \in Nodes : Succs(i) \subseteq Nodes
    BY DEF Succs
  <2>3. todo \in [Nodes -> SUBSET Nodes] /\ inDegree \in [Nodes -> Nat]
    BY <2>1, <2>2 DEF Init
  <2>4. pc \in [Nodes -> NodePcs] /\ status \in [Nodes -> {"none"} \cup Settled]
    BY DEF Init, NodePcs
  <2>5. tasks \in Seq(Nodes) /\ calls \subseteq Threads \X Nodes /\ edges \subseteq Forward
    BY DEF Init
  <2>6. /\ remaining \in Nat /\ active \in Nat /\ fatal \in Threads /\ doneMu \subseteq Threads
        /\ seedIdx \in 1 .. N + 1
    BY DEF Init, Threads, Main
  <2> QED
    BY <2>3, <2>4, <2>5, <2>6 DEF Init, TypeOK, MainPcs
<1>2. DegreeInv
  <2>1. \A s \in Nodes : Owing(s) = Preds(s)
    BY DEF Init, Owing, Preds, Succs
  <2> QED BY <2>1 DEF Init, DegreeInv
<1>3. LatchInv
  <2>1. Uncounted = Nodes
    BY DEF Init, Uncounted, Counted, Signalling
  <2> QED BY <2>1, NodesFinite DEF Init, LatchInv
<1>4. ActiveInv
  <2>1. Running = {}
    BY DEF Init, Running
  <2> QED BY <2>1, FS_EmptySet DEF Init, ActiveInv
<1>5. TodoInv /\ ReadyInv /\ QueueInv /\ SignalInv /\ DoneInv
  BY DEF Init, TodoInv, ReadyInv, QueueInv, SignalInv, DoneInv, Signalling
<1>6. MutexInv /\ MainInv /\ StatusInv /\ FatalInv
  BY DEF Init, MutexInv, MainInv, StatusInv, FatalInv
<1> QED
  BY <1>1, <1>2, <1>3, <1>4, <1>5, <1>6 DEF IInv

LEMMA TakeTaskIInv == ASSUME IInv, TakeTask PROVE IInv'
<1> USE SchedulerAssumption
<1> DEFINE h == Head(tasks)
<1>0. /\ TypeOK /\ QueueInv /\ tasks # <<>>
      /\ pc' = [pc EXCEPT ![h] = "entry"] /\ tasks' = Tail(tasks)
      /\ UNCHANGED <<graphVars, ctxVars, mainVars, latchVars, opVars, calls, todo, inDegree>>
  BY DEF IInv, TakeTask, Goto
<1>1. /\ h = tasks[1] /\ h \in Nodes /\ Len(tasks) \in Nat /\ 1 <= Len(tasks)
      /\ tasks' \in Seq(Nodes) /\ Len(tasks') = Len(tasks) - 1
      /\ \A k \in 1 .. Len(tasks') : tasks'[k] = tasks[k + 1]
  <2>1. tasks \in Seq(Nodes)
    BY <1>0 DEF TypeOK
  <2>2. Len(tasks) \in Nat /\ 1 <= Len(tasks) /\ h = tasks[1]
    BY <2>1, <1>0
  <2>3. h \in Nodes
    BY <2>1, <2>2
  <2> QED BY <1>0, <2>1, <2>2, <2>3
<1> HIDE DEF h
<1>2. pc[h] = "queued"
  BY <1>0, <1>1 DEF QueueInv
<1>3. pc' \in [Nodes -> NodePcs] /\ LatchInv' /\ SignalInv' /\ DoneInv' /\ MutexInv' /\ MainInv'
  BY <1>0, <1>1, <1>2, QuietStep DEF NodePcs, Counted, Signalling, mainVars
<1>4. TypeOK'
  BY <1>0, <1>1, <1>3
     DEF TypeOK, graphVars, ctxVars, mainVars, latchVars, opVars
<1>5. DegreeInv' /\ TodoInv'
  BY <1>0, <1>1, <1>2
     DEF IInv, TypeOK, DegreeInv, Owing, TodoInv, Before, Succs, graphVars
<1>6. ReadyInv'
  BY <1>0, <1>1, <1>2 DEF IInv, TypeOK, ReadyInv, Preds, graphVars, mainVars
<1>7. QueueInv'
  <2>1. \A k \in 1 .. Len(tasks') :
           k + 1 \in 1 .. Len(tasks) /\ tasks'[k] # h /\ tasks'[k] \in Nodes
    BY <1>0, <1>1 DEF QueueInv, TypeOK
  <2>2. \A k \in 1 .. Len(tasks') : pc'[tasks'[k]] = "queued"
    BY <1>0, <1>1, <2>1 DEF QueueInv, TypeOK
  <2>3. \A k, m \in 1 .. Len(tasks') : tasks'[k] = tasks'[m] => k = m
    BY <1>0, <1>1, <2>1 DEF QueueInv
  <2> QED BY <2>2, <2>3 DEF QueueInv
<1>8. ActiveInv'
  <2>1. Running' = Running
    BY <1>0, <1>1, <1>2 DEF Running, TypeOK
  <2> QED BY <2>1, <1>0 DEF IInv, ActiveInv, opVars
<1>9. StatusInv' /\ FatalInv'
  BY <1>0, <1>1, <1>2 DEF IInv, TypeOK, StatusInv, FatalInv, opVars
<1> QED
  BY <1>3, <1>4, <1>5, <1>6, <1>7, <1>8, <1>9 DEF IInv

LEMMA EnterIInv == ASSUME IInv, NEW i \in Nodes, Enter(i) PROVE IInv'
<1> USE SchedulerAssumption
<1>0. /\ TypeOK /\ pc[i] = "entry" /\ status[i] = "none"
      /\ UNCHANGED <<graphVars, ctxVars, mainVars, latchVars, poolVars, fatal, todo, inDegree>>
  BY DEF IInv, Enter, StatusInv
<1>1. PICK l \in {"exec", "propagate"} : pc' = [pc EXCEPT ![i] = l]
  BY DEF Enter, Goto
<1>2. pc' \in [Nodes -> NodePcs] /\ LatchInv' /\ SignalInv' /\ DoneInv' /\ MutexInv' /\ MainInv'
  BY <1>0, <1>1, QuietStep DEF NodePcs, Counted, Signalling, mainVars
<1>3. DegreeInv' /\ TodoInv' /\ ReadyInv' /\ QueueInv'
  BY <1>0, <1>1, ForwardStep DEF NodePcs, Before, graphVars, mainVars, poolVars
<1>5. CASE /\ notRun' = TRUE
           /\ status' = [status EXCEPT ![i] = "notrun"]
           /\ pc' = [pc EXCEPT ![i] = "propagate"]
           /\ active' = active
  <2>1. TypeOK'
    BY <1>0, <1>2, <1>5 DEF TypeOK, graphVars, ctxVars, mainVars, latchVars, poolVars, Settled
  <2>2. Running' = Running
    BY <1>0, <1>5 DEF Running, TypeOK
  <2>3. ActiveInv'
    BY <2>2, <1>5 DEF IInv, ActiveInv
  <2>4. StatusInv' /\ FatalInv'
    BY <1>0, <1>5 DEF IInv, TypeOK, StatusInv, FatalInv
  <2> QED BY <2>1, <2>3, <2>4, <1>2, <1>3 DEF IInv
<1>6. CASE /\ active' = active + 1
           /\ pc' = [pc EXCEPT ![i] = "exec"]
           /\ UNCHANGED <<status, notRun>>
  <2>1. TypeOK'
    BY <1>0, <1>2, <1>6 DEF TypeOK, graphVars, ctxVars, mainVars, latchVars, poolVars
  <2>2. Running' = Running \cup {i} /\ i \notin Running /\ Running \subseteq Nodes
    BY <1>0, <1>6 DEF Running, TypeOK
  <2>3. ActiveInv'
    BY <2>2, <1>6, AddNode DEF IInv, ActiveInv
  <2>4. StatusInv' /\ FatalInv'
    BY <1>0, <1>6 DEF IInv, TypeOK, StatusInv, FatalInv
  <2> QED BY <2>1, <2>3, <2>4, <1>2, <1>3 DEF IInv
<1> QED
  BY <1>5, <1>6 DEF Enter, Goto

(* Skip and Release lower active_ops and go on to propagate.               *)
LEMMA SkipReleaseIInv ==
    ASSUME IInv, NEW i \in Nodes, Skip(i) \/ Release(i) PROVE IInv'
<1> USE SchedulerAssumption
<1>0. /\ TypeOK /\ pc[i] \in {"exec", "release"} /\ pc' = [pc EXCEPT ![i] = "propagate"]
      /\ active' = active - 1
      /\ UNCHANGED <<graphVars, ctxVars, mainVars, latchVars, poolVars, fatal, notRun, todo, inDegree>>
  BY DEF IInv, Skip, Release, Goto
<1>1. \/ pc[i] = "exec" /\ status' = [status EXCEPT ![i] = "skipped"]
      \/ pc[i] = "release" /\ status' = status
  BY DEF Skip, Release
<1>2. pc' \in [Nodes -> NodePcs] /\ LatchInv' /\ SignalInv' /\ DoneInv' /\ MutexInv' /\ MainInv'
  BY <1>0, QuietStep DEF NodePcs, Counted, Signalling, mainVars
<1>3. DegreeInv' /\ TodoInv' /\ ReadyInv' /\ QueueInv'
  BY <1>0, ForwardStep DEF NodePcs, Before, graphVars, mainVars, poolVars
<1>5. Running' = Running \ {i} /\ i \in Running /\ Running \subseteq Nodes
  BY <1>0 DEF Running, TypeOK
<1>6. ActiveInv' /\ active' \in Nat
  <2>1. Cardinality(Running') = Cardinality(Running) - 1
    BY <1>5, DropNode
  <2>2. Cardinality(Running') \in Nat
    BY <1>5, CountNodes
  <2> QED BY <2>1, <2>2, <1>0 DEF IInv, ActiveInv
<1>7. TypeOK'
  BY <1>0, <1>1, <1>2, <1>6
     DEF TypeOK, graphVars, ctxVars, mainVars, latchVars, poolVars, Settled
<1>8. StatusInv' /\ FatalInv'
  <2>1. status[i] = "none" <=> pc[i] = "exec"
    BY <1>0 DEF IInv, StatusInv
  <2> QED
    BY <1>0, <1>1, <2>1 DEF IInv, TypeOK, StatusInv, FatalInv
<1> QED
  BY <1>2, <1>3, <1>6, <1>7, <1>8 DEF IInv

LEMMA SucceedFailIInv ==
    ASSUME IInv, NEW i \in Nodes, Succeed(i) \/ Fail(i) PROVE IInv'
<1> USE SchedulerAssumption
<1>0. /\ TypeOK /\ pc[i] = "exec" /\ pc' = [pc EXCEPT ![i] = "release"] /\ status[i] = "none"
      /\ UNCHANGED <<graphVars, callerDone, mainVars, latchVars, poolVars, active, notRun, todo, inDegree>>
  BY DEF IInv, Succeed, Fail, Goto, StatusInv, ctxVars
<1>1. \/ status' = [status EXCEPT ![i] = "ran"] /\ fatal' = fatal /\ runDone' = runDone
      \/ status' = [status EXCEPT ![i] = "failed"] /\ runDone' = TRUE
         /\ fatal' = IF fatal = 0 THEN i ELSE fatal
  BY DEF Succeed, Fail, ctxVars
<1>2. pc' \in [Nodes -> NodePcs] /\ LatchInv' /\ SignalInv' /\ DoneInv' /\ MutexInv' /\ MainInv'
  BY <1>0, QuietStep DEF NodePcs, Counted, Signalling, mainVars
<1>3. DegreeInv' /\ TodoInv' /\ ReadyInv' /\ QueueInv'
  BY <1>0, ForwardStep DEF NodePcs, Before, graphVars, mainVars, poolVars
<1>5. ActiveInv'
  <2>1. Running' = Running
    BY <1>0 DEF Running, TypeOK
  <2> QED BY <2>1, <1>0 DEF IInv, ActiveInv
<1>6. TypeOK'
  <2>1. status' \in [Nodes -> {"none"} \cup Settled]
    BY <1>0, <1>1 DEF TypeOK, Settled
  <2>2. fatal' \in Threads /\ runDone' \in BOOLEAN
    BY <1>0, <1>1 DEF TypeOK, Threads
  <2> QED
    BY <1>0, <1>2, <2>1, <2>2 DEF TypeOK, graphVars, mainVars, latchVars, poolVars
<1>7. StatusInv'
  BY <1>0, <1>1 DEF IInv, TypeOK, StatusInv
<1>8. FatalInv'
  <2>1. i # 0
    BY DEF Nodes
  <2> QED BY <1>0, <1>1, <2>1 DEF IInv, TypeOK, FatalInv
<1> QED
  BY <1>2, <1>3, <1>5, <1>6, <1>7, <1>8 DEF IInv

(* One turn of the loop over the successors.                               *)
LEMMA PropagateIInv ==
    ASSUME IInv, NEW i \in Nodes, NEW s \in Nodes, Propagate(i, s) PROVE IInv'
<1> USE SchedulerAssumption
<1>0. /\ TypeOK /\ pc[i] = "propagate" /\ s \in todo[i]
      /\ todo' = [todo EXCEPT ![i] = todo[i] \ {s}]
      /\ inDegree' = [inDegree EXCEPT ![s] = inDegree[s] - 1]
      /\ UNCHANGED <<graphVars, ctxVars, mainVars, latchVars, opVars>>
  BY DEF IInv, Propagate
<1>1. \A x \in Nodes : Owing(x)' = IF x = s THEN Owing(x) \ {i} ELSE Owing(x)
  BY <1>0 DEF Owing, TypeOK
<1>2. i \in Owing(s) /\ Owing(s) \subseteq Nodes
  BY <1>0 DEF Owing
<1>3. /\ inDegree[s] = Cardinality(Owing(s)) /\ inDegree[s] # 0
      /\ Cardinality(Owing(s)') = inDegree[s] - 1
      /\ Cardinality(Owing(s)') \in Nat
  <2>1. inDegree[s] = Cardinality(Owing(s))
    BY DEF IInv, DegreeInv
  <2>2. Owing(s)' = Owing(s) \ {i}
    BY <1>1
  <2>3. Cardinality(Owing(s) \ {i}) = Cardinality(Owing(s)) - 1
    BY <1>2, DropNode
  <2>4. Cardinality(Owing(s) \ {i}) \in Nat /\ Cardinality(Owing(s)) # 0
    BY <1>2, CountNodes
  <2> QED BY <2>1, <2>2, <2>3, <2>4
<1>4. pc[s] = "idle"
  BY <1>3 DEF IInv, ReadyInv
<1>5. DegreeInv'
  BY <1>0, <1>1, <1>3 DEF IInv, DegreeInv, TypeOK
<1>6. \/ pc' = pc /\ tasks' = tasks /\ calls' = calls /\ inDegree[s] # 1
      \/ Submit(i, s) /\ inDegree[s] = 1
  BY DEF Propagate, poolVars
<1>7. i \in Threads
  BY DEF Threads
<1>8. /\ pc' = [pc EXCEPT ![s] = pc'[s]]
      /\ pc'[s] \in {"idle", "queued", "entry"}
      /\ pc'[s] # "idle" => inDegree[s] = 1
      /\ tasks' \in Seq(Nodes)
      /\ calls' \subseteq Threads \X Nodes
      /\ QueueInv'
  <2>1. CASE pc' = pc /\ tasks' = tasks /\ calls' = calls
    BY <2>1, <1>0, <1>4 DEF IInv, TypeOK, QueueInv
  <2>2. CASE Submit(i, s) /\ inDegree[s] = 1
    BY <2>2, <1>4, <1>7, SubmitStep
  <2> QED BY <2>1, <2>2, <1>6
<1>9. pc' \in [Nodes -> NodePcs] /\ LatchInv' /\ SignalInv' /\ DoneInv' /\ MutexInv' /\ MainInv'
  BY <1>0, <1>4, <1>8, QuietStep DEF NodePcs, Counted, Signalling, mainVars
<1>10. TypeOK'
  <2>1. todo' \in [Nodes -> SUBSET Nodes] /\ inDegree' \in [Nodes -> Nat]
    BY <1>0, <1>3 DEF TypeOK
  <2> QED
    BY <1>0, <1>8, <1>9, <2>1 DEF TypeOK, graphVars, ctxVars, mainVars, latchVars, opVars
<1>11. TodoInv'
  BY <1>0, <1>4, <1>8 DEF IInv, TypeOK, TodoInv, Before, Succs, graphVars
<1>12. ReadyInv'
  <2>1. s # i /\ Preds(s) # {} /\ \A x \in Nodes : Preds(x)' = Preds(x)
    BY <1>0, <1>4 DEF IInv, TodoInv, Succs, Preds, graphVars
  <2>2. \A x \in Nodes : pc'[x] # "idle" => inDegree'[x] = 0
    BY <1>0, <1>4, <1>8 DEF IInv, ReadyInv, TypeOK
  <2> QED
    BY <1>0, <1>4, <1>8, <2>1, <2>2 DEF IInv, ReadyInv, TypeOK, mainVars
<1>13. ActiveInv'
  <2>1. Running' = Running
    BY <1>0, <1>4, <1>8 DEF Running, TypeOK
  <2> QED BY <2>1, <1>0 DEF IInv, ActiveInv, opVars
<1>14. StatusInv' /\ FatalInv'
  BY <1>0, <1>4, <1>8 DEF IInv, TypeOK, StatusInv, FatalInv, opVars
<1> QED
  BY <1>5, <1>8, <1>9, <1>10, <1>11, <1>12, <1>13, <1>14 DEF IInv

(* The latch reaches zero only for the last node.                          *)
LEMMA CountDownIInv == ASSUME IInv, NEW i \in Nodes, CountDown(i) PROVE IInv'
<1> USE SchedulerAssumption
<1>0. /\ TypeOK /\ pc[i] = "propagate" /\ todo[i] = {} /\ remaining' = remaining - 1
      /\ pc' = [pc EXCEPT ![i] = IF remaining = 1 THEN "lock" ELSE "left"]
      /\ UNCHANGED <<graphVars, ctxVars, mainVars, done, doneMu, opVars, poolVars, todo, inDegree>>
  BY DEF IInv, CountDown, Goto
<1>1. PICK l \in {"lock", "left"} :
        pc' = [pc EXCEPT ![i] = l] /\ (l = "lock" <=> remaining = 1)
  BY <1>0
<1>2. \A j \in Nodes : pc'[j] = IF j = i THEN l ELSE pc[j]
  BY <1>0, <1>1 DEF TypeOK
<1>3. DegreeInv' /\ TodoInv' /\ ReadyInv' /\ QueueInv'
  BY <1>0, <1>1, ForwardStep DEF NodePcs, Before, graphVars, mainVars, poolVars
<1>4. Uncounted' = Uncounted \ {i} /\ i \in Uncounted /\ Uncounted \subseteq Nodes
  BY <1>0, <1>1, <1>2 DEF Uncounted, Counted, Signalling
<1>5. LatchInv' /\ remaining' \in Nat
  <2>1. Cardinality(Uncounted') = Cardinality(Uncounted) - 1
    BY <1>4, DropNode
  <2>2. Cardinality(Uncounted') \in Nat
    BY <1>4, CountNodes
  <2> QED BY <2>1, <2>2, <1>0 DEF IInv, LatchInv
<1>6. \A j \in Nodes : pc[j] \notin Signalling
  BY <1>0 DEF IInv, SignalInv, Signalling
<1>7. l = "lock" => \A j \in Nodes \ {i} : pc[j] = "left"
  <2> SUFFICES ASSUME remaining = 1 PROVE \A j \in Nodes \ {i} : pc[j] = "left"
    BY <1>1
  <2>1. Cardinality(Uncounted \ {i}) = 0
    <3>1. Cardinality(Uncounted \ {i}) = Cardinality(Uncounted) - 1
      BY <1>4, DropNode
    <3> QED BY <3>1 DEF IInv, LatchInv
  <2>2. Uncounted \ {i} = {}
    BY <2>1, <1>4, CountNodes
  <2>3. \A j \in Nodes \ {i} : pc[j] \in Counted
    BY <2>2 DEF Uncounted
  <2> QED BY <2>3, <1>6 DEF Counted
<1>8. SignalInv'
  BY <1>1, <1>2, <1>6, <1>7 DEF SignalInv, Signalling
<1>9. DoneInv' /\ MutexInv' /\ MainInv'
  BY <1>0, <1>1, <1>2 DEF IInv, DoneInv, MutexInv, MainInv, mainVars
<1>10. ActiveInv'
  <2>1. Running' = Running
    BY <1>0, <1>1, <1>2 DEF Running
  <2> QED BY <2>1, <1>0 DEF IInv, ActiveInv, opVars
<1>11. StatusInv' /\ FatalInv'
  BY <1>0, <1>1, <1>2 DEF IInv, StatusInv, FatalInv, opVars
<1>12. TypeOK'
  BY <1>0, <1>1, <1>5 DEF TypeOK, NodePcs, graphVars, ctxVars, mainVars, opVars, poolVars
<1> QED
  BY <1>3, <1>5, <1>8, <1>9, <1>10, <1>11, <1>12 DEF IInv

(* The signal of the last node, under done_mu.                             *)
LEMMA SignalIInv ==
    ASSUME IInv, NEW i \in Nodes, LockDone(i) \/ Notify(i) \/ UnlockDone(i) PROVE IInv'
<1> USE SchedulerAssumption
<1>0. /\ TypeOK /\ pc[i] \in Signalling
      /\ UNCHANGED <<graphVars, ctxVars, seedIdx, outcome, remaining, opVars, poolVars, todo, inDegree>>
  BY DEF IInv, LockDone, Notify, UnlockDone, Signalling, mainVars, latchVars
<1>1. \A j \in Nodes \ {i} : pc[j] = "left"
  BY <1>0 DEF IInv, SignalInv
<1>2. PICK l \in {"locked", "notified", "left"} : pc' = [pc EXCEPT ![i] = l]
  BY DEF LockDone, Notify, UnlockDone, Goto
<1>3. \A j \in Nodes : pc'[j] = IF j = i THEN l ELSE pc[j]
  BY <1>0, <1>2 DEF TypeOK
<1>4. DegreeInv' /\ TodoInv' /\ ReadyInv' /\ QueueInv'
  BY <1>0, <1>2, ForwardStep DEF NodePcs, Before, Signalling, graphVars, poolVars
<1>5. LatchInv'
  <2>1. Uncounted' = Uncounted
    BY <1>0, <1>2, <1>3 DEF Uncounted, Counted, Signalling
  <2> QED BY <2>1, <1>0 DEF IInv, LatchInv
<1>6. SignalInv' /\ DoneInv'
  BY <1>1, <1>2, <1>3 DEF SignalInv, DoneInv, Signalling
<1>7. ActiveInv'
  <2>1. Running' = Running
    BY <1>0, <1>2, <1>3 DEF Running, Signalling
  <2> QED BY <2>1, <1>0 DEF IInv, ActiveInv, opVars
<1>8. StatusInv' /\ FatalInv'
  BY <1>0, <1>2, <1>3 DEF IInv, StatusInv, FatalInv, opVars, Signalling
<1>9. MutexInv' /\ MainInv' /\ TypeOK'
  <2>0. MutexInv /\ MainInv /\ i # Main
    BY DEF IInv, Nodes, Main
  <2>1. CASE LockDone(i)
    <3>1. /\ doneMu = {} /\ doneMu' = {i} /\ done' = TRUE /\ mainPc' = mainPc
          /\ pc[i] = "lock" /\ pc' = [pc EXCEPT ![i] = "locked"]
      BY <2>1 DEF LockDone, Goto, mainVars
    <3>2. \A j \in Nodes : pc'[j] = IF j = i THEN "locked" ELSE pc[j]
      BY <1>0, <3>1 DEF TypeOK
    <3>3. MutexInv' /\ MainInv'
      BY <1>0, <1>1, <2>0, <3>1, <3>2 DEF MutexInv, MainInv
    <3>4. TypeOK'
      BY <1>0, <3>1 DEF TypeOK, NodePcs, Threads, graphVars, ctxVars, opVars, poolVars
    <3> QED BY <3>3, <3>4
  <2>2. CASE Notify(i)
    <3>1. /\ doneMu' = doneMu /\ done' = done /\ pc[i] = "locked"
          /\ mainPc' = (IF mainPc = "asleep" THEN "lock" ELSE mainPc)
          /\ pc' = [pc EXCEPT ![i] = "notified"]
      BY <2>2 DEF Notify, Goto, latchVars
    <3>2. \A j \in Nodes : pc'[j] = IF j = i THEN "notified" ELSE pc[j]
      BY <1>0, <3>1 DEF TypeOK
    <3>3. MutexInv' /\ MainInv'
      BY <1>0, <1>1, <2>0, <3>1, <3>2 DEF MutexInv, MainInv
    <3>4. TypeOK'
      BY <1>0, <3>1 DEF TypeOK, NodePcs, MainPcs, graphVars, ctxVars, opVars, poolVars
    <3> QED BY <3>3, <3>4
  <2>3. CASE UnlockDone(i)
    <3>1. /\ doneMu' = {} /\ done' = done /\ mainPc' = mainPc /\ pc[i] = "notified"
          /\ pc' = [pc EXCEPT ![i] = "left"]
      BY <2>3 DEF UnlockDone, Goto, mainVars
    <3>2. \A j \in Nodes : pc'[j] = IF j = i THEN "left" ELSE pc[j]
      BY <1>0, <3>1 DEF TypeOK
    <3>3. i \in doneMu
      BY <2>0, <3>1 DEF MutexInv
    <3>4. MutexInv'
      BY <1>0, <1>1, <2>0, <3>1, <3>2, <3>3 DEF MutexInv
    <3>5. MainInv'
      BY <1>0, <2>0, <3>1, <3>2 DEF MainInv
    <3>6. TypeOK'
      BY <1>0, <3>1 DEF TypeOK, NodePcs, graphVars, ctxVars, opVars, poolVars
    <3> QED BY <3>4, <3>5, <3>6
  <2> QED BY <2>1, <2>2, <2>3
<1> QED
  BY <1>4, <1>5, <1>6, <1>7, <1>8, <1>9 DEF IInv

LEMMA SeedIInv == ASSUME IInv, Seed PROVE IInv'
<1> USE SchedulerAssumption
<1> DEFINE s == seedIdx
<1>0. /\ TypeOK /\ s \in Nodes /\ seedIdx' = s + 1 /\ mainPc' = mainPc /\ outcome' = outcome
      /\ UNCHANGED <<graphVars, ctxVars, latchVars, opVars, todo, inDegree>>
  BY DEF IInv, Seed
<1>1. CASE Preds(s) # {}
  <2>1. pc' = pc /\ tasks' = tasks /\ calls' = calls
    BY <1>1 DEF Seed, poolVars
  <2>2. TypeOK'
    BY <1>0, <2>1 DEF TypeOK, Nodes, graphVars, ctxVars, latchVars, opVars
  <2>3. ReadyInv'
    BY <1>0, <2>1 DEF IInv, TypeOK, ReadyInv, Preds, graphVars, Nodes
  <2>4. DegreeInv' /\ TodoInv' /\ QueueInv' /\ LatchInv' /\ SignalInv' /\ DoneInv'
    BY <1>0, <2>1 DEF IInv, DegreeInv, Owing, TodoInv, Succs, QueueInv, LatchInv, Uncounted,
                      SignalInv, DoneInv, graphVars, latchVars
  <2>5. MutexInv' /\ MainInv' /\ ActiveInv' /\ StatusInv' /\ FatalInv'
    BY <1>0, <2>1 DEF IInv, MutexInv, MainInv, ActiveInv, Running, StatusInv, FatalInv,
                      latchVars, opVars
  <2> QED BY <2>2, <2>3, <2>4, <2>5 DEF IInv
<1>2. CASE Preds(s) = {}
  <2>1. Submit(Main, s)
    BY <1>2 DEF Seed
  <2>2. pc[s] = "idle"
    BY <1>0, <1>2 DEF IInv, ReadyInv, Nodes
  <2>3. inDegree[s] = 0
    <3>1. Owing(s) \subseteq Preds(s)
      BY DEF IInv, TodoInv, Owing, Preds, Succs
    <3> QED
      BY <3>1, <1>0, <1>2, FS_EmptySet DEF IInv, DegreeInv
  <2>4. /\ pc' = [pc EXCEPT ![s] = pc'[s]] /\ pc'[s] \in {"queued", "entry"}
        /\ tasks' \in Seq(Nodes) /\ calls' \subseteq Threads \X Nodes /\ QueueInv'
    BY <1>0, <2>1, <2>2, SubmitStep DEF Threads
  <2> HIDE DEF s
  <2>5. pc' \in [Nodes -> NodePcs] /\ LatchInv' /\ SignalInv' /\ DoneInv' /\ MutexInv' /\ MainInv'
    BY <1>0, <2>2, <2>4, QuietStep DEF NodePcs, Counted, Signalling
  <2>6. TypeOK'
    <3>1. seedIdx' \in 1 .. N + 1
      BY <1>0 DEF Nodes, s
    <3> QED
      BY <1>0, <2>4, <2>5, <3>1 DEF TypeOK, graphVars, ctxVars, latchVars, opVars
  <2>7. DegreeInv' /\ TodoInv'
    <3>1. DegreeInv'
      BY <1>0 DEF IInv, DegreeInv, Owing
    <3>2. \A j \in Nodes : pc'[j] \in Before => pc[j] \in Before
      BY <1>0, <2>2, <2>4 DEF TypeOK, Before
    <3>3. TodoInv'
      BY <1>0, <3>2 DEF IInv, TodoInv, Succs, graphVars
    <3> QED BY <3>1, <3>3
  <2>8. ReadyInv'
    <3>1. \A j \in Nodes : Preds(j)' = Preds(j)
      BY <1>0 DEF Preds, graphVars
    <3>2. \A j \in Nodes : j # s => pc'[j] = pc[j]
      BY <1>0, <2>4 DEF TypeOK
    <3>3. s < seedIdx' /\ \A j \in Nodes : j < s => j < seedIdx'
      BY <1>0 DEF Nodes
    <3> QED
      BY <1>0, <2>3, <3>1, <3>2, <3>3 DEF IInv, ReadyInv, s
  <2>9. ActiveInv'
    <3>1. Running' = Running
      BY <1>0, <2>2, <2>4 DEF Running, TypeOK
    <3> QED BY <3>1, <1>0 DEF IInv, ActiveInv, opVars
  <2>10. StatusInv' /\ FatalInv'
    BY <1>0, <2>2, <2>4 DEF IInv, TypeOK, StatusInv, FatalInv, opVars
  <2> QED
    BY <2>4, <2>5, <2>6, <2>7, <2>8, <2>9, <2>10 DEF IInv
<1> QED
  BY <1>1, <1>2

(* The other steps of the calling thread, and the caller's cancellation,   *)
(* touch no node.                                                          *)
LEMMA MainIInv ==
    ASSUME IInv,
           Seeded \/ MainLock \/ MainCheck \/ SpuriousWake \/ Finish
              \/ CallerCancels \/ CancelReachesRun \/ UNCHANGED vars
    PROVE  IInv'
<1> USE SchedulerAssumption
<1>0. /\ TypeOK /\ MutexInv /\ MainInv /\ DoneInv
      /\ UNCHANGED <<graphVars, seedIdx, remaining, done, opVars, poolVars, nodeVars>>
  BY DEF IInv, Seeded, MainLock, MainCheck, SpuriousWake, Finish, CallerCancels, CancelReachesRun,
         vars, latchVars, mainVars
<1>1. DegreeInv' /\ TodoInv' /\ ReadyInv' /\ QueueInv'
  BY <1>0 DEF IInv, DegreeInv, Owing, TodoInv, Succs, ReadyInv, Preds, QueueInv,
              graphVars, poolVars, nodeVars
<1>2. LatchInv' /\ SignalInv' /\ DoneInv' /\ ActiveInv' /\ StatusInv' /\ FatalInv'
  BY <1>0 DEF IInv, LatchInv, Uncounted, SignalInv, DoneInv, ActiveInv, Running, StatusInv,
              FatalInv, opVars, nodeVars
<1>3. TypeOK' /\ MutexInv' /\ MainInv'
  <2>0. /\ pc' = pc /\ \A i \in Nodes : i # Main
        /\ TypeOK' <=> /\ callerDone' \in BOOLEAN /\ runDone' \in BOOLEAN
                        /\ doneMu' \subseteq Threads /\ mainPc' \in MainPcs
                        /\ outcome' \in {"none"} \cup Outcomes
    BY <1>0 DEF TypeOK, Nodes, Main, graphVars, opVars, poolVars, nodeVars
  <2>1. CASE Seeded \/ SpuriousWake
    <3>1. /\ mainPc' = "lock" /\ mainPc \in {"seed", "asleep"} /\ outcome' = outcome
          /\ UNCHANGED <<ctxVars, latchVars>>
      BY <2>1 DEF Seeded, SpuriousWake
    <3> QED
      BY <3>1, <1>0, <2>0 DEF TypeOK, MutexInv, MainInv, MainPcs, ctxVars, latchVars
  <2>2. CASE MainLock
    <3>1. /\ mainPc = "lock" /\ mainPc' = "check" /\ doneMu = {} /\ doneMu' = {Main}
          /\ outcome' = outcome /\ UNCHANGED ctxVars
      BY <2>2 DEF MainLock
    <3> QED
      BY <3>1, <1>0, <2>0 DEF TypeOK, MutexInv, MainInv, MainPcs, Threads, ctxVars
  <2>3. CASE MainCheck
    <3>1. /\ mainPc = "check" /\ mainPc' = (IF done THEN "finish" ELSE "asleep")
          /\ doneMu' = {} /\ outcome' = outcome /\ UNCHANGED ctxVars
      BY <2>3 DEF MainCheck
    <3>2. Main \in doneMu /\ \A i \in Nodes : pc[i] \notin {"locked", "notified"}
      BY <3>1, <1>0, <2>0 DEF MutexInv
    <3>3. done => \A i \in Nodes : pc[i] = "left"
      BY <3>2, <1>0 DEF DoneInv
    <3> QED
      BY <3>1, <3>2, <3>3, <1>0, <2>0 DEF TypeOK, MutexInv, MainInv, MainPcs, ctxVars
  <2>4. CASE Finish
    <3>1. /\ mainPc = "finish" /\ mainPc' = "returned" /\ outcome' \in Outcomes
          /\ UNCHANGED <<ctxVars, latchVars>>
      BY <2>4 DEF Finish, Outcomes
    <3> QED
      BY <3>1, <1>0, <2>0 DEF TypeOK, MutexInv, MainInv, MainPcs, Outcomes, ctxVars, latchVars
  <2>5. CASE CallerCancels \/ CancelReachesRun \/ UNCHANGED vars
    <3>1. UNCHANGED <<mainVars, latchVars>> /\ callerDone' \in BOOLEAN /\ runDone' \in BOOLEAN
      BY <2>5, <1>0 DEF TypeOK, CallerCancels, CancelReachesRun, vars, ctxVars
    <3> QED
      BY <3>1, <1>0, <2>0 DEF TypeOK, MutexInv, MainInv, mainVars, latchVars
  <2> QED
    BY <2>1, <2>2, <2>3, <2>4, <2>5
<1> QED
  BY <1>1, <1>2, <1>3 DEF IInv

LEMMA NextIInv == IInv /\ [Next]_vars => IInv'
<1> SUFFICES ASSUME IInv, [Next]_vars PROVE IInv'
  OBVIOUS
<1>1. ASSUME NEW i \in Nodes, NodeStep(i) \/ LockDone(i) PROVE IInv'
  BY <1>1, EnterIInv, SkipReleaseIInv, SucceedFailIInv, PropagateIInv, CountDownIInv, SignalIInv
     DEF NodeStep, Execute
<1> QED
  BY <1>1, TakeTaskIInv, SeedIInv, MainIInv DEF Next, MainStep, Returned

(* The inductive invariant holds in every state of the scheduler.          *)
THEOREM SchedulerInvariant == Spec => []IInv
BY InitIInv, NextIInv, PTL DEF Spec

(* Type correctness: in particular the latch and the in-degrees never go   *)
(* below zero.                                                             *)
THEOREM SchedulerTypes == Spec => []TypeOK
<1>1. IInv => TypeOK
  BY DEF IInv
<1> QED BY <1>1, SchedulerInvariant, PTL

(* No worker touches the stack of run_dag after run_dag left its wait, for *)
(* any graph, any number of workers and any pattern of wake-ups.           *)
THEOREM SchedulerNoUseAfterReturn == Spec => []NoUseAfterReturn
<1>1. IInv => NoUseAfterReturn
  <2> SUFFICES ASSUME IInv, mainPc \in {"finish", "returned"} PROVE
        (\A i \in Nodes : pc[i] = "left") /\ doneMu = {} /\ tasks = <<>>
    BY DEF NoUseAfterReturn
  <2>1. \A i \in Nodes : pc[i] = "left"
    BY DEF IInv, MainInv
  <2>2. doneMu = {}
    BY <2>1 DEF IInv, TypeOK, MutexInv, Threads
  <2>3. tasks = <<>>
    <3> SUFFICES ASSUME tasks # <<>> PROVE FALSE
      OBVIOUS
    <3>1. tasks \in Seq(Nodes)
      BY DEF IInv, TypeOK
    <3>2. 1 \in 1 .. Len(tasks) /\ tasks[1] \in Nodes
      BY <3>1
    <3>3. pc[tasks[1]] = "queued"
      BY <3>2 DEF IInv, QueueInv
    <3> QED BY <3>2, <3>3, <2>1
  <2> QED BY <2>1, <2>2, <2>3
<1> QED BY <1>1, SchedulerInvariant, PTL

(* active_ops is zero when run_dag has returned.                           *)
THEOREM SchedulerGauge == Spec => []GaugeBalanced
<1>1. IInv => GaugeBalanced
  <2> SUFFICES ASSUME IInv, mainPc = "returned" PROVE active = 0
    BY DEF GaugeBalanced
  <2>1. Running = {}
    BY DEF IInv, MainInv, Running
  <2> QED BY <2>1, FS_EmptySet DEF IInv, ActiveInv
<1> QED BY <1>1, SchedulerInvariant, PTL

---------------------------------------------------------------------------
(* Refinement of DagRun.                                                   *)

LEMMA RunInit == Init => Run!Init
BY DEF Init, Run!Init, runStatus, Forward, Nodes, Run!Forward, Run!Nodes

(* A step that leaves the visible state alone is a stuttering step.        *)
LEMMA HiddenStep ==
    ASSUME IInv, UNCHANGED <<edges, callerDone, runDone, outcome, status>>,
           \A i \in Nodes : pc'[i] = "exec" <=> pc[i] = "exec"
    PROVE  UNCHANGED Run!vars
<1>1. runStatus' = runStatus
  BY DEF runStatus
<1> QED
  BY <1>1 DEF Run!vars

(* A step of one node that changes its visible status.                     *)
LEMMA VisibleStep ==
    ASSUME IInv, NEW i \in Nodes, NEW v,
           \A j \in Nodes \ {i} : status'[j] = status[j] /\ pc'[j] = pc[j],
           runStatus'[i] = v
    PROVE  runStatus' = [runStatus EXCEPT ![i] = v]
BY DEF runStatus

(* A node that has been submitted is ready in DagRun.                      *)
LEMMA EntryReady ==
    ASSUME IInv, NEW i \in Nodes, pc[i] = "entry" PROVE Run!Ready(i)
<1>1. status[i] = "none"
  BY DEF IInv, StatusInv
<1>2. runStatus[i] = "waiting"
  BY <1>1 DEF runStatus
<1>3. \A p \in Preds(i) : p \in Nodes /\ status[p] \in Settled
  BY PredsSettled DEF IInv, TypeOK, Preds
<1>4. \A p \in Preds(i) : runStatus[p] \in Settled
  BY <1>3 DEF runStatus, Settled
<1> QED
  BY <1>2, <1>4 DEF Run!Ready, Run!Preds, Run!Nodes, Run!Settled, Preds, Nodes, Settled

LEMMA NodesAreRunNodes == Nodes = Run!Nodes
BY DEF Nodes, Run!Nodes

(* Every step of the scheduler is a step of DagRun or hidden from it.      *)
LEMMA RunStep == IInv /\ [Next]_vars => [Run!Next]_(Run!vars)
<1> SUFFICES ASSUME IInv, [Next]_vars PROVE [Run!Next]_(Run!vars)
  OBVIOUS
<1>0. TypeOK
  BY DEF IInv
<1>1. ASSUME NEW i \in Nodes, Enter(i) PROVE Run!Next
  <2>0. /\ pc[i] = "entry" /\ status[i] = "none" /\ Run!Ready(i)
        /\ UNCHANGED <<edges, callerDone, runDone, outcome>>
    BY <1>1, EntryReady DEF Enter, IInv, StatusInv, graphVars, ctxVars, mainVars
  <2>1. CASE runDone
    <3>1. status' = [status EXCEPT ![i] = "notrun"] /\ pc' = [pc EXCEPT ![i] = "propagate"]
      BY <1>1, <2>1 DEF Enter, Goto
    <3>2. runStatus'[i] = "notrun"
      BY <1>0, <3>1 DEF runStatus, TypeOK
    <3>3. runStatus' = [runStatus EXCEPT ![i] = "notrun"]
      BY <1>0, <3>1, <3>2, VisibleStep DEF TypeOK
    <3>4. Run!Drop(i)
      BY <2>0, <2>1, <3>3 DEF Run!Drop, Run!Settle
    <3> QED BY <3>4, NodesAreRunNodes DEF Run!Next
  <2>2. CASE ~runDone
    <3>1. status' = status /\ pc' = [pc EXCEPT ![i] = "exec"]
      BY <1>1, <2>2 DEF Enter, Goto
    <3>2. runStatus'[i] = "running"
      BY <1>0, <2>0, <3>1 DEF runStatus, TypeOK
    <3>3. runStatus' = [runStatus EXCEPT ![i] = "running"]
      BY <1>0, <3>1, <3>2, VisibleStep DEF TypeOK
    <3>4. Run!Start(i)
      BY <2>0, <2>2, <3>3 DEF Run!Start, Run!Settle
    <3> QED BY <3>4, NodesAreRunNodes DEF Run!Next
  <2> QED BY <2>1, <2>2
<1>2. ASSUME NEW i \in Nodes, Execute(i) PROVE Run!Next
  <2>0. pc[i] = "exec" /\ status[i] = "none" /\ runStatus[i] = "running"
    <3>1. pc[i] = "exec"
      BY <1>2 DEF Execute, Skip, Succeed, Fail
    <3>2. status[i] = "none"
      BY <3>1 DEF IInv, StatusInv
    <3> QED BY <3>1, <3>2 DEF runStatus
  <2>1. ASSUME NEW v \in Settled, status' = [status EXCEPT ![i] = v],
               pc' = [pc EXCEPT ![i] = pc'[i]]
        PROVE  runStatus' = [runStatus EXCEPT ![i] = v]
    <3>1. runStatus'[i] = v
      BY <1>0, <2>1 DEF runStatus, TypeOK, Settled
    <3> QED BY <1>0, <2>1, <3>1, VisibleStep DEF TypeOK
  <2>2. CASE Skip(i) \/ Succeed(i)
    <3>1. PICK v \in {"ran", "skipped"} : status' = [status EXCEPT ![i] = v]
      BY <2>2 DEF Skip, Succeed
    <3>2. /\ pc' = [pc EXCEPT ![i] = pc'[i]]
          /\ UNCHANGED <<edges, callerDone, runDone, outcome>>
      BY <1>0, <2>2 DEF Skip, Succeed, Goto, TypeOK, graphVars, ctxVars, mainVars
    <3>3. runStatus' = [runStatus EXCEPT ![i] = v]
      BY <2>1, <3>1, <3>2 DEF Settled
    <3>4. Run!Complete(i)
      BY <2>0, <3>2, <3>3 DEF Run!Complete, Run!Settle
    <3> QED BY <3>4, NodesAreRunNodes DEF Run!Next
  <2>3. CASE Fail(i)
    <3>1. /\ status' = [status EXCEPT ![i] = "failed"] /\ pc' = [pc EXCEPT ![i] = pc'[i]]
          /\ runDone' = TRUE /\ UNCHANGED <<edges, callerDone, outcome>>
      BY <1>0, <2>3 DEF Fail, Goto, TypeOK, graphVars, mainVars
    <3>2. runStatus' = [runStatus EXCEPT ![i] = "failed"]
      BY <2>1, <3>1 DEF Settled
    <3>3. Run!Fail(i)
      BY <2>0, <3>1, <3>2 DEF Run!Fail, Run!Settle
    <3> QED BY <3>3, NodesAreRunNodes DEF Run!Next
  <2> QED BY <1>2, <2>2, <2>3 DEF Execute
<1>3. ASSUME NEW i \in Nodes,
             Release(i) \/ CountDown(i) \/ LockDone(i) \/ Notify(i) \/ UnlockDone(i)
      PROVE  UNCHANGED Run!vars
  <2>1. UNCHANGED <<edges, callerDone, runDone, outcome, status>>
    BY <1>3 DEF Release, CountDown, LockDone, Notify, UnlockDone, graphVars, ctxVars, mainVars, opVars
  <2>2. PICK l \in {"propagate", "lock", "left", "locked", "notified"} : pc' = [pc EXCEPT ![i] = l]
    BY <1>3 DEF Release, CountDown, LockDone, Notify, UnlockDone, Goto
  <2>3. pc[i] # "exec"
    BY <1>3 DEF Release, CountDown, LockDone, Notify, UnlockDone
  <2> QED BY <1>0, <2>1, <2>2, <2>3, HiddenStep DEF TypeOK
<1>4. ASSUME NEW i \in Nodes, NEW s \in Nodes, Propagate(i, s) PROVE UNCHANGED Run!vars
  <2>1. UNCHANGED <<edges, callerDone, runDone, outcome, status>>
    BY <1>4 DEF Propagate, graphVars, ctxVars, mainVars, opVars
  <2>2. pc' = pc \/ (pc[s] = "idle" /\ pc' = [pc EXCEPT ![s] = pc'[s]] /\ pc'[s] \in {"queued", "entry"})
    <3>1. s \in todo[i]
      BY <1>4 DEF Propagate
    <3>2. i \in Owing(s) /\ Owing(s) \subseteq Nodes
      BY <3>1 DEF Owing
    <3>3. inDegree[s] # 0
      BY <3>2, CountNodes DEF IInv, DegreeInv
    <3>4. pc[s] = "idle"
      BY <3>3 DEF IInv, ReadyInv
    <3> QED
      BY <1>4, <3>4, SubmitStep DEF Propagate, Threads
  <2> QED BY <1>0, <2>1, <2>2, HiddenStep DEF TypeOK
<1>5. ASSUME Seed PROVE UNCHANGED Run!vars
  <2>1. UNCHANGED <<edges, callerDone, runDone, outcome, status>> /\ seedIdx \in Nodes
    BY <1>5 DEF Seed, graphVars, ctxVars, opVars
  <2>2. pc' = pc \/ (pc[seedIdx] = "idle" /\ pc' = [pc EXCEPT ![seedIdx] = pc'[seedIdx]]
                     /\ pc'[seedIdx] \in {"queued", "entry"})
    <3>1. CASE Preds(seedIdx) # {}
      BY <3>1, <1>5 DEF Seed
    <3>2. CASE Preds(seedIdx) = {}
      <4>1. pc[seedIdx] = "idle"
        BY <2>1, <3>2 DEF IInv, ReadyInv, Nodes
      <4>2. Submit(Main, seedIdx)
        BY <3>2, <1>5 DEF Seed
      <4> QED BY <2>1, <4>1, <4>2, SubmitStep DEF Threads
    <3> QED BY <3>1, <3>2
  <2> QED BY <1>0, <2>1, <2>2, HiddenStep DEF TypeOK
<1>6. CASE TakeTask
  <2>1. UNCHANGED <<edges, callerDone, runDone, outcome, status>>
    BY <1>6 DEF TakeTask, graphVars, ctxVars, mainVars, opVars
  <2>2. tasks \in Seq(Nodes) /\ tasks # <<>> /\ pc' = [pc EXCEPT ![Head(tasks)] = "entry"]
    BY <1>0, <1>6 DEF TakeTask, Goto, TypeOK
  <2>3. 1 \in 1 .. Len(tasks) /\ Head(tasks) = tasks[1] /\ tasks[1] \in Nodes
    BY <2>2
  <2>4. pc[Head(tasks)] = "queued" /\ Head(tasks) \in Nodes
    BY <2>3 DEF IInv, QueueInv
  <2>5. \A i \in Nodes : pc'[i] = "exec" <=> pc[i] = "exec"
    BY <1>0, <2>2, <2>4 DEF TypeOK
  <2> QED BY <2>1, <2>5, HiddenStep
<1>7. CASE Seeded \/ MainLock \/ MainCheck \/ SpuriousWake
  BY <1>7, HiddenStep DEF Seeded, MainLock, MainCheck, SpuriousWake, graphVars, ctxVars, opVars, nodeVars
<1>8. CASE Finish
  <2>1. /\ mainPc = "finish"
        /\ outcome' = IF fatal # 0 THEN "error" ELSE IF notRun THEN "cancelled" ELSE "success"
        /\ UNCHANGED <<edges, callerDone, runDone, status, pc>>
    BY <1>8 DEF Finish, graphVars, ctxVars, opVars, nodeVars
  <2>2. outcome = "none" /\ \A i \in Nodes : pc[i] = "left"
    BY <2>1 DEF IInv, MainInv
  <2>3. \A i \in Nodes : status[i] \in Settled
    BY <1>0, <2>2 DEF IInv, StatusInv, TypeOK
  <2>4. \A i \in Nodes : runStatus[i] = status[i]
    BY <2>3 DEF runStatus, Settled
  <2>5. outcome' = Run!Verdict
    BY <2>1, <2>4, NodesAreRunNodes DEF IInv, FatalInv, Run!Verdict
  <2>6. runStatus' = runStatus
    BY <2>1 DEF runStatus
  <2>7. \A i \in Run!Nodes : runStatus[i] \in Run!Settled
    BY <2>3, <2>4, NodesAreRunNodes DEF Settled, Run!Settled
  <2>8. Run!Return
    BY <2>1, <2>2, <2>5, <2>6, <2>7 DEF Run!Return
  <2> QED BY <2>8 DEF Run!Next
<1>9. CASE CallerCancels \/ CancelReachesRun
  <2>1. runStatus' = runStatus /\ edges' = edges /\ outcome' = outcome
    BY <1>9 DEF CallerCancels, CancelReachesRun, runStatus, graphVars, mainVars, opVars, nodeVars
  <2> QED
    BY <1>9, <2>1 DEF CallerCancels, CancelReachesRun, Run!CallerCancels, Run!Stop, Run!Next
<1>10. CASE UNCHANGED vars
  BY <1>10, HiddenStep DEF vars, graphVars, ctxVars, mainVars, opVars, nodeVars
<1>11. ASSUME NEW i \in Nodes, NodeStep(i) PROVE [Run!Next]_(Run!vars)
  BY <1>11, <1>1, <1>2, <1>3, <1>4 DEF NodeStep
<1> QED
  BY <1>3, <1>5, <1>6, <1>7, <1>8, <1>9, <1>10, <1>11 DEF Next, MainStep, Returned

(* The scheduler, with its queue, counters, latch and condition variable,  *)
(* implements DagRun: the order, stopping and outcome that specification   *)
(* promises are what run_dag delivers.                                     *)
THEOREM SchedulerImplementsDagRun == Spec => ImplementsDagRun
BY RunInit, RunStep, SchedulerInvariant, PTL DEF Spec, ImplementsDagRun, Run!Spec

---------------------------------------------------------------------------
(* What DagRun promises, of the run that the scheduler implements.         *)

(* Whatever has started had all its predecessors settled.                  *)
RunStartedInv ==
    \A i \in Run!Nodes :
        runStatus[i] # "waiting" => \A p \in Run!Preds(i) : runStatus[p] \in Run!Settled

(* A failure or a dropped operator means that the run was stopped, and a   *)
(* run without a failure is stopped only by its caller.                    *)
RunStopInv ==
    /\ \A i \in Run!Nodes : runStatus[i] \in {"failed", "notrun"} => runDone
    /\ runDone => callerDone \/ \E i \in Run!Nodes : runStatus[i] = "failed"

RunReturnInv ==
    outcome # "none" => outcome = Run!Verdict /\ \A i \in Run!Nodes : runStatus[i] \in Run!Settled

RunIInv ==
    /\ Run!TypeOK /\ RunStartedInv /\ RunStopInv /\ RunReturnInv
    /\ Run!NothingRunsAfterFailure

LEMMA RunInitIInv == Run!Init => RunIInv
<1> SUFFICES ASSUME Run!Init PROVE RunIInv
  OBVIOUS
<1> QED
  BY DEF Run!Init, RunIInv, Run!TypeOK, Run!Statuses, RunStartedInv, RunStopInv, RunReturnInv,
         Run!NothingRunsAfterFailure, Run!Forward

(* One operator changes its status while the run goes on.                  *)
LEMMA RunSettleIInv ==
    ASSUME RunIInv, NEW i \in Run!Nodes,
           Run!Start(i) \/ Run!Drop(i) \/ Run!Complete(i) \/ Run!Fail(i)
    PROVE  RunIInv'
<1>0. /\ Run!TypeOK /\ edges' = edges /\ callerDone' = callerDone /\ outcome' = outcome
      /\ \A p \in Run!Nodes : Run!Preds(p)' = Run!Preds(p)
  BY DEF RunIInv, Run!Start, Run!Drop, Run!Complete, Run!Fail, Run!Preds
<1>1. PICK s \in Run!Statuses :
        /\ runStatus' = [runStatus EXCEPT ![i] = s]
        /\ s # "waiting" /\ runStatus[i] \notin Run!Settled
        /\ s = "running" => ~runDone /\ runDone' = runDone /\ Run!Ready(i)
        /\ s = "notrun" => runDone /\ runDone' = runDone /\ Run!Ready(i)
        /\ s \in {"ran", "skipped"} => runDone' = runDone /\ runStatus[i] = "running"
        /\ s = "failed" => runDone' = TRUE /\ runStatus[i] = "running"
  BY DEF Run!Start, Run!Drop, Run!Complete, Run!Fail, Run!Settle, Run!Ready, Run!Statuses, Run!Settled
<1>2. \A j \in Run!Nodes : runStatus'[j] = IF j = i THEN s ELSE runStatus[j]
  BY <1>0, <1>1 DEF Run!TypeOK
<1>3. outcome = "none"
  BY <1>1 DEF RunIInv, RunReturnInv
<1>4. Run!TypeOK' /\ RunReturnInv'
  BY <1>0, <1>1, <1>3 DEF Run!TypeOK, RunReturnInv, Run!Statuses, Run!Settled
<1>5. \A p \in Run!Preds(i) : p \in Run!Nodes /\ runStatus[p] \in Run!Settled
  <2>1. Run!Ready(i) \/ runStatus[i] = "running"
    BY <1>1 DEF Run!Statuses, Run!Settled
  <2> QED BY <2>1 DEF RunIInv, RunStartedInv, Run!Ready, Run!Preds
<1>6. RunStartedInv'
  <2> SUFFICES ASSUME NEW j \in Run!Nodes, runStatus'[j] # "waiting", NEW p \in Run!Preds(j)
               PROVE  runStatus'[p] \in Run!Settled
    BY <1>0 DEF RunStartedInv
  <2>1. p \in Run!Nodes /\ runStatus[p] \in Run!Settled
    BY <1>2, <1>5 DEF RunIInv, RunStartedInv, Run!Preds
  <2> QED BY <2>1, <1>1, <1>2
<1>7. RunStopInv'
  BY <1>0, <1>1, <1>2 DEF RunIInv, RunStopInv, Run!Statuses, Run!Settled
<1>8. Run!NothingRunsAfterFailure'
  <2> SUFFICES ASSUME NEW p \in Run!Nodes, NEW j \in Run!Nodes, <<p, j>> \in edges,
                      runStatus'[p] \in {"failed", "notrun"}
               PROVE  runStatus'[j] \in {"waiting", "notrun"}
    BY <1>0 DEF Run!NothingRunsAfterFailure, Run!TypeOK, Run!Forward
  <2>1. p \in Run!Preds(j) /\ p # j
    BY <1>0 DEF Run!Preds, Run!TypeOK, Run!Forward, Run!Nodes
  <2>2. CASE p = i
    <3>1. runStatus[j] = "waiting"
      BY <2>1, <2>2, <1>1 DEF RunIInv, RunStartedInv
    <3> QED BY <3>1, <2>1, <2>2, <1>2
  <2>3. CASE p # i
    <3>1. runStatus[p] \in {"failed", "notrun"} /\ runStatus[j] \in {"waiting", "notrun"}
      BY <2>3, <1>2 DEF RunIInv, Run!NothingRunsAfterFailure
    <3>2. runDone
      BY <3>1 DEF RunIInv, RunStopInv
    <3>3. j = i => s = "notrun"
      BY <3>1, <3>2, <1>1 DEF Run!Statuses, Run!Settled
    <3> QED BY <3>1, <3>3, <1>2
  <2> QED BY <2>2, <2>3
<1> QED
  BY <1>4, <1>6, <1>7, <1>8 DEF RunIInv

LEMMA RunOtherIInv ==
    ASSUME RunIInv, Run!CallerCancels \/ Run!Stop \/ Run!Return \/ Run!Returned \/ UNCHANGED Run!vars
    PROVE  RunIInv'
<1>0. /\ Run!TypeOK /\ edges' = edges /\ runStatus' = runStatus
      /\ \A p \in Run!Nodes : Run!Preds(p)' = Run!Preds(p)
      /\ Run!Verdict' = Run!Verdict
  BY DEF RunIInv, Run!CallerCancels, Run!Stop, Run!Return, Run!Returned, Run!vars, Run!Preds, Run!Verdict
<1>1. /\ callerDone => callerDone'
      /\ runDone => runDone'
      /\ runDone' => runDone \/ callerDone
      /\ callerDone' \in BOOLEAN /\ runDone' \in BOOLEAN
  <2>1. callerDone \in BOOLEAN /\ runDone \in BOOLEAN
    BY <1>0 DEF Run!TypeOK
  <2>2. CASE Run!CallerCancels
    BY <2>1, <2>2 DEF Run!CallerCancels
  <2>3. CASE Run!Stop
    BY <2>1, <2>3 DEF Run!Stop
  <2>4. CASE Run!Return \/ Run!Returned \/ UNCHANGED Run!vars
    BY <2>1, <2>4 DEF Run!Return, Run!Returned, Run!vars
  <2> QED BY <2>2, <2>3, <2>4
<1>2. \/ outcome' = outcome
      \/ outcome' = Run!Verdict /\ \A i \in Run!Nodes : runStatus[i] \in Run!Settled
  BY DEF Run!CallerCancels, Run!Stop, Run!Return, Run!Returned, Run!vars
<1>3. Run!Verdict \in Run!Outcomes
  BY DEF Run!Verdict, Run!Outcomes
<1>4. Run!TypeOK'
  BY <1>0, <1>1, <1>2, <1>3 DEF Run!TypeOK
<1>5. RunReturnInv'
  BY <1>0, <1>2 DEF RunIInv, RunReturnInv
<1>6. RunStartedInv' /\ RunStopInv' /\ Run!NothingRunsAfterFailure'
  BY <1>0, <1>1 DEF RunIInv, RunStartedInv, RunStopInv, Run!NothingRunsAfterFailure
<1> QED
  BY <1>4, <1>5, <1>6 DEF RunIInv

LEMMA RunNextIInv == RunIInv /\ [Run!Next]_(Run!vars) => RunIInv'
BY RunSettleIInv, RunOtherIInv DEF Run!Next

LEMMA RunInvariant == Run!Spec => []RunIInv
BY RunInitIInv, RunNextIInv, PTL DEF Run!Spec

(* Whatever DagRun does, nothing downstream of a failed or dropped         *)
(* operator ever starts.                                                   *)
THEOREM RunStopsDownstream == Run!Spec => []NothingRunsAfterFailure
<1>1. RunIInv => NothingRunsAfterFailure
  BY DEF RunIInv, NothingRunsAfterFailure
<1> QED BY <1>1, RunInvariant, PTL

(* Whatever DagRun does, its outcome is what happened to the operators.    *)
THEOREM RunOutcomeTruthful == Run!Spec => []OutcomeTruthful
<1>1. RunIInv => OutcomeTruthful
  <2> SUFFICES ASSUME RunIInv, outcome # "none" PROVE OutcomeTruthful
    BY DEF OutcomeTruthful, Run!OutcomeTruthful
  <2>1. outcome = Run!Verdict /\ \A i \in Run!Nodes : runStatus[i] \in Run!Settled
    BY DEF RunIInv, RunReturnInv
  <2> QED
    BY <2>1 DEF RunIInv, RunStopInv, OutcomeTruthful, Run!OutcomeTruthful, Run!Verdict, Run!Settled
<1> QED BY <1>1, RunInvariant, PTL

(* In the scheduler, nothing downstream of a failed or dropped operator    *)
(* ever starts.                                                            *)
THEOREM SchedulerStopsDownstream == Spec => []NothingRunsAfterFailure
BY SchedulerImplementsDagRun, RunStopsDownstream, PTL DEF ImplementsDagRun

(* The outcome run_dag reports is truthful.                                *)
THEOREM SchedulerOutcomeTruthful == Spec => []OutcomeTruthful
BY SchedulerImplementsDagRun, RunOutcomeTruthful, PTL DEF ImplementsDagRun
=============================================================================
