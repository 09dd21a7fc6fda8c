----------------------------- MODULE ServerProofs -----------------------------
(***************************************************************************)
(* The safety properties of the server hold for every set of connections   *)
(* and every number of edits and requests.                                 *)
(***************************************************************************)
EXTENDS Server, FiniteSetTheorems, TLAPS

Watching == watchPc \notin {"off", "ended"}
Serving  == mainPc \in {"serving", "polling"}
Up       == Serving \/ mainPc \in {"cancelling", "joining"}
TornDown == mainPc \in {"returned", "gone"}

(* Handlers exist only while run() serves or drains, and are counted; the  *)
(* watcher runs only until it is joined.                                   *)
Counted ==
    /\ inFlight = Cardinality(Handling)
    /\ Handling # {} => Up \/ mainPc \in {"draining", "waiting"}
    /\ Watching => Up

(* What the watcher holds: a complete pair that is not yet served, or the  *)
(* pair that was.                                                          *)
Held ==
    /\ watchPc \in {"built", "closing", "stopping"} =>
          /\ fresh.gen = fresh.man
          /\ fresh.gen \in 1..made
          /\ fresh.gen # engine.gen
          /\ fresh.cfg <= file.ver
          /\ fresh.gen \notin stopped
    /\ watchPc = "built" => fresh.cfg \notin broken
    /\ watchPc \in {"built", "closing"} => fresh.gen \notin closed
    /\ watchPc = "stopping" => fresh.gen \in closed

(* What is served.                                                         *)
Served ==
    /\ engine.gen = manager
    /\ mainPc \in {"loading", "failed"} \/ engine.gen \in 1..made
    /\ mainPc = "loading" => made = 0
    /\ mainPc # "loading" => engine.cfg \notin broken \/ made = 0
    /\ ~TornDown => engine.gen \notin closed /\ engine.gen \notin stopped
    /\ TornDown => engine.gen \in closed /\ engine.gen \in stopped
    /\ engine.cfg <= file.ver

(* Every generation is accounted for.                                      *)
Accounted ==
    /\ closed \subseteq 1..made
    /\ stopped \subseteq closed
    /\ \A g \in 1..made :
          \/ g = engine.gen
          \/ g \in stopped
          \/ watchPc \in {"built", "closing", "stopping"} /\ g = fresh.gen

(* The file, and the engine of whoever executes.                           *)
FileOK ==
    /\ broken \subseteq 0..file.ver
    /\ file.ok <=> file.ver \notin broken
InUse == \A c \in Executing : using[c].eng = engine.gen /\ using[c].man = manager

IInv == TypeOK /\ Counted /\ Held /\ Served /\ Accounted /\ FileOK /\ InUse

---------------------------------------------------------------------------
LEMMA InitIInv == Init => IInv
<1> SUFFICES ASSUME Init PROVE IInv
  OBVIOUS
<1>1. Handling = {} /\ Executing = {} /\ inFlight = 0 /\ Cardinality({}) = 0
  BY FS_EmptySet DEF Init, Handling, Executing
<1>2. file \in [ver : Nat, ok : BOOLEAN, mtime : Nat] /\ broken \in SUBSET Nat
  BY DEF Init
<1>3. pc \in [Conns -> ConnPcs] /\ kind \in [Conns -> {"short", "long"}]
      /\ dropped \in [Conns -> BOOLEAN] /\ left \in [Conns -> Nat]
      /\ using \in [Conns -> [eng : Nat, man : Nat]]
  BY ServerAssumption DEF Init, ConnPcs, NoUse
<1>4. TypeOK
  BY <1>2, <1>3 DEF Init, TypeOK, MainPcs, WatchPcs
<1> QED
  BY <1>1, <1>4 DEF Init, IInv, Counted, Watching, Held, Served, TornDown, Accounted, FileOK, InUse

(* Where one handler goes, seen in the two sets the invariant is about.    *)
LEMMA GotoSets ==
    ASSUME TypeOK, NEW c \in Conns, NEW l \in ConnPcs, Goto(c, l)
    PROVE  /\ pc' \in [Conns -> ConnPcs]
           /\ Handling' = IF l \in {"reading", "parsed", "executing", "answered", "leaving"}
                           THEN Handling \cup {c} ELSE Handling \ {c}
           /\ Executing' = IF l = "executing" THEN Executing \cup {c} ELSE Executing \ {c}
BY DEF TypeOK, Goto, Handling, Executing, ConnPcs

LEMMA HandlingFinite == IsFiniteSet(Handling)
BY ServerAssumption, FS_Subset DEF Handling

---------------------------------------------------------------------------
(* The steps of the watcher.                                               *)
LEMMA WatchIInv ==
    ASSUME IInv, WatchStep
    PROVE  IInv'
<1> USE DEF WatchGoto, fileVars, mainVars, drainVars, connVars, engVars
<1>1. /\ Watching /\ Up
      /\ UNCHANGED <<mainVars, drainVars, fileVars, connVars>>
      /\ Handling' = Handling /\ Executing' = Executing
  BY DEF WatchStep, FirstStat, WatchHead, Look, ReadConfig, Swap, CloseOld, StopOld, IInv, Counted,
         Watching, Handling, Executing
<1>2. ~TornDown /\ mainPc # "loading" /\ engine.gen \in 1..made /\ made \in Nat
  BY <1>1 DEF TornDown, Up, Serving, IInv, Served, TypeOK
<1>3. Counted' /\ FileOK'
  BY <1>1 DEF IInv, Counted, Watching, Up, Serving, FileOK, WatchStep, FirstStat, WatchHead, Look,
              ReadConfig, Swap, CloseOld, StopOld
<1>4. TypeOK'
  <2>1. watchPc' \in WatchPcs /\ lastMod' \in Nat /\ made' \in Nat
    BY <1>1 DEF IInv, TypeOK, WatchPcs, WatchStep, FirstStat, WatchHead, Look, ReadConfig, Swap,
                CloseOld, StopOld
  <2>2. fresh' \in [gen : Nat, cfg : Nat, man : Nat] /\ engine' \in [gen : Nat, cfg : Nat]
        /\ manager' \in Nat
    BY <1>1 DEF IInv, TypeOK, WatchStep, FirstStat, WatchHead, Look, ReadConfig, Swap, CloseOld, StopOld
  <2>3. closed' \in SUBSET Nat /\ stopped' \in SUBSET Nat /\ refused' \in SUBSET Nat
    BY <1>1 DEF IInv, TypeOK, WatchStep, FirstStat, WatchHead, Look, ReadConfig, Swap, CloseOld, StopOld
  <2> QED BY <1>1, <2>1, <2>2, <2>3 DEF IInv, TypeOK
<1>5. CASE FirstStat \/ WatchHead \/ Look
  <2>1. /\ UNCHANGED <<fresh, engVars>>
        /\ watchPc \notin {"built", "closing", "stopping"}
        /\ watchPc' \notin {"built", "closing", "stopping"}
    BY <1>5 DEF FirstStat, WatchHead, Look
  <2> QED BY <1>1, <1>3, <1>4, <2>1 DEF IInv, Held, Served, TornDown, Accounted, InUse
<1>6. CASE ReadConfig
  <2>1. CASE file.ok /\ watchPc' = "built"
    <3>1. /\ watchPc = "reading" /\ watchPc' = "built" /\ made' = made + 1
          /\ fresh'.gen = made + 1 /\ fresh'.man = made + 1 /\ fresh'.cfg = file.ver
          /\ UNCHANGED <<engine, manager, closed, stopped>>
      BY <1>6, <2>1 DEF ReadConfig
    <3>2. made + 1 \notin closed /\ made + 1 \notin stopped /\ made + 1 # engine.gen
      BY <1>2 DEF IInv, Accounted
    <3>3. Held'
      BY <1>1, <1>2, <2>1, <3>1, <3>2 DEF Held, IInv, FileOK, TypeOK
    <3>4. Served'
      BY <1>1, <1>2, <3>1 DEF IInv, Served, TornDown
    <3>5. Accounted'
      <4> SUFFICES ASSUME NEW g \in 1..(made + 1)
                   PROVE  g = engine.gen \/ g \in stopped \/ g = made + 1
        BY <1>2, <3>1 DEF IInv, Accounted
      <4> QED BY <1>2, <3>1 DEF IInv, Accounted
    <3> QED BY <1>1, <1>3, <1>4, <3>1, <3>3, <3>4, <3>5 DEF IInv, InUse
  <2>2. CASE watchPc' = "check"
    <3>1. UNCHANGED <<fresh, engVars>> /\ watchPc' = "check" /\ watchPc = "reading"
      BY <1>6, <2>2 DEF ReadConfig
    <3> QED BY <1>1, <1>3, <1>4, <3>1 DEF IInv, Held, Served, TornDown, Accounted, InUse
  <2>3. (file.ok /\ watchPc' = "built") \/ watchPc' = "check"
    BY <1>6 DEF ReadConfig
  <2> QED BY <2>1, <2>2, <2>3
<1>7. CASE Swap
  <2>1. /\ watchPc = "built" /\ watchPc' = "closing" /\ Executing = {}
        /\ engine'.gen = fresh.gen /\ engine'.cfg = fresh.cfg /\ manager' = fresh.man
        /\ fresh'.gen = engine.gen /\ fresh'.man = manager /\ fresh'.cfg = engine.cfg
        /\ UNCHANGED <<made, closed, stopped>>
    BY <1>7 DEF Swap
  <2>2. Held' /\ Served'
    BY <1>1, <1>2, <2>1 DEF IInv, Held, Served, TornDown, TypeOK
  <2>3. Accounted'
    BY <2>1 DEF IInv, Accounted
  <2> QED BY <1>1, <1>3, <1>4, <2>1, <2>2, <2>3 DEF IInv, InUse
<1>8. CASE CloseOld
  <2>1. /\ watchPc = "closing" /\ watchPc' = "stopping" /\ closed' = closed \cup {fresh.gen}
        /\ UNCHANGED <<fresh, engine, manager, made, stopped>>
    BY <1>8 DEF CloseOld
  <2> QED BY <1>1, <1>2, <1>3, <1>4, <2>1 DEF IInv, Held, Served, TornDown, Accounted, InUse
<1>9. CASE StopOld
  <2>1. /\ watchPc = "stopping" /\ watchPc' = "check" /\ stopped' = stopped \cup {fresh.man}
        /\ UNCHANGED <<fresh, engine, manager, made, closed>>
    BY <1>9 DEF StopOld
  <2> QED BY <1>1, <1>2, <1>3, <1>4, <2>1 DEF IInv, Held, Served, TornDown, Accounted, InUse
<1> QED BY <1>5, <1>6, <1>7, <1>8, <1>9 DEF WatchStep

---------------------------------------------------------------------------
(* The steps of a handler.                                                 *)
LEMMA HandlerIInv ==
    ASSUME IInv, NEW c \in Conns, HandlerStep(c) \/ Accept(c) \/ ClientDrops(c)
    PROVE  IInv'
<1> USE DEF fileVars, mainVars, drainVars, connVars, engVars, watchVars
<1>1. UNCHANGED <<running, cancelled, watchVars, fileVars, engVars>>
  BY DEF HandlerStep, Accept, ClientDrops, ReadRequest, ReadFails, FindNoEngine, BeginExecute,
         EndExecute, Answer, LowerInFlight, LockDrainMu, NotifyDrain
<1>2. mainPc' = mainPc \/ (mainPc = "polling" /\ mainPc' = "serving")
        \/ (mainPc = "waiting" /\ mainPc' = "draining")
  BY DEF HandlerStep, Accept, ClientDrops, ReadRequest, ReadFails, FindNoEngine, BeginExecute,
         EndExecute, Answer, LowerInFlight, LockDrainMu, NotifyDrain
<1>3. Held' /\ Served' /\ Accounted' /\ FileOK'
  BY <1>1, <1>2 DEF IInv, Held, Served, TornDown, Accounted, FileOK
<1>4. (Watching => Up)'
  BY <1>1, <1>2 DEF IInv, Counted, Watching, Up, Serving
<1>5. IsFiniteSet(Handling) /\ inFlight = Cardinality(Handling) /\ Cardinality(Handling) \in Nat
  BY HandlingFinite, FS_CardinalityType DEF IInv, Counted
<1>6. CASE Accept(c)
  <2>1. Handling' = Handling \cup {c} /\ Executing' = Executing \ {c} /\ c \notin Handling
        /\ pc' \in [Conns -> ConnPcs]
    BY <1>6, GotoSets DEF Accept, ConnPcs, IInv, Handling
  <2>2. inFlight' = Cardinality(Handling')
    BY <1>5, <1>6, <2>1, FS_AddElement DEF Accept
  <2>3. Counted'
    BY <1>4, <1>6, <2>2 DEF Counted, Accept, Up, Serving
  <2>4. TypeOK'
    BY <1>1, <1>5, <1>6, <2>1 DEF IInv, TypeOK, Accept, MainPcs
  <2> QED BY <1>1, <1>3, <1>6, <2>1, <2>3, <2>4 DEF IInv, InUse, Accept
<1>7. CASE LowerInFlight(c)
  <2>1. Handling' = Handling \ {c} /\ Executing' = Executing \ {c} /\ c \in Handling
        /\ pc' \in [Conns -> ConnPcs]
    BY <1>7, GotoSets DEF LowerInFlight, ConnPcs, IInv, Handling
  <2>2. inFlight' = Cardinality(Handling') /\ inFlight' \in Nat
    <3>1. Cardinality(Handling \ {c}) = Cardinality(Handling) - 1
          /\ Cardinality(Handling \ {c}) \in Nat
      BY <1>5, <2>1, FS_RemoveElement, FS_CardinalityType
    <3> QED BY <1>5, <1>7, <2>1, <3>1 DEF LowerInFlight
  <2>3. Counted'
    BY <1>4, <1>7, <2>1, <2>2 DEF IInv, Counted, LowerInFlight, Up, Serving
  <2>4. TypeOK'
    BY <1>1, <1>7, <2>1, <2>2 DEF IInv, TypeOK, LowerInFlight
  <2> QED BY <1>1, <1>3, <1>7, <2>1, <2>3, <2>4 DEF IInv, InUse, LowerInFlight
<1>8. CASE LockDrainMu(c) \/ NotifyDrain(c)
  <2>1. Handling' = Handling /\ Executing' = Executing /\ pc' \in [Conns -> ConnPcs]
    BY <1>8, GotoSets DEF LockDrainMu, NotifyDrain, ConnPcs, IInv, Handling, Executing
  <2>2. Counted'
    BY <1>2, <1>4, <1>8, <2>1 DEF IInv, Counted, LockDrainMu, NotifyDrain, Up, Serving
  <2>3. TypeOK'
    BY <1>1, <1>8, <2>1 DEF IInv, TypeOK, LockDrainMu, NotifyDrain, MainPcs
  <2> QED BY <1>1, <1>3, <1>8, <2>1, <2>2, <2>3 DEF IInv, InUse, LockDrainMu, NotifyDrain
<1>9. CASE \/ ReadRequest(c) \/ ReadFails(c) \/ FindNoEngine(c) \/ EndExecute(c) \/ Answer(c)
         \/ ClientDrops(c)
  <2>1. Handling' = Handling /\ Executing' \subseteq Executing /\ pc' \in [Conns -> ConnPcs]
    <3>1. CASE \E l \in {"parsed", "leaving", "answered", "reading"} : Goto(c, l) /\ c \in Handling
      BY <3>1, GotoSets DEF ConnPcs, IInv
    <3>2. CASE ClientDrops(c)
      BY <3>2 DEF ClientDrops, Handling, Executing, IInv, TypeOK
    <3> QED BY <1>9, <3>1, <3>2 DEF ReadRequest, ReadFails, FindNoEngine, EndExecute, Answer, Handling
  <2>2. UNCHANGED <<mainVars, drainVars>>
    BY <1>9 DEF ReadRequest, ReadFails, FindNoEngine, EndExecute, Answer, ClientDrops, Goto, IInv, TypeOK
  <2>3. Counted'
    BY <1>4, <2>1, <2>2 DEF IInv, Counted, Up, Serving
  <2>4. TypeOK'
    <3>1. kind' \in [Conns -> {"short", "long"}] /\ left' \in [Conns -> Nat]
      <4>1. CASE ReadRequest(c)
        <5>1. PICK k \in Kinds : kind' = [kind EXCEPT ![c] = k]
          BY <4>1 DEF ReadRequest
        <5>2. kind' \in [Conns -> {"short", "long"}]
          BY <5>1, ServerAssumption DEF IInv, TypeOK
        <5>3. left' = left \/ left' = [left EXCEPT ![c] = @ - 1]
          BY <4>1 DEF ReadRequest
        <5>4. left[c] > 0 /\ left \in [Conns -> Nat]
          BY <4>1 DEF ReadRequest, IInv, TypeOK
        <5>5. left' \in [Conns -> Nat]
          BY <5>3, <5>4
        <5> QED BY <5>2, <5>5
      <4>2. CASE ~ReadRequest(c)
        <5>1. UNCHANGED <<kind, left>>
          BY <1>9, <4>2 DEF ReadFails, FindNoEngine, EndExecute, Answer, ClientDrops
        <5> QED BY <5>1 DEF IInv, TypeOK
      <4> QED BY <4>1, <4>2
    <3>2. using' \in [Conns -> [eng : Nat, man : Nat]]
      BY <1>9 DEF IInv, TypeOK, ReadRequest, ReadFails, FindNoEngine, EndExecute, Answer, ClientDrops, NoUse
    <3>3. dropped' \in [Conns -> BOOLEAN]
      <4>1. dropped' = dropped \/ dropped' = [dropped EXCEPT ![c] = TRUE]
        BY <1>9 DEF ReadRequest, ReadFails, FindNoEngine, EndExecute, Answer, ClientDrops
      <4> QED BY <4>1 DEF IInv, TypeOK
    <3> QED BY <1>1, <2>1, <2>2, <3>1, <3>2, <3>3 DEF IInv, TypeOK
  <2>5. InUse'
    BY <1>1, <1>9, <2>1 DEF IInv, InUse, Executing, TypeOK, ReadRequest, ReadFails,
                            FindNoEngine, EndExecute, Answer, ClientDrops, Goto
  <2> QED BY <1>3, <2>3, <2>4, <2>5 DEF IInv
<1>10. CASE BeginExecute(c)
  <2>1. Handling' = Handling /\ Executing' = Executing \cup {c} /\ pc' \in [Conns -> ConnPcs]
    BY <1>10, GotoSets DEF BeginExecute, ConnPcs, IInv, Handling
  <2>2. Counted'
    BY <1>4, <1>10, <2>1 DEF IInv, Counted, BeginExecute, Up, Serving
  <2>3. TypeOK'
    BY <1>1, <1>10, <2>1 DEF IInv, TypeOK, BeginExecute
  <2>4. \A d \in Conns : using'[d] = IF d = c THEN [eng |-> engine.gen, man |-> manager] ELSE using[d]
    BY <1>10 DEF BeginExecute, IInv, TypeOK
  <2>5. InUse'
    BY <1>1, <2>1, <2>4 DEF IInv, InUse, Executing
  <2> QED BY <1>3, <2>2, <2>3, <2>5 DEF IInv
<1> QED BY <1>6, <1>7, <1>8, <1>9, <1>10 DEF HandlerStep

---------------------------------------------------------------------------
(* The steps of run() and of the world.                                    *)
LEMMA MainIInv ==
    ASSUME IInv, MainStep
    PROVE  IInv'
<1> USE DEF fileVars, drainVars, connVars
<1>1. /\ UNCHANGED <<drainVars, fileVars, connVars>>
      /\ Handling' = Handling /\ Executing' = Executing
  BY DEF MainStep, Load, Listen, LoopHead, PollTimesOut, CancelAll, JoinWatcher, Drain, Teardown, Destroy,
         Handling, Executing
<1>2. FileOK'
  BY <1>1 DEF IInv, FileOK
<1>3. CASE Load
  <2>1. ~Watching /\ Handling = {} /\ made = 0 /\ closed = {} /\ stopped = {} /\ Executing = {}
    BY <1>3 DEF Load, IInv, Counted, Up, Serving, Served, Accounted, Handling, Executing
  <2>2. TypeOK'
    BY <1>1, <1>3 DEF IInv, TypeOK, MainPcs, Load, watchVars
  <2>3. Counted' /\ Held' /\ InUse'
    BY <1>1, <1>3, <2>1 DEF IInv, Counted, Watching, Held, InUse, Load, watchVars
  <2>4. Served' /\ Accounted'
    BY <1>1, <1>3, <2>1 DEF IInv, Served, Accounted, FileOK, TypeOK, Load, TornDown
  <2> QED BY <1>2, <2>2, <2>3, <2>4 DEF IInv
<1>4. CASE Listen
  <2>1. ~Watching /\ Handling = {}
    BY <1>4 DEF Listen, IInv, Counted, Up, Serving
  <2>2. TypeOK'
    BY <1>1, <1>4 DEF IInv, TypeOK, MainPcs, WatchPcs, Listen, engVars
  <2>3. Counted' /\ Held' /\ InUse'
    BY <1>1, <1>4, <2>1 DEF IInv, Counted, Watching, Held, InUse, Up, Serving, Listen, engVars
  <2>4. Served' /\ Accounted'
    BY <1>1, <1>4, <2>1 DEF IInv, Served, Accounted, Listen, TornDown, engVars, Watching
  <2> QED BY <1>2, <2>2, <2>3, <2>4 DEF IInv
<1>5. CASE LoopHead \/ PollTimesOut \/ CancelAll \/ JoinWatcher \/ Drain \/ Destroy
  <2>1. UNCHANGED <<watchVars, engVars>>
    BY <1>5 DEF LoopHead, PollTimesOut, CancelAll, JoinWatcher, Drain, Destroy
  <2>2. (TornDown' <=> TornDown) /\ mainPc \notin {"loading", "failed"}
    BY <1>5 DEF LoopHead, PollTimesOut, CancelAll, JoinWatcher, Drain, Destroy, TornDown
  <2>3. TypeOK'
    BY <1>1, <1>5, <2>1 DEF IInv, TypeOK, MainPcs, LoopHead, PollTimesOut, CancelAll, JoinWatcher, Drain, Destroy,
                            watchVars, engVars
  <2>4. inFlight = 0 => Handling = {}
    BY HandlingFinite, FS_EmptySet DEF IInv, Counted
  <2>5. Counted'
    BY <1>1, <1>5, <2>1, <2>4 DEF IInv, Counted, Watching, Up, Serving, LoopHead, PollTimesOut,
                                  CancelAll, JoinWatcher, Drain, Destroy, watchVars
  <2>6. mainPc' \notin {"loading", "failed"}
    BY <1>5 DEF LoopHead, PollTimesOut, CancelAll, JoinWatcher, Drain, Destroy
  <2>7. Held' /\ Accounted' /\ InUse' /\ Served'
    BY <1>1, <2>1, <2>2, <2>6 DEF IInv, Held, Accounted, InUse, Served, watchVars, engVars
  <2> QED BY <1>2, <2>3, <2>5, <2>7 DEF IInv
<1>6. CASE Teardown
  <2>1. ~Watching /\ Handling = {} /\ engine.gen \in 1..made /\ manager = engine.gen
    BY <1>6 DEF Teardown, IInv, Counted, Up, Serving, Served
  <2>2. TypeOK'
    BY <1>1, <1>6 DEF IInv, TypeOK, MainPcs, Teardown, watchVars
  <2>3. Counted' /\ Held' /\ InUse'
    BY <1>1, <1>6, <2>1 DEF IInv, Counted, Watching, Held, InUse, Teardown, watchVars
  <2>4. Served' /\ Accounted'
    BY <1>1, <1>6, <2>1 DEF IInv, Served, Accounted, Teardown, TornDown, watchVars
  <2> QED BY <1>2, <2>2, <2>3, <2>4 DEF IInv
<1> QED BY <1>3, <1>4, <1>5, <1>6 DEF MainStep

LEMMA WorldIInv ==
    ASSUME IInv, Edit \/ Tick \/ Stop \/ UNCHANGED vars
    PROVE  IInv'
<1> USE DEF vars, mainVars, drainVars, watchVars, engVars, fileVars, connVars
<1>1. CASE Edit
  <2>1. /\ UNCHANGED <<clock, mainVars, drainVars, watchVars, engVars, connVars>>
        /\ file'.ver = file.ver + 1 /\ file' \in [ver : Nat, ok : BOOLEAN, mtime : Nat]
        /\ file'.ok => broken' = broken
        /\ ~file'.ok => broken' = broken \cup {file.ver + 1}
        /\ Handling' = Handling /\ Executing' = Executing
    BY <1>1 DEF Edit, IInv, TypeOK, Handling, Executing
  <2>2. TypeOK' /\ Counted' /\ InUse' /\ Accounted'
    <3>1. broken' \in SUBSET Nat /\ clock' \in Nat
      BY <2>1 DEF IInv, TypeOK
    <3>2. TypeOK'
      BY <2>1, <3>1 DEF IInv, TypeOK
    <3> QED BY <2>1, <3>2 DEF IInv, Counted, InUse, Accounted, Watching, Up, Serving
  <2>3. FileOK'
    <3>1. file.ver \in Nat /\ broken \subseteq 0..file.ver /\ file.ver + 1 \notin broken
      BY DEF IInv, FileOK, TypeOK
    <3>2. PICK ok \in BOOLEAN :
            /\ file' = [ver |-> file.ver + 1, ok |-> ok, mtime |-> clock]
            /\ broken' = IF ok THEN broken ELSE broken \cup {file.ver + 1}
      BY <1>1 DEF Edit
    <3>3. file'.ver = file.ver + 1 /\ (file'.ok <=> ok)
      BY <3>2
    <3>4. broken' \subseteq 0..(file.ver + 1) /\ (ok <=> file.ver + 1 \notin broken')
      <4>1. CASE ok
        BY <3>1, <3>2, <4>1
      <4>2. CASE ~ok
        <5>1. broken' = broken \cup {file.ver + 1}
          BY <3>2, <4>2
        <5>2. 0..file.ver \subseteq 0..(file.ver + 1) /\ file.ver + 1 \in 0..(file.ver + 1)
          BY <3>1
        <5> QED BY <3>1, <4>2, <5>1, <5>2
      <4> QED BY <4>1, <4>2
    <3> QED BY <3>3, <3>4 DEF FileOK
  <2>4. Held' /\ Served'
    BY <2>1 DEF IInv, Held, Served, TypeOK, TornDown
  <2> QED BY <2>2, <2>3, <2>4 DEF IInv
<1>2. CASE Tick \/ Stop \/ UNCHANGED vars
  <2>1. /\ UNCHANGED <<mainPc, drainVars, watchVars, engVars, file, broken, connVars>>
        /\ Handling' = Handling /\ Executing' = Executing
    BY <1>2 DEF Tick, Stop, Handling, Executing
  <2>2. TypeOK'
    <3>1. clock' \in Nat
      BY <1>2 DEF IInv, TypeOK, Tick, Stop
    <3>2. running' \in BOOLEAN /\ cancelled' \in BOOLEAN
      BY <1>2 DEF IInv, TypeOK, Tick, Stop
    <3> QED BY <2>1, <3>1, <3>2 DEF IInv, TypeOK
  <2>3. Counted' /\ InUse' /\ Accounted' /\ FileOK' /\ Held' /\ Served'
    BY <2>1 DEF IInv, Counted, InUse, Accounted, FileOK, Held, Served, Watching, Up, Serving, TornDown
  <2> QED BY <2>2, <2>3 DEF IInv
<1> QED BY <1>1, <1>2

---------------------------------------------------------------------------
(* The inductive invariant holds in every behaviour of the server.         *)
THEOREM Invariance == Spec => []IInv
<1>1. Init => IInv
  BY InitIInv
<1>2. IInv /\ [Next]_vars => IInv'
  BY WatchIInv, HandlerIInv, MainIInv, WorldIInv DEF Next, Terminated
<1> QED BY <1>1, <1>2, PTL DEF Spec

(* Type correctness; in particular in_flight_ never goes below zero.       *)
THEOREM TypeCorrect == Spec => []TypeOK
<1>1. IInv => TypeOK
  BY DEF IInv
<1> QED BY Invariance, <1>1, PTL

(* No request ever runs on an engine that a reload or the shutdown has     *)
(* closed, nor with the resources of another one.                          *)
THEOREM ExecuteOnLiveEngineThm == Spec => []ExecuteOnLiveEngine
<1>1. IInv => ExecuteOnLiveEngine
  <2> SUFFICES ASSUME IInv, NEW c \in Executing
               PROVE  using[c].eng = using[c].man /\ using[c].eng \notin closed
                      /\ using[c].man \notin stopped
    BY DEF ExecuteOnLiveEngine
  <2>1. ~TornDown
    BY DEF IInv, Counted, Handling, Executing, TornDown, Up, Serving
  <2> QED BY <2>1 DEF IInv, InUse, Served
<1> QED BY Invariance, <1>1, PTL

(* The engine the server hands out is a valid one, open, with its own      *)
(* resources.                                                              *)
THEOREM GoodEngineServedThm == Spec => []GoodEngineServed
<1>1. IInv => GoodEngineServed
  BY DEF IInv, Served, GoodEngineServed, TornDown
<1> QED BY Invariance, <1>1, PTL

(* The teardown finds no request and no reload under way.                  *)
THEOREM QuietTeardownThm == Spec => []QuietTeardown
<1>1. IInv => QuietTeardown
  BY DEF IInv, Counted, Watching, Up, Serving, QuietTeardown
<1> QED BY Invariance, <1>1, PTL

(* Everything that was built has been retired when run() returns.          *)
THEOREM NothingLeftRunningThm == Spec => []NothingLeftRunning
<1>1. IInv => NothingLeftRunning
  <2> SUFFICES ASSUME IInv
               PROVE  NothingLeftRunning
    OBVIOUS
  <2>1. stopped \subseteq closed /\ closed \subseteq 1..made
    BY DEF IInv, Accounted
  <2>2. TornDown => 1..made \subseteq stopped
    BY DEF IInv, Accounted, Counted, Watching, Up, Serving, TornDown, Served
  <2> QED BY <2>1, <2>2 DEF NothingLeftRunning, TornDown
<1> QED BY Invariance, <1>1, PTL

===============================================================================
