-------------------------------- MODULE Server --------------------------------
(***************************************************************************)
(* The HTTP server of pine-cpp (src/server/server.cpp): Server::run on the *)
(* main thread, watch_config and reload_config on the watcher thread, one  *)
(* detached handler thread per connection, the signal that calls           *)
(* Server::stop, and the file of the pipeline that an operator of the      *)
(* service edits meanwhile.                                                *)
(*                                                                         *)
(* An engine and the resource manager built with it carry the number of    *)
(* the load that built them (their generation).  engine_mu_ is not a       *)
(* variable: a handler holds it shared exactly while it is executing, and  *)
(* the steps that take it exclusively need nobody to be.                   *)
(***************************************************************************)
EXTENDS Integers, FiniteSets

CONSTANTS
    Conns,        \* the connections clients open, each with its handler thread
    Watch,        \* ServerConfig::watch
    Kinds,        \* "short" requests end by themselves, "long" ones when cancelled
    MaxRequests,  \* requests a client sends on a connection
    Endless,      \* TRUE: no bound on those
    MaxEdits,     \* how often the file is written
    MaxClock      \* seconds the clock of the file system advances

ASSUME ServerAssumption ==
    /\ IsFiniteSet(Conns)
    /\ Watch \in BOOLEAN
    /\ Kinds \subseteq {"short", "long"}
    /\ MaxRequests \in Nat
    /\ Endless \in BOOLEAN
    /\ MaxEdits \in Nat
    /\ MaxClock \in Nat

VARIABLES
    mainPc,     \* where Server::run is
    running,    \* running_
    cancelled,  \* server_ctx_ is done
    drainMu,    \* a handler holds drain_mu_ to notify: {} or {c}
    inFlight,   \* in_flight_
    watchPc,    \* where the watcher thread is
    lastMod,    \* its last_mod
    fresh,      \* what reload_config has built or retired: [gen, cfg, man]
    engine,     \* engine_: the generation and the version of its config
    manager,    \* resource_manager_: the generation
    made,       \* generations built so far
    closed,     \* engines whose close() was called
    stopped,    \* managers whose stop() was called
    file,       \* the config file: version, is it valid, modification time
    clock,      \* the clock of the file system, in seconds
    broken,     \* versions that were not valid (history)
    refused,    \* versions whose reload was reported as failed (reload_error_count_)
    pc,         \* where each handler is
    kind,       \* the kind of request it serves
    dropped,    \* its client has disconnected
    using,      \* the engine and manager its execute runs on
    left        \* requests its client may still send

mainVars  == <<mainPc, running, cancelled>>
drainVars == <<drainMu, inFlight>>
watchVars == <<watchPc, lastMod, fresh, refused>>
engVars   == <<engine, manager, made, closed, stopped>>
fileVars  == <<file, clock, broken>>
connVars  == <<pc, kind, dropped, using, left>>
vars == <<mainVars, drainVars, watchVars, engVars, fileVars, connVars>>

(* loading: before the first load.  loaded: engine and manager are there,  *)
(* not yet listening.  serving: at the head of the accept loop.  polling:  *)
(* inside it.  waiting: on drain_cv_.  gone: ~Server has returned.         *)
MainPcs == {"loading", "loaded", "serving", "polling", "cancelling",
            "joining", "draining", "waiting", "teardown", "returned", "gone", "failed"}

(* first: before its first stat.  check: at the head of its loop.          *)
(* looking: awake.  reading: has recorded the new time.  built: has the    *)
(* new engine.  closing, stopping: has swapped, retires the old ones.      *)
WatchPcs == {"off", "first", "check", "asleep", "looking", "reading", "built",
             "closing", "stopping", "ended"}

(* outside: no connection.  parsed: has a request and its context.         *)
(* leaving: about to lower in_flight_.  lowered: has done so.  notifying:  *)
(* holds drain_mu_.                                                        *)
ConnPcs == {"outside", "reading", "parsed", "executing", "answered", "leaving",
            "lowered", "notifying", "done"}

NoUse == [eng |-> 0, man |-> 0]

Handling == {c \in Conns : pc[c] \in {"reading", "parsed", "executing", "answered", "leaving"}}
Executing == {c \in Conns : pc[c] = "executing"}

Goto(c, l) == pc' = [pc EXCEPT ![c] = l]

Init ==
    /\ mainPc = "loading" /\ running = FALSE /\ cancelled = FALSE
    /\ drainMu = {} /\ inFlight = 0
    /\ watchPc = "off" /\ lastMod = 0 /\ fresh = [gen |-> 0, cfg |-> 0, man |-> 0]
    /\ refused = {}
    /\ engine = [gen |-> 0, cfg |-> 0] /\ manager = 0 /\ made = 0
    /\ closed = {} /\ stopped = {}
    /\ file \in [ver : {0}, ok : BOOLEAN, mtime : {0}]
    /\ clock = 0 /\ broken = IF file.ok THEN {} ELSE {0}
    /\ pc = [c \in Conns |-> "outside"]
    /\ kind = [c \in Conns |-> "short"]
    /\ dropped = [c \in Conns |-> FALSE]
    /\ using = [c \in Conns |-> NoUse]
    /\ left = [c \in Conns |-> MaxRequests]

---------------------------------------------------------------------------
(* The world: the file, its clock, and the signal.                         *)

(* A compiler run writes the file, or has written a part of it.            *)
Edit ==
    /\ file.ver < MaxEdits
    /\ \E ok \in BOOLEAN :
           /\ file' = [ver |-> file.ver + 1, ok |-> ok, mtime |-> clock]
           /\ broken' = IF ok THEN broken ELSE broken \cup {file.ver + 1}
    /\ UNCHANGED <<clock, mainVars, drainVars, watchVars, engVars, connVars>>

Tick ==
    /\ clock < MaxClock
    /\ clock' = clock + 1
    /\ UNCHANGED <<file, broken, mainVars, drainVars, watchVars, engVars, connVars>>

(* Server::stop from the signal handler, which g_server reaches only while *)
(* run() serves.                                                           *)
Stop ==
    /\ mainPc \in {"serving", "polling"}
    /\ running
    /\ running' = FALSE
    /\ UNCHANGED <<mainPc, cancelled, drainVars, watchVars, engVars, fileVars, connVars>>

---------------------------------------------------------------------------
(* Server::run.                                                            *)

(* The resources of a valid file may fail to start, as in a reload.        *)
Load ==
    /\ mainPc = "loading"
    /\ \/ /\ file.ok
          /\ mainPc' = "loaded"
          /\ made' = 1
          /\ engine' = [gen |-> 1, cfg |-> file.ver]
          /\ manager' = 1
       \/ /\ mainPc' = "failed"
          /\ UNCHANGED <<made, engine, manager>>
    /\ UNCHANGED <<running, cancelled, drainVars, watchVars, closed, stopped, fileVars, connVars>>

(* socket(), bind() and listen(), then the flag, the signal handlers and   *)
(* the watcher thread.                                                     *)
Listen ==
    /\ mainPc = "loaded"
    /\ \/ /\ mainPc' = "serving"
          /\ running' = TRUE
          /\ watchPc' = IF Watch THEN "first" ELSE "off"
       \/ /\ mainPc' = "failed"
          /\ UNCHANGED <<running, watchPc>>
    /\ UNCHANGED <<cancelled, drainVars, lastMod, fresh, refused, engVars, fileVars, connVars>>

LoopHead ==
    /\ mainPc = "serving"
    /\ mainPc' = IF running THEN "polling" ELSE "cancelling"
    /\ UNCHANGED <<running, cancelled, drainVars, watchVars, engVars, fileVars, connVars>>

(* Mutated form: shutdown leaves the requests in flight to themselves.     *)
CancelNothing ==
    /\ mainPc = "cancelling"
    /\ mainPc' = "joining"
    /\ UNCHANGED <<running, cancelled, drainVars, watchVars, engVars, fileVars, connVars>>

(* server_ctx_.cancel(), which every request context descends from.        *)
CancelAll ==
    /\ mainPc = "cancelling"
    /\ mainPc' = "joining"
    /\ cancelled' = TRUE
    /\ UNCHANGED <<running, drainVars, watchVars, engVars, fileVars, connVars>>

PollTimesOut ==
    /\ mainPc = "polling"
    /\ mainPc' = "serving"
    /\ UNCHANGED <<running, cancelled, drainVars, watchVars, engVars, fileVars, connVars>>

(* accept() may still deliver a connection after stop().                   *)
Accept(c) ==
    /\ mainPc = "polling"
    /\ pc[c] = "outside"
    /\ mainPc' = "serving"
    /\ inFlight' = inFlight + 1
    /\ Goto(c, "reading")
    /\ UNCHANGED <<running, cancelled, drainMu, watchVars, engVars, fileVars,
                   kind, dropped, using, left>>

(* Mutated form: the watcher is left to end by itself.                     *)
JoinWatcherNot ==
    /\ mainPc = "joining"
    /\ mainPc' = "draining"
    /\ UNCHANGED <<running, cancelled, drainVars, watchVars, engVars, fileVars, connVars>>

JoinWatcher ==
    /\ mainPc = "joining"
    /\ watchPc \in {"off", "ended"}
    /\ mainPc' = "draining"
    /\ UNCHANGED <<running, cancelled, drainVars, watchVars, engVars, fileVars, connVars>>

(* The wait under drain_mu_: the predicate, then the condition variable.   *)
Drain ==
    /\ mainPc = "draining"
    /\ drainMu = {}
    /\ mainPc' = IF inFlight = 0 THEN "teardown" ELSE "waiting"
    /\ UNCHANGED <<running, cancelled, drainVars, watchVars, engVars, fileVars, connVars>>

(* Mutated form: the engine is left to the destructor.                     *)
TeardownManagerOnly ==
    /\ mainPc = "teardown"
    /\ Executing = {}
    /\ stopped' = stopped \cup {manager}
    /\ mainPc' = "returned"
    /\ UNCHANGED <<running, cancelled, drainVars, watchVars, engine, manager, made, closed,
                   fileVars, connVars>>

Teardown ==
    /\ mainPc = "teardown"
    /\ Executing = {}
    /\ closed' = closed \cup {engine.gen}
    /\ stopped' = stopped \cup {manager}
    /\ mainPc' = "returned"
    /\ UNCHANGED <<running, cancelled, drainVars, watchVars, engine, manager, made,
                   fileVars, connVars>>

(* ~Server and the destructors of the members, drain_mu_ and drain_cv_     *)
(* among them.                                                             *)
Destroy ==
    /\ mainPc = "returned"
    /\ mainPc' = "gone"
    /\ running' = FALSE
    /\ UNCHANGED <<cancelled, drainVars, watchVars, engVars, fileVars, connVars>>

MainStep ==
    \/ Load \/ Listen \/ LoopHead \/ PollTimesOut \/ CancelAll
    \/ JoinWatcher \/ Drain \/ Teardown \/ Destroy

---------------------------------------------------------------------------
(* watch_config and reload_config.                                         *)

WatchGoto(l) == watchPc' = l /\ UNCHANGED <<mainVars, drainVars, fileVars, connVars>>

FirstStat ==
    /\ watchPc = "first"
    /\ WatchGoto("check")
    /\ lastMod' = file.mtime
    /\ UNCHANGED <<fresh, refused, engVars>>

WatchHead ==
    /\ watchPc \in {"check", "asleep"}
    /\ WatchGoto(IF ~running THEN "ended" ELSE IF watchPc = "check" THEN "asleep" ELSE "looking")
    /\ UNCHANGED <<lastMod, fresh, refused, engVars>>

(* Mutated form: the time is recorded before the comparison with it.       *)
LookAfterRecording ==
    /\ watchPc = "looking"
    /\ lastMod' = file.mtime
    /\ WatchGoto("check")
    /\ UNCHANGED <<fresh, refused, engVars>>

Look ==
    /\ watchPc = "looking"
    /\ IF file.mtime <= lastMod
       THEN WatchGoto("check") /\ UNCHANGED lastMod
       ELSE WatchGoto("reading") /\ lastMod' = file.mtime
    /\ UNCHANGED <<fresh, refused, engVars>>

(* Mutated form: a config that cannot be loaded is not an error.           *)
ReadConfigUnchecked ==
    /\ watchPc = "reading"
    /\ WatchGoto("built")
    /\ made' = made + 1
    /\ fresh' = [gen |-> made + 1, cfg |-> file.ver, man |-> made + 1]
    /\ UNCHANGED <<lastMod, refused, engine, manager, closed, stopped>>

(* Loading, building the manager and starting it, building the engine: one *)
(* try block, nothing of which is visible until the swap.  A file that is  *)
(* not valid fails; a valid one whose resources cannot be started just now *)
(* fails too, and its time is already recorded.                            *)
ReadConfig ==
    /\ watchPc = "reading"
    /\ \/ /\ file.ok
          /\ WatchGoto("built")
          /\ made' = made + 1
          /\ fresh' = [gen |-> made + 1, cfg |-> file.ver, man |-> made + 1]
          /\ UNCHANGED refused
       \/ /\ WatchGoto("check")
          /\ refused' = refused \cup {file.ver}
          /\ UNCHANGED <<made, fresh>>
    /\ UNCHANGED <<lastMod, engine, manager, closed, stopped>>

(* Mutated form: the lock is taken after the engine has moved.             *)
SwapUnlocked ==
    /\ watchPc = "built"
    /\ WatchGoto("closing")
    /\ engine' = [gen |-> fresh.gen, cfg |-> fresh.cfg]
    /\ manager' = fresh.man
    /\ fresh' = [gen |-> engine.gen, cfg |-> engine.cfg, man |-> manager]
    /\ UNCHANGED <<lastMod, refused, made, closed, stopped>>

Swap ==
    /\ watchPc = "built"
    /\ Executing = {}
    /\ WatchGoto("closing")
    /\ engine' = [gen |-> fresh.gen, cfg |-> fresh.cfg]
    /\ manager' = fresh.man
    /\ fresh' = [gen |-> engine.gen, cfg |-> engine.cfg, man |-> manager]
    /\ UNCHANGED <<lastMod, refused, made, closed, stopped>>

CloseOld ==
    /\ watchPc = "closing"
    /\ WatchGoto("stopping")
    /\ closed' = closed \cup {fresh.gen}
    /\ UNCHANGED <<lastMod, fresh, refused, engine, manager, made, stopped>>

StopOld ==
    /\ watchPc = "stopping"
    /\ WatchGoto("check")
    /\ stopped' = stopped \cup {fresh.man}
    /\ UNCHANGED <<lastMod, fresh, refused, engine, manager, made, closed>>

WatchStep ==
    \/ FirstStat \/ WatchHead \/ Look \/ ReadConfig \/ Swap \/ CloseOld \/ StopOld

---------------------------------------------------------------------------
(* A handler thread.                                                       *)

(* read_http_request has a request, and execute_with_trace its context.    *)
ReadRequest(c) ==
    /\ pc[c] = "reading"
    /\ ~dropped[c]
    /\ left[c] > 0
    /\ left' = IF Endless THEN left ELSE [left EXCEPT ![c] = @ - 1]
    /\ \E k \in Kinds : kind' = [kind EXCEPT ![c] = k]
    /\ Goto(c, "parsed")
    /\ UNCHANGED <<mainVars, watchVars, engVars, fileVars, drainVars, dropped, using>>

(* End of stream, a timeout, or a request that is answered with an error:  *)
(* the connection is closed.                                               *)
ReadFails(c) ==
    /\ pc[c] = "reading"
    /\ Goto(c, "leaving")
    /\ UNCHANGED <<mainVars, watchVars, engVars, fileVars, drainVars, kind, dropped, using, left>>

(* handle_execute looks at engine_ without the lock: while a reload moves  *)
(* it under the exclusive lock, it may find none and answer so.            *)
FindNoEngine(c) ==
    /\ pc[c] = "parsed"
    /\ watchPc = "built"
    /\ Executing = {}
    /\ Goto(c, "answered")
    /\ UNCHANGED <<mainVars, watchVars, engVars, fileVars, drainVars, kind, dropped, using, left>>

(* The shared lock, the engine, the snapshot of the resources.             *)
BeginExecute(c) ==
    /\ pc[c] = "parsed"
    /\ Goto(c, "executing")
    /\ using' = [using EXCEPT ![c] = [eng |-> engine.gen, man |-> manager]]
    /\ UNCHANGED <<mainVars, watchVars, engVars, fileVars, drainVars, kind, dropped, left>>

(* The client goes away; the thread that polls its socket for that cancels *)
(* the context of the request.                                             *)
ClientDrops(c) ==
    /\ pc[c] = "executing"
    /\ ~dropped[c]
    /\ dropped' = [dropped EXCEPT ![c] = TRUE]
    /\ UNCHANGED <<mainVars, watchVars, engVars, fileVars, drainVars, pc, kind, using, left>>

EndExecute(c) ==
    /\ pc[c] = "executing"
    /\ kind[c] = "long" => cancelled \/ dropped[c]
    /\ Goto(c, "answered")
    /\ using' = [using EXCEPT ![c] = NoUse]
    /\ UNCHANGED <<mainVars, watchVars, engVars, fileVars, drainVars, kind, dropped, left>>

(* The response is written; keep-alive decides.                            *)
Answer(c) ==
    /\ pc[c] = "answered"
    /\ \E l \in {"reading", "leaving"} : Goto(c, l)
    /\ UNCHANGED <<mainVars, watchVars, engVars, fileVars, drainVars, kind, dropped, using, left>>

(* ~InFlightGuard lowers the count before it takes drain_mu_.              *)
LowerInFlight(c) ==
    /\ pc[c] = "leaving"
    /\ inFlight' = inFlight - 1
    /\ Goto(c, "lowered")
    /\ UNCHANGED <<mainVars, watchVars, engVars, fileVars, drainMu, kind, dropped, using, left>>

LockDrainMu(c) ==
    /\ pc[c] = "lowered"
    /\ drainMu = {}
    /\ drainMu' = {c}
    /\ Goto(c, "notifying")
    /\ UNCHANGED <<mainVars, watchVars, engVars, fileVars, inFlight, kind, dropped, using, left>>

(* notify_all() and the unlock; the waiter then evaluates its predicate.   *)
NotifyDrain(c) ==
    /\ pc[c] = "notifying"
    /\ drainMu' = {}
    /\ mainPc' = IF mainPc = "waiting" THEN "draining" ELSE mainPc
    /\ Goto(c, "done")
    /\ UNCHANGED <<running, cancelled, watchVars, engVars, fileVars, inFlight,
                   kind, dropped, using, left>>

HandlerStep(c) ==
    \/ ReadRequest(c) \/ ReadFails(c) \/ FindNoEngine(c) \/ BeginExecute(c) \/ EndExecute(c)
    \/ Answer(c) \/ LowerInFlight(c) \/ LockDrainMu(c) \/ NotifyDrain(c)

---------------------------------------------------------------------------

(* run() has returned and the handlers are through, which is where the     *)
(* process ends.                                                           *)
Terminated ==
    /\ mainPc \in {"gone", "failed"}
    /\ \A c \in Conns : pc[c] \in {"outside", "done"}
    /\ UNCHANGED vars

Next ==
    \/ MainStep \/ WatchStep
    \/ \E c \in Conns : Accept(c) \/ HandlerStep(c) \/ ClientDrops(c)
    \/ Edit \/ Tick \/ Stop \/ Terminated

Spec == Init /\ [][Next]_vars

(* Every thread of the process gets to run.  The world owes nothing: no    *)
(* client, no signal and no edit is fair.  Nor is the choice a handler     *)
(* makes between a further request and the end of its connection.          *)
FairSpec ==
    /\ Spec
    /\ WF_vars(MainStep)
    /\ WF_vars(WatchStep)
    /\ \A c \in Conns : WF_vars(HandlerStep(c))

---------------------------------------------------------------------------
(* Properties.                                                             *)

TypeOK ==
    /\ mainPc \in MainPcs /\ running \in BOOLEAN /\ cancelled \in BOOLEAN
    /\ drainMu \in SUBSET Conns /\ inFlight \in Nat
    /\ watchPc \in WatchPcs /\ lastMod \in Nat
    /\ fresh \in [gen : Nat, cfg : Nat, man : Nat]
    /\ engine \in [gen : Nat, cfg : Nat] /\ manager \in Nat /\ made \in Nat
    /\ closed \in SUBSET Nat /\ stopped \in SUBSET Nat
    /\ file \in [ver : Nat, ok : BOOLEAN, mtime : Nat] /\ clock \in Nat
    /\ broken \in SUBSET Nat /\ refused \in SUBSET Nat
    /\ pc \in [Conns -> ConnPcs]
    /\ kind \in [Conns -> {"short", "long"}]
    /\ dropped \in [Conns -> BOOLEAN]
    /\ using \in [Conns -> [eng : Nat, man : Nat]]
    /\ left \in [Conns -> Nat]

(* An execute never runs on an engine that was closed or with resources    *)
(* that were stopped, and the two always belong together: what the one     *)
(* window of engine_mu_ in execute_with_trace and the exclusive swap in    *)
(* reload_config are for.                                                  *)
ExecuteOnLiveEngine ==
    \A c \in Executing :
        /\ using[c].eng = using[c].man
        /\ using[c].eng \notin closed
        /\ using[c].man \notin stopped

(* While the server serves, the engine it hands out was built from a valid *)
(* file, is open, and has its own resources running, however many reloads  *)
(* succeeded, failed or are under way.                                     *)
GoodEngineServed ==
    mainPc \in {"loaded", "serving", "polling", "cancelling", "joining", "draining",
                "waiting"} =>
        /\ engine.cfg \notin broken
        /\ engine.gen = manager
        /\ engine.gen \notin closed
        /\ manager \notin stopped

(* When run() comes to the teardown nobody serves a request and no reload  *)
(* is under way, so that nothing it closes is in use.                      *)
QuietTeardown ==
    mainPc \in {"teardown", "returned", "gone"} =>
        /\ Handling = {}
        /\ watchPc \in {"off", "ended"}

(* A server that has returned has closed every engine and stopped every    *)
(* manager it ever built, each manager after the engine that borrows from  *)
(* it.                                                                     *)
NothingLeftRunning ==
    /\ mainPc \in {"returned", "gone"} => closed = 1..made /\ stopped = 1..made
    /\ stopped \subseteq closed

(* run() returns after a signal: cancelled requests end, the count comes   *)
(* to zero and the wait on drain_cv_ sees it.                              *)
ShutdownCompletes ==
    (mainPc \in {"serving", "polling"} /\ ~running) ~> mainPc = "gone"

(* A valid file with a newer modification time than the one the watcher    *)
(* has recorded is loaded or its reload is reported as failed, unless it   *)
(* is edited again or the server stops.  The swap waits for engine_mu_,    *)
(* which std::shared_mutex owes to no writer while readers keep coming:    *)
(* nothing is said of runs in which requests execute again and again.      *)
NewerFileIsServed ==
    \/ []<>(Executing # {})
    \/ \A v \in 1..MaxEdits :
           (file.ver = v /\ file.ok /\ file.mtime > lastMod /\ watchPc = "asleep" /\ running)
               ~> (engine.cfg = v \/ v \in refused \/ file.ver # v \/ ~running)

(* No handler touches the server once the destructor has freed it: what    *)
(* the comment on the drain says the wait is for.                          *)
NoTouchAfterFree ==
    mainPc = "gone" => \A c \in Conns : pc[c] \in {"outside", "done"}

(* When the file has come to rest and is valid, the server comes to serve  *)
(* it.                                                                     *)
ServesLastEdit ==
    <>[](running /\ file.ok) => <>[](engine.cfg = file.ver)

===============================================================================
