--------------------------- MODULE ResourceManager ---------------------------
(***************************************************************************)
(* The manager of dynamic resources (pine-cpp/src/resource/resource.cpp):  *)
(* one owner registers resources, starts and stops the manager, possibly   *)
(* several times; a started manager has a thread for every resource that   *)
(* is to be refreshed.                                                     *)
(*                                                                         *)
(* A value is the number of the fetch that produced it, 0 is the default   *)
(* ResourceValue.  mu_ is not a variable: start() and stop() hold it while *)
(* there is no refresh thread, and a refresh for one assignment.  Nor is   *)
(* stop_mu_, which keeps only the refresh threads apart: stop() notifies   *)
(* without it.  snapshot() and borrow() change nothing, and neither does   *)
(* a stop() of a manager that is not started.                              *)
(***************************************************************************)
EXTENDS Naturals, FiniteSets

CONSTANTS
    N,           \* number of resources, in the order of their names
    MaxStarts,   \* how often start() is called
    MaxFetches   \* how many fetches of a resource may succeed

Resources == 1 .. N
Runs      == 1 .. MaxStarts     \* the calls of start()

VARIABLES
    timed,       \* the resources with a positive interval
    handles,     \* the resources whose fetcher returns a handle
    registered,  \* the keys of resources_
    phase,       \* where the owner is
    todo,        \* the resources its loop has yet to visit
    starts,      \* calls of start() so far
    started,     \* started_
    stopping,    \* stopping_
    value,       \* Managed::value
    loaded,      \* the resources with Managed::loaded
    fetches,     \* fetches of a resource that have succeeded
    thread,      \* where the refresh thread of a resource and a start() is
    hand         \* the value it has fetched and not yet stored

declVars  == <<timed, handles, registered>>
ownerVars == <<phase, todo, starts, started, stopping>>
vars == <<declVars, ownerVars, value, loaded, fetches, thread, hand>>

(* broken: start() has thrown.  flagged: stopping_ is set, nobody is       *)
(* notified yet.                                                           *)
Idle   == {"new", "broken", "stopped"}
Phases == Idle \cup {"starting", "spawning", "up", "flagged", "joining"}

(* dozing: has found stopping_ false, does not sleep yet.  woken: about to *)
(* look again.                                                             *)
ThreadPcs == {"none", "head", "dozing", "asleep", "woken", "fetching", "storing", "ended"}

Alive(r) == {g \in Runs : thread[r][g] \notin {"none", "ended"}}

Goto(r, g, l) == thread' = [thread EXCEPT ![r][g] = l]

Earliest(r) == r \in todo /\ \A q \in todo : r <= q

Init ==
    /\ timed \in SUBSET Resources
    /\ handles \in SUBSET Resources
    /\ registered = {} /\ loaded = {} /\ todo = {}
    /\ phase = "new" /\ starts = 0
    /\ started = FALSE /\ stopping = FALSE
    /\ value = [r \in Resources |-> 0]
    /\ fetches = [r \in Resources |-> 0]
    /\ thread = [r \in Resources |-> [g \in Runs |-> "none"]]
    /\ hand = [r \in Resources |-> [g \in Runs |-> 0]]

---------------------------------------------------------------------------
(* The owner.                                                              *)

Register(r) ==
    /\ phase \in Idle
    /\ r \notin registered
    /\ registered' = registered \cup {r}
    /\ UNCHANGED <<timed, handles, ownerVars, value, loaded, fetches, thread, hand>>

BeginStart ==
    /\ phase \in Idle
    /\ starts < MaxStarts
    /\ phase' = "starting"
    /\ starts' = starts + 1
    /\ todo' = registered
    /\ UNCHANGED <<declVars, started, stopping, value, loaded, fetches, thread, hand>>

(* Mutated form: a first fetch that fails is left to the refresh thread.   *)
FetchFirstLeniently(r) ==
    /\ phase = "starting" /\ Earliest(r)
    /\ todo' = todo \ {r}
    /\ \/ /\ fetches[r] < MaxFetches
          /\ fetches' = [fetches EXCEPT ![r] = @ + 1]
          /\ value' = [value EXCEPT ![r] = fetches[r] + 1]
          /\ loaded' = loaded \cup {r}
       \/ UNCHANGED <<value, loaded, fetches>>
    /\ UNCHANGED <<declVars, phase, starts, started, stopping, thread, hand>>

(* The initial fetch of a resource.  If it fails start() throws, and what  *)
(* it has loaded stays.                                                    *)
FetchFirst(r) ==
    /\ phase = "starting" /\ Earliest(r)
    /\ \/ /\ fetches[r] < MaxFetches
          /\ fetches' = [fetches EXCEPT ![r] = @ + 1]
          /\ value' = [value EXCEPT ![r] = fetches[r] + 1]
          /\ loaded' = loaded \cup {r}
          /\ todo' = todo \ {r}
          /\ UNCHANGED phase
       \/ /\ phase' = "broken"
          /\ todo' = {}
          /\ UNCHANGED <<value, loaded, fetches>>
    /\ UNCHANGED <<declVars, starts, started, stopping, thread, hand>>

AllFetched ==
    /\ phase = "starting" /\ todo = {}
    /\ phase' = "spawning"
    /\ todo' = registered \cap timed
    /\ started' = TRUE
    /\ UNCHANGED <<declVars, starts, stopping, value, loaded, fetches, thread, hand>>

Spawn(r) ==
    /\ phase = "spawning" /\ Earliest(r)
    /\ todo' = todo \ {r}
    /\ Goto(r, starts, "head")
    /\ UNCHANGED <<declVars, phase, starts, started, stopping, value, loaded, fetches, hand>>

AllSpawned ==
    /\ phase = "spawning" /\ todo = {}
    /\ phase' = "up"
    /\ UNCHANGED <<declVars, todo, starts, started, stopping, value, loaded, fetches, thread, hand>>

BeginStop ==
    /\ phase = "up"
    /\ phase' = "flagged"
    /\ stopping' = TRUE
    /\ UNCHANGED <<declVars, todo, starts, started, value, loaded, fetches, thread, hand>>

(* Everybody who waits for stop_cv_ looks again.                           *)
Awakened ==
    [r \in Resources |-> [g \in Runs |->
        IF thread[r][g] = "asleep" THEN "woken" ELSE thread[r][g]]]

(* Mutated form: the flag is taken back before the threads are joined.     *)
NotifyAndUnflag ==
    /\ phase = "flagged"
    /\ phase' = "joining"
    /\ stopping' = FALSE
    /\ thread' = Awakened
    /\ UNCHANGED <<declVars, todo, starts, started, value, loaded, fetches, hand>>

(* A thread that is dozing misses the notification and sleeps for its      *)
(* whole interval.                                                         *)
NotifyAll ==
    /\ phase = "flagged"
    /\ phase' = "joining"
    /\ thread' = Awakened
    /\ UNCHANGED <<declVars, todo, starts, started, stopping, value, loaded, fetches, hand>>

(* Handles are released, data values stay.                                 *)
Release ==
    /\ value' = [r \in Resources |-> IF r \in loaded \cap handles THEN 0 ELSE value[r]]
    /\ loaded' = loaded \ handles
    /\ started' = FALSE

(* Mutated forms: the threads are detached; the flag is not taken back.    *)
JoinNobody ==
    /\ phase = "joining"
    /\ Release
    /\ phase' = "stopped" /\ stopping' = FALSE
    /\ UNCHANGED <<declVars, todo, starts, fetches, thread, hand>>
JoinStaysFlagged ==
    /\ phase = "joining"
    /\ \A r \in Resources : Alive(r) = {}
    /\ Release
    /\ phase' = "stopped"
    /\ UNCHANGED <<declVars, todo, starts, stopping, fetches, thread, hand>>

Join ==
    /\ phase = "joining"
    /\ \A r \in Resources : Alive(r) = {}
    /\ Release
    /\ phase' = "stopped" /\ stopping' = FALSE
    /\ UNCHANGED <<declVars, todo, starts, fetches, thread, hand>>

(* What the owner does once it is inside start() or stop().                *)
OwnerStep ==
    \/ \E r \in Resources : FetchFirst(r) \/ Spawn(r)
    \/ AllFetched \/ AllSpawned \/ NotifyAll \/ Join

---------------------------------------------------------------------------
(* refresh_loop.                                                           *)

(* The head of the loop and the predicate of wait_for.                     *)
Test(r, g) ==
    /\ thread[r][g] = "head"
    /\ Goto(r, g, IF stopping THEN "ended" ELSE "dozing")
    /\ UNCHANGED <<declVars, ownerVars, value, loaded, fetches, hand>>

Sleep(r, g) ==
    /\ thread[r][g] = "dozing"
    /\ Goto(r, g, "asleep")
    /\ UNCHANGED <<declVars, ownerVars, value, loaded, fetches, hand>>

TimesOut(r, g) ==
    /\ thread[r][g] = "asleep"
    /\ Goto(r, g, IF stopping THEN "ended" ELSE "fetching")
    /\ UNCHANGED <<declVars, ownerVars, value, loaded, fetches, hand>>

SpuriousWake(r, g) ==
    /\ thread[r][g] = "asleep"
    /\ Goto(r, g, "woken")
    /\ UNCHANGED <<declVars, ownerVars, value, loaded, fetches, hand>>

Woken(r, g) ==
    /\ thread[r][g] = "woken"
    /\ Goto(r, g, IF stopping THEN "ended" ELSE "asleep")
    /\ UNCHANGED <<declVars, ownerVars, value, loaded, fetches, hand>>

(* A fetch that fails leaves the old value.                                *)
Fetch(r, g) ==
    /\ thread[r][g] = "fetching"
    /\ \/ /\ fetches[r] < MaxFetches
          /\ fetches' = [fetches EXCEPT ![r] = @ + 1]
          /\ hand' = [hand EXCEPT ![r][g] = fetches[r] + 1]
          /\ Goto(r, g, "storing")
       \/ /\ Goto(r, g, "head")
          /\ UNCHANGED <<fetches, hand>>
    /\ UNCHANGED <<declVars, ownerVars, value, loaded>>

Store(r, g) ==
    /\ thread[r][g] = "storing"
    /\ value' = [value EXCEPT ![r] = hand[r][g]]
    /\ Goto(r, g, "head")
    /\ UNCHANGED <<declVars, ownerVars, loaded, fetches, hand>>

RefreshStep(r, g) ==
    Test(r, g) \/ Sleep(r, g) \/ TimesOut(r, g) \/ Woken(r, g) \/ Fetch(r, g) \/ Store(r, g)

Next ==
    \/ OwnerStep \/ BeginStart \/ BeginStop
    \/ \E r \in Resources : Register(r)
    \/ \E r \in Resources, g \in Runs : RefreshStep(r, g) \/ SpuriousWake(r, g)

Spec == Init /\ [][Next]_vars

(* The owner finishes what it has begun, but need not begin; intervals     *)
(* pass and fetchers return, by their socket timeouts if need be.          *)
Fairness ==
    /\ WF_vars(OwnerStep)
    /\ \A r \in Resources, g \in Runs : WF_vars(RefreshStep(r, g))

FairSpec == Spec /\ Fairness

---------------------------------------------------------------------------
(* Properties.                                                             *)

(* The variables have their types, and a resource is called loaded if and  *)
(* only if it has a value that was fetched: borrow() and snapshot() hand   *)
(* out no default one.                                                     *)
TypeOK ==
    /\ timed \subseteq Resources /\ handles \subseteq Resources
    /\ registered \subseteq Resources /\ todo \subseteq registered
    /\ phase \in Phases /\ starts \in 0 .. MaxStarts
    /\ started \in BOOLEAN /\ stopping \in BOOLEAN
    /\ fetches \in [Resources -> 0 .. MaxFetches]
    /\ value \in [Resources -> 0 .. MaxFetches]
    /\ loaded = {r \in Resources : value[r] # 0}
    /\ thread \in [Resources -> [Runs -> ThreadPcs]]
    /\ hand \in [Resources -> [Runs -> 0 .. MaxFetches]]

(* While the manager is started every registered resource is loaded,       *)
(* whatever fetches fail (start() throws, refresh_loop keeps the value).   *)
StartedIsComplete == started => registered = loaded

(* Each resource with an interval has exactly one refresh thread while the *)
(* manager is up, after however many starts and stops, and none is left    *)
(* when stop() has returned or start() has thrown.                         *)
OneRefresher ==
    \A r \in Resources :
        /\ \A g, h \in Alive(r) : g = h
        /\ phase = "up" => (Alive(r) # {} <=> r \in registered \cap timed)
        /\ phase \in Idle => Alive(r) = {}

(* A resource never goes back to a value fetched earlier: no late store of *)
(* a refresh overwrites a newer value, that of a new start() included.     *)
NeverOlder ==
    [][\A r \in Resources : value'[r] # 0 => value'[r] >= value[r]]_vars

(* stop() returns, although the notification may be missed.                *)
StopReturns == (phase = "flagged") ~> (phase = "stopped")
==============================================================================
