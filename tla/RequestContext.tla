---------------------------- MODULE RequestContext ----------------------------
(***************************************************************************)
(* Cancellation of request contexts (pine-cpp/src/runtime/                 *)
(* request_context.cpp): a tree of ContextSignals, each linked to its      *)
(* parent by a std::stop_callback, and the DeadlineTimer thread.           *)
(*                                                                         *)
(* Owner threads create, cancel and drop the signals.  cancel() runs the   *)
(* callbacks of the children on the thread that calls it, so that one      *)
(* thread may be inside cancel() of a whole branch while others are inside *)
(* others.  Whoever wins the exchange on cause_ carries that signal's      *)
(* cancel() out; therefore one program counter per signal is enough.       *)
(***************************************************************************)
EXTENDS Naturals

CONSTANTS
    N,            \* number of contexts
    MaxClock,     \* the last instant considered
    Shapes        \* the trees, with the deadlines asked for

Signals == 1 .. N
Never   == MaxClock + 1

AllShapes == [parent : {f \in [Signals -> 0 .. N] : \A s \in Signals : f[s] < s},
              dl     : [Signals -> 1 .. Never]]

ASSUME ContextAssumption == N \in Nat /\ MaxClock \in Nat /\ Shapes \subseteq AllShapes

VARIABLES
    parent,    \* the tree; 0 is the background context
    dl,        \* the deadline asked for
    clock,
    life,      \* what the owner of a signal is doing
    cause,     \* cause_
    by,        \* who won the exchange on cause_
    cpc,       \* where the winner is in cancel()
    cb,        \* the callback in parent_link_
    timerId,   \* the signals whose timer_id_ is set
    entries,   \* the entries of the timer
    due,       \* the entries it has taken out and not yet dealt with
    tPc,       \* where the timer thread is
    tUntil     \* the instant it waits for

cancelVars == <<cause, by, cpc>>
timerVars  == <<entries, due, tPc, tUntil>>
vars == <<parent, dl, clock, life, cancelVars, cb, timerId, timerVars>>

(* linking: inside link().  linked: before arm_deadline.  storing: has an  *)
(* entry in the timer, not yet in timer_id_.  unlinked: in the destructor. *)
Lives == {"unborn", "linking", "linked", "adding", "storing", "storingLate", "checking",
          "live", "dying", "unlinked", "dead"}
CancelPcs == {"idle", "caused", "stopping", "removing", "releasing", "done"}

Ancestors(s) ==
    LET up[x \in 0 .. N] == IF x = 0 THEN {} ELSE {x} \cup up[parent[x]]
    IN  up[parent[s]]
Children(s) == {c \in Signals : parent[c] = s}

StopRequested(s) == cpc[s] \notin {"idle", "caused"}

(* with_deadline falls back to with_cancel under an earlier deadline.      *)
Arms(s) == dl[s] # Never /\ \A a \in Ancestors(s) : dl[a] > dl[s]

Become(s, l) == life' = [life EXCEPT ![s] = l]
Goto(s, l)   == cpc' = [cpc EXCEPT ![s] = l]
Set(s, c)    == cb' = [cb EXCEPT ![s] = c]

(* The exchange on cause_, which only the first caller wins.               *)
Win(s, c, who) ==
    /\ cause' = [cause EXCEPT ![s] = c]
    /\ by' = [by EXCEPT ![s] = who]
    /\ Goto(s, "caused")

(* What the winner does runs on the stack of its caller.                   *)
CallOver(s) == by[s] # "nobody" => cpc[s] = "done"

Init ==
    /\ \E shape \in Shapes : parent = shape.parent /\ dl = shape.dl
    /\ clock = 0
    /\ life = [s \in Signals |-> "unborn"]
    /\ cause = [s \in Signals |-> "none"]
    /\ by = [s \in Signals |-> "nobody"]
    /\ cpc = [s \in Signals |-> "idle"]
    /\ cb = [s \in Signals |-> "none"]
    /\ timerId = {}
    /\ entries = {} /\ due = {} /\ tPc = "scan" /\ tUntil = Never

Tick ==
    /\ clock < MaxClock
    /\ clock' = clock + 1
    /\ UNCHANGED <<life, cancelVars, cb, timerId, timerVars>>

---------------------------------------------------------------------------
(* Creation: link() and arm_deadline().                                    *)

(* Mutated form: a parent that is already done is not noticed.             *)
CreateBlindly(s) ==
    /\ life[s] = "unborn" /\ (parent[s] # 0 => life[parent[s]] = "live")
    /\ Become(s, "linking")
    /\ Set(s, IF parent[s] = 0 THEN "none" ELSE "registered")
    /\ UNCHANGED <<clock, cancelVars, timerId, timerVars>>

(* The stop_callback registers, or runs at once if the parent has been     *)
(* asked to stop.                                                          *)
Create(s) ==
    /\ life[s] = "unborn" /\ (parent[s] # 0 => life[parent[s]] = "live")
    /\ Become(s, "linking")
    /\ \/ parent[s] = 0 /\ UNCHANGED <<cb, cancelVars>>
       \/ /\ parent[s] # 0 /\ ~StopRequested(parent[s])
          /\ Set(s, "registered") /\ UNCHANGED cancelVars
       \/ /\ parent[s] # 0 /\ StopRequested(parent[s])
          /\ Set(s, "over") /\ Win(s, cause[parent[s]], "link")
    /\ UNCHANGED <<clock, timerId, timerVars>>

Linked(s) ==
    /\ life[s] = "linking"
    /\ by[s] = "link" => CallOver(s)
    /\ Become(s, IF Arms(s) THEN "linked" ELSE "live")
    /\ UNCHANGED <<clock, cancelVars, cb, timerId, timerVars>>

(* arm_deadline up to the timer: nothing to do for a context that is done, *)
(* and an instant that has passed is not worth an entry.                   *)
Arm(s) ==
    /\ life[s] = "linked"
    /\ \/ cause[s] # "none" /\ Become(s, "live") /\ UNCHANGED cancelVars
       \/ cause[s] = "none" /\ dl[s] <= clock /\ Become(s, "live") /\ Win(s, "deadline", "owner")
       \/ cause[s] = "none" /\ dl[s] > clock /\ Become(s, "adding") /\ UNCHANGED cancelVars
    /\ UNCHANGED <<clock, cb, timerId, timerVars>>

(* Mutated form: the timer thread is not woken for an earlier deadline.    *)
AddEntryQuietly(s) ==
    /\ life[s] = "adding"
    /\ Become(s, "storing")
    /\ entries' = entries \cup {s}
    /\ UNCHANGED <<clock, cancelVars, cb, timerId, due, tPc, tUntil>>

(* DeadlineTimer::add notifies if the new entry comes first.               *)
AddEntry(s) ==
    /\ life[s] = "adding"
    /\ Become(s, "storing")
    /\ entries' = entries \cup {s}
    /\ tPc' = IF tPc = "waiting" /\ \A e \in entries : dl[s] < dl[e] THEN "scan" ELSE tPc
    /\ UNCHANGED <<clock, cancelVars, cb, timerId, due, tUntil>>

StoreTimerId(s) ==
    /\ life[s] \in {"storing", "storingLate"}
    /\ timerId' = timerId \cup {s}
    /\ Become(s, IF life[s] = "storing" THEN "checking" ELSE "live")
    /\ UNCHANGED <<clock, cancelVars, cb, timerVars>>

(* A release store followed by an acquire load of another atomic: the load *)
(* may find cause_ unset before timer_id_ is visible to anybody.           *)
CheckBeforeStore(s) ==
    /\ life[s] = "storing" /\ cause[s] = "none"
    /\ Become(s, "storingLate")
    /\ UNCHANGED <<clock, cancelVars, cb, timerId, timerVars>>

CheckAgain(s) ==
    /\ life[s] = "checking"
    /\ entries' = IF cause[s] # "none" THEN entries \ {s} ELSE entries
    /\ Become(s, "live")
    /\ UNCHANGED <<clock, cancelVars, cb, timerId, due, tPc, tUntil>>

---------------------------------------------------------------------------
(* cancel().                                                               *)

(* Cancelable::cancel, also from its destructor.                           *)
OwnerCancels(s) ==
    /\ life[s] = "live" /\ cause[s] = "none"
    /\ Win(s, "canceled", "owner")
    /\ UNCHANGED <<clock, life, cb, timerId, timerVars>>

RequestStop(s) ==
    /\ cpc[s] = "caused"
    /\ Goto(s, "stopping")
    /\ UNCHANGED <<clock, life, cause, by, cb, timerId, timerVars>>

(* request_stop takes the callbacks off its list and runs them in turn.    *)
RunCallback(s) ==
    /\ cpc[s] = "stopping"
    /\ \A c \in Children(s) : cb[c] # "running"
    /\ \E c \in Children(s) : cb[c] = "registered" /\ Set(c, "running")
    /\ UNCHANGED <<clock, life, cancelVars, timerId, timerVars>>

(* Mutated forms: the parent's cause overrides the child's; the child is   *)
(* always "canceled".                                                      *)
ParentFiredOverwrites(s) ==
    /\ cb[s] = "running" /\ by[s] # "parent"
    /\ Win(s, cause[parent[s]], "parent")
    /\ UNCHANGED <<clock, life, cb, timerId, timerVars>>
ParentFiredCanceled(s) ==
    /\ cb[s] = "running" /\ cause[s] = "none"
    /\ Win(s, "canceled", "parent")
    /\ UNCHANGED <<clock, life, cb, timerId, timerVars>>

ParentFired(s) ==
    /\ cb[s] = "running" /\ cause[s] = "none"
    /\ Win(s, cause[parent[s]], "parent")
    /\ UNCHANGED <<clock, life, cb, timerId, timerVars>>

(* Mutated form: a callback that lost the exchange waits for the winner,   *)
(* so that all descendants are done when cancel() returns.                 *)
CallbackWaits(s) ==
    /\ cb[s] = "running" /\ cpc[s] = "done"
    /\ Set(s, "over")
    /\ UNCHANGED <<clock, life, cancelVars, timerId, timerVars>>

(* The callback returns: it lost the exchange, or has carried it through.  *)
CallbackReturns(s) ==
    /\ cb[s] = "running" /\ cause[s] # "none"
    /\ by[s] = "parent" => CallOver(s)
    /\ Set(s, "over")
    /\ UNCHANGED <<clock, life, cancelVars, timerId, timerVars>>

AllFired(s) ==
    /\ cpc[s] = "stopping"
    /\ \A c \in Children(s) : cb[c] \notin {"registered", "running"}
    /\ Goto(s, "removing")
    /\ UNCHANGED <<clock, life, cause, by, cb, timerId, timerVars>>

(* From the parent's callback the link is the callback being run, and is   *)
(* left to the destructor.                                                 *)
RemoveEntry(s) ==
    /\ cpc[s] = "removing"
    /\ entries' = IF s \in timerId THEN entries \ {s} ELSE entries
    /\ Goto(s, IF by[s] \in {"parent", "link"} THEN "done" ELSE "releasing")
    /\ UNCHANGED <<clock, life, cause, by, cb, timerId, due, tPc, tUntil>>

(* ~Link takes the callback off the parent's list, or waits for it to      *)
(* return if it is running on another thread.                              *)
Unlink(s) == cb[s] # "running" /\ Set(s, "none")

ReleaseLink(s) ==
    /\ cpc[s] = "releasing"
    /\ Unlink(s)
    /\ Goto(s, "done")
    /\ UNCHANGED <<clock, life, cause, by, timerId, timerVars>>

CancelStep(s) ==
    \/ RequestStop(s) \/ RunCallback(s) \/ ParentFired(s) \/ CallbackReturns(s)
    \/ AllFired(s) \/ RemoveEntry(s) \/ ReleaseLink(s)

---------------------------------------------------------------------------
(* Destruction.                                                            *)

(* The last reference goes: the Cancelable has cancelled, no child's link  *)
(* refers to this signal, and no thread is in a cancel() it was given.     *)
Drop(s) ==
    /\ life[s] = "live" /\ cause[s] # "none"
    /\ by[s] # "parent" => CallOver(s)
    /\ \A c \in Children(s) : cb[c] = "none"
    /\ Become(s, "dying")
    /\ UNCHANGED <<clock, cancelVars, cb, timerId, timerVars>>

(* Mutated form: the link does not wait for a callback that is running.    *)
DestroyWithoutWait(s) ==
    /\ life[s] = "dying"
    /\ cb[s] # "running" => Set(s, "none")
    /\ cb[s] = "running" => UNCHANGED cb
    /\ Become(s, "unlinked")
    /\ UNCHANGED <<clock, cancelVars, timerId, timerVars>>

(* ~ContextSignal: the link first, while every member is alive.            *)
DestroyLink(s) ==
    /\ life[s] = "dying"
    /\ Unlink(s)
    /\ Become(s, "unlinked")
    /\ UNCHANGED <<clock, cancelVars, timerId, timerVars>>

DestroyEntry(s) ==
    /\ life[s] = "unlinked"
    /\ entries' = IF s \in timerId THEN entries \ {s} ELSE entries
    /\ Become(s, "dead")
    /\ UNCHANGED <<clock, cancelVars, cb, timerId, due, tPc, tUntil>>

OwnerStep(s) ==
    \/ Linked(s) \/ Arm(s) \/ AddEntry(s) \/ StoreTimerId(s) \/ CheckAgain(s)
    \/ DestroyLink(s) \/ DestroyEntry(s)

---------------------------------------------------------------------------
(* DeadlineTimer::loop.                                                    *)

Sleep ==
    /\ tPc = "scan"
    /\ \A e \in entries : dl[e] > clock
    /\ tPc' = "waiting"
    /\ \/ entries = {} /\ tUntil' = Never
       \/ \E e \in entries : (\A f \in entries : dl[e] <= dl[f]) /\ tUntil' = dl[e]
    /\ UNCHANGED <<clock, life, cancelVars, cb, timerId, entries, due>>

Wake ==
    /\ tPc = "waiting" /\ tUntil <= clock
    /\ tPc' = "scan"
    /\ UNCHANGED <<clock, life, cancelVars, cb, timerId, entries, due, tUntil>>

TakeDue ==
    /\ tPc = "scan"
    /\ \E e \in entries : dl[e] <= clock
    /\ due' = {e \in entries : dl[e] <= clock}
    /\ entries' = entries \ due'
    /\ tPc' = "firing"
    /\ UNCHANGED <<clock, life, cancelVars, cb, timerId, tUntil>>

Free == tPc = "firing" /\ \A t \in Signals : by[t] = "timer" => CallOver(t)

(* The weak pointer is locked and the signal cancelled; one that is gone   *)
(* or done already is passed over.                                         *)
Fire(s) ==
    /\ Free
    /\ s \in due /\ due' = due \ {s}
    /\ \/ cause[s] = "none" /\ Win(s, "deadline", "timer")
       \/ cause[s] # "none" /\ UNCHANGED cancelVars
    /\ UNCHANGED <<clock, life, cb, timerId, entries, tPc, tUntil>>

FiredAll ==
    /\ Free
    /\ due = {}
    /\ tPc' = "scan"
    /\ UNCHANGED <<clock, life, cancelVars, cb, timerId, entries, due, tUntil>>

TimerStep == Sleep \/ Wake \/ TakeDue \/ FiredAll \/ \E s \in Signals : Fire(s)

---------------------------------------------------------------------------
Next ==
    /\ \/ \E s \in Signals :
              \/ Create(s) \/ OwnerStep(s) \/ CheckBeforeStore(s)
              \/ OwnerCancels(s) \/ CancelStep(s) \/ Drop(s)
       \/ TimerStep
       \/ Tick
    /\ UNCHANGED <<parent, dl>>

Spec == Init /\ [][Next]_vars

(* Every thread that is inside the library gets on, and time passes.       *)
(* Nobody need create, cancel or drop a context.                           *)
FairSpec ==
    /\ Spec
    /\ \A s \in 1 .. N : WF_vars(OwnerStep(s) /\ UNCHANGED <<parent, dl>>)
    /\ \A s \in 1 .. N : WF_vars(CancelStep(s) /\ UNCHANGED <<parent, dl>>)
    /\ WF_vars(TimerStep /\ UNCHANGED <<parent, dl>>)
    /\ WF_vars(Tick /\ UNCHANGED <<parent, dl>>)

---------------------------------------------------------------------------
(* Properties.                                                             *)

(* The variables have their types.                                         *)
TypeOK ==
    /\ parent \in [Signals -> 0 .. N] /\ dl \in [Signals -> 1 .. Never] /\ clock \in 0 .. MaxClock
    /\ life \in [Signals -> Lives]
    /\ cause \in [Signals -> {"none", "canceled", "deadline"}]
    /\ by \in [Signals -> {"nobody", "owner", "link", "parent", "timer"}]
    /\ cpc \in [Signals -> CancelPcs]
    /\ cb \in [Signals -> {"none", "registered", "running", "over"}]
    /\ timerId \subseteq Signals /\ entries \subseteq Signals /\ due \subseteq Signals
    /\ tPc \in {"scan", "waiting", "firing"} /\ tUntil \in 1 .. Never

(* The first cause stays, whoever else cancels (cancel()'s exchange):      *)
(* err() does not change its mind between two looks.                       *)
FirstCauseStays ==
    [][\A s \in Signals : cause[s] # "none" => cause'[s] = cause[s]]_vars

(* When the cancel() that won has returned, every context derived from the *)
(* cancelled one is done, those included that were created meanwhile,      *)
(* unless some context between them is still inside a cancel() of another  *)
(* thread, which will reach it.                                            *)
CancelReachesDescendants ==
    \A s, c \in Signals :
        cpc[s] = "done" /\ s \in Ancestors(c) /\ life[c] \notin {"unborn", "dead"}
            => \/ cause[c] # "none"
               \/ \E a \in Ancestors(c) : s \in Ancestors(a) /\ cpc[a] \notin {"idle", "done"}

(* No context claims an exceeded deadline (arm_deadline, the timer) before *)
(* one of its own or of an ancestor's has passed, and one that its parent  *)
(* cancelled gives its parent's cause.                                     *)
CauseIsTrue ==
    \A s \in Signals :
        /\ cause[s] = "deadline" => \E a \in Ancestors(s) \cup {s} : dl[a] <= clock
        /\ by[s] \in {"parent", "link"} => cause[s] = cause[parent[s]]

(* A context that is gone (~ContextSignal) has nothing left behind: no     *)
(* callback in its parent, none running, no entry in the timer.            *)
DeadLeavesNothing ==
    \A s \in Signals : life[s] \in {"unlinked", "dead"} =>
        /\ cb[s] = "none" /\ cpc[s] = "done"
        /\ life[s] = "dead" => s \notin entries

(* "An entry is removed as soon as its context is done": when cancel() and *)
(* arm_deadline are through, a context that is done has no entry.          *)
DoneLeavesNoEntry ==
    \A s \in Signals :
        cpc[s] = "done" /\ life[s] \notin {"storing", "storingLate", "checking"} => s \notin entries

(* A context whose deadline has passed ends (DeadlineTimer::loop): always  *)
(* again no live context is past its own deadline and not done.            *)
DeadlineEnds ==
    []<>(\A s \in Signals : life[s] = "live" /\ dl[s] <= clock => cause[s] # "none")

(* Every cancel() returns, whatever else is being cancelled: nobody waits  *)
(* for a callback that waits for him (release_link).                       *)
CancelReturns ==
    []<>(\A s \in Signals : cpc[s] \in {"idle", "done"})
===============================================================================
