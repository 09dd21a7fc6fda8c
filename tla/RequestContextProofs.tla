------------------------- MODULE RequestContextProofs -------------------------
(***************************************************************************)
(* Cancellation of request contexts, for every tree of contexts, every     *)
(* deadline and every moment at which owners, parents and the timer meet.  *)
(***************************************************************************)
EXTENDS RequestContext, WellFoundedInduction, TLAPS

(* A parent is older than its children.                                    *)
TreeInv == \A s \in Signals : parent[s] < s

(* Who has won the exchange on cause_ of a signal, and has its cause from  *)
(* whom.                                                                   *)
WonInv ==
    \A s \in Signals :
        /\ cause[s] = "none" <=> cpc[s] = "idle"
        /\ by[s] = "nobody" <=> cpc[s] = "idle"
        /\ by[s] \in {"parent", "link"} =>
              parent[s] # 0 /\ cause[parent[s]] # "none" /\ cause[s] = cause[parent[s]]

(* A deadline that is given as a cause has passed.                         *)
PassedInv ==
    /\ \A e \in due : dl[e] <= clock
    /\ \A s \in Signals : cause[s] = "deadline" => \E a \in Ancestors(s) \cup {s} : dl[a] <= clock

(* The callback of a signal in its parent: it runs only while the parent   *)
(* runs its callbacks, a signal whose callback is no longer there is done, *)
(* and so is one whose parent has run them all.                            *)
LinkInv ==
    \A s \in Signals :
        /\ cb[s] # "none" => parent[s] # 0
        /\ cb[s] = "running" => cpc[parent[s]] = "stopping"
        /\ by[s] = "parent" /\ cpc[s] # "done" => cb[s] = "running"
        /\ life[s] # "unborn" /\ parent[s] # 0 =>
              /\ life[parent[s]] # "unborn"
              /\ cb[s] \in {"none", "over"} => cause[s] # "none"
              /\ cpc[parent[s]] \in {"removing", "releasing", "done"} => cause[s] # "none"

(* An entry in the timer has its number in timer_id_ once its owner is     *)
(* through arm_deadline.                                                   *)
EntryInv ==
    /\ \A s \in entries \cup due : life[s] \notin {"unborn", "linking", "linked", "adding"}
    /\ \A s \in entries : life[s] \in {"checking", "live", "dying", "unlinked"} => s \in timerId

LifeInv ==
    \A s \in Signals :
        /\ life[s] = "unborn" => cpc[s] = "idle" /\ cb[s] = "none"
        /\ life[s] = "dying" => cause[s] # "none" /\ (by[s] # "parent" => cpc[s] = "done")

IInv == TypeOK /\ TreeInv /\ WonInv /\ PassedInv /\ LinkInv /\ EntryInv /\ LifeInv /\ DeadLeavesNothing

---------------------------------------------------------------------------
(* Ancestors.                                                              *)

(* A nonempty set of natural numbers has a least element.                  *)
LEMMA LeastNatural ==
    ASSUME NEW T, T \subseteq Nat, T # {}
    PROVE  \E m \in T : \A n \in T : m <= n
<1>1. PICK m \in T : \A n \in T : ~(<<n, m>> \in OpToRel(<, Nat))
  BY NatLessThanWellFounded, WFMin
<1>2. \A n \in T : ~(n < m)
  BY <1>1 DEF OpToRel
<1> QED
  BY <1>2

(* The function that Ancestors defines, as far as k.                       *)
UpTo(k, f) == f = [x \in 0 .. k |-> IF x = 0 THEN {} ELSE {x} \cup f[parent[x]]]

(* Every signal's parent is older, therefore there is such a function.     *)
LEMMA UpExists ==
    ASSUME TypeOK, TreeInv
    PROVE  \E f : UpTo(N, f)
<1> DEFINE T == {k \in 0 .. N : ~ \E f : UpTo(k, f)}
<1>1. SUFFICES ASSUME T # {}
               PROVE  FALSE
  BY ContextAssumption
<1> T \subseteq Nat
  OBVIOUS
<1> HIDE DEF T
<1>2. PICK k \in T : \A n \in T : k <= n
  BY <1>1, LeastNatural
<1> USE DEF T
<1>3. CASE k = 0
  <2> DEFINE f == [x \in 0 .. 0 |-> {}]
  <2>1. f = [x \in 0 .. 0 |-> IF x = 0 THEN {} ELSE {x} \cup f[parent[x]]]
    OBVIOUS
  <2> QED
    BY <2>1, <1>2, <1>3 DEF UpTo
<1>4. CASE k # 0
  <2>1. k - 1 \in 0 .. N /\ k \in 1 .. N /\ k - 1 < k
    BY <1>2, <1>4, ContextAssumption
  <2>2. k - 1 \notin T
    BY <2>1, <1>2
  <2>3. PICK f : UpTo(k - 1, f)
    BY <2>1, <2>2
  <2> DEFINE g == [x \in 0 .. k |-> IF x = k THEN {k} \cup f[parent[k]] ELSE f[x]]
  <2>4. ASSUME NEW x \in 0 .. k
        PROVE  g[x] = IF x = 0 THEN {} ELSE {x} \cup g[parent[x]]
    <3>1. CASE x = k
      <4>1. parent[k] \in 0 .. k - 1
        BY <2>1 DEF TypeOK, TreeInv, Signals
      <4>2. g[parent[k]] = f[parent[k]]
        BY <4>1, <2>1
      <4>3. g[k] = {k} \cup f[parent[k]]
        BY <2>1
      <4> HIDE DEF g
      <4> QED
        BY <3>1, <4>2, <4>3, <1>4
    <3>2. CASE x # k /\ x # 0
      <4>1. x \in 1 .. k - 1 /\ x \in Signals
        <5> HIDE DEF g
        <5> QED
          BY <2>1, <3>2, ContextAssumption DEF Signals
      <4>2. parent[x] \in 0 .. k - 1 /\ parent[x] \in 0 .. k /\ parent[x] # k
        BY <2>1, <4>1 DEF TypeOK, TreeInv, Signals
      <4>3. g[parent[x]] = f[parent[x]] /\ g[x] = f[x]
        BY <4>1, <4>2, <3>2, <2>1
      <4>4. x \in 0 .. k - 1 /\ x # 0
        BY <4>1, <3>2, <2>1
      <4>5. f[x] = {x} \cup f[parent[x]]
        BY <4>4, <2>3 DEF UpTo
      <4> HIDE DEF g
      <4> QED
        BY <4>3, <4>5, <3>2
    <3>3. CASE x = 0 /\ x # k
      <4>1. g[0] = f[0]
        BY <3>3, <2>1
      <4>2. f[0] = {}
        BY <2>1, <2>3 DEF UpTo
      <4> QED
        BY <4>1, <4>2, <3>3
    <3> QED
      BY <3>1, <3>2, <3>3
  <2>5. g = [x \in 0 .. k |-> IF x = 0 THEN {} ELSE {x} \cup g[parent[x]]]
    BY <2>4
  <2>6. UpTo(k, g)
    BY <2>5 DEF UpTo
  <2> QED
    BY <2>6, <1>2
<1> QED
  BY <1>3, <1>4

(* A signal's ancestors are its parent and its parent's ancestors.         *)
LEMMA AncestorsUnfold ==
    ASSUME TypeOK, TreeInv, NEW s \in Signals
    PROVE  /\ parent[s] = 0 => Ancestors(s) = {}
           /\ parent[s] # 0 =>
                 parent[s] \in Signals /\ Ancestors(s) = {parent[s]} \cup Ancestors(parent[s])
<1> DEFINE up == CHOOSE f : UpTo(N, f)
<1>1. UpTo(N, up)
  BY UpExists
<1>2. \A x \in 0 .. N : up[x] = IF x = 0 THEN {} ELSE {x} \cup up[parent[x]]
  BY <1>1 DEF UpTo
<1>3. \A x : Ancestors(x) = up[parent[x]]
  BY DEF Ancestors, UpTo
<1>4. parent[s] \in 0 .. N /\ (parent[s] # 0 => parent[s] \in Signals)
  BY ContextAssumption DEF TypeOK, Signals
<1> HIDE DEF up
<1> QED
  BY <1>2, <1>3, <1>4

(* Ancestors are signals, and older.                                       *)
LEMMA AncestorsAreSignals ==
    ASSUME TypeOK, TreeInv, NEW s \in Signals
    PROVE  \A a \in Ancestors(s) : a \in Signals /\ a < s
<1> DEFINE T == {x \in Signals : ~ \A a \in Ancestors(x) : a \in Signals /\ a < x}
<1>1. SUFFICES ASSUME T # {}
               PROVE  FALSE
  OBVIOUS
<1>2. T \subseteq Nat
  BY ContextAssumption DEF Signals
<1> HIDE DEF T
<1>3. PICK x \in T : \A y \in T : x <= y
  BY <1>1, <1>2, LeastNatural
<1> USE DEF T
<1>4. x \in Signals /\ x \in Nat
  BY <1>2
<1>5. CASE parent[x] = 0
  BY <1>5, <1>4, AncestorsUnfold
<1>6. CASE parent[x] # 0
  <2>1. parent[x] \in Signals /\ Ancestors(x) = {parent[x]} \cup Ancestors(parent[x])
    BY <1>6, <1>4, AncestorsUnfold
  <2>2. parent[x] < x /\ parent[x] \in Nat
    BY <1>4, <2>1, ContextAssumption DEF TreeInv, Signals
  <2>3. parent[x] \notin T
    BY <1>3, <1>4, <2>2
  <2>4. \A a \in Ancestors(parent[x]) : a \in Signals /\ a < parent[x]
    BY <2>1, <2>3
  <2>5. \A a \in Signals : a < parent[x] => a < x
    BY <2>2, <1>4, ContextAssumption DEF Signals
  <2>6. \A a \in Ancestors(x) : a \in Signals /\ a < x
    BY <2>1, <2>2, <2>4, <2>5
  <2> QED
    BY <2>6
<1> QED
  BY <1>5, <1>6

(* The tree does not change, therefore neither do the ancestors.           *)
LEMMA AncestorsSame ==
    ASSUME parent' = parent, NEW s
    PROVE  Ancestors(s)' = Ancestors(s)
  BY DEF Ancestors

(* What happens to the causes and to the timer's list of the entries that  *)
(* are due, when every new cause is a deadline of the signal's own that    *)
(* has passed or its parent's cause.                                       *)
LEMMA PassedKeeps ==
    ASSUME IInv, UNCHANGED <<parent, dl>>, clock' \in Nat, clock <= clock',
           \A e \in due' : dl[e] <= clock',
           \A s \in Signals : cause'[s] = "deadline" =>
               \/ cause[s] = "deadline"
               \/ dl[s] <= clock'
               \/ parent[s] # 0 /\ cause[parent[s]] = "deadline"
    PROVE  PassedInv'
<1>1. \A s \in Signals : dl[s] \in Nat
  BY ContextAssumption DEF IInv, TypeOK, Never
<1>2. clock \in Nat
  BY ContextAssumption DEF IInv, TypeOK
<1>3. ASSUME NEW s \in Signals, cause[s] = "deadline"
      PROVE  \E a \in Ancestors(s) \cup {s} : dl[a] <= clock'
  <2>1. PICK a \in Ancestors(s) \cup {s} : dl[a] <= clock
    BY <1>3 DEF IInv, PassedInv
  <2>2. a \in Signals
    BY AncestorsAreSignals DEF IInv
  <2> QED
    BY <2>1, <2>2, <1>1, <1>2
<1>4. ASSUME NEW s \in Signals, cause'[s] = "deadline"
      PROVE  \E a \in Ancestors(s) \cup {s} : dl[a] <= clock'
  <2>1. CASE cause[s] = "deadline"
    BY <1>3, <2>1
  <2>2. CASE dl[s] <= clock'
    BY <2>2
  <2>3. CASE parent[s] # 0 /\ cause[parent[s]] = "deadline"
    <3>1. parent[s] \in Signals /\ Ancestors(s) = {parent[s]} \cup Ancestors(parent[s])
      BY <2>3, AncestorsUnfold DEF IInv
    <3>2. PICK a \in Ancestors(parent[s]) \cup {parent[s]} : dl[a] <= clock'
      BY <1>3, <2>3, <3>1
    <3> QED
      BY <3>1, <3>2
  <2> QED
    BY <1>4, <2>1, <2>2, <2>3
<1>5. \A s : Ancestors(s)' = Ancestors(s)
  BY AncestorsSame
<1> QED
  BY <1>4, <1>5 DEF PassedInv

---------------------------------------------------------------------------
(* The actions.                                                            *)

USE DEF Become, Goto, Set, cancelVars, timerVars, StopRequested, CallOver

(* The invariant holds initially.                                          *)
LEMMA InitInv == Init => IInv
<1> SUFFICES ASSUME Init
             PROVE  IInv
  OBVIOUS
<1>1. PICK shape \in Shapes : parent = shape.parent /\ dl = shape.dl
  BY DEF Init
<1>2. shape \in AllShapes
  BY ContextAssumption
<1>3. parent \in [Signals -> 0 .. N] /\ TreeInv /\ dl \in [Signals -> 1 .. Never]
  BY <1>1, <1>2 DEF AllShapes, TreeInv
<1>4. TypeOK
  BY <1>3, ContextAssumption DEF Init, TypeOK, Lives, CancelPcs, Never
<1>5. WonInv /\ PassedInv /\ LinkInv /\ EntryInv /\ LifeInv /\ DeadLeavesNothing
  BY DEF Init, WonInv, PassedInv, LinkInv, EntryInv, LifeInv, DeadLeavesNothing
<1> QED
  BY <1>3, <1>4, <1>5 DEF IInv

(* A parent is a signal, and another one.                                  *)
LEMMA Parents ==
    ASSUME TypeOK, TreeInv, NEW s \in Signals
    PROVE  parent[s] # s /\ (parent[s] # 0 => parent[s] \in Signals)
  BY ContextAssumption DEF TypeOK, TreeInv, Signals

(* Winning the exchange on cause_.                                         *)
LEMMA WinWon ==
    ASSUME IInv, parent' = parent, NEW s \in Signals, cause[s] = "none",
           NEW c \in {"canceled", "deadline"}, NEW who \in {"owner", "link", "parent", "timer"},
           Win(s, c, who),
           who \in {"parent", "link"} => parent[s] # 0 /\ cause[parent[s]] = c
    PROVE  /\ WonInv'
           /\ cause' \in [Signals -> {"none", "canceled", "deadline"}]
           /\ by' \in [Signals -> {"nobody", "owner", "link", "parent", "timer"}]
           /\ cpc' \in [Signals -> CancelPcs]
           /\ cpc[s] = "idle" /\ by[s] = "nobody"
           /\ \A t \in Signals : t # s =>
                 cause'[t] = cause[t] /\ by'[t] = by[t] /\ cpc'[t] = cpc[t]
           /\ cause'[s] = c /\ by'[s] = who /\ cpc'[s] = "caused"
<1>1. cause' \in [Signals -> {"none", "canceled", "deadline"}]
  BY DEF IInv, TypeOK, Win
<1>2. /\ by' \in [Signals -> {"nobody", "owner", "link", "parent", "timer"}]
      /\ cpc' \in [Signals -> CancelPcs]
  BY DEF IInv, TypeOK, Win, CancelPcs
<1>3. cpc[s] = "idle" /\ by[s] = "nobody"
  BY DEF IInv, WonInv
<1>4. /\ \A t \in Signals : t # s =>
            cause'[t] = cause[t] /\ by'[t] = by[t] /\ cpc'[t] = cpc[t]
      /\ cause'[s] = c /\ by'[s] = who /\ cpc'[s] = "caused"
  BY DEF IInv, TypeOK, Win
<1>5. WonInv'
  <2>1. \A t \in Signals : parent[t] # t /\ (parent[t] # 0 => parent[t] \in Signals)
    BY Parents DEF IInv
  <2> QED
    BY <1>3, <1>4, <2>1 DEF IInv, WonInv
<1> QED
  BY <1>1, <1>2, <1>3, <1>4, <1>5

(* A new signal under a parent that is done is cancelled as it links.      *)
LEMMA CreateInv ==
    ASSUME IInv, UNCHANGED <<parent, dl>>, NEW s \in Signals, Create(s)
    PROVE  IInv'
<1> DEFINE p == parent[s]
<1>1. /\ \A t \in Signals : parent[t] # t /\ (parent[t] # 0 => parent[t] \in Signals)
      /\ life[s] = "unborn" /\ cause[s] = "none" /\ cpc[s] = "idle"
      /\ life' \in [Signals -> Lives] /\ life'[s] = "linking"
      /\ \A t \in Signals : t # s => life'[t] = life[t] /\ cb'[t] = cb[t]
      /\ cb' \in [Signals -> {"none", "registered", "running", "over"}]
  BY Parents DEF IInv, TypeOK, WonInv, LifeInv, Create, Lives
<1>2. CASE p = 0 \/ ~StopRequested(p)
  <2>1. UNCHANGED <<cause, by, cpc>> /\ cb'[s] = (IF p = 0 THEN "none" ELSE "registered")
    BY <1>1, <1>2 DEF IInv, TypeOK, Create, LifeInv
  <2>2. TypeOK' /\ TreeInv' /\ WonInv'
    BY <1>1, <2>1 DEF IInv, TypeOK, TreeInv, WonInv, Create
  <2>3. PassedInv'
    BY <2>1, PassedKeeps, ContextAssumption DEF IInv, TypeOK, PassedInv, Create
  <2>4. LinkInv'
    BY <1>1, <1>2, <2>1 DEF IInv, TypeOK, WonInv, LinkInv, LifeInv, Create
  <2>5. EntryInv' /\ LifeInv' /\ DeadLeavesNothing'
    BY <1>1, <2>1 DEF IInv, TypeOK, EntryInv, LifeInv, DeadLeavesNothing, Create
  <2> QED
    BY <2>2, <2>3, <2>4, <2>5 DEF IInv
<1>3. CASE p # 0 /\ StopRequested(p)
  <2>1. cause[p] # "none" /\ cause[p] \in {"canceled", "deadline"} /\ p \in Signals
    BY <1>1, <1>3 DEF IInv, TypeOK, WonInv
  <2>2. Win(s, cause[p], "link") /\ cb'[s] = "over"
    BY <1>3 DEF IInv, TypeOK, Create
  <2>3. /\ WonInv'
        /\ cause' \in [Signals -> {"none", "canceled", "deadline"}]
        /\ by' \in [Signals -> {"nobody", "owner", "link", "parent", "timer"}]
        /\ cpc' \in [Signals -> CancelPcs]
        /\ \A t \in Signals : t # s =>
              cause'[t] = cause[t] /\ by'[t] = by[t] /\ cpc'[t] = cpc[t]
        /\ cause'[s] = cause[p] /\ by'[s] = "link" /\ cpc'[s] = "caused"
    BY <1>1, <1>3, <2>1, <2>2, WinWon
  <2>4. TypeOK' /\ TreeInv'
    BY <1>1, <2>3 DEF IInv, TypeOK, TreeInv, Create
  <2>5. PassedInv'
    BY <1>3, <2>3, PassedKeeps, ContextAssumption DEF IInv, TypeOK, PassedInv, Create
  <2>6. LinkInv'
    BY <1>1, <1>3, <2>1, <2>2, <2>3 DEF IInv, TypeOK, WonInv, LinkInv, LifeInv, Create
  <2>7. EntryInv' /\ LifeInv' /\ DeadLeavesNothing'
    BY <1>1, <2>3, <2>2 DEF IInv, TypeOK, EntryInv, LifeInv, DeadLeavesNothing, Create
  <2> QED
    BY <2>3, <2>4, <2>5, <2>6, <2>7 DEF IInv
<1> QED
  BY <1>2, <1>3

(* link() has returned.                                                    *)
LEMMA LinkedInv ==
    ASSUME IInv, UNCHANGED <<parent, dl>>, NEW s \in Signals, Linked(s)
    PROVE  IInv'
<1>1. TypeOK' /\ TreeInv'
  BY ContextAssumption DEF IInv, TypeOK, TreeInv, Lives, CancelPcs, Linked
<1>2. WonInv'
  BY DEF IInv, TypeOK, WonInv, Linked
<1>3. PassedInv'
  BY PassedKeeps, ContextAssumption DEF IInv, TypeOK, PassedInv, Linked
<1>4. LinkInv'
  BY DEF IInv, TypeOK, CancelPcs, WonInv, LinkInv, LifeInv, Linked
<1>5. EntryInv'
  BY DEF IInv, TypeOK, EntryInv, Linked
<1>6. LifeInv' /\ DeadLeavesNothing'
  BY DEF IInv, TypeOK, LinkInv, EntryInv, LifeInv, DeadLeavesNothing, Linked
<1> QED
  BY <1>1, <1>2, <1>3, <1>4, <1>5, <1>6 DEF IInv

(* The entry goes into the timer.                                          *)
LEMMA AddEntryInv ==
    ASSUME IInv, UNCHANGED <<parent, dl>>, NEW s \in Signals, AddEntry(s)
    PROVE  IInv'
<1>1. TypeOK' /\ TreeInv'
  BY ContextAssumption DEF IInv, TypeOK, TreeInv, Lives, CancelPcs, AddEntry
<1>2. WonInv'
  BY DEF IInv, TypeOK, WonInv, AddEntry
<1>3. PassedInv'
  BY PassedKeeps, ContextAssumption DEF IInv, TypeOK, PassedInv, AddEntry
<1>4. LinkInv'
  BY DEF IInv, TypeOK, CancelPcs, WonInv, LinkInv, LifeInv, AddEntry
<1>5. EntryInv'
  BY DEF IInv, TypeOK, EntryInv, AddEntry
<1>6. LifeInv' /\ DeadLeavesNothing'
  BY DEF IInv, TypeOK, LinkInv, EntryInv, LifeInv, DeadLeavesNothing, AddEntry
<1> QED
  BY <1>1, <1>2, <1>3, <1>4, <1>5, <1>6 DEF IInv

(* Its number goes into timer_id_.                                         *)
LEMMA StoreInv ==
    ASSUME IInv, UNCHANGED <<parent, dl>>, NEW s \in Signals, StoreTimerId(s)
    PROVE  IInv'
<1>1. TypeOK' /\ TreeInv'
  BY ContextAssumption DEF IInv, TypeOK, TreeInv, Lives, CancelPcs, StoreTimerId
<1>2. WonInv'
  BY DEF IInv, TypeOK, WonInv, StoreTimerId
<1>3. PassedInv'
  BY PassedKeeps, ContextAssumption DEF IInv, TypeOK, PassedInv, StoreTimerId
<1>4. LinkInv'
  BY DEF IInv, TypeOK, CancelPcs, WonInv, LinkInv, LifeInv, StoreTimerId
<1>5. EntryInv'
  BY DEF IInv, TypeOK, EntryInv, StoreTimerId
<1>6. LifeInv' /\ DeadLeavesNothing'
  BY DEF IInv, TypeOK, LinkInv, EntryInv, LifeInv, DeadLeavesNothing, StoreTimerId
<1> QED
  BY <1>1, <1>2, <1>3, <1>4, <1>5, <1>6 DEF IInv

(* cause_ is looked at too early.                                          *)
LEMMA CheckBeforeInv ==
    ASSUME IInv, UNCHANGED <<parent, dl>>, NEW s \in Signals, CheckBeforeStore(s)
    PROVE  IInv'
<1>1. TypeOK' /\ TreeInv'
  BY ContextAssumption DEF IInv, TypeOK, TreeInv, Lives, CancelPcs, CheckBeforeStore
<1>2. WonInv'
  BY DEF IInv, TypeOK, WonInv, CheckBeforeStore
<1>3. PassedInv'
  BY PassedKeeps, ContextAssumption DEF IInv, TypeOK, PassedInv, CheckBeforeStore
<1>4. LinkInv'
  BY DEF IInv, TypeOK, CancelPcs, WonInv, LinkInv, LifeInv, CheckBeforeStore
<1>5. EntryInv'
  BY DEF IInv, TypeOK, EntryInv, CheckBeforeStore
<1>6. LifeInv' /\ DeadLeavesNothing'
  BY DEF IInv, TypeOK, LinkInv, EntryInv, LifeInv, DeadLeavesNothing, CheckBeforeStore
<1> QED
  BY <1>1, <1>2, <1>3, <1>4, <1>5, <1>6 DEF IInv

(* cause_ is looked at again.                                              *)
LEMMA CheckAgainInv ==
    ASSUME IInv, UNCHANGED <<parent, dl>>, NEW s \in Signals, CheckAgain(s)
    PROVE  IInv'
<1>1. TypeOK' /\ TreeInv'
  BY ContextAssumption DEF IInv, TypeOK, TreeInv, Lives, CancelPcs, CheckAgain
<1>2. WonInv'
  BY DEF IInv, TypeOK, WonInv, CheckAgain
<1>3. PassedInv'
  BY PassedKeeps, ContextAssumption DEF IInv, TypeOK, PassedInv, CheckAgain
<1>4. LinkInv'
  BY DEF IInv, TypeOK, CancelPcs, WonInv, LinkInv, LifeInv, CheckAgain
<1>5. EntryInv'
  BY DEF IInv, TypeOK, EntryInv, CheckAgain
<1>6. LifeInv' /\ DeadLeavesNothing'
  BY DEF IInv, TypeOK, LinkInv, EntryInv, LifeInv, DeadLeavesNothing, CheckAgain
<1> QED
  BY <1>1, <1>2, <1>3, <1>4, <1>5, <1>6 DEF IInv

(* cancel() asks for the stop.                                             *)
LEMMA RequestStopInv ==
    ASSUME IInv, UNCHANGED <<parent, dl>>, NEW s \in Signals, RequestStop(s)
    PROVE  IInv'
<1>0. \A t \in Signals : parent[t] # t /\ (parent[t] # 0 => parent[t] \in Signals)
  BY Parents DEF IInv
<1>1. TypeOK' /\ TreeInv'
  BY ContextAssumption DEF IInv, TypeOK, TreeInv, Lives, CancelPcs, RequestStop
<1>2. WonInv'
  BY <1>0 DEF IInv, TypeOK, WonInv, RequestStop
<1>3. PassedInv'
  BY PassedKeeps, ContextAssumption DEF IInv, TypeOK, PassedInv, RequestStop
<1>4. LinkInv'
  BY <1>0 DEF IInv, TypeOK, CancelPcs, WonInv, LinkInv, LifeInv, RequestStop
<1>5. EntryInv'
  BY DEF IInv, TypeOK, EntryInv, RequestStop
<1>6. LifeInv' /\ DeadLeavesNothing'
  BY DEF IInv, TypeOK, LinkInv, EntryInv, LifeInv, DeadLeavesNothing, RequestStop
<1> QED
  BY <1>1, <1>2, <1>3, <1>4, <1>5, <1>6 DEF IInv

(* A callback of the signal begins.                                        *)
LEMMA RunCallbackInv ==
    ASSUME IInv, UNCHANGED <<parent, dl>>, NEW s \in Signals, RunCallback(s)
    PROVE  IInv'
<1>0. \A t \in Signals : parent[t] # t /\ (parent[t] # 0 => parent[t] \in Signals)
  BY Parents DEF IInv
<1>1. TypeOK' /\ TreeInv'
  BY ContextAssumption DEF IInv, TypeOK, TreeInv, Lives, CancelPcs, RunCallback, Children
<1>2. WonInv'
  BY <1>0 DEF IInv, TypeOK, WonInv, RunCallback, Children
<1>3. PassedInv'
  BY PassedKeeps, ContextAssumption DEF IInv, TypeOK, PassedInv, RunCallback, Children
<1>4. LinkInv'
  BY <1>0 DEF IInv, TypeOK, CancelPcs, WonInv, LinkInv, LifeInv, RunCallback, Children
<1>5. EntryInv'
  BY DEF IInv, TypeOK, EntryInv, RunCallback, Children
<1>6. LifeInv' /\ DeadLeavesNothing'
  BY DEF IInv, TypeOK, LinkInv, EntryInv, LifeInv, DeadLeavesNothing, RunCallback, Children
<1> QED
  BY <1>1, <1>2, <1>3, <1>4, <1>5, <1>6 DEF IInv

(* The callback in the parent returns.                                     *)
LEMMA CallbackReturnsInv ==
    ASSUME IInv, UNCHANGED <<parent, dl>>, NEW s \in Signals, CallbackReturns(s)
    PROVE  IInv'
<1>0. \A t \in Signals : parent[t] # t /\ (parent[t] # 0 => parent[t] \in Signals)
  BY Parents DEF IInv
<1>1. TypeOK' /\ TreeInv'
  BY ContextAssumption DEF IInv, TypeOK, TreeInv, Lives, CancelPcs, CallbackReturns
<1>2. WonInv'
  BY <1>0 DEF IInv, TypeOK, WonInv, CallbackReturns
<1>3. PassedInv'
  BY PassedKeeps, ContextAssumption DEF IInv, TypeOK, PassedInv, CallbackReturns
<1>4. LinkInv'
  BY <1>0 DEF IInv, TypeOK, CancelPcs, WonInv, LinkInv, LifeInv, CallbackReturns
<1>5. EntryInv'
  BY DEF IInv, TypeOK, EntryInv, CallbackReturns
<1>6. LifeInv' /\ DeadLeavesNothing'
  BY DEF IInv, TypeOK, LinkInv, EntryInv, LifeInv, DeadLeavesNothing, CallbackReturns
<1> QED
  BY <1>1, <1>2, <1>3, <1>4, <1>5, <1>6 DEF IInv

(* All callbacks have run.                                                 *)
LEMMA AllFiredInv ==
    ASSUME IInv, UNCHANGED <<parent, dl>>, NEW s \in Signals, AllFired(s)
    PROVE  IInv'
<1>0. \A t \in Signals : parent[t] # t /\ (parent[t] # 0 => parent[t] \in Signals)
  BY Parents DEF IInv
<1>1. TypeOK' /\ TreeInv'
  BY ContextAssumption DEF IInv, TypeOK, TreeInv, Lives, CancelPcs, AllFired, Children
<1>2. WonInv'
  BY <1>0 DEF IInv, TypeOK, WonInv, AllFired, Children
<1>3. PassedInv'
  BY PassedKeeps, ContextAssumption DEF IInv, TypeOK, PassedInv, AllFired, Children
<1>4. LinkInv'
  BY <1>0 DEF IInv, TypeOK, CancelPcs, WonInv, LinkInv, LifeInv, AllFired, Children
<1>5. EntryInv'
  BY DEF IInv, TypeOK, EntryInv, AllFired, Children
<1>6. LifeInv' /\ DeadLeavesNothing'
  BY DEF IInv, TypeOK, LinkInv, EntryInv, LifeInv, DeadLeavesNothing, AllFired, Children
<1> QED
  BY <1>1, <1>2, <1>3, <1>4, <1>5, <1>6 DEF IInv

(* The entry goes out of the timer.                                        *)
LEMMA RemoveEntryInv ==
    ASSUME IInv, UNCHANGED <<parent, dl>>, NEW s \in Signals, RemoveEntry(s)
    PROVE  IInv'
<1>0. \A t \in Signals : parent[t] # t /\ (parent[t] # 0 => parent[t] \in Signals)
  BY Parents DEF IInv
<1>1. TypeOK' /\ TreeInv'
  BY ContextAssumption DEF IInv, TypeOK, TreeInv, Lives, CancelPcs, RemoveEntry
<1>2. WonInv'
  BY <1>0 DEF IInv, TypeOK, WonInv, RemoveEntry
<1>3. PassedInv'
  BY PassedKeeps, ContextAssumption DEF IInv, TypeOK, PassedInv, RemoveEntry
<1>4. LinkInv'
  BY <1>0 DEF IInv, TypeOK, CancelPcs, WonInv, LinkInv, LifeInv, RemoveEntry
<1>5. EntryInv'
  BY DEF IInv, TypeOK, EntryInv, RemoveEntry
<1>6. LifeInv' /\ DeadLeavesNothing'
  BY DEF IInv, TypeOK, LinkInv, EntryInv, LifeInv, DeadLeavesNothing, RemoveEntry
<1> QED
  BY <1>1, <1>2, <1>3, <1>4, <1>5, <1>6 DEF IInv

(* The link is released.                                                   *)
LEMMA ReleaseLinkInv ==
    ASSUME IInv, UNCHANGED <<parent, dl>>, NEW s \in Signals, ReleaseLink(s)
    PROVE  IInv'
<1>0. \A t \in Signals : parent[t] # t /\ (parent[t] # 0 => parent[t] \in Signals)
  BY Parents DEF IInv
<1>1. TypeOK' /\ TreeInv'
  BY ContextAssumption DEF IInv, TypeOK, TreeInv, Lives, CancelPcs, ReleaseLink, Unlink
<1>2. WonInv'
  BY <1>0 DEF IInv, TypeOK, WonInv, ReleaseLink, Unlink
<1>3. PassedInv'
  BY PassedKeeps, ContextAssumption DEF IInv, TypeOK, PassedInv, ReleaseLink, Unlink
<1>4. LinkInv'
  BY <1>0 DEF IInv, TypeOK, CancelPcs, WonInv, LinkInv, LifeInv, ReleaseLink, Unlink
<1>5. EntryInv'
  BY DEF IInv, TypeOK, EntryInv, ReleaseLink, Unlink
<1>6. LifeInv' /\ DeadLeavesNothing'
  BY DEF IInv, TypeOK, LinkInv, EntryInv, LifeInv, DeadLeavesNothing, ReleaseLink, Unlink
<1> QED
  BY <1>1, <1>2, <1>3, <1>4, <1>5, <1>6 DEF IInv

(* The last reference goes.                                                *)
LEMMA DropInv ==
    ASSUME IInv, UNCHANGED <<parent, dl>>, NEW s \in Signals, Drop(s)
    PROVE  IInv'
<1>1. TypeOK' /\ TreeInv'
  BY ContextAssumption DEF IInv, TypeOK, TreeInv, Lives, CancelPcs, Drop
<1>2. WonInv'
  BY DEF IInv, TypeOK, WonInv, Drop
<1>3. PassedInv'
  BY PassedKeeps, ContextAssumption DEF IInv, TypeOK, PassedInv, Drop
<1>4. LinkInv'
  BY DEF IInv, TypeOK, CancelPcs, WonInv, LinkInv, LifeInv, Drop
<1>5. EntryInv'
  BY DEF IInv, TypeOK, EntryInv, Drop
<1>6. LifeInv' /\ DeadLeavesNothing'
  BY DEF IInv, TypeOK, WonInv, LifeInv, DeadLeavesNothing, Drop
<1> QED
  BY <1>1, <1>2, <1>3, <1>4, <1>5, <1>6 DEF IInv

(* The destructor releases the link.                                       *)
LEMMA DestroyLinkInv ==
    ASSUME IInv, UNCHANGED <<parent, dl>>, NEW s \in Signals, DestroyLink(s)
    PROVE  IInv'
<1>1. TypeOK' /\ TreeInv'
  BY ContextAssumption DEF IInv, TypeOK, TreeInv, Lives, CancelPcs, DestroyLink, Unlink
<1>2. WonInv'
  BY DEF IInv, TypeOK, WonInv, DestroyLink, Unlink
<1>3. PassedInv'
  BY PassedKeeps, ContextAssumption DEF IInv, TypeOK, PassedInv, DestroyLink, Unlink
<1>4. LinkInv'
  BY DEF IInv, TypeOK, CancelPcs, WonInv, LinkInv, LifeInv, DestroyLink, Unlink
<1>5. EntryInv'
  BY DEF IInv, TypeOK, EntryInv, DestroyLink, Unlink
<1>6. LifeInv' /\ DeadLeavesNothing'
  <2>1. cb[s] # "running" /\ cpc[s] = "done" /\ cb'[s] = "none" /\ life'[s] = "unlinked"
    BY DEF IInv, TypeOK, LinkInv, LifeInv, DestroyLink, Unlink
  <2>2. \A x \in Signals : x # s => life'[x] = life[x] /\ cb'[x] = cb[x]
    BY DEF IInv, TypeOK, DestroyLink, Unlink
  <2>3. UNCHANGED <<cause, by, cpc, entries>>
    BY DEF DestroyLink
  <2> QED
    BY <2>1, <2>2, <2>3 DEF IInv, LifeInv, DeadLeavesNothing
<1> QED
  BY <1>1, <1>2, <1>3, <1>4, <1>5, <1>6 DEF IInv

(* The destructor takes the entry out.                                     *)
LEMMA DestroyEntryInv ==
    ASSUME IInv, UNCHANGED <<parent, dl>>, NEW s \in Signals, DestroyEntry(s)
    PROVE  IInv'
<1>1. TypeOK' /\ TreeInv'
  BY ContextAssumption DEF IInv, TypeOK, TreeInv, Lives, CancelPcs, DestroyEntry
<1>2. WonInv'
  BY DEF IInv, TypeOK, WonInv, DestroyEntry
<1>3. PassedInv'
  BY PassedKeeps, ContextAssumption DEF IInv, TypeOK, PassedInv, DestroyEntry
<1>4. LinkInv'
  BY DEF IInv, TypeOK, CancelPcs, WonInv, LinkInv, LifeInv, DestroyEntry
<1>5. EntryInv'
  BY DEF IInv, TypeOK, EntryInv, DestroyEntry
<1>6. LifeInv' /\ DeadLeavesNothing'
  BY DEF IInv, TypeOK, LinkInv, EntryInv, LifeInv, DeadLeavesNothing, DestroyEntry
<1> QED
  BY <1>1, <1>2, <1>3, <1>4, <1>5, <1>6 DEF IInv

(* The timer goes to sleep.                                                *)
LEMMA SleepInv ==
    ASSUME IInv, UNCHANGED <<parent, dl>>, Sleep
    PROVE  IInv'
<1>1. TypeOK' /\ TreeInv'
  BY ContextAssumption DEF IInv, TypeOK, TreeInv, Never, Sleep
<1>2. WonInv'
  BY DEF IInv, TypeOK, WonInv, Sleep
<1>3. PassedInv'
  BY PassedKeeps, ContextAssumption DEF IInv, TypeOK, PassedInv, Sleep
<1>4. LinkInv'
  BY DEF IInv, TypeOK, CancelPcs, WonInv, LinkInv, LifeInv, Sleep
<1>5. EntryInv'
  BY DEF IInv, TypeOK, EntryInv, Sleep
<1>6. LifeInv' /\ DeadLeavesNothing'
  BY DEF IInv, TypeOK, LinkInv, EntryInv, LifeInv, DeadLeavesNothing, Sleep
<1> QED
  BY <1>1, <1>2, <1>3, <1>4, <1>5, <1>6 DEF IInv

(* The timer wakes.                                                        *)
LEMMA WakeInv ==
    ASSUME IInv, UNCHANGED <<parent, dl>>, Wake
    PROVE  IInv'
<1>1. TypeOK' /\ TreeInv'
  BY ContextAssumption DEF IInv, TypeOK, TreeInv, Lives, CancelPcs, Wake
<1>2. WonInv'
  BY DEF IInv, TypeOK, WonInv, Wake
<1>3. PassedInv'
  BY PassedKeeps, ContextAssumption DEF IInv, TypeOK, PassedInv, Wake
<1>4. LinkInv'
  BY DEF IInv, TypeOK, CancelPcs, WonInv, LinkInv, LifeInv, Wake
<1>5. EntryInv'
  BY DEF IInv, TypeOK, EntryInv, Wake
<1>6. LifeInv' /\ DeadLeavesNothing'
  BY DEF IInv, TypeOK, LinkInv, EntryInv, LifeInv, DeadLeavesNothing, Wake
<1> QED
  BY <1>1, <1>2, <1>3, <1>4, <1>5, <1>6 DEF IInv

(* The timer takes out what is due.                                        *)
LEMMA TakeDueInv ==
    ASSUME IInv, UNCHANGED <<parent, dl>>, TakeDue
    PROVE  IInv'
<1>1. TypeOK' /\ TreeInv'
  BY ContextAssumption DEF IInv, TypeOK, TreeInv, Lives, CancelPcs, TakeDue
<1>2. WonInv'
  BY DEF IInv, TypeOK, WonInv, TakeDue
<1>3. PassedInv'
  BY PassedKeeps, ContextAssumption DEF IInv, TypeOK, PassedInv, TakeDue
<1>4. LinkInv'
  BY DEF IInv, TypeOK, CancelPcs, WonInv, LinkInv, LifeInv, TakeDue
<1>5. EntryInv'
  BY DEF IInv, TypeOK, EntryInv, TakeDue
<1>6. LifeInv' /\ DeadLeavesNothing'
  BY DEF IInv, TypeOK, LinkInv, EntryInv, LifeInv, DeadLeavesNothing, TakeDue
<1> QED
  BY <1>1, <1>2, <1>3, <1>4, <1>5, <1>6 DEF IInv

(* The timer has fired them all.                                           *)
LEMMA FiredAllInv ==
    ASSUME IInv, UNCHANGED <<parent, dl>>, FiredAll
    PROVE  IInv'
<1>1. TypeOK' /\ TreeInv'
  BY ContextAssumption DEF IInv, TypeOK, TreeInv, Lives, CancelPcs, FiredAll, Free
<1>2. WonInv'
  BY DEF IInv, TypeOK, WonInv, FiredAll, Free
<1>3. PassedInv'
  BY PassedKeeps, ContextAssumption DEF IInv, TypeOK, PassedInv, FiredAll, Free
<1>4. LinkInv'
  BY DEF IInv, TypeOK, CancelPcs, WonInv, LinkInv, LifeInv, FiredAll, Free
<1>5. EntryInv'
  BY DEF IInv, TypeOK, EntryInv, FiredAll, Free
<1>6. LifeInv' /\ DeadLeavesNothing'
  BY DEF IInv, TypeOK, LinkInv, EntryInv, LifeInv, DeadLeavesNothing, FiredAll, Free
<1> QED
  BY <1>1, <1>2, <1>3, <1>4, <1>5, <1>6 DEF IInv

(* Time passes.                                                            *)
LEMMA TickInv ==
    ASSUME IInv, UNCHANGED <<parent, dl>>, Tick
    PROVE  IInv'
<1>1. TypeOK' /\ TreeInv'
  BY ContextAssumption DEF IInv, TypeOK, TreeInv, Lives, CancelPcs, Tick
<1>2. WonInv'
  BY DEF IInv, TypeOK, WonInv, Tick
<1>3. PassedInv'
  BY PassedKeeps, ContextAssumption DEF IInv, TypeOK, PassedInv, Tick
<1>4. LinkInv'
  BY DEF IInv, TypeOK, CancelPcs, WonInv, LinkInv, LifeInv, Tick
<1>5. EntryInv'
  BY DEF IInv, TypeOK, EntryInv, Tick
<1>6. LifeInv' /\ DeadLeavesNothing'
  BY DEF IInv, TypeOK, LinkInv, EntryInv, LifeInv, DeadLeavesNothing, Tick
<1> QED
  BY <1>1, <1>2, <1>3, <1>4, <1>5, <1>6 DEF IInv

(* arm_deadline, up to the timer.                                          *)
LEMMA ArmInv ==
    ASSUME IInv, UNCHANGED <<parent, dl>>, NEW s \in Signals, Arm(s)
    PROVE  IInv'
<1>0. \A t \in Signals : parent[t] # t /\ (parent[t] # 0 => parent[t] \in Signals)
  BY Parents DEF IInv
<1>1. CASE cause[s] = "none" /\ dl[s] <= clock
  <2> DEFINE c == "deadline"
  <2>1. Win(s, c, "owner") /\ c \in {"canceled", "deadline"} /\ cause[s] = "none"
    BY <1>0, <1>1 DEF IInv, TypeOK, WonInv, LinkInv, Arm
  <2>2. "owner" \in {"parent", "link"} => parent[s] # 0 /\ cause[parent[s]] = c
    BY <1>0, <1>1 DEF IInv, LinkInv, Arm
  <2>3. /\ WonInv'
        /\ cause' \in [Signals -> {"none", "canceled", "deadline"}]
        /\ by' \in [Signals -> {"nobody", "owner", "link", "parent", "timer"}]
        /\ cpc' \in [Signals -> CancelPcs]
        /\ cpc[s] = "idle" /\ by[s] = "nobody"
        /\ \A t \in Signals : t # s =>
              cause'[t] = cause[t] /\ by'[t] = by[t] /\ cpc'[t] = cpc[t]
        /\ cause'[s] = c /\ by'[s] = "owner" /\ cpc'[s] = "caused"
    <3> HIDE DEF c
    <3> QED
      BY <2>1, <2>2, WinWon
  <2>4. TypeOK' /\ TreeInv'
    BY <1>1, <2>3 DEF IInv, TypeOK, TreeInv, Lives, Arm
  <2>5. PassedInv'
    BY <1>0, <1>1, <2>3, PassedKeeps, ContextAssumption DEF IInv, TypeOK, PassedInv, LinkInv, Arm
  <2>6. LinkInv'
    BY <1>0, <1>1, <2>1, <2>3 DEF IInv, TypeOK, WonInv, LinkInv, LifeInv, Arm
  <2>7. EntryInv' /\ LifeInv' /\ DeadLeavesNothing'
    BY <1>1, <2>3 DEF IInv, TypeOK, LinkInv, EntryInv, LifeInv, DeadLeavesNothing, Arm
  <2> QED
    BY <2>3, <2>4, <2>5, <2>6, <2>7 DEF IInv
<1>2. CASE ~(cause[s] = "none" /\ dl[s] <= clock)
  <2>1. TypeOK' /\ TreeInv' /\ WonInv' /\ UNCHANGED <<cause, by, cpc>>
    BY <1>2 DEF IInv, TypeOK, TreeInv, WonInv, Lives, Arm
  <2>2. PassedInv'
    BY <1>2, <2>1, PassedKeeps, ContextAssumption DEF IInv, TypeOK, PassedInv, Arm
  <2>3. LinkInv' /\ EntryInv' /\ LifeInv' /\ DeadLeavesNothing'
    BY <1>0, <1>2, <2>1 DEF IInv, TypeOK, LinkInv, EntryInv, LifeInv, DeadLeavesNothing, Arm
  <2> QED
    BY <2>1, <2>2, <2>3 DEF IInv
<1> QED
  BY <1>1, <1>2

(* The owner cancels.                                                      *)
LEMMA OwnerCancelsInv ==
    ASSUME IInv, UNCHANGED <<parent, dl>>, NEW s \in Signals, OwnerCancels(s)
    PROVE  IInv'
<1>0. \A t \in Signals : parent[t] # t /\ (parent[t] # 0 => parent[t] \in Signals)
  BY Parents DEF IInv
<1>1. CASE cause[s] = "none" /\ life[s] = "live"
  <2> DEFINE c == "canceled"
  <2>1. Win(s, c, "owner") /\ c \in {"canceled", "deadline"} /\ cause[s] = "none"
    BY <1>0, <1>1 DEF IInv, TypeOK, WonInv, LinkInv, OwnerCancels
  <2>2. "owner" \in {"parent", "link"} => parent[s] # 0 /\ cause[parent[s]] = c
    BY <1>0, <1>1 DEF IInv, LinkInv, OwnerCancels
  <2>3. /\ WonInv'
        /\ cause' \in [Signals -> {"none", "canceled", "deadline"}]
        /\ by' \in [Signals -> {"nobody", "owner", "link", "parent", "timer"}]
        /\ cpc' \in [Signals -> CancelPcs]
        /\ cpc[s] = "idle" /\ by[s] = "nobody"
        /\ \A t \in Signals : t # s =>
              cause'[t] = cause[t] /\ by'[t] = by[t] /\ cpc'[t] = cpc[t]
        /\ cause'[s] = c /\ by'[s] = "owner" /\ cpc'[s] = "caused"
    <3> HIDE DEF c
    <3> QED
      BY <2>1, <2>2, WinWon
  <2>4. TypeOK' /\ TreeInv'
    BY <1>1, <2>3 DEF IInv, TypeOK, TreeInv, Lives, OwnerCancels
  <2>5. PassedInv'
    BY <1>0, <1>1, <2>3, PassedKeeps, ContextAssumption DEF IInv, TypeOK, PassedInv, LinkInv, OwnerCancels
  <2>6. LinkInv'
    BY <1>0, <1>1, <2>1, <2>3 DEF IInv, TypeOK, WonInv, LinkInv, LifeInv, OwnerCancels
  <2>7. EntryInv' /\ LifeInv' /\ DeadLeavesNothing'
    BY <1>1, <2>3 DEF IInv, TypeOK, LinkInv, EntryInv, LifeInv, DeadLeavesNothing, OwnerCancels
  <2> QED
    BY <2>3, <2>4, <2>5, <2>6, <2>7 DEF IInv
<1> QED
  BY <1>1 DEF OwnerCancels

(* The parent's callback cancels.                                          *)
LEMMA ParentFiredInv ==
    ASSUME IInv, UNCHANGED <<parent, dl>>, NEW s \in Signals, ParentFired(s)
    PROVE  IInv'
<1>0. \A t \in Signals : parent[t] # t /\ (parent[t] # 0 => parent[t] \in Signals)
  BY Parents DEF IInv
<1>1. CASE cause[s] = "none" /\ cb[s] = "running"
  <2> DEFINE c == cause[parent[s]]
  <2>1. Win(s, c, "parent") /\ c \in {"canceled", "deadline"} /\ cause[s] = "none"
    BY <1>0, <1>1 DEF IInv, TypeOK, WonInv, LinkInv, ParentFired
  <2>2. "parent" \in {"parent", "link"} => parent[s] # 0 /\ cause[parent[s]] = c
    BY <1>0, <1>1 DEF IInv, LinkInv, ParentFired
  <2>3. /\ WonInv'
        /\ cause' \in [Signals -> {"none", "canceled", "deadline"}]
        /\ by' \in [Signals -> {"nobody", "owner", "link", "parent", "timer"}]
        /\ cpc' \in [Signals -> CancelPcs]
        /\ cpc[s] = "idle" /\ by[s] = "nobody"
        /\ \A t \in Signals : t # s =>
              cause'[t] = cause[t] /\ by'[t] = by[t] /\ cpc'[t] = cpc[t]
        /\ cause'[s] = c /\ by'[s] = "parent" /\ cpc'[s] = "caused"
    <3> HIDE DEF c
    <3> QED
      BY <2>1, <2>2, WinWon
  <2>4. TypeOK' /\ TreeInv'
    BY <1>1, <2>3 DEF IInv, TypeOK, TreeInv, Lives, ParentFired
  <2>5. PassedInv'
    BY <1>0, <1>1, <2>3, PassedKeeps, ContextAssumption DEF IInv, TypeOK, PassedInv, LinkInv, ParentFired
  <2>6. LinkInv'
    BY <1>0, <1>1, <2>1, <2>3 DEF IInv, TypeOK, WonInv, LinkInv, LifeInv, ParentFired
  <2>7. EntryInv' /\ LifeInv' /\ DeadLeavesNothing'
    BY <1>1, <2>3 DEF IInv, TypeOK, LinkInv, EntryInv, LifeInv, DeadLeavesNothing, ParentFired
  <2> QED
    BY <2>3, <2>4, <2>5, <2>6, <2>7 DEF IInv
<1> QED
  BY <1>1 DEF ParentFired

(* The timer cancels what is due, unless it is done already.               *)
LEMMA FireInv ==
    ASSUME IInv, UNCHANGED <<parent, dl>>, NEW s \in Signals, Fire(s)
    PROVE  IInv'
<1>0. \A t \in Signals : parent[t] # t /\ (parent[t] # 0 => parent[t] \in Signals)
  BY Parents DEF IInv
<1>1. CASE cause[s] = "none" /\ s \in due
  <2> DEFINE c == "deadline"
  <2>1. Win(s, c, "timer") /\ c \in {"canceled", "deadline"} /\ cause[s] = "none"
    BY <1>0, <1>1 DEF IInv, TypeOK, WonInv, LinkInv, Fire, Free
  <2>2. "timer" \in {"parent", "link"} => parent[s] # 0 /\ cause[parent[s]] = c
    BY <1>0, <1>1 DEF IInv, LinkInv, Fire, Free
  <2>3. /\ WonInv'
        /\ cause' \in [Signals -> {"none", "canceled", "deadline"}]
        /\ by' \in [Signals -> {"nobody", "owner", "link", "parent", "timer"}]
        /\ cpc' \in [Signals -> CancelPcs]
        /\ cpc[s] = "idle" /\ by[s] = "nobody"
        /\ \A t \in Signals : t # s =>
              cause'[t] = cause[t] /\ by'[t] = by[t] /\ cpc'[t] = cpc[t]
        /\ cause'[s] = c /\ by'[s] = "timer" /\ cpc'[s] = "caused"
    <3> HIDE DEF c
    <3> QED
      BY <2>1, <2>2, WinWon
  <2>4. TypeOK' /\ TreeInv'
    BY <1>1, <2>3 DEF IInv, TypeOK, TreeInv, Lives, Fire, Free
  <2>5. PassedInv'
    BY <1>0, <1>1, <2>3, PassedKeeps, ContextAssumption DEF IInv, TypeOK, PassedInv, LinkInv, Fire, Free
  <2>6. LinkInv'
    BY <1>0, <1>1, <2>1, <2>3 DEF IInv, TypeOK, WonInv, LinkInv, LifeInv, Fire, Free
  <2>7. EntryInv' /\ LifeInv' /\ DeadLeavesNothing'
    BY <1>1, <2>3 DEF IInv, TypeOK, LinkInv, EntryInv, LifeInv, DeadLeavesNothing, Fire, Free
  <2> QED
    BY <2>3, <2>4, <2>5, <2>6, <2>7 DEF IInv
<1>2. CASE ~(cause[s] = "none" /\ s \in due)
  <2>1. TypeOK' /\ TreeInv' /\ WonInv' /\ UNCHANGED <<cause, by, cpc>>
    BY <1>2 DEF IInv, TypeOK, TreeInv, WonInv, Lives, Fire, Free
  <2>2. PassedInv'
    BY <1>2, <2>1, PassedKeeps, ContextAssumption DEF IInv, TypeOK, PassedInv, Fire, Free
  <2>3. LinkInv' /\ EntryInv' /\ LifeInv' /\ DeadLeavesNothing'
    BY <1>0, <1>2, <2>1 DEF IInv, TypeOK, LinkInv, EntryInv, LifeInv, DeadLeavesNothing, Fire, Free
  <2> QED
    BY <2>1, <2>2, <2>3 DEF IInv
<1> QED
  BY <1>1, <1>2

---------------------------------------------------------------------------
(* Every step keeps the invariant.                                         *)
LEMMA NextInv == IInv /\ [Next]_vars => IInv'
<1> SUFFICES ASSUME IInv, [Next]_vars
             PROVE  IInv'
  OBVIOUS
<1>1. CASE UNCHANGED vars
  <2>1. \A s : Ancestors(s)' = Ancestors(s)
    BY <1>1, AncestorsSame DEF vars
  <2>2. TypeOK' /\ TreeInv' /\ WonInv' /\ LinkInv'
    BY <1>1 DEF IInv, vars, TypeOK, TreeInv, WonInv, LinkInv
  <2>3. PassedInv' /\ EntryInv' /\ LifeInv' /\ DeadLeavesNothing'
    BY <1>1, <2>1 DEF IInv, vars, PassedInv, EntryInv, LifeInv, DeadLeavesNothing
  <2> QED
    BY <2>2, <2>3 DEF IInv
<1>2. CASE Next
  <2>1. UNCHANGED <<parent, dl>>
    BY <1>2 DEF Next
  <2>2. ASSUME NEW s \in Signals, Create(s) \/ CheckBeforeStore(s) \/ OwnerCancels(s) \/ Drop(s)
        PROVE  IInv'
    BY <2>1, <2>2, CreateInv, CheckBeforeInv, OwnerCancelsInv, DropInv
  <2>3. ASSUME NEW s \in Signals, OwnerStep(s)
        PROVE  IInv'
    BY <2>1, <2>3, LinkedInv, ArmInv, AddEntryInv, StoreInv, CheckAgainInv, DestroyLinkInv,
       DestroyEntryInv DEF OwnerStep
  <2>4. ASSUME NEW s \in Signals, CancelStep(s)
        PROVE  IInv'
    BY <2>1, <2>4, RequestStopInv, RunCallbackInv, ParentFiredInv, CallbackReturnsInv,
       AllFiredInv, RemoveEntryInv, ReleaseLinkInv DEF CancelStep
  <2>5. CASE TimerStep
    BY <2>1, <2>5, SleepInv, WakeInv, TakeDueInv, FiredAllInv, FireInv DEF TimerStep
  <2>6. CASE Tick
    BY <2>1, <2>6, TickInv
  <2> QED
    BY <1>2, <2>2, <2>3, <2>4, <2>5, <2>6 DEF Next
<1> QED
  BY <1>1, <1>2

LEMMA Invariance == Spec => []IInv
  BY InitInv, NextInv, PTL DEF Spec

---------------------------------------------------------------------------
(* The theorems.                                                           *)

(* The variables of the contexts and of the timer have their types.        *)
THEOREM ContextTypes == Spec => []TypeOK
<1>1. IInv => TypeOK
  BY DEF IInv
<1> QED
  BY <1>1, Invariance, PTL

(* err() does not change its mind: the exchange on cause_ lets only the    *)
(* first cancel() through, be it the owner's, the parent's or the timer's. *)
THEOREM ContextFirstCause == Spec => FirstCauseStays
<1>1. ASSUME IInv, Next, NEW s \in Signals, cause[s] # "none"
      PROVE  cause'[s] = cause[s]
  <2>1. ASSUME NEW t \in Signals, NEW c, NEW who, Win(t, c, who), cause[t] = "none"
        PROVE  cause'[s] = cause[s]
    BY <1>1, <2>1 DEF Win, IInv, TypeOK
  <2>2. ASSUME NEW t \in Signals, Create(t)
        PROVE  cause'[s] = cause[s]
    <3>1. life[t] = "unborn"
      BY <2>2 DEF Create
    <3>2. cause[t] = "none"
      BY <1>1, <3>1 DEF IInv, WonInv, LifeInv
    <3> QED
      BY <2>1, <2>2, <3>2 DEF Create
  <2>3. ASSUME NEW t \in Signals, OwnerStep(t)
        PROVE  cause'[s] = cause[s]
    BY <2>1, <2>3 DEF OwnerStep, Linked, Arm, AddEntry, StoreTimerId, CheckAgain, DestroyLink,
       DestroyEntry
  <2>4. ASSUME NEW t \in Signals, CancelStep(t)
        PROVE  cause'[s] = cause[s]
    BY <2>1, <2>4 DEF CancelStep, RequestStop, RunCallback, ParentFired, CallbackReturns,
       AllFired, RemoveEntry, ReleaseLink
  <2>5. ASSUME NEW t \in Signals, CheckBeforeStore(t) \/ OwnerCancels(t) \/ Drop(t)
        PROVE  cause'[s] = cause[s]
    BY <2>1, <2>5 DEF CheckBeforeStore, OwnerCancels, Drop
  <2>6. ASSUME TimerStep \/ Tick
        PROVE  cause'[s] = cause[s]
    BY <2>1, <2>6 DEF TimerStep, Sleep, Wake, TakeDue, FiredAll, Fire, Tick
  <2> QED
    BY <1>1, <2>2, <2>3, <2>4, <2>5, <2>6 DEF Next
<1>2. IInv /\ [Next]_vars => [\A s \in Signals : cause[s] # "none" => cause'[s] = cause[s]]_vars
  BY <1>1
<1> QED
  BY <1>2, Invariance, PTL DEF Spec, FirstCauseStays

(* A context that claims an exceeded deadline has one, of its own or of an *)
(* ancestor, that has passed; one that its parent cancelled (link, the     *)
(* parent's callback) gives its parent's cause.                            *)
THEOREM ContextCauseIsTrue == Spec => []CauseIsTrue
<1>1. IInv => CauseIsTrue
  BY DEF IInv, WonInv, PassedInv, CauseIsTrue
<1> QED
  BY <1>1, Invariance, PTL

(* ~ContextSignal leaves nothing behind: no callback in the parent, none   *)
(* running, no entry in the timer.                                         *)
THEOREM ContextDeadLeavesNothing == Spec => []DeadLeavesNothing
<1>1. IInv => DeadLeavesNothing
  BY DEF IInv
<1> QED
  BY <1>1, Invariance, PTL

(* A descendant that is not done is below a context that some thread is    *)
(* still cancelling: from the descendant up, the first ancestor that is    *)
(* done, or being cancelled, has not yet run all its callbacks.            *)
LEMMA Reaches == IInv => CancelReachesDescendants
<1> SUFFICES ASSUME IInv, NEW s \in Signals, cpc[s] = "done"
             PROVE  \A c \in Signals :
                        s \in Ancestors(c) /\ life[c] \notin {"unborn", "dead"} =>
                          \/ cause[c] # "none"
                          \/ \E a \in Ancestors(c) :
                                s \in Ancestors(a) /\ cpc[a] \notin {"idle", "done"}
  BY DEF CancelReachesDescendants
<1> DEFINE Missed(c) ==
               /\ s \in Ancestors(c) /\ life[c] # "unborn" /\ cause[c] = "none"
               /\ ~ \E a \in Ancestors(c) :
                        s \in Ancestors(a) /\ cpc[a] \notin {"idle", "done"}
           T == {c \in Signals : Missed(c)}
<1>1. SUFFICES ASSUME T # {}
               PROVE  FALSE
  OBVIOUS
<1>2. T \subseteq Nat /\ T \subseteq Signals
  BY ContextAssumption DEF Signals
<1> HIDE DEF T
<1>3. PICK c \in T : \A d \in T : c <= d
  BY <1>1, <1>2, LeastNatural
<1> USE DEF T
<1> DEFINE p == parent[c]
<1>4. c \in Signals /\ Missed(c)
  BY <1>3
<1>5. p # 0 /\ p \in Signals /\ Ancestors(c) = {p} \cup Ancestors(p)
  BY <1>4, AncestorsUnfold DEF IInv
<1>6. life[p] # "unborn" /\ cpc[p] \notin {"removing", "releasing", "done"}
  BY <1>4, <1>5 DEF IInv, LinkInv
<1>7. s \in Ancestors(p)
  BY <1>4, <1>5, <1>6
<1>8. cpc[p] = "idle"
  BY <1>4, <1>5, <1>6, <1>7
<1>9. Missed(p)
  BY <1>4, <1>5, <1>6, <1>7, <1>8 DEF IInv, WonInv
<1>10. p < c /\ p \in Nat /\ c \in Nat
  BY <1>2, <1>4, <1>5, ContextAssumption DEF IInv, TreeInv, Signals
<1> QED
  BY <1>3, <1>5, <1>9, <1>10

(* When a cancel() has returned, every context derived from the cancelled  *)
(* one is done, or is below one that another thread is still cancelling.   *)
THEOREM ContextCancelReaches == Spec => []CancelReachesDescendants
  BY Reaches, Invariance, PTL
===============================================================================
