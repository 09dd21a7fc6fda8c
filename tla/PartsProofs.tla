------------------------------ MODULE PartsProofs ------------------------------
(***************************************************************************)
(* The two pools, the loading of a configuration, a connection of the      *)
(* server and the manager of resources, for every number of threads,       *)
(* states, connections, operators, requests and resources.                 *)
(***************************************************************************)
EXTENDS Parts, FiniteSetTheorems, SequenceTheorems, WellFoundedInduction, TLAPS

(* A step is one of each part, or leaves it alone.                         *)
LEMMA Steps ==
    ASSUME [Next]_vars
    PROVE  [C!Next]_C!vars /\ [L!Next]_L!vars /\ [R!Next]_R!vars /\ [X!Next]_X!vars /\ [M!Next]_M!vars
BY DEF Next, vars, C!vars, L!vars, R!vars, X!vars, M!vars, configVars, luaVars, redisVars, httpVars,
       managerVars, R!clients, R!server, X!clientVars, X!logVars, M!declVars, M!ownerVars

(* The instances speak of the same cardinality.                            *)
LEMMA SameCardinality == \A S : L!Cardinality(S) = Cardinality(S) /\ R!Cardinality(S) = Cardinality(S)
BY DEF L!Cardinality, R!Cardinality, Cardinality

---------------------------------------------------------------------------
(* The pool of Lua states.                                                 *)

LuaModes == {"idle", "capture", "undo", "run", "returning", "resetting", "pushing", "counting"}

LuaTypeInv ==
    /\ overrides \in BOOLEAN
    /\ closed \in BOOLEAN
    /\ all \in SUBSET States
    /\ free \in Seq(all)
    /\ globals \in [States -> [L!Names -> L!Values]]
    /\ mode \in [Threads -> LuaModes]
    /\ borrowed \in [Threads -> States \cup {NoState}]
    /\ snap \in [Threads -> [L!Names -> L!Values] \cup {<<>>}]

(* What the next borrower of v may count on.                               *)
Clean(v) == /\ globals[v]["fn"] = "script"
            /\ globals[v]["field"] = "nil"
            /\ globals[v]["print"] # "call"

(* A state is clean while it is free, until the call that borrowed it      *)
(* runs, and again once it is reset, for which the snapshot must hold the  *)
(* script's own function.                                                  *)
FreeClean == \A i \in 1 .. Len(free) : Clean(free[i])
LuaCleanInv ==
    /\ FreeClean
    /\ \A t \in Threads :
         /\ mode[t] \in {"capture", "undo", "pushing"} => Clean(borrowed[t])
         /\ mode[t] \in {"run", "returning", "resetting"} =>
                snap[t] \in [L!Names -> L!Values] /\ snap[t]["fn"] = "script"

(* OneHolder, element by element.                                          *)
LuaHolderInv ==
    /\ \A i, j \in 1 .. Len(free) : free[i] = free[j] => i = j
    /\ \A t \in L!Out : borrowed[t] \in all /\ \A i \in 1 .. Len(free) : free[i] # borrowed[t]
    /\ \A t, u \in L!Out : borrowed[t] = borrowed[u] => t = u

LuaInv == LuaTypeInv /\ LuaHolderInv /\ LuaCleanInv

---------------------------------------------------------------------------
LEMMA FrontLast ==
    ASSUME NEW S, NEW s \in Seq(S), s # <<>>
    PROVE  /\ L!Front(s) \in Seq(S) /\ Len(L!Front(s)) = Len(s) - 1
           /\ \A i \in 1 .. Len(s) - 1 : L!Front(s)[i] = s[i]
           /\ Len(s) \in 1 .. Len(s) /\ L!Last(s) = s[Len(s)] /\ L!Last(s) \in S
<1>1. Len(s) \in Nat \ {0}
  BY EmptySeq
<1>2. \A i \in 1 .. Len(s) - 1 : s[i] \in S
  BY <1>1, ElementOfSeq
<1>3. /\ SubSeq(s, 1, Len(s) - 1) \in Seq(S)
      /\ Len(SubSeq(s, 1, Len(s) - 1)) = IF 1 <= Len(s) - 1 THEN (Len(s) - 1) - 1 + 1 ELSE 0
      /\ \A i \in 1 .. (Len(s) - 1) - 1 + 1 : SubSeq(s, 1, Len(s) - 1)[i] = s[1 + i - 1]
  BY <1>1, <1>2, SubSeqProperties, SMT
<1>4. Len(s) \in 1 .. Len(s)
  BY <1>1
<1>5. s[Len(s)] \in S
  BY <1>4, ElementOfSeq
<1>6. \A k \in Nat \ {0} : (IF 1 <= k - 1 THEN (k - 1) - 1 + 1 ELSE 0) = k - 1
  OBVIOUS
<1>7. Len(SubSeq(s, 1, Len(s) - 1)) = Len(s) - 1
  BY <1>1, <1>3, <1>6, Zenon
<1>8. \A i \in 1 .. Len(s) - 1 : i \in 1 .. (Len(s) - 1) - 1 + 1 /\ 1 + i - 1 = i
  BY <1>1
<1> QED
  BY <1>3, <1>4, <1>5, <1>7, <1>8 DEF L!Front, L!Last

LEMMA LoadedType ==
    ASSUME overrides \in BOOLEAN
    PROVE  /\ L!Loaded \in [L!Names -> L!Values]
           /\ L!Loaded["fn"] = "script" /\ L!Loaded["field"] = "nil" /\ L!Loaded["print"] # "call"
BY DEF L!Loaded, L!Names, L!Values, L!Builtins

(* A reset takes away whatever the call has done, if the snapshot is good. *)
LEMMA ResetIsClean ==
    ASSUME overrides \in BOOLEAN, NEW g, NEW s \in [L!Names -> L!Values], s["fn"] = "script"
    PROVE  /\ L!Reset(g, s) \in [L!Names -> L!Values]
           /\ L!Reset(g, s)["fn"] = "script" /\ L!Reset(g, s)["field"] = "nil"
           /\ L!Reset(g, s)["print"] # "call"
<1>1. "fn" \in L!Baseline /\ "field" \notin L!Baseline
  BY LoadedType DEF L!Baseline, L!Names
<1> QED
  BY <1>1 DEF L!Reset, L!Names, L!Values, L!Builtins

---------------------------------------------------------------------------
LEMMA LuaInitInv ==
    ASSUME L!Init
    PROVE  LuaInv
<1>1. Len(<<First>>) = 1 /\ <<First>>[1] = First /\ <<First>> \in Seq({First}) /\ First \in States
  BY PartsAssumption
<1>2. L!Out = {}
  BY DEF L!Init, L!Out
<1>3. L!Loaded \in [L!Names -> L!Values] /\ Clean(First)
  BY <1>1, LoadedType DEF L!Init, Clean
<1>4. LuaTypeInv
  BY <1>1, <1>3 DEF L!Init, LuaTypeInv, LuaModes
<1>5. LuaHolderInv
  BY <1>1, <1>2 DEF L!Init, LuaHolderInv
<1>6. LuaCleanInv
  BY <1>1, <1>3 DEF L!Init, LuaCleanInv, FreeClean
<1> QED
  BY <1>4, <1>5, <1>6 DEF LuaInv

(* The three steps that move a state from or to the free list.             *)

LEMMA TakeInv ==
    ASSUME LuaInv, NEW t \in Threads, L!Take(t)
    PROVE  LuaInv'
<1> USE DEF LuaInv
<1>1. /\ L!Front(free) \in Seq(all) /\ Len(L!Front(free)) = Len(free) - 1
      /\ \A i \in 1 .. Len(free) - 1 : L!Front(free)[i] = free[i]
      /\ Len(free) \in 1 .. Len(free) /\ L!Last(free) = free[Len(free)] /\ L!Last(free) \in all
  BY FrontLast DEF L!Take, LuaTypeInv
<1>2. Len(free) \in Nat
  BY LenProperties DEF LuaTypeInv
<1>3. \A i \in 1 .. Len(free') : i \in 1 .. Len(free) /\ free'[i] = free[i] /\ i # Len(free)
  BY <1>1, <1>2 DEF L!Take
<1>4. \A i \in 1 .. Len(free') : free'[i] # L!Last(free)
  BY <1>1, <1>3 DEF LuaHolderInv
<1>5. L!Out' = L!Out \cup {t} /\ t \notin L!Out
  BY DEF L!Take, L!Goto, L!Out, LuaTypeInv
<1>6. \A u \in Threads : borrowed'[u] = IF u = t THEN L!Last(free) ELSE borrowed[u]
  BY DEF L!Take, LuaTypeInv
<1>7. LuaTypeInv'
  BY <1>1 DEF L!Take, L!Goto, LuaTypeInv, LuaModes
<1>8. LuaHolderInv'
  <2>1. \A i, j \in 1 .. Len(free') : free'[i] = free'[j] => i = j
    BY <1>3 DEF LuaHolderInv
  <2>2. \A u \in L!Out' : borrowed'[u] \in all' /\ \A i \in 1 .. Len(free') : free'[i] # borrowed'[u]
    <3>1. all' = all /\ L!Out \subseteq Threads
      BY DEF L!Take, L!Out
    <3>2. ASSUME NEW u \in L!Out
          PROVE  u # t /\ borrowed[u] \in all /\ \A i \in 1 .. Len(free') : free'[i] # borrowed[u]
      BY <1>3, <1>5 DEF LuaHolderInv
    <3> QED
      BY <1>1, <1>4, <1>5, <1>6, <3>1, <3>2
  <2>3. \A u \in L!Out : borrowed[u] # L!Last(free)
    BY <1>1 DEF LuaHolderInv
  <2>4. \A u, w \in L!Out' : borrowed'[u] = borrowed'[w] => u = w
    BY <1>5, <1>6, <2>3 DEF LuaHolderInv, L!Out
  <2> QED
    BY <2>1, <2>2, <2>4 DEF LuaHolderInv
<1>9. LuaCleanInv'
  <2>1. Clean(L!Last(free))
    BY <1>1 DEF LuaCleanInv, FreeClean
  <2> QED
    BY <1>3, <1>6, <2>1 DEF LuaCleanInv, FreeClean, Clean, L!Take, L!Goto, LuaTypeInv
<1> QED
  BY <1>7, <1>8, <1>9

(* A step that puts back the state of t, or drops it from a closed pool.   *)
LEMMA GiveBack ==
    ASSUME LuaInv, NEW t \in Threads, mode[t] \in {"undo", "pushing"},
           free' = IF closed THEN free ELSE Append(free, borrowed[t]),
           UNCHANGED <<all, globals>>, t \notin L!Out', L!Out' \subseteq L!Out,
           \A u \in L!Out' : borrowed'[u] = borrowed[u]
    PROVE  /\ free' \in Seq(all') /\ LuaHolderInv'
           /\ FreeClean'
<1> USE DEF LuaInv
<1>1. t \in L!Out /\ borrowed[t] \in all /\ free \in Seq(all) /\ Len(free) \in Nat
  BY LenProperties DEF L!Out, LuaHolderInv, LuaTypeInv
<1>2. Clean(borrowed[t])
  BY DEF LuaCleanInv
<1>3. CASE closed
  BY <1>1, <1>3 DEF LuaHolderInv, LuaCleanInv, FreeClean, Clean
<1>4. CASE ~closed
  <2>1. /\ free' \in Seq(all) /\ Len(free') = Len(free) + 1
        /\ \A i \in 1 .. Len(free) : free'[i] = free[i]
        /\ free'[Len(free) + 1] = borrowed[t]
    BY <1>1, <1>4, AppendProperties
  <2>2. \A i \in 1 .. Len(free') : i \in 1 .. Len(free) \/ i = Len(free) + 1
    BY <1>1, <2>1
  <2>3. \A i, j \in 1 .. Len(free') : free'[i] = free'[j] => i = j
    BY <1>1, <2>1, <2>2 DEF LuaHolderInv
  <2>4. \A u \in L!Out' : borrowed[u] # borrowed[t]
    BY <1>1 DEF LuaHolderInv
  <2>5. \A u \in L!Out' : borrowed'[u] \in all' /\ \A i \in 1 .. Len(free') : free'[i] # borrowed'[u]
    BY <2>1, <2>2, <2>4 DEF LuaHolderInv
  <2>6. \A u, w \in L!Out' : borrowed'[u] = borrowed'[w] => u = w
    BY DEF LuaHolderInv
  <2>7. FreeClean'
    BY <1>2, <2>1, <2>2 DEF LuaCleanInv, FreeClean, Clean
  <2> QED
    BY <2>1, <2>3, <2>5, <2>6, <2>7 DEF LuaHolderInv
<1> QED
  BY <1>3, <1>4

(* The free list and the globals stay; t may leave, or go on with its      *)
(* state.                                                                  *)
LEMMA GoesOn ==
    ASSUME LuaInv, NEW t \in Threads, UNCHANGED <<free, all, globals>>, L!Out' \subseteq L!Out,
           \A u \in L!Out' : borrowed'[u] = borrowed[u]
    PROVE  LuaHolderInv' /\ FreeClean'
BY DEF LuaInv, LuaHolderInv, LuaCleanInv, FreeClean, Clean

LEMMA CreateInv ==
    ASSUME LuaInv, NEW t \in Threads, L!Create(t)
    PROVE  LuaInv'
<1> USE DEF LuaInv
<1>1. CASE UNCHANGED <<all, borrowed, globals, counts, mode>>
  BY <1>1 DEF L!Create, LuaTypeInv, LuaHolderInv, LuaCleanInv, FreeClean, Clean, L!Out
<1>2. ASSUME NEW v \in States \ all,
             all' = all \cup {v}, borrowed' = [borrowed EXCEPT ![t] = v],
             globals' = [globals EXCEPT ![v] = L!Loaded], L!Goto(t, "capture")
      PROVE  LuaInv'
  <2>1. free' = <<>> /\ free' \in Seq(all') /\ Len(free') = 0
    BY EmptySeq DEF L!Create
  <2>2. L!Loaded \in [L!Names -> L!Values] /\ Clean(v)'
    BY <1>2, LoadedType DEF LuaTypeInv, Clean
  <2>3. \A u \in Threads : borrowed'[u] = IF u = t THEN v ELSE borrowed[u]
    BY <1>2 DEF LuaTypeInv
  <2>4. L!Out' = L!Out \cup {t} /\ t \notin L!Out
    BY <1>2 DEF L!Create, L!Goto, L!Out, LuaTypeInv
  <2>5. LuaTypeInv'
    BY <1>2, <2>1, <2>2 DEF L!Create, L!Goto, LuaTypeInv, LuaModes
  <2>6. LuaHolderInv'
    <3>1. \A i, j \in 1 .. Len(free') : free'[i] = free'[j] => i = j
      BY <2>1
    <3>2. \A u \in L!Out' : borrowed'[u] \in all' /\ \A i \in 1 .. Len(free') : free'[i] # borrowed'[u]
      BY <1>2, <2>1, <2>3, <2>4 DEF LuaHolderInv, L!Out
    <3>3. \A u, w \in L!Out' : borrowed'[u] = borrowed'[w] => u = w
      BY <2>3, <2>4 DEF LuaHolderInv, L!Out
    <3> QED
      BY <3>1, <3>2, <3>3 DEF LuaHolderInv
  <2>7. LuaCleanInv'
    <3>1. FreeClean'
      BY <2>1 DEF FreeClean
    <3>2. ASSUME NEW u \in Threads, u # t
          PROVE  /\ mode'[u] = mode[u] /\ snap'[u] = snap[u]
                 /\ mode[u] \in {"capture", "undo", "pushing"} => Clean(borrowed[u])'
      <4>1. mode'[u] = mode[u] /\ snap'[u] = snap[u] /\ borrowed'[u] = borrowed[u]
        BY <1>2, <2>3, <3>2 DEF L!Create, L!Goto, LuaTypeInv
      <4>2. ASSUME mode[u] \in {"capture", "undo", "pushing"}
            PROVE  Clean(borrowed[u])'
        <5>1. borrowed[u] \in all /\ Clean(borrowed[u])
          BY <4>2 DEF LuaHolderInv, L!Out, LuaCleanInv
        <5>2. globals'[borrowed[u]] = globals[borrowed[u]]
          BY <1>2, <5>1 DEF LuaTypeInv
        <5> QED
          BY <4>1, <5>1, <5>2 DEF Clean
      <4> QED
        BY <4>1, <4>2
    <3>3. mode'[t] = "capture" /\ borrowed'[t] = v
      BY <1>2, <2>3 DEF L!Goto, LuaTypeInv
    <3>4. Clean(borrowed[t])'
      BY <2>2, <3>3 DEF Clean
    <3> QED
      BY <3>1, <3>2, <3>3, <3>4 DEF LuaCleanInv
  <2> QED
    BY <2>5, <2>6, <2>7
<1> QED
  BY <1>1, <1>2 DEF L!Create

(* A step that changes nothing but the globals of the state t has, and     *)
(* takes t to a place where it still has it.                               *)
LEMMA Writes ==
    ASSUME LuaInv, NEW t \in L!Out, NEW g \in [L!Names -> L!Values], NEW m \in LuaModes,
           globals' = [globals EXCEPT ![borrowed[t]] = g], L!Goto(t, m),
           m \in {"capture", "undo", "run", "returning", "resetting", "pushing"},
           m \in {"capture", "undo", "pushing"} => Clean(borrowed[t])',
           m \in {"run", "returning", "resetting"} => mode[t] \in {"run", "returning", "resetting"},
           UNCHANGED <<overrides, free, all, closed, borrowed, snap>>
    PROVE  LuaInv'
<1> USE DEF LuaInv
<1>1. t \in Threads /\ borrowed[t] \in all /\ borrowed[t] \in States
  BY DEF L!Out, LuaHolderInv, LuaTypeInv
<1>2. \A u \in Threads : mode'[u] = IF u = t THEN m ELSE mode[u]
  BY DEF L!Goto, LuaTypeInv
<1>3. L!Out' = L!Out
  BY <1>1, <1>2 DEF L!Out
<1>4. LuaTypeInv'
  BY <1>1 DEF LuaTypeInv, L!Goto
<1>5. LuaHolderInv'
  BY <1>3 DEF LuaHolderInv
<1>6. \A v \in States : v # borrowed[t] => globals'[v] = globals[v]
  BY DEF LuaTypeInv
<1>7. FreeClean'
  <2>1. ASSUME NEW i \in 1 .. Len(free)
        PROVE  Clean(free[i])'
    <3>1. free[i] \in States /\ free[i] # borrowed[t]
      BY ElementOfSeq DEF LuaTypeInv, LuaHolderInv
    <3>2. Clean(free[i]) /\ globals'[free[i]] = globals[free[i]]
      BY <1>6, <3>1 DEF LuaCleanInv, FreeClean
    <3> QED
      BY <3>2 DEF Clean
  <2> QED
    BY <2>1 DEF FreeClean
<1>8. ASSUME NEW u \in Threads
      PROVE  /\ mode'[u] \in {"capture", "undo", "pushing"} => Clean(borrowed[u])'
             /\ mode'[u] \in {"run", "returning", "resetting"} =>
                    snap'[u] \in [L!Names -> L!Values] /\ snap'[u]["fn"] = "script"
  <2>1. CASE u = t
    BY <1>2, <2>1 DEF LuaCleanInv
  <2>2. CASE u # t
    <3>1. mode'[u] = mode[u] /\ borrowed'[u] = borrowed[u] /\ snap'[u] = snap[u]
      BY <1>2, <2>2
    <3>2. ASSUME mode[u] \in {"capture", "undo", "pushing"}
          PROVE  Clean(borrowed[u])'
      <4>1. borrowed[u] \in States /\ borrowed[u] # borrowed[t] /\ Clean(borrowed[u])
        BY <2>2, <3>2 DEF LuaHolderInv, L!Out, LuaCleanInv, LuaTypeInv
      <4> QED
        BY <1>6, <3>1, <4>1 DEF Clean
    <3> QED
      BY <3>1, <3>2 DEF LuaCleanInv
  <2> QED
    BY <2>1, <2>2
<1> QED
  BY <1>4, <1>5, <1>7, <1>8 DEF LuaCleanInv

---------------------------------------------------------------------------
LEMMA LuaNextInv ==
    ASSUME LuaInv, [L!Next]_L!vars
    PROVE  LuaInv'
<1> USE DEF LuaInv
<1>1. ASSUME NEW t \in Threads, L!Refused(t)
      PROVE  LuaInv'
  BY <1>1 DEF L!Refused, LuaTypeInv, LuaHolderInv, LuaCleanInv, FreeClean, Clean, L!Out
<1>2. ASSUME NEW t \in Threads, L!Capture(t)
      PROVE  LuaInv'
  <2>1. mode[t] = "capture" /\ t \in L!Out /\ Clean(borrowed[t]) /\ borrowed[t] \in States
    BY <1>2 DEF L!Capture, L!Out, LuaCleanInv, LuaHolderInv, LuaTypeInv
  <2>2. globals[borrowed[t]] \in [L!Names -> L!Values] /\ globals[borrowed[t]]["fn"] = "script"
    BY <2>1 DEF LuaTypeInv, Clean
  <2>3. LuaTypeInv'
    BY <1>2, <2>2 DEF L!Capture, L!Goto, LuaTypeInv, LuaModes
  <2>4. LuaHolderInv' /\ FreeClean'
    BY <1>2, <2>1, GoesOn DEF L!Capture, L!Goto, L!Out, LuaTypeInv
  <2>5. LuaCleanInv'
    BY <1>2, <2>1, <2>2, <2>4 DEF L!Capture, L!Goto, LuaCleanInv, Clean, LuaTypeInv
  <2> QED
    BY <2>3, <2>4, <2>5
<1>3. ASSUME NEW t \in Threads, L!Undo(t)
      PROVE  LuaInv'
  <2>1. mode[t] = "undo" /\ L!Out' = L!Out \ {t} /\ \A u \in L!Out' : borrowed'[u] = borrowed[u]
    BY <1>3 DEF L!Undo, L!Leave, L!Goto, L!Out, LuaTypeInv
  <2>2. free' \in Seq(all') /\ LuaHolderInv' /\ FreeClean'
    BY <1>3, <2>1, GiveBack DEF L!Undo
  <2>3. LuaTypeInv'
    BY <1>3, <2>2 DEF L!Undo, L!Leave, L!Goto, LuaTypeInv, LuaModes
  <2>4. LuaCleanInv'
    BY <1>3, <2>2 DEF L!Undo, L!Leave, L!Goto, LuaCleanInv, Clean, LuaTypeInv
  <2> QED
    BY <2>2, <2>3, <2>4
<1>4. ASSUME NEW t \in Threads, L!Run(t)
      PROVE  LuaInv'
  <2>1. mode[t] = "run" /\ t \in L!Out
    BY <1>4 DEF L!Run, L!Out
  <2>2. PICK written \in SUBSET (L!Names \ {"field"}) :
          globals' = [globals EXCEPT ![borrowed[t]] =
                        [n \in L!Names |-> IF n \in written \cup {"field"} THEN "call" ELSE @[n]]]
    BY <1>4 DEF L!Run
  <2>3. borrowed[t] \in States
    BY <2>1 DEF LuaHolderInv, LuaTypeInv
  <2>4. [n \in L!Names |-> IF n \in written \cup {"field"} THEN "call" ELSE globals[borrowed[t]][n]]
            \in [L!Names -> L!Values]
    BY <2>3 DEF LuaTypeInv, L!Values
  <2>5. globals' = [globals EXCEPT ![borrowed[t]] =
           [n \in L!Names |-> IF n \in written \cup {"field"} THEN "call" ELSE globals[borrowed[t]][n]]]
    BY <2>2, <2>3 DEF LuaTypeInv
  <2> QED
    BY <1>4, <2>1, <2>4, <2>5, Writes DEF L!Run, LuaModes
<1>5. ASSUME NEW t \in Threads, L!Look(t)
      PROVE  LuaInv'
  <2>1. mode[t] = "returning"
    BY <1>5 DEF L!Look
  <2>2. LuaTypeInv'
    BY <1>5 DEF L!Look, L!Goto, LuaTypeInv, LuaModes
  <2>3. LuaHolderInv' /\ FreeClean'
    BY <1>5, <2>1, GoesOn DEF L!Look, L!Goto, L!Out, LuaTypeInv
  <2>4. LuaCleanInv'
    BY <1>5, <2>1, <2>3 DEF L!Look, L!Goto, LuaCleanInv, Clean, LuaTypeInv
  <2> QED
    BY <2>2, <2>3, <2>4
<1>6. ASSUME NEW t \in Threads, L!ResetState(t)
      PROVE  LuaInv'
  <2>1. mode[t] = "resetting" /\ t \in L!Out /\ borrowed[t] \in States
        /\ snap[t] \in [L!Names -> L!Values] /\ snap[t]["fn"] = "script"
    BY <1>6 DEF L!ResetState, L!Out, LuaCleanInv, LuaHolderInv, LuaTypeInv
  <2>2. CASE globals' = [globals EXCEPT ![borrowed[t]] = L!Reset(@, snap[t])] /\ L!Goto(t, "pushing")
    <3> DEFINE g == L!Reset(globals[borrowed[t]], snap[t])
    <3>1. /\ g \in [L!Names -> L!Values]
          /\ g["fn"] = "script" /\ g["field"] = "nil" /\ g["print"] # "call"
      BY <2>1, ResetIsClean DEF LuaTypeInv
    <3>2. globals' = [globals EXCEPT ![borrowed[t]] = g]
      BY <2>1, <2>2 DEF LuaTypeInv
    <3>3. globals'[borrowed[t]] = g /\ borrowed' = borrowed
      BY <1>6, <2>1, <3>2 DEF LuaTypeInv, L!ResetState
    <3>4. Clean(borrowed[t])'
      BY <3>1, <3>3 DEF Clean
    <3> HIDE DEF g
    <3> QED
      BY <1>6, <2>1, <2>2, <3>1, <3>2, <3>4, Writes DEF L!ResetState, LuaModes
  <2>3. CASE L!Goto(t, "counting") /\ UNCHANGED globals
    <3>1. LuaTypeInv'
      BY <1>6, <2>3 DEF L!ResetState, L!Goto, LuaTypeInv, LuaModes
    <3>2. LuaHolderInv' /\ FreeClean'
      BY <1>6, <2>3, GoesOn DEF L!ResetState, L!Goto, L!Out, LuaTypeInv
    <3>3. LuaCleanInv'
      BY <1>6, <2>3, <3>2 DEF L!ResetState, L!Goto, LuaCleanInv, Clean, LuaTypeInv
    <3> QED
      BY <3>1, <3>2, <3>3
  <2> QED
    BY <1>6, <2>2, <2>3 DEF L!ResetState
<1>7. ASSUME NEW t \in Threads, L!Push(t)
      PROVE  LuaInv'
  <2>1. mode[t] = "pushing" /\ L!Out' = L!Out \ {t} /\ \A u \in L!Out' : borrowed'[u] = borrowed[u]
    BY <1>7 DEF L!Push, L!Goto, L!Out, LuaTypeInv
  <2>2. free' \in Seq(all') /\ LuaHolderInv' /\ FreeClean'
    BY <1>7, <2>1, GiveBack DEF L!Push
  <2>3. LuaTypeInv'
    BY <1>7, <2>2 DEF L!Push, L!Goto, LuaTypeInv, LuaModes
  <2>4. LuaCleanInv'
    BY <1>7, <2>2 DEF L!Push, L!Goto, LuaCleanInv, Clean, LuaTypeInv
  <2> QED
    BY <2>2, <2>3, <2>4
<1>8. ASSUME NEW t \in Threads, L!Count(t)
      PROVE  LuaInv'
  <2>1. L!Out' = L!Out /\ \A u \in L!Out' : borrowed'[u] = borrowed[u]
    BY <1>8 DEF L!Count, L!Leave, L!Goto, L!Out, LuaTypeInv
  <2>2. LuaTypeInv'
    BY <1>8 DEF L!Count, L!Leave, L!Goto, LuaTypeInv, LuaModes
  <2>3. LuaHolderInv' /\ FreeClean'
    BY <1>8, <2>1, GoesOn DEF L!Count
  <2>4. LuaCleanInv'
    BY <1>8, <2>3 DEF L!Count, L!Leave, L!Goto, LuaCleanInv, Clean, LuaTypeInv
  <2> QED
    BY <2>2, <2>3, <2>4
<1>9. ASSUME L!Close
      PROVE  LuaInv'
  BY <1>9 DEF L!Close, LuaTypeInv, LuaHolderInv, LuaCleanInv, FreeClean, Clean, L!Out
<1>10. ASSUME UNCHANGED L!vars
       PROVE  LuaInv'
  BY <1>10 DEF L!vars, LuaTypeInv, LuaHolderInv, LuaCleanInv, FreeClean, Clean, L!Out
<1> QED
  BY <1>1, <1>2, <1>3, <1>4, <1>5, <1>6, <1>7, <1>8, <1>9, <1>10, TakeInv, CreateInv DEF L!Next

---------------------------------------------------------------------------
(* The counters.  An execution between taking its state and counting the   *)
(* borrow is paid for by a creation or a reuse.                            *)
HavingModes == {"run", "returning", "resetting", "pushing", "counting"}
Having      == {t \in Threads : mode[t] \in HavingModes}
TakingModes == {"capture", "undo"}
Taking      == {t \in Threads : mode[t] \in TakingModes}

LuaCountInv ==
    /\ IsFiniteSet(all)
    /\ counts \in [{"borrow", "return", "create", "reuse", "active"} -> Int]
    /\ counts["active"] = Cardinality(Having)
    /\ counts["borrow"] = counts["return"] + counts["active"]
    /\ counts["create"] = Cardinality(all)
    /\ counts["reuse"] + counts["create"] >= counts["borrow"] + Cardinality(Taking)

LEMMA CountSets ==
    /\ IsFiniteSet(Having) /\ Cardinality(Having) \in Nat
    /\ IsFiniteSet(Taking) /\ Cardinality(Taking) \in Nat
<1>1. Having \subseteq Threads /\ Taking \subseteq Threads
  BY DEF Having, Taking
<1> QED
  BY <1>1, PartsAssumption, FS_Subset, FS_CardinalityType

(* What one thread's step does to the two sets.                            *)
LEMMA Moved ==
    ASSUME LuaTypeInv, NEW t \in Threads, NEW m, L!Goto(t, m)
    PROVE  /\ Having' = IF m \in HavingModes THEN Having \cup {t} ELSE Having \ {t}
           /\ Taking' = IF m \in TakingModes THEN Taking \cup {t} ELSE Taking \ {t}
<1>1. \A u \in Threads : mode'[u] = IF u = t THEN m ELSE mode[u]
  BY DEF L!Goto, LuaTypeInv
<1>2. Having' = IF m \in HavingModes THEN Having \cup {t} ELSE Having \ {t}
  BY <1>1 DEF Having
<1>3. Taking' = IF m \in TakingModes THEN Taking \cup {t} ELSE Taking \ {t}
  BY <1>1 DEF Taking
<1> QED
  BY <1>2, <1>3

LEMMA CountChange ==
    ASSUME NEW S, IsFiniteSet(S), NEW t
    PROVE  /\ Cardinality(S) \in Nat
           /\ t \notin S => Cardinality(S \cup {t}) = Cardinality(S) + 1 /\ S \ {t} = S
           /\ t \in S => Cardinality(S \ {t}) = Cardinality(S) - 1 /\ S \cup {t} = S
BY FS_AddElement, FS_RemoveElement, FS_CardinalityType

LEMMA LuaCountNext ==
    ASSUME LuaTypeInv, LuaCountInv, [L!Next]_L!vars
    PROVE  LuaCountInv'
<1> DEFINE h == Cardinality(Having)
           k == Cardinality(Taking)
<1>1. h \in Nat /\ k \in Nat /\ Cardinality(all) \in Nat
  BY CountSets, FS_CardinalityType DEF LuaCountInv
<1>2. \A t : /\ t \notin Having => Cardinality(Having \cup {t}) = h + 1 /\ Having \ {t} = Having
             /\ t \in Having => Cardinality(Having \ {t}) = h - 1 /\ Having \cup {t} = Having
             /\ t \notin Taking => Cardinality(Taking \cup {t}) = k + 1 /\ Taking \ {t} = Taking
             /\ t \in Taking => Cardinality(Taking \ {t}) = k - 1 /\ Taking \cup {t} = Taking
  BY CountSets, CountChange
<1>3. \A t \in Threads : /\ t \in Having <=> mode[t] \in HavingModes
                         /\ t \in Taking <=> mode[t] \in TakingModes
  BY DEF Having, Taking
<1> HIDE DEF h, k
<1> DEFINE Counters == {"borrow", "return", "create", "reuse", "active"}
<1>4. ASSUME NEW fields, L!Add(fields)
      PROVE  /\ counts' \in [Counters -> Int]
             /\ \A f \in Counters : counts'[f] = counts[f] + IF f \in fields THEN 1 ELSE 0
  BY <1>4 DEF L!Add, LuaCountInv
<1>5. ASSUME NEW t \in Threads, L!Take(t)
      PROVE  LuaCountInv'
  <2>1. Cardinality(Having)' = h /\ Cardinality(Taking)' = k + 1
    <3>1. L!Goto(t, "capture") /\ mode[t] = "idle"
      BY <1>5 DEF L!Take
    <3>2. Having' = Having \ {t} /\ Taking' = Taking \cup {t}
      BY <3>1, Moved DEF HavingModes, TakingModes
    <3>3. t \notin Having /\ t \notin Taking
      BY <1>3, <3>1 DEF HavingModes, TakingModes
    <3> QED
      BY <1>2, <3>2, <3>3 DEF h
  <2>2. all' = all /\ L!Add({"reuse"})
    BY <1>5 DEF L!Take
  <2>3. /\ counts' \in [Counters -> Int]
        /\ \A f \in Counters : counts'[f] = counts[f] + IF f \in {"reuse"} THEN 1 ELSE 0
    BY <1>4, <2>2
  <2> QED
    BY <1>1, <2>1, <2>2, <2>3 DEF LuaCountInv, h, k
<1>6. ASSUME NEW t \in Threads, L!Create(t)
      PROVE  LuaCountInv'
  <2>1. CASE UNCHANGED <<all, borrowed, globals, counts, mode>>
    BY <2>1 DEF LuaCountInv, Having, Taking
  <2>2. ASSUME NEW v \in States \ all, all' = all \cup {v}, L!Add({"create"}), L!Goto(t, "capture")
        PROVE  LuaCountInv'
    <3>1. Having' = Having \ {t} /\ Taking' = Taking \cup {t} /\ mode[t] = "idle"
      BY <1>6, <2>2, Moved DEF HavingModes, TakingModes, L!Create
    <3>2. t \notin Having /\ t \notin Taking
      BY <1>3, <3>1 DEF HavingModes, TakingModes
    <3>3. Cardinality(Having)' = h /\ Cardinality(Taking)' = k + 1
      BY <1>2, <3>1, <3>2 DEF h
    <3>4. IsFiniteSet(all') /\ Cardinality(all') = Cardinality(all) + 1
      BY <2>2, FS_AddElement DEF LuaCountInv
    <3>5. /\ counts' \in [Counters -> Int]
          /\ \A f \in Counters : counts'[f] = counts[f] + IF f \in {"create"} THEN 1 ELSE 0
      BY <1>4, <2>2
    <3> QED
      BY <1>1, <3>3, <3>4, <3>5 DEF LuaCountInv, h, k
  <2> QED
    BY <1>6, <2>1, <2>2 DEF L!Create
<1>7. ASSUME NEW t \in Threads, L!Capture(t)
      PROVE  LuaCountInv'
  <2>1. mode[t] = "capture" /\ t \in Taking /\ t \notin Having /\ all' = all
    BY <1>3, <1>7 DEF L!Capture, HavingModes, TakingModes
  <2>2. CASE L!Add({"borrow", "active"}) /\ L!Goto(t, "run")
    <3>1. Having' = Having \cup {t} /\ Taking' = Taking \ {t}
      BY <2>2, Moved DEF HavingModes, TakingModes
    <3>2. Cardinality(Having)' = h + 1 /\ Cardinality(Taking)' = k - 1
      BY <1>2, <2>1, <3>1
    <3>3. /\ counts' \in [Counters -> Int]
          /\ \A f \in Counters : counts'[f] = counts[f] + IF f \in {"borrow", "active"} THEN 1 ELSE 0
      BY <1>4, <2>2
    <3> QED
      BY <1>1, <2>1, <3>2, <3>3 DEF LuaCountInv, h, k
  <2>3. CASE L!Goto(t, "undo") /\ UNCHANGED <<snap, counts>>
    <3>1. Having' = Having \ {t} /\ Taking' = Taking \cup {t}
      BY <2>3, Moved DEF HavingModes, TakingModes
    <3> QED
      BY <1>2, <2>1, <2>3, <3>1 DEF LuaCountInv
  <2> QED
    BY <1>7, <2>2, <2>3 DEF L!Capture
<1>8. ASSUME NEW t \in Threads, L!Undo(t)
      PROVE  LuaCountInv'
  <2>1. mode[t] = "undo" /\ t \in Taking /\ t \notin Having /\ UNCHANGED <<all, counts>>
    BY <1>3, <1>8 DEF L!Undo, HavingModes, TakingModes
  <2>2. Having' = Having \ {t} /\ Taking' = Taking \ {t}
    BY <1>8, Moved DEF L!Undo, L!Leave, HavingModes, TakingModes
  <2>3. Cardinality(Having)' = h /\ Cardinality(Taking)' = k - 1
    BY <1>2, <2>1, <2>2 DEF h
  <2> QED
    BY <1>1, <2>1, <2>3 DEF LuaCountInv, h, k
<1>9. ASSUME NEW t \in Threads, L!Run(t) \/ L!Look(t) \/ L!ResetState(t) \/ L!Push(t)
      PROVE  LuaCountInv'
  <2>1. PICK m \in HavingModes : L!Goto(t, m)
    BY <1>9 DEF L!Run, L!Look, L!ResetState, L!Push, HavingModes
  <2>2. t \in Having /\ t \notin Taking /\ UNCHANGED <<all, counts>>
    BY <1>3, <1>9 DEF L!Run, L!Look, L!ResetState, L!Push, HavingModes, TakingModes
  <2>3. Having' = Having \cup {t} /\ Taking' = Taking \ {t}
    BY <2>1, Moved DEF HavingModes, TakingModes
  <2> QED
    BY <1>2, <2>2, <2>3 DEF LuaCountInv
<1>10. ASSUME NEW t \in Threads, L!Count(t)
       PROVE  LuaCountInv'
  <2>1. mode[t] = "counting" /\ t \in Having /\ t \notin Taking /\ all' = all
    BY <1>3, <1>10 DEF L!Count, HavingModes, TakingModes
  <2>2. Having' = Having \ {t} /\ Taking' = Taking \ {t}
    BY <1>10, Moved DEF L!Count, L!Leave, HavingModes, TakingModes
  <2>3. Cardinality(Having)' = h - 1 /\ Cardinality(Taking)' = k
    BY <1>2, <2>1, <2>2 DEF k
  <2>4. /\ counts' \in [Counters -> Int]
        /\ \A f \in Counters : counts'[f] = IF f = "return" THEN counts[f] + 1
                                          ELSE IF f = "active" THEN counts[f] - 1 ELSE counts[f]
    BY <1>10 DEF L!Count, L!Ended, LuaCountInv
  <2> QED
    BY <1>1, <2>1, <2>3, <2>4 DEF LuaCountInv, h, k
<1>11. CASE L!Close \/ (\E t \in Threads : L!Refused(t)) \/ UNCHANGED L!vars
  BY <1>11 DEF L!Close, L!Refused, L!vars, LuaCountInv, Having, Taking
<1> QED
  BY <1>5, <1>6, <1>7, <1>8, <1>9, <1>10, <1>11 DEF L!Next

LEMMA LuaCountInit == L!Init => LuaCountInv
<1> SUFFICES ASSUME L!Init
             PROVE  LuaCountInv
  OBVIOUS
<1>1. Having = {} /\ Taking = {}
  BY DEF L!Init, Having, Taking, HavingModes, TakingModes
<1>2. IsFiniteSet(all) /\ Cardinality(all) = 1
  BY FS_Singleton DEF L!Init
<1>3. Cardinality(Having) = 0 /\ Cardinality(Taking) = 0
  BY <1>1, FS_EmptySet
<1> QED
  BY <1>2, <1>3 DEF L!Init, LuaCountInv

LEMMA LuaHolds == Spec => [](LuaInv /\ LuaCountInv)
<1>1. Init => LuaInv /\ LuaCountInv
  BY LuaInitInv, LuaCountInit DEF Init
<1>2. LuaInv /\ LuaCountInv /\ [Next]_vars => (LuaInv /\ LuaCountInv)'
  BY Steps, LuaNextInv, LuaCountNext DEF LuaInv
<1> QED
  BY <1>1, <1>2, PTL DEF Spec

(* What the invariants say of the pool's promises.                         *)
LEMMA LuaPromises ==
    LuaInv /\ LuaCountInv => L!OneHolder /\ L!CountsBalance /\ L!NothingLeaks
<1> SUFFICES ASSUME LuaInv, LuaCountInv
             PROVE  L!OneHolder /\ L!CountsBalance /\ L!NothingLeaks
  OBVIOUS
<1>1. ASSUME NEW t \in L!Out
      PROVE  borrowed[t] \in all \ L!Range(free)
  <2>1. borrowed[t] \in all /\ \A i \in 1 .. Len(free) : free[i] # borrowed[t]
    BY DEF LuaInv, LuaHolderInv
  <2>2. DOMAIN free = 1 .. Len(free)
    BY LenProperties DEF LuaInv, LuaTypeInv
  <2> QED
    BY <2>1, <2>2 DEF L!Range
<1>2. L!OneHolder
  BY <1>1 DEF LuaInv, LuaHolderInv, L!OneHolder
<1>3. L!CountsBalance
  <2>1. Cardinality(Taking) \in Nat
    BY CountSets
  <2>2. counts["reuse"] + counts["create"] >= counts["borrow"]
    BY <2>1 DEF LuaCountInv
  <2>3. Having = {t \in Threads : mode[t] \in {"run", "returning", "resetting", "pushing", "counting"}}
    BY DEF Having, HavingModes
  <2> QED
    BY <2>2, <2>3, SameCardinality, Zenon DEF LuaCountInv, L!CountsBalance
<1>4. L!NothingLeaks
  BY DEF LuaInv, LuaCleanInv, FreeClean, Clean, L!NothingLeaks
<1> QED
  BY <1>2, <1>3, <1>4

---------------------------------------------------------------------------
(* The pool of Redis connections.                                          *)

Speaking   == {"send", "read", "discard", "discarded"}
InUseModes == {"dial", "release"} \cup Speaking
RedisModes == {"ready", "acquire", "push", "done", "waiting", "ended"} \cup InUseModes
Answer     == [byte : {"+", "-", "$", "*", "[", "Q", "?"}, to : R!Everyone]

InUse == {u \in R!Everyone : at[u] \in InUseModes}

RedisTypeInv ==
    /\ at \in [R!Everyone -> RedisModes]
    /\ step \in [R!Everyone -> Nat]
    /\ conn \in [R!Everyone -> Conns \cup {NoConn}]
    /\ answers \in [R!Everyone -> SUBSET Answer]
    /\ wire \in [Conns -> Seq(Answer)]
    /\ txn \in [Conns -> {"none", "open", "aborted"}]
    /\ idle \in Seq(Conns)
    /\ inUse \in Int

(* Who has a connection.                                                   *)
PlaceInv ==
    \A u \in R!Everyone :
        /\ at[u] \in Speaking \cup {"push"} => conn[u] \in Conns
        /\ at[u] \notin Speaking \cup {"release", "push"} => conn[u] = NoConn

(* OneBorrower, element by element.                                        *)
BorrowInv ==
    /\ \A i, j \in 1 .. Len(idle) : idle[i] = idle[j] => i = j
    /\ \A u \in R!Everyone : conn[u] # NoConn => \A i \in 1 .. Len(idle) : idle[i] # conn[u]
    /\ \A u, v \in R!Everyone : conn[u] = conn[v] /\ conn[u] # NoConn => u = v

AccountInv == inUse = Cardinality(InUse) /\ Len(idle) <= MaxIdle

(* Nothing is to be read from a connection nobody has, unless an exchange  *)
(* on it has failed.                                                       *)
Fresh(c) == wire[c] = <<>> /\ txn[c] = "none"

FreeInv == \A c \in Conns \ soiled : (\A u \in R!Everyone : conn[u] # c) => Fresh(c)

(* The answer to the command of u is on the wire alone; if it is one that  *)
(* u accepts, the transaction goes on exactly when the script does.        *)
Onward(u) == IF step[u] < Len(R!Script(u)) THEN "open" ELSE "none"
Awaits(u) ==
    \E r \in Answer : /\ wire[conn[u]] = <<r>> /\ r.to = u
                      /\ r.byte \in R!Accepted(R!Script(u)[step[u]]) => txn[conn[u]] = Onward(u)

(* Where an exchange that has not failed leaves its connection.            *)
Exchange(u) ==
    /\ \A r \in answers[u] : r.to = u
    /\ at[u] = "send" => wire[conn[u]] = <<>> /\ txn[conn[u]] = IF step[u] > 1 THEN "open" ELSE "none"
    /\ at[u] = "read" => Awaits(u)
    /\ at[u] \in {"release", "push"} => Fresh(conn[u])

Hand(u) ==
    /\ at[u] \notin Speaking => step[u] = 1
    /\ at[u] \in Speaking => step[u] \in 1 .. Len(R!Script(u))
    /\ at[u] \in {"ready", "acquire", "dial"} => answers[u] = {}
    /\ conn[u] \in Conns \ soiled => Exchange(u)

HandInv == \A u \in R!Everyone : Hand(u)

RedisInv == RedisTypeInv /\ PlaceInv /\ BorrowInv /\ AccountInv /\ FreeInv /\ HandInv

---------------------------------------------------------------------------
(* The commands of an execution.                                           *)
LEMMA ScriptShape ==
    ASSUME NEW u
    PROVE  LET s == R!Script(u) IN
           \/ Len(s) = 1 /\ s[1] \in {"GET", "LRANGE", "SET", "PING"}
           \/ Len(s) = 4 /\ s[1] = "MULTI" /\ s[2] = "DEL" /\ s[3] = "RPUSH" /\ s[4] = "EXEC"
<1>1. CASE does[u] = "get"
  BY <1>1 DEF R!Script
<1>2. CASE does[u] = "range"
  BY <1>2 DEF R!Script
<1>3. CASE does[u] = "set"
  BY <1>3 DEF R!Script
<1>4. CASE does[u] = "ping"
  BY <1>4 DEF R!Script
<1>5. CASE does[u] \notin {"get", "range", "set", "ping"}
  BY <1>5 DEF R!Script
<1> QED
  BY <1>1, <1>2, <1>3, <1>4, <1>5

(* An answer that is accepted takes a transaction where the script says.   *)
LEMMA ReplyFits ==
    ASSUME NEW u, NEW k \in 1 .. Len(R!Script(u)), NEW c,
           txn[c] = IF k > 1 THEN "open" ELSE "none",
           NEW r \in R!Replies(c, R!Script(u)[k])
    PROVE  r \in R!Accepted(R!Script(u)[k]) =>
               R!AfterCommand(c, R!Script(u)[k], r) =
                   IF k < Len(R!Script(u)) THEN "open" ELSE "none"
<1> DEFINE s == R!Script(u)
<1>1. \/ Len(s) = 1 /\ s[1] \in {"GET", "LRANGE", "SET", "PING"}
      \/ Len(s) = 4 /\ s[1] = "MULTI" /\ s[2] = "DEL" /\ s[3] = "RPUSH" /\ s[4] = "EXEC"
  BY ScriptShape
<1>2. k \in 1 .. Len(s) /\ r \in R!Replies(c, s[k])
  OBVIOUS
<1> SUFFICES r \in R!Accepted(s[k]) =>
                 R!AfterCommand(c, s[k], r) = IF k < Len(s) THEN "open" ELSE "none"
  OBVIOUS
<1> HIDE DEF s
<1>3. CASE Len(s) = 1 /\ s[1] \in {"GET", "LRANGE", "SET", "PING"}
  <2>1. k = 1 /\ ~(k < Len(s))
    BY <1>2, <1>3
  <2> QED
    BY <1>3, <2>1 DEF R!AfterCommand
<1>4. CASE Len(s) = 4 /\ s[1] = "MULTI" /\ s[2] = "DEL" /\ s[3] = "RPUSH" /\ s[4] = "EXEC"
  <2>1. CASE k = 1
    BY <1>4, <2>1 DEF R!AfterCommand
  <2>2. CASE k \in {2, 3}
    <3>1. s[k] \in {"DEL", "RPUSH"} /\ txn[c] = "open" /\ k < Len(s)
      BY <1>4, <2>2
    <3>2. R!Accepted(s[k]) = {"+", "Q"}
      BY <3>1 DEF R!Accepted
    <3>3. r # "-" => R!AfterCommand(c, s[k], r) = "open"
      BY <3>1 DEF R!AfterCommand
    <3> QED
      BY <3>1, <3>2, <3>3
  <2>3. CASE k = 4
    <3>1. s[k] = "EXEC" /\ ~(k < Len(s))
      BY <1>4, <2>3
    <3>2. R!AfterCommand(c, s[k], r) = "none"
      BY <3>1 DEF R!AfterCommand
    <3> QED
      BY <3>1, <3>2
  <2>4. k = 1 \/ k \in {2, 3} \/ k = 4
    BY <1>2, <1>4
  <2> QED
    BY <2>1, <2>2, <2>3, <2>4
<1> QED
  BY <1>1, <1>3, <1>4

LEMMA ReplyType ==
    ASSUME NEW c, NEW command, NEW r \in R!Replies(c, command), RedisTypeInv, c \in Conns
    PROVE  /\ r \in {"+", "-", "$", "*", "[", "Q", "?"}
           /\ R!AfterCommand(c, command, r) \in {"none", "open", "aborted"}
<1>1. r \in {"+", "-", "$", "*", "[", "Q", "?"}
  BY DEF R!Replies
<1>2. R!AfterCommand(c, command, r) \in {"none", "open", "aborted"}
  BY DEF R!AfterCommand, RedisTypeInv
<1> QED
  BY <1>1, <1>2

---------------------------------------------------------------------------
LEMMA RedisInitInv == R!Init => RedisInv
<1> SUFFICES ASSUME R!Init
             PROVE  RedisInv
  OBVIOUS
<1>1. Len(idle) = 0 /\ idle = <<>> /\ idle \in Seq(Conns)
  BY EmptySeq DEF R!Init
<1>2. \A c \in Conns : wire[c] = <<>> /\ txn[c] = "none"
  BY DEF R!Init
<1>3. InUse = {}
  BY DEF R!Init, InUse, InUseModes, Speaking
<1>4. RedisTypeInv
  BY <1>1 DEF R!Init, RedisTypeInv, RedisModes, InUseModes, Speaking
<1>5. PlaceInv
  BY DEF R!Init, PlaceInv, Speaking
<1>6. BorrowInv
  BY <1>1 DEF R!Init, BorrowInv
<1>7. AccountInv
  BY <1>1, <1>3, FS_EmptySet, PartsAssumption DEF R!Init, AccountInv
<1>8. FreeInv
  BY <1>2 DEF FreeInv, Fresh
<1>9. HandInv
  BY PartsAssumption DEF R!Init, HandInv, Hand, Speaking
<1> QED
  BY <1>4, <1>5, <1>6, <1>7, <1>8, <1>9 DEF RedisInv

(* Who takes no part in a step sees nothing of it.                         *)
LEMMA HandKept ==
    ASSUME NEW v \in R!Everyone, Hand(v), UNCHANGED <<does, at[v], step[v], conn[v], answers[v]>>,
           conn[v] \in Conns \ soiled' =>
               conn[v] \notin soiled /\ wire'[conn[v]] = wire[conn[v]] /\ txn'[conn[v]] = txn[conn[v]]
    PROVE  Hand(v)'
<1>1. R!Script(v)' = R!Script(v) /\ Onward(v)' = Onward(v)
  BY DEF R!Script, Onward
<1>2. \A k : R!Accepted(k)' = R!Accepted(k)
  BY DEF R!Accepted
<1>3. ASSUME conn'[v] \in Conns \ soiled'
      PROVE  Exchange(v)'
  <2>1. Exchange(v)
    BY <1>3 DEF Hand
  <2>2. wire'[conn'[v]] = wire[conn[v]] /\ txn'[conn'[v]] = txn[conn[v]]
    BY <1>3
  <2>3. Awaits(v) => Awaits(v)'
    BY <1>1, <1>2, <2>2 DEF Awaits, Answer
  <2> QED
    BY <2>1, <2>2, <2>3 DEF Exchange, Fresh
<1> QED
  BY <1>1, <1>3 DEF Hand

(* The users of connections are finitely many; one changes its place.      *)
LEMMA InUseMoved ==
    ASSUME RedisTypeInv, NEW u \in R!Everyone, NEW m, R!Goto(u, m)
    PROVE  /\ IsFiniteSet(InUse)
           /\ InUse' = IF m \in InUseModes THEN InUse \cup {u} ELSE InUse \ {u}
           /\ u \in InUse <=> at[u] \in InUseModes
<1>1. IsFiniteSet(R!Everyone)
  BY PartsAssumption, FS_AddElement DEF R!Everyone
<1>2. InUse \subseteq R!Everyone
  BY DEF InUse
<1>3. \A v \in R!Everyone : at'[v] = IF v = u THEN m ELSE at[v]
  BY DEF R!Goto, RedisTypeInv
<1>4. InUse' = IF m \in InUseModes THEN InUse \cup {u} ELSE InUse \ {u}
  BY <1>3 DEF InUse, R!Everyone
<1> QED
  BY <1>1, <1>2, <1>4, FS_Subset DEF InUse

(* A step of u that leaves the pool alone, on u's connection at most.      *)
LEMMA ExchangeStep ==
    ASSUME RedisInv, NEW u \in R!Everyone, NEW m \in RedisModes, R!Goto(u, m),
           UNCHANGED <<does, conn, idle, inUse>>,
           m \in InUseModes <=> at[u] \in InUseModes,
           m \in Speaking \cup {"push"} => conn[u] \in Conns,
           m \notin Speaking \cup {"release", "push"} => conn[u] = NoConn,
           NEW k \in Nat, step' = [step EXCEPT ![u] = k],
           NEW a \in SUBSET Answer, answers' = [answers EXCEPT ![u] = a],
           wire' \in [Conns -> Seq(Answer)], txn' \in [Conns -> {"none", "open", "aborted"}],
           \A c \in Conns : c # conn[u] => wire'[c] = wire[c] /\ txn'[c] = txn[c],
           soiled \subseteq soiled',
           Hand(u)'
    PROVE  RedisInv'
<1> USE DEF RedisInv
<1>1. \A v \in R!Everyone : v # u => UNCHANGED <<at[v], step[v], conn[v], answers[v]>>
  BY DEF RedisTypeInv, R!Goto
<1>2. at'[u] = m
  BY DEF RedisTypeInv, R!Goto
<1>3. RedisTypeInv'
  BY DEF RedisTypeInv, R!Goto, R!Everyone
<1>4. PlaceInv'
  BY <1>1, <1>2 DEF PlaceInv, R!Everyone
<1>5. BorrowInv'
  BY DEF BorrowInv, R!Everyone
<1>6. AccountInv'
  <2>1. InUse' = InUse
    BY InUseMoved
  <2> QED
    BY <2>1 DEF AccountInv
<1>7. FreeInv'
  <2>1. ASSUME NEW c \in Conns \ soiled', \A v \in R!Everyone : conn[v] # c
        PROVE  Fresh(c)'
    <3>1. c # conn[u] /\ Fresh(c)
      BY <2>1 DEF FreeInv
    <3> QED
      BY <3>1 DEF Fresh
  <2> QED
    BY <2>1 DEF FreeInv, R!Everyone
<1>8. ASSUME NEW v \in R!Everyone, v # u
      PROVE  Hand(v)'
  <2>1. conn[v] \in Conns => conn[v] # conn[u]
    BY <1>8, PartsAssumption DEF BorrowInv
  <2>2. Hand(v)
    BY DEF HandInv
  <2>3. conn[v] \in Conns \ soiled' =>
            conn[v] \notin soiled /\ wire'[conn[v]] = wire[conn[v]] /\ txn'[conn[v]] = txn[conn[v]]
    BY <2>1
  <2> QED
    BY <1>1, <1>8, <2>2, <2>3, HandKept
<1> QED
  BY <1>3, <1>4, <1>5, <1>6, <1>7, <1>8 DEF HandInv, R!Everyone

(* An exchange fails: the connection is given back soiled.                 *)
LEMMA FailStep ==
    ASSUME RedisInv, NEW u \in R!Everyone, at[u] \in Speaking, R!Fail(u),
           UNCHANGED <<does, conn, idle, inUse>>,
           wire' \in [Conns -> Seq(Answer)], txn' \in [Conns -> {"none", "open", "aborted"}],
           \A c \in Conns : c # conn[u] => wire'[c] = wire[c] /\ txn'[c] = txn[c]
    PROVE  RedisInv'
<1>1. conn[u] \in Conns /\ conn' = conn
  BY DEF RedisInv, PlaceInv
<1>2. at'[u] = "release" /\ step'[u] = 1 /\ conn'[u] \in soiled'
  BY <1>1 DEF RedisInv, RedisTypeInv, R!Fail, R!Goto
<1>3. Hand(u)'
  BY <1>1, <1>2 DEF Hand, Speaking
<1>4. /\ "release" \in RedisModes /\ R!Goto(u, "release")
      /\ "release" \in InUseModes <=> at[u] \in InUseModes
      /\ "release" \in Speaking \cup {"push"} => conn[u] \in Conns
      /\ "release" \notin Speaking \cup {"release", "push"} => conn[u] = NoConn
  BY <1>1 DEF RedisModes, InUseModes, R!Fail
<1>5. step' = [step EXCEPT ![u] = 1] /\ answers' = [answers EXCEPT ![u] = {}] /\ soiled \subseteq soiled'
  BY DEF R!Fail
<1>6. 1 \in Nat /\ {} \in SUBSET Answer
  OBVIOUS
<1> QED
  BY <1>3, <1>4, <1>5, <1>6, ExchangeStep

---------------------------------------------------------------------------
(* The actions.                                                            *)

LEMMA BeginInv ==
    ASSUME RedisInv, NEW u \in R!Everyone, R!Begin(u)
    PROVE  RedisInv'
<1>1. at[u] = "ready" /\ UNCHANGED <<does, conn, idle, inUse, step, answers, wire, txn, soiled>>
  BY DEF R!Begin, R!server
<1>2. PICK m \in {"acquire", "done"} : R!Goto(u, m)
  BY DEF R!Begin
<1>3. /\ m \in RedisModes /\ m \notin InUseModes /\ at[u] \notin InUseModes
      /\ m \notin Speaking \cup {"push"} /\ conn[u] = NoConn
  BY <1>1, <1>2 DEF RedisInv, PlaceInv, RedisModes, InUseModes, Speaking
<1>4. step' = [step EXCEPT ![u] = step[u]] /\ step[u] \in Nat
  BY <1>1 DEF RedisInv, RedisTypeInv
<1>5. answers' = [answers EXCEPT ![u] = answers[u]] /\ answers[u] \in SUBSET Answer
  BY <1>1 DEF RedisInv, RedisTypeInv
<1>6. wire' \in [Conns -> Seq(Answer)] /\ txn' \in [Conns -> {"none", "open", "aborted"}]
  BY <1>1 DEF RedisInv, RedisTypeInv
<1>7. Hand(u)'
  <2>1. at'[u] = m
    BY <1>2 DEF R!Goto, RedisInv, RedisTypeInv
  <2>2. Hand(u) /\ step[u] = 1 /\ answers[u] = {}
    BY <1>1 DEF RedisInv, HandInv, Hand, Speaking
  <2>3. m \notin Speaking /\ NoConn \notin Conns
    BY <1>3, PartsAssumption
  <2> QED
    BY <1>1, <1>3, <2>1, <2>2, <2>3 DEF Hand
<1> QED
  BY <1>1, <1>2, <1>3, <1>4, <1>5, <1>6, <1>7, ExchangeStep

LEMMA SendInv ==
    ASSUME RedisInv, NEW u \in R!Everyone, R!Send(u)
    PROVE  RedisInv'
<1> DEFINE c == conn[u]
<1>1. at[u] \in {"send", "discard"} /\ at[u] \in Speaking /\ UNCHANGED <<does, conn, idle, inUse>>
  BY DEF R!Send, Speaking
<1>2. c \in Conns /\ wire \in [Conns -> Seq(Answer)] /\ txn \in [Conns -> {"none", "open", "aborted"}]
  BY <1>1 DEF RedisInv, PlaceInv, RedisTypeInv
<1>3. CASE R!Fail(u) /\ UNCHANGED <<wire, txn>>
  BY <1>1, <1>2, <1>3, FailStep
<1>4. ASSUME NEW r \in R!Replies(c, R!Command(u)),
             wire' = [wire EXCEPT ![c] = Append(@, [byte |-> r, to |-> u])],
             txn' = [txn EXCEPT ![c] = R!AfterCommand(c, R!Command(u), r)],
             R!Goto(u, IF at[u] = "send" THEN "read" ELSE "discarded"),
             UNCHANGED <<step, answers, outcome, soiled>>
      PROVE  RedisInv'
  <2> DEFINE a == [byte |-> r, to |-> u]
             t == R!AfterCommand(c, R!Command(u), r)
             m == IF at[u] = "send" THEN "read" ELSE "discarded"
  <2>1. a \in Answer /\ t \in {"none", "open", "aborted"}
    BY <1>2, ReplyType DEF RedisInv, Answer
  <2>2. /\ wire' \in [Conns -> Seq(Answer)] /\ wire'[c] = Append(wire[c], a)
        /\ txn' \in [Conns -> {"none", "open", "aborted"}] /\ txn'[c] = t
        /\ \A d \in Conns : d # c => wire'[d] = wire[d] /\ txn'[d] = txn[d]
    <3> HIDE DEF a, t
    <3>1. wire' = [wire EXCEPT ![c] = Append(wire[c], a)] /\ txn' = [txn EXCEPT ![c] = t]
      BY <1>2, <1>4 DEF a, t
    <3>2. Append(wire[c], a) \in Seq(Answer)
      BY <1>2, <2>1
    <3> QED
      BY <1>2, <2>1, <3>1, <3>2
  <2>3. at'[u] = m
    BY <1>4 DEF R!Goto, RedisInv, RedisTypeInv
  <2>4. /\ m \in RedisModes /\ m \in InUseModes /\ at[u] \in InUseModes /\ m \in Speaking
    BY <1>1 DEF RedisModes, InUseModes, Speaking
  <2>5. Hand(u) /\ step[u] \in 1 .. Len(R!Script(u)) /\ (c \notin soiled => Exchange(u))
    BY <1>1, <1>2 DEF RedisInv, HandInv, Hand
  <2>6. ASSUME c \notin soiled, at[u] = "send"
        PROVE  Awaits(u)'
    <3>1. wire[c] = <<>> /\ txn[c] = IF step[u] > 1 THEN "open" ELSE "none"
      BY <2>5, <2>6 DEF Exchange
    <3>2. R!Command(u) = R!Script(u)[step[u]]
      BY <2>6 DEF R!Command
    <3>3. r \in R!Accepted(R!Script(u)[step[u]]) => t = Onward(u)
      <4>1. /\ r \in R!Replies(c, R!Script(u)[step[u]])
            /\ t = R!AfterCommand(c, R!Script(u)[step[u]], r)
        BY <1>4, <3>2
      <4> HIDE DEF t
      <4> QED
        BY <2>5, <3>1, <4>1, ReplyFits DEF Onward
    <3>4. wire'[c] = <<a>>
      BY <2>2, <3>1
    <3>5. R!Script(u)' = R!Script(u) /\ Onward(u)' = Onward(u) /\ step'[u] = step[u] /\ conn' = conn
      BY <1>1, <1>4 DEF R!Script, Onward
    <3>6. R!Accepted(R!Script(u)[step[u]])' = R!Accepted(R!Script(u)[step[u]])
      BY <3>5 DEF R!Accepted
    <3>7. a.to = u /\ a.byte = r
      OBVIOUS
    <3> HIDE DEF a, t
    <3> QED
      BY <2>1, <2>2, <3>3, <3>4, <3>5, <3>6, <3>7 DEF Awaits, Answer, R!Everyone
  <2>7. Hand(u)'
    <3>1. R!Script(u)' = R!Script(u) /\ step' = step /\ conn' = conn /\ answers' = answers /\ soiled' = soiled
      BY <1>1, <1>4 DEF R!Script
    <3>2. ASSUME c \notin soiled
          PROVE  Exchange(u)'
      <4>1. m \notin {"send", "release", "push"} /\ (m = "read" => at[u] = "send")
        OBVIOUS
      <4> HIDE DEF m
      <4> QED
        BY <2>3, <2>5, <2>6, <3>1, <3>2, <4>1 DEF Exchange
    <3> HIDE DEF m
    <3> QED
      BY <2>3, <2>4, <2>5, <3>1, <3>2 DEF Hand, Speaking
  <2>8. step' = [step EXCEPT ![u] = step[u]] /\ step[u] \in Nat
    BY <1>4 DEF RedisInv, RedisTypeInv
  <2>9. answers' = [answers EXCEPT ![u] = answers[u]] /\ answers[u] \in SUBSET Answer
    BY <1>4 DEF RedisInv, RedisTypeInv
  <2>10. R!Goto(u, m) /\ soiled \subseteq soiled'
    BY <1>4
  <2>11. m \in Speaking \cup {"push"} => conn[u] \in Conns
    BY <1>2
  <2>12. m \notin Speaking \cup {"release", "push"} => conn[u] = NoConn
    BY <2>4
  <2> HIDE DEF m
  <2> QED
    BY <1>1, <2>2, <2>4, <2>7, <2>8, <2>9, <2>10, <2>11, <2>12, ExchangeStep
<1> QED
  BY <1>3, <1>4 DEF R!Send

(* What is read is taken off the wire.                                     *)
LEMMA WireRead ==
    ASSUME RedisInv, NEW u \in R!Everyone, conn[u] \in Conns, wire[conn[u]] # <<>>,
           wire' = [wire EXCEPT ![conn[u]] = Tail(@)]
    PROVE  /\ Head(wire[conn[u]]) \in Answer
           /\ wire' \in [Conns -> Seq(Answer)] /\ wire'[conn[u]] = Tail(wire[conn[u]])
           /\ \A c \in Conns : c # conn[u] => wire'[c] = wire[c]
<1> DEFINE s == wire[conn[u]]
<1>1. wire \in [Conns -> Seq(Answer)] /\ s \in Seq(Answer) /\ s # <<>>
  BY DEF RedisInv, RedisTypeInv
<1>2. Head(s) \in Answer /\ Tail(s) \in Seq(Answer)
  <2> HIDE DEF s
  <2> QED
    BY <1>1, HeadTailProperties
<1>3. wire' = [wire EXCEPT ![conn[u]] = Tail(s)]
  BY <1>1
<1> HIDE DEF s
<1>4. wire' \in [Conns -> Seq(Answer)] /\ wire'[conn[u]] = Tail(s)
      /\ \A c \in Conns : c # conn[u] => wire'[c] = wire[c]
  BY <1>1, <1>2, <1>3
<1> QED
  BY <1>2, <1>4 DEF s

LEMMA ReadInv ==
    ASSUME RedisInv, NEW u \in R!Everyone, R!Read(u)
    PROVE  RedisInv'
<1> DEFINE c == conn[u]
           h == Head(wire[c])
<1>1. /\ at[u] = "read" /\ at[u] \in Speaking /\ at[u] \in InUseModes
      /\ UNCHANGED <<does, conn, idle, inUse, txn, soiled>>
      /\ wire[c] # <<>> /\ wire' = [wire EXCEPT ![c] = Tail(@)]
      /\ h.byte \in R!Accepted(R!Command(u)) /\ answers' = [answers EXCEPT ![u] = @ \cup {h}]
  BY DEF R!Read, Speaking, InUseModes
<1>2. c \in Conns /\ txn' \in [Conns -> {"none", "open", "aborted"}]
  BY <1>1 DEF RedisInv, PlaceInv, RedisTypeInv
<1>3. /\ h \in Answer /\ wire' \in [Conns -> Seq(Answer)] /\ wire'[c] = Tail(wire[c])
      /\ \A d \in Conns : d # c => wire'[d] = wire[d]
  BY <1>1, <1>2, WireRead
<1> HIDE DEF h
<1>4. /\ answers[u] \cup {h} \in SUBSET Answer /\ answers' = [answers EXCEPT ![u] = answers[u] \cup {h}]
      /\ answers'[u] = answers[u] \cup {h}
  BY <1>1, <1>3 DEF RedisInv, RedisTypeInv
<1>5. Hand(u) /\ step[u] \in 1 .. Len(R!Script(u)) /\ (c \notin soiled => Exchange(u))
  BY <1>1, <1>2 DEF RedisInv, HandInv, Hand
<1>6. Len(R!Script(u)) \in Nat /\ R!Script(u)' = R!Script(u)
  <2>1. Len(R!Script(u)) \in {1, 4}
    BY ScriptShape
  <2> QED
    BY <1>1, <2>1 DEF R!Script
(* Nothing is left on a connection that has not failed.                    *)
<1>7. ASSUME c \notin soiled
      PROVE  /\ wire'[c] = <<>> /\ txn'[c] = Onward(u)
             /\ \A r \in answers'[u] : r.to = u
  <2>1. Awaits(u) /\ \A r \in answers[u] : r.to = u
    BY <1>1, <1>5, <1>7 DEF Exchange
  <2>2. PICK r \in Answer : /\ wire[c] = <<r>> /\ r.to = u
                            /\ r.byte \in R!Accepted(R!Script(u)[step[u]]) => txn[c] = Onward(u)
    BY <2>1 DEF Awaits
  <2>3. h = r /\ Tail(wire[c]) = <<>>
    BY <2>2 DEF h
  <2>4. R!Command(u) = R!Script(u)[step[u]]
    BY <1>1 DEF R!Command
  <2> QED
    BY <1>1, <1>3, <1>4, <2>1, <2>2, <2>3, <2>4
<1>8. ASSUME NEW m, NEW k, R!Goto(u, m), step' = [step EXCEPT ![u] = k],
             \/ step[u] < Len(R!Script(u)) /\ m = "send" /\ k = step[u] + 1
             \/ ~(step[u] < Len(R!Script(u))) /\ m = "release" /\ k = 1
      PROVE  RedisInv'
  <2>1. at'[u] = m /\ step'[u] = k /\ conn' = conn
    BY <1>1, <1>8 DEF R!Goto, RedisInv, RedisTypeInv
  <2>2. k \in 1 .. Len(R!Script(u)) /\ k \in Nat
    BY <1>5, <1>6, <1>8
  <2>3. /\ m \in RedisModes /\ m \in InUseModes /\ m \in Speaking \cup {"release", "push"}
    BY <1>8 DEF RedisModes, InUseModes, Speaking
  <2>4. ASSUME c \notin soiled
        PROVE  Exchange(u)'
    <3>1. CASE step[u] < Len(R!Script(u)) /\ m = "send" /\ k = step[u] + 1
      <4>1. k > 1
        BY <1>5, <1>6, <3>1
      <4> QED
        BY <1>7, <2>1, <2>4, <3>1, <4>1 DEF Exchange, Onward
    <3>2. CASE ~(step[u] < Len(R!Script(u))) /\ m = "release" /\ k = 1
      BY <1>7, <2>1, <2>4, <3>2 DEF Exchange, Onward, Fresh
    <3> QED
      BY <1>8, <3>1, <3>2
  <2>5. Hand(u)'
    <3>1. m \notin {"ready", "acquire", "dial"} /\ (m \notin Speaking => k = 1)
      BY <1>8 DEF Speaking
    <3> QED
      BY <1>1, <1>6, <2>1, <2>2, <2>4, <3>1 DEF Hand
  <2>6. /\ m \in InUseModes <=> at[u] \in InUseModes
        /\ m \in Speaking \cup {"push"} => conn[u] \in Conns
        /\ m \notin Speaking \cup {"release", "push"} => conn[u] = NoConn
    BY <1>1, <1>2, <2>3
  <2>7. \A d \in Conns : d # conn[u] => wire'[d] = wire[d] /\ txn'[d] = txn[d]
    BY <1>1, <1>3
  <2>8. soiled \subseteq soiled' /\ UNCHANGED <<does, conn, idle, inUse>>
    BY <1>1
  <2> QED
    BY <1>2, <1>3, <1>4, <1>8, <2>2, <2>3, <2>5, <2>6, <2>7, <2>8, ExchangeStep
<1>9. CASE step[u] < Len(R!Script(u))
  <2>1. step' = [step EXCEPT ![u] = step[u] + 1] /\ R!Goto(u, "send")
    BY <1>9 DEF R!Read, RedisInv, RedisTypeInv
  <2> QED
    BY <1>8, <1>9, <2>1
<1>10. CASE ~(step[u] < Len(R!Script(u)))
  <2>1. step' = [step EXCEPT ![u] = 1] /\ R!Goto(u, "release")
    BY <1>10 DEF R!Read, R!Answered
  <2> QED
    BY <1>8, <1>10, <2>1
<1> QED
  BY <1>9, <1>10

LEMMA ReadErrorInv ==
    ASSUME RedisInv, NEW u \in R!Everyone, R!ReadError(u)
    PROVE  RedisInv'
<1> DEFINE c == conn[u]
<1>1. /\ at[u] = "read" /\ at[u] \in Speaking /\ at[u] \in InUseModes
      /\ UNCHANGED <<does, conn, idle, inUse, txn>>
      /\ wire[c] # <<>> /\ wire' = [wire EXCEPT ![c] = Tail(@)]
  BY DEF R!ReadError, Speaking, InUseModes
<1>2. c \in Conns /\ txn' \in [Conns -> {"none", "open", "aborted"}]
  BY <1>1 DEF RedisInv, PlaceInv, RedisTypeInv
<1>3. /\ wire' \in [Conns -> Seq(Answer)]
      /\ \A d \in Conns : d # c => wire'[d] = wire[d] /\ txn'[d] = txn[d]
  BY <1>1, <1>2, WireRead
<1>4. CASE R!Fail(u)
  BY <1>1, <1>2, <1>3, <1>4, FailStep
<1>5. CASE R!Goto(u, "discard") /\ UNCHANGED <<step, answers, outcome, soiled>>
  <2>1. /\ "discard" \in RedisModes /\ "discard" \in InUseModes /\ "discard" \in Speaking
    BY DEF RedisModes, InUseModes, Speaking
  <2>2. at'[u] = "discard"
    BY <1>5 DEF R!Goto, RedisInv, RedisTypeInv
  <2>3. Hand(u)'
    <3>1. Hand(u) /\ R!Script(u)' = R!Script(u) /\ UNCHANGED <<step, answers, soiled, conn>>
      BY <1>1, <1>5 DEF RedisInv, HandInv, R!Script
    <3>2. ASSUME c \notin soiled
          PROVE  Exchange(u)'
      BY <1>2, <2>2, <3>1, <3>2 DEF Exchange, Hand
    <3> QED
      BY <1>1, <2>1, <2>2, <3>1, <3>2 DEF Hand
  <2>4. step' = [step EXCEPT ![u] = step[u]] /\ step[u] \in Nat
    BY <1>5 DEF RedisInv, RedisTypeInv
  <2>5. answers' = [answers EXCEPT ![u] = answers[u]] /\ answers[u] \in SUBSET Answer
    BY <1>5 DEF RedisInv, RedisTypeInv
  <2>6. /\ "discard" \in InUseModes <=> at[u] \in InUseModes
        /\ "discard" \in Speaking \cup {"push"} => conn[u] \in Conns
        /\ "discard" \notin Speaking \cup {"release", "push"} => conn[u] = NoConn
        /\ R!Goto(u, "discard") /\ soiled \subseteq soiled' /\ UNCHANGED <<does, conn, idle, inUse>>
    BY <1>1, <1>2, <1>5, <2>1
  <2> QED
    BY <1>2, <1>3, <2>1, <2>3, <2>4, <2>5, <2>6, ExchangeStep
<1> QED
  BY <1>4, <1>5 DEF R!ReadError

(* The other ways to fail.                                                 *)
LEMMA ReadOtherInv ==
    ASSUME RedisInv, NEW u \in R!Everyone, R!ReadOther(u)
    PROVE  RedisInv'
<1> DEFINE c == conn[u]
<1>1. /\ at[u] \in Speaking /\ UNCHANGED <<does, conn, idle, inUse, txn>> /\ R!Fail(u)
      /\ wire[c] # <<>> /\ wire' = [wire EXCEPT ![c][1].byte = "?"]
  BY DEF R!ReadOther, Speaking
<1>2. c \in Conns /\ txn' \in [Conns -> {"none", "open", "aborted"}]
      /\ wire \in [Conns -> Seq(Answer)]
  BY <1>1 DEF RedisInv, PlaceInv, RedisTypeInv, R!ReadOther, Speaking
<1>3. [wire[c] EXCEPT ![1] = [@ EXCEPT !.byte = "?"]] \in Seq(Answer)
  <2> DEFINE s == wire[c]
  <2>1. s \in Seq(Answer) /\ Len(s) \in Nat /\ DOMAIN s = 1 .. Len(s) /\ \A i \in 1 .. Len(s) : s[i] \in Answer
    BY <1>2, LenProperties, ElementOfSeq
  <2> HIDE DEF s
  <2>2. [s EXCEPT ![1] = [s[1] EXCEPT !.byte = "?"]] \in [1 .. Len(s) -> Answer]
    BY <2>1 DEF Answer
  <2>3. [s EXCEPT ![1] = [s[1] EXCEPT !.byte = "?"]] \in Seq(Answer)
    BY <2>1, <2>2, SeqDef
  <2>4. 1 \in DOMAIN s
    BY <1>1, <2>1, EmptySeq DEF s
  <2> QED
    BY <2>3, <2>4 DEF s
<1>4. wire' = [wire EXCEPT ![c] = [wire[c] EXCEPT ![1] = [@ EXCEPT !.byte = "?"]]]
  BY <1>1, <1>2
<1>5. /\ wire' \in [Conns -> Seq(Answer)]
      /\ \A d \in Conns : d # c => wire'[d] = wire[d] /\ txn'[d] = txn[d]
  BY <1>1, <1>2, <1>3, <1>4
<1> QED
  BY <1>1, <1>2, <1>5, FailStep

LEMMA ReadDiscardedInv ==
    ASSUME RedisInv, NEW u \in R!Everyone, R!ReadDiscarded(u)
    PROVE  RedisInv'
<1>1. /\ at[u] \in Speaking /\ UNCHANGED <<does, conn, idle, inUse, txn>> /\ R!Fail(u)
      /\ wire[conn[u]] # <<>> /\ wire' = [wire EXCEPT ![conn[u]] = Tail(@)]
  BY DEF R!ReadDiscarded, Speaking
<1>2. conn[u] \in Conns /\ txn' \in [Conns -> {"none", "open", "aborted"}]
  BY <1>1 DEF RedisInv, PlaceInv, RedisTypeInv
<1>3. /\ wire' \in [Conns -> Seq(Answer)]
      /\ \A d \in Conns : d # conn[u] => wire'[d] = wire[d] /\ txn'[d] = txn[d]
  BY <1>1, <1>2, WireRead
<1> QED
  BY <1>1, <1>2, <1>3, FailStep

LEMMA ReadFailsInv ==
    ASSUME RedisInv, NEW u \in R!Everyone, R!ReadFails(u)
    PROVE  RedisInv'
<1>1. at[u] \in Speaking /\ UNCHANGED <<does, conn, idle, inUse, wire, txn>> /\ R!Fail(u)
  BY DEF R!ReadFails, Speaking
<1>2. wire' \in [Conns -> Seq(Answer)] /\ txn' \in [Conns -> {"none", "open", "aborted"}]
  BY <1>1 DEF RedisInv, RedisTypeInv
<1> QED
  BY <1>1, <1>2, FailStep

LEMMA NextProbeInv ==
    ASSUME RedisInv, R!NextProbe
    PROVE  RedisInv'
<1>1. /\ at[Probe] = "waiting" /\ Probe \in R!Everyone /\ soiled \subseteq soiled'
      /\ UNCHANGED <<does, conn, idle, inUse, step, wire, txn, soiled>>
      /\ answers' = [answers EXCEPT ![Probe] = {}]
  BY DEF R!NextProbe, R!server, R!Everyone
<1>2. PICK m \in {"acquire", "ended"} : R!Goto(Probe, m)
  BY DEF R!NextProbe
<1>3. /\ m \in RedisModes /\ m \notin InUseModes /\ at[Probe] \notin InUseModes
      /\ m \notin Speaking \cup {"push"} /\ conn[Probe] = NoConn
  BY <1>1, <1>2 DEF RedisInv, PlaceInv, RedisModes, InUseModes, Speaking
<1>4. step' = [step EXCEPT ![Probe] = step[Probe]] /\ step[Probe] \in Nat /\ {} \in SUBSET Answer
  BY <1>1 DEF RedisInv, RedisTypeInv
<1>5. wire' \in [Conns -> Seq(Answer)] /\ txn' \in [Conns -> {"none", "open", "aborted"}]
  BY <1>1 DEF RedisInv, RedisTypeInv
<1>6. Hand(Probe)'
  <2>1. at'[Probe] = m /\ answers'[Probe] = {}
    BY <1>1, <1>2 DEF R!Goto, RedisInv, RedisTypeInv
  <2>2. step[Probe] = 1
    BY <1>1 DEF RedisInv, HandInv, Hand, Speaking
  <2>3. m \notin Speaking /\ NoConn \notin Conns
    BY <1>3, PartsAssumption
  <2> QED
    BY <1>1, <1>3, <2>1, <2>2, <2>3 DEF Hand
<1> QED
  BY <1>1, <1>2, <1>3, <1>4, <1>5, <1>6, ExchangeStep

---------------------------------------------------------------------------
(* The steps that change the pool.                                         *)

LEMMA NotEmpty == \A u : 1 \in 1 .. Len(R!Script(u))
<1> SUFFICES ASSUME NEW u
             PROVE  1 \in 1 .. Len(R!Script(u))
  OBVIOUS
<1>1. Len(R!Script(u)) \in {1, 4}
  BY ScriptShape
<1>2. \A k \in {1, 4} : 1 \in 1 .. k
  OBVIOUS
<1> QED
  BY <1>1, <1>2, Zenon

LEMMA FreeConnection ==
    ASSUME RedisInv, NEW u \in R!Everyone, conn[u] = NoConn, NEW c \in Conns,
           \A v \in R!Everyone : conn[v] # c, UNCHANGED <<does, wire, txn, soiled, step, answers>>,
           conn' = [conn EXCEPT ![u] = c], R!Goto(u, "send"), at[u] \in {"acquire", "dial"},
           idle' \in Seq(Conns), inUse' \in Int
    PROVE  RedisTypeInv' /\ PlaceInv' /\ FreeInv' /\ HandInv'
<1> USE DEF RedisInv
<1>1. \A v \in R!Everyone : v # u => UNCHANGED <<at[v], step[v], conn[v], answers[v]>>
  BY DEF RedisTypeInv, R!Goto
<1>2. at'[u] = "send" /\ conn'[u] = c
  BY DEF RedisTypeInv, R!Goto
<1>3. RedisTypeInv'
  BY DEF RedisTypeInv, R!Goto, R!Everyone, RedisModes, InUseModes, Speaking
<1>4. PlaceInv'
  BY <1>1, <1>2 DEF PlaceInv, R!Everyone, Speaking
<1>5. FreeInv'
  <2>1. ASSUME NEW d \in Conns \ soiled', \A v \in R!Everyone : conn'[v] # d
        PROVE  Fresh(d)'
    <3>1. \A v \in R!Everyone : conn[v] # d
      BY <1>1, <2>1, PartsAssumption
    <3> QED
      BY <2>1, <3>1 DEF FreeInv, Fresh
  <2> QED
    BY <2>1 DEF FreeInv, R!Everyone
<1>6. ASSUME NEW v \in R!Everyone, v # u
      PROVE  Hand(v)'
  BY <1>1, <1>6, HandKept DEF HandInv
<1>7. Hand(u)'
  <2>1. step[u] = 1 /\ answers[u] = {}
    BY DEF HandInv, Hand, Speaking
  <2>2. c \notin soiled => Fresh(c)
    BY DEF FreeInv
  <2>3. Len(R!Script(u)) \in {1, 4} /\ R!Script(u)' = R!Script(u)
    BY ScriptShape DEF R!Script
  <2>4. step'[u] = 1 /\ answers'[u] = {} /\ (c \notin soiled' => wire'[c] = <<>> /\ txn'[c] = "none")
    BY <2>1, <2>2 DEF Fresh
  <2>5. 1 \in 1 .. Len(R!Script(u)) /\ ~(1 > 1)
    BY NotEmpty
  <2> HIDE DEF RedisInv
  <2>6. c \notin soiled' => Exchange(u)'
    BY <1>2, <2>4, <2>5 DEF Exchange
  <2> QED
    BY <1>2, <2>3, <2>4, <2>5, <2>6 DEF Hand, Speaking
<1> QED
  BY <1>3, <1>4, <1>5, <1>6, <1>7 DEF HandInv, R!Everyone

LEMMA RFrontLast ==
    ASSUME NEW S, NEW s \in Seq(S), s # <<>>
    PROVE  /\ R!Front(s) \in Seq(S) /\ Len(R!Front(s)) = Len(s) - 1
           /\ \A i \in 1 .. Len(s) - 1 : R!Front(s)[i] = s[i]
           /\ Len(s) \in 1 .. Len(s) /\ R!Last(s) = s[Len(s)] /\ R!Last(s) \in S
<1>1. R!Front(s) = L!Front(s) /\ R!Last(s) = L!Last(s)
  BY DEF R!Front, R!Last, L!Front, L!Last
<1> QED
  BY <1>1, FrontLast

LEMMA ReuseInv ==
    ASSUME RedisInv, NEW u \in R!Everyone, R!Reuse(u)
    PROVE  RedisInv'
<1> USE DEF RedisInv
<1> DEFINE c == idle[Len(idle)]
<1>1. /\ at[u] = "acquire" /\ idle # <<>> /\ idle \in Seq(Conns) /\ conn[u] = NoConn
      /\ conn' = [conn EXCEPT ![u] = R!Last(idle)] /\ idle' = R!Front(idle) /\ inUse' = inUse + 1
      /\ R!Goto(u, "send") /\ UNCHANGED <<does, step, answers, wire, txn, soiled>>
  BY DEF R!Reuse, R!server, RedisTypeInv, PlaceInv, Speaking
<1>2. /\ idle' \in Seq(Conns) /\ Len(idle') = Len(idle) - 1
      /\ \A i \in 1 .. Len(idle) - 1 : idle'[i] = idle[i]
      /\ Len(idle) \in 1 .. Len(idle) /\ R!Last(idle) = c /\ c \in Conns
  BY <1>1, RFrontLast
<1>3. \A v \in R!Everyone : conn[v] # c
  BY <1>2, PartsAssumption DEF BorrowInv
<1>4. Len(idle) \in Nat /\ inUse' \in Int
  BY <1>1, LenProperties DEF RedisTypeInv
<1>5. RedisTypeInv' /\ PlaceInv' /\ FreeInv' /\ HandInv'
  BY <1>1, <1>2, <1>3, <1>4, FreeConnection
<1>6. BorrowInv'
  <2>1. \A i \in 1 .. Len(idle') : i \in 1 .. Len(idle) /\ idle'[i] = idle[i] /\ i # Len(idle)
    BY <1>2, <1>4
  <2>2. \A i \in 1 .. Len(idle') : idle'[i] # c
    BY <1>2, <2>1 DEF BorrowInv
  <2>3. \A v \in R!Everyone : conn'[v] = IF v = u THEN c ELSE conn[v]
    BY <1>1, <1>2 DEF RedisTypeInv
  <2>4. \A i, j \in 1 .. Len(idle') : idle'[i] = idle'[j] => i = j
    BY <2>1 DEF BorrowInv
  <2>5. \A v \in R!Everyone : conn'[v] # NoConn => \A i \in 1 .. Len(idle') : idle'[i] # conn'[v]
    BY <2>1, <2>2, <2>3 DEF BorrowInv
  <2>6. \A v, w \in R!Everyone : conn'[v] = conn'[w] /\ conn'[v] # NoConn => v = w
    BY <1>3, <2>3 DEF BorrowInv
  <2> QED
    BY <2>4, <2>5, <2>6 DEF BorrowInv, R!Everyone
<1>7. AccountInv'
  <2>1. IsFiniteSet(InUse) /\ InUse' = InUse \cup {u} /\ u \notin InUse
    BY <1>1, InUseMoved DEF InUseModes, Speaking
  <2>2. Cardinality(InUse') = Cardinality(InUse) + 1
    BY <2>1, FS_AddElement
  <2> QED
    BY <1>1, <1>2, <1>4, <2>2, PartsAssumption DEF AccountInv, RedisTypeInv
<1> QED
  BY <1>5, <1>6, <1>7

(* What closing connections does.                                          *)
LEMMA ShutStep ==
    ASSUME RedisInv, NEW S, R!Shut(S)
    PROVE  /\ wire' \in [Conns -> Seq(Answer)] /\ txn' \in [Conns -> {"none", "open", "aborted"}]
           /\ soiled' = soiled \ S
           /\ \A c \in Conns : c \in S => wire'[c] = <<>> /\ txn'[c] = "none"
           /\ \A c \in Conns : c \notin S => wire'[c] = wire[c] /\ txn'[c] = txn[c]
<1>1. wire \in [Conns -> Seq(Answer)] /\ txn \in [Conns -> {"none", "open", "aborted"}]
  BY DEF RedisInv, RedisTypeInv
<1>2. <<>> \in Seq(Answer)
  BY EmptySeq
<1> QED
  BY <1>1, <1>2 DEF R!Shut

LEMMA RenewInv ==
    ASSUME RedisInv, NEW u \in R!Everyone, R!Renew(u)
    PROVE  RedisInv'
<1> USE DEF RedisInv
<1> DEFINE S == R!Range(idle)
<1>1. /\ at[u] = "acquire" /\ conn[u] = NoConn /\ idle' = <<>> /\ R!Shut(S) /\ inUse' = inUse + 1
      /\ R!Goto(u, "dial") /\ UNCHANGED <<does, step, conn, answers>>
  BY DEF R!Renew, PlaceInv, Speaking
<1>2. S = {idle[i] : i \in 1 .. Len(idle)}
  <2>1. DOMAIN idle = 1 .. Len(idle)
    BY LenProperties DEF RedisTypeInv
  <2> QED
    BY <2>1 DEF R!Range
<1> HIDE DEF S
<1>3. /\ wire' \in [Conns -> Seq(Answer)] /\ txn' \in [Conns -> {"none", "open", "aborted"}]
      /\ soiled' = soiled \ S
      /\ \A c \in Conns : c \in S => wire'[c] = <<>> /\ txn'[c] = "none"
      /\ \A c \in Conns : c \notin S => wire'[c] = wire[c] /\ txn'[c] = txn[c]
  BY <1>1, ShutStep
<1>4. \A v \in R!Everyone : conn[v] # NoConn => conn[v] \notin S
  BY <1>2 DEF BorrowInv
<1>5. \A v \in R!Everyone : at'[v] = IF v = u THEN "dial" ELSE at[v]
  BY <1>1 DEF R!Goto, RedisTypeInv
<1>6. Len(idle') = 0 /\ idle' \in Seq(Conns)
  BY <1>1, EmptySeq
<1>7. RedisTypeInv'
  <2>1. at' \in [R!Everyone -> RedisModes]
    BY <1>1 DEF R!Goto, RedisTypeInv, RedisModes, InUseModes
  <2> QED
    BY <1>1, <1>3, <1>6, <2>1 DEF RedisTypeInv, R!Everyone
<1>8. PlaceInv'
  BY <1>1, <1>5 DEF PlaceInv, R!Everyone, Speaking
<1>9. BorrowInv'
  BY <1>1, <1>6 DEF BorrowInv, R!Everyone
<1>10. AccountInv'
  <2>1. IsFiniteSet(InUse) /\ InUse' = InUse \cup {u} /\ u \notin InUse
    BY <1>1, InUseMoved DEF InUseModes, Speaking
  <2>2. Cardinality(InUse') = Cardinality(InUse) + 1
    BY <2>1, FS_AddElement
  <2> QED
    BY <1>1, <1>6, <2>2, PartsAssumption DEF AccountInv, RedisTypeInv
<1>11. FreeInv'
  <2>1. ASSUME NEW c \in Conns \ soiled', \A v \in R!Everyone : conn[v] # c
        PROVE  Fresh(c)'
    <3>1. c \notin S => Fresh(c)
      BY <1>3, <2>1 DEF FreeInv
    <3> QED
      BY <1>3, <3>1 DEF Fresh
  <2> QED
    BY <1>1, <2>1 DEF FreeInv, R!Everyone
<1>12. ASSUME NEW v \in R!Everyone, v # u
       PROVE  Hand(v)'
  <2>1. Hand(v) /\ UNCHANGED <<does, at[v], step[v], conn[v], answers[v]>>
    BY <1>1, <1>5, <1>12 DEF HandInv
  <2>2. conn[v] \in Conns \ soiled' =>
            conn[v] \notin soiled /\ wire'[conn[v]] = wire[conn[v]] /\ txn'[conn[v]] = txn[conn[v]]
    BY <1>3, <1>4, PartsAssumption
  <2> HIDE DEF RedisInv
  <2> QED
    BY <2>1, <2>2, HandKept
<1>13. Hand(u)'
  BY <1>1, <1>5, PartsAssumption DEF HandInv, Hand, Speaking
<1> QED
  BY <1>7, <1>8, <1>9, <1>10, <1>11, <1>12, <1>13 DEF HandInv, R!Everyone

LEMMA DialInv ==
    ASSUME RedisInv, NEW u \in R!Everyone, R!Dial(u)
    PROVE  RedisInv'
<1>1. /\ at[u] = "dial" /\ conn[u] = NoConn /\ Hand(u)
      /\ UNCHANGED <<does, step, answers, wire, txn, soiled, idle, inUse>>
  BY DEF R!Dial, R!server, RedisInv, PlaceInv, HandInv, Speaking
<1>2. ASSUME NEW c \in Conns \ (R!Held \cup R!Range(idle)), conn' = [conn EXCEPT ![u] = c], R!Goto(u, "send")
      PROVE  RedisInv'
  <2>1. \A v \in R!Everyone : conn[v] # c
    BY PartsAssumption DEF R!Held
  <2>2. \A i \in 1 .. Len(idle) : idle[i] # c
    <3>1. DOMAIN idle = 1 .. Len(idle)
      BY LenProperties DEF RedisInv, RedisTypeInv
    <3> QED
      BY <3>1 DEF R!Range
  <2>3. c \in Conns /\ idle' \in Seq(Conns) /\ inUse' \in Int /\ RedisTypeInv
    BY <1>1 DEF RedisInv, RedisTypeInv
  <2>4. RedisTypeInv' /\ PlaceInv' /\ FreeInv' /\ HandInv'
    BY <1>1, <1>2, <2>1, <2>3, FreeConnection
  <2>5. \A v \in R!Everyone : conn'[v] = IF v = u THEN c ELSE conn[v]
    BY <1>2 DEF RedisInv, RedisTypeInv
  <2>6. BorrowInv'
    <3>1. BorrowInv /\ idle' = idle
      BY <1>1 DEF RedisInv
    <3> QED
      BY <2>1, <2>2, <2>5, <3>1 DEF BorrowInv, R!Everyone
  <2>7. AccountInv'
    <3>1. InUse' = InUse \cup {u} /\ u \in InUse
      BY <1>1, <1>2, <2>3, InUseMoved DEF InUseModes, Speaking
    <3>2. InUse' = InUse
      BY <3>1
    <3> QED
      BY <1>1, <3>2 DEF AccountInv, RedisInv
  <2> QED
    BY <2>4, <2>6, <2>7 DEF RedisInv
<1>3. ASSUME R!Goto(u, "release"), UNCHANGED conn
      PROVE  RedisInv'
  <2>1. /\ "release" \in RedisModes
        /\ "release" \in InUseModes <=> at[u] \in InUseModes
        /\ "release" \in Speaking \cup {"push"} => conn[u] \in Conns
        /\ "release" \notin Speaking \cup {"release", "push"} => conn[u] = NoConn
    BY <1>1 DEF RedisModes, InUseModes, Speaking
  <2>2. step' = [step EXCEPT ![u] = step[u]] /\ step[u] \in Nat
    BY <1>1 DEF RedisInv, RedisTypeInv
  <2>3. answers' = [answers EXCEPT ![u] = answers[u]] /\ answers[u] \in SUBSET Answer
    BY <1>1 DEF RedisInv, RedisTypeInv
  <2>4. wire' \in [Conns -> Seq(Answer)] /\ txn' \in [Conns -> {"none", "open", "aborted"}]
    BY <1>1 DEF RedisInv, RedisTypeInv
  <2>5. at'[u] = "release"
    BY <1>3 DEF R!Goto, RedisInv, RedisTypeInv
  <2>6. Hand(u)'
    BY <1>1, <1>3, <2>5, PartsAssumption DEF Hand, Speaking
  <2>7. soiled \subseteq soiled' /\ UNCHANGED <<does, conn, idle, inUse>>
        /\ \A c \in Conns : c # conn[u] => wire'[c] = wire[c] /\ txn'[c] = txn[c]
    BY <1>1, <1>3
  <2> QED
    BY <1>3, <2>1, <2>2, <2>3, <2>4, <2>6, <2>7, ExchangeStep
<1>4. CASE /\ Conns \ (R!Held \cup R!Range(idle)) # {}
           /\ conn' = [conn EXCEPT ![u] = CHOOSE c \in Conns \ (R!Held \cup R!Range(idle)) : TRUE]
           /\ R!Goto(u, "send")
  <2> DEFINE D == Conns \ (R!Held \cup R!Range(idle))
             c == CHOOSE x \in D : TRUE
  <2>1. c \in D
    <3> HIDE DEF D
    <3>1. D # {}
      BY <1>4 DEF D
    <3> QED
      BY <3>1
  <2>2. conn' = [conn EXCEPT ![u] = c] /\ R!Goto(u, "send")
    BY <1>4
  <2> HIDE DEF c
  <2> QED
    BY <1>2, <2>1, <2>2
<1> QED
  BY <1>3, <1>4 DEF R!Dial

LEMMA ReleaseInv ==
    ASSUME RedisInv, NEW u \in R!Everyone, R!Release(u)
    PROVE  RedisInv'
<1> USE DEF RedisInv
<1> DEFINE m == IF conn[u] = NoConn THEN R!Over(u) ELSE "push"
<1>1. /\ at[u] = "release" /\ inUse' = inUse - 1 /\ R!Goto(u, m)
      /\ UNCHANGED <<does, step, conn, answers, wire, txn, soiled, idle>>
  BY DEF R!Release, R!server
<1>2. /\ m \in RedisModes /\ m \notin InUseModes /\ at[u] \in InUseModes /\ m \in {"done", "waiting", "push"}
      /\ m = "push" => conn[u] \in Conns
      /\ m # "push" => conn[u] = NoConn
  BY <1>1 DEF R!Over, RedisModes, InUseModes, Speaking, RedisTypeInv
<1>3. \A v \in R!Everyone : at'[v] = IF v = u THEN m ELSE at[v]
  BY <1>1 DEF R!Goto, RedisTypeInv
<1>4. R!Goto(u, m)
  BY <1>1
<1> HIDE DEF m
<1>5. RedisTypeInv'
  <2>1. at' \in [R!Everyone -> RedisModes]
    BY <1>2, <1>4 DEF R!Goto, RedisTypeInv
  <2> QED
    BY <1>1, <2>1 DEF RedisTypeInv, R!Everyone
<1>6. PlaceInv'
  <2>1. m \notin Speaking \cup {"release"}
    BY <1>2 DEF InUseModes
  <2> QED
    BY <1>1, <1>2, <1>3, <2>1 DEF PlaceInv, R!Everyone
<1>7. BorrowInv'
  BY <1>1 DEF BorrowInv, R!Everyone
<1>8. AccountInv'
  <2>1. IsFiniteSet(InUse) /\ InUse' = InUse \ {u} /\ u \in InUse
    BY <1>2, <1>4, InUseMoved
  <2>2. Cardinality(InUse') = Cardinality(InUse) - 1
    BY <2>1, FS_RemoveElement
  <2> QED
    BY <1>1, <2>2 DEF AccountInv, RedisTypeInv
<1>9. FreeInv'
  BY <1>1 DEF FreeInv, Fresh, R!Everyone
<1>10. ASSUME NEW v \in R!Everyone, v # u
       PROVE  Hand(v)'
  <2>1. /\ Hand(v) /\ UNCHANGED <<does, at[v], step[v], conn[v], answers[v]>>
        /\ conn[v] \in Conns \ soiled' =>
            conn[v] \notin soiled /\ wire'[conn[v]] = wire[conn[v]] /\ txn'[conn[v]] = txn[conn[v]]
    BY <1>1, <1>3, <1>10 DEF HandInv
  <2> HIDE DEF RedisInv
  <2> QED
    BY <2>1, HandKept
<1>11. Hand(u)'
  <2>1. Hand(u) /\ step[u] = 1
    BY <1>1 DEF HandInv, Hand, Speaking
  <2>2. conn[u] \in Conns \ soiled => Exchange(u)'
    BY <1>1, <1>2, <1>3, <2>1 DEF Hand, Exchange, Fresh
  <2> QED
    BY <1>1, <1>2, <1>3, <2>1, <2>2 DEF Hand, Speaking
<1> QED
  BY <1>5, <1>6, <1>7, <1>8, <1>9, <1>10, <1>11 DEF HandInv, R!Everyone

LEMMA PushInv ==
    ASSUME RedisInv, NEW u \in R!Everyone, R!Push(u)
    PROVE  RedisInv'
<1> USE DEF RedisInv
<1> DEFINE m == R!Over(u)
<1>c. PICK c : c = conn[u]
  OBVIOUS
<1>1. /\ at[u] = "push" /\ conn' = [conn EXCEPT ![u] = NoConn] /\ R!Goto(u, m)
      /\ UNCHANGED <<does, step, answers, inUse>>
  BY DEF R!Push
<1>2. c \in Conns /\ m \in {"done", "waiting"} /\ m \in RedisModes /\ m \notin InUseModes
      /\ at[u] \notin InUseModes
  BY <1>1, <1>c DEF PlaceInv, R!Over, RedisModes, InUseModes, Speaking
<1> HIDE DEF m
<1>3. \A v \in R!Everyone : /\ at'[v] = IF v = u THEN m ELSE at[v]
                            /\ conn'[v] = IF v = u THEN NoConn ELSE conn[v]
  BY <1>1 DEF R!Goto, RedisTypeInv
<1>4. /\ wire' \in [Conns -> Seq(Answer)] /\ txn' \in [Conns -> {"none", "open", "aborted"}]
      /\ \A d \in Conns : d # c => /\ wire'[d] = wire[d] /\ txn'[d] = txn[d]
                                   /\ d \in soiled' <=> d \in soiled
      /\ c \notin soiled' => Fresh(c)'
  <2>1. CASE R!Shut({conn[u]})
    <3>1. c \in {conn[u]} /\ \A d : d # c => d \notin {conn[u]}
      BY <1>c
    <3>2. /\ wire' \in [Conns -> Seq(Answer)] /\ txn' \in [Conns -> {"none", "open", "aborted"}]
          /\ soiled' = soiled \ {conn[u]}
          /\ \A d \in Conns : d \in {conn[u]} => wire'[d] = <<>> /\ txn'[d] = "none"
          /\ \A d \in Conns : d \notin {conn[u]} => wire'[d] = wire[d] /\ txn'[d] = txn[d]
      BY <2>1, ShutStep
    <3> QED
      BY <1>2, <3>1, <3>2 DEF Fresh
  <2>2. CASE UNCHANGED R!server
    <3>1. c \notin soiled => Fresh(c)
      BY <1>1, <1>2, <1>c DEF HandInv, Hand, Exchange
    <3> QED
      BY <2>2, <3>1 DEF Fresh, RedisTypeInv, R!server
  <2> QED
    BY <2>1, <2>2 DEF R!Push
<1>5. Len(idle) \in Nat /\ idle \in Seq(Conns)
  BY LenProperties DEF RedisTypeInv
<1>6. /\ idle' \in Seq(Conns) /\ Len(idle') <= MaxIdle
      /\ \A i \in 1 .. Len(idle') : \/ i \in 1 .. Len(idle) /\ idle'[i] = idle[i]
                                    \/ i = Len(idle) + 1 /\ idle'[i] = c
  <2>1. CASE UNCHANGED idle
    BY <1>5, <2>1 DEF AccountInv
  <2>2. CASE ~(Len(idle) >= MaxIdle) /\ idle' = Append(idle, c)
    <3>1. Len(idle') = Len(idle) + 1 /\ idle' \in Seq(Conns)
          /\ (\A i \in 1 .. Len(idle) : idle'[i] = idle[i]) /\ idle'[Len(idle) + 1] = c
      BY <1>2, <1>5, <2>2, AppendProperties
    <3> QED
      BY <1>5, <2>2, <3>1, PartsAssumption
  <2> QED
    BY <1>c, <2>1, <2>2 DEF R!Push
<1>7. \A v \in R!Everyone : v # u => conn[v] # c
  BY <1>2, <1>c, PartsAssumption DEF BorrowInv
<1>8. RedisTypeInv'
  <2>1. at' \in [R!Everyone -> RedisModes] /\ conn' \in [R!Everyone -> Conns \cup {NoConn}]
    BY <1>1, <1>2 DEF R!Goto, RedisTypeInv
  <2> QED
    BY <1>1, <1>4, <1>6, <2>1 DEF RedisTypeInv, R!Everyone
<1>9. PlaceInv'
  <2>1. m \notin Speaking \cup {"release", "push"}
    BY <1>2 DEF Speaking
  <2> QED
    BY <1>3, <2>1 DEF PlaceInv, R!Everyone
<1>10. BorrowInv'
  <2>1. \A i \in 1 .. Len(idle) : idle[i] # c
    BY <1>2, <1>c, PartsAssumption DEF BorrowInv
  <2>2. \A i, j \in 1 .. Len(idle') : idle'[i] = idle'[j] => i = j
    BY <1>6, <2>1 DEF BorrowInv
  <2>3. \A v \in R!Everyone : conn'[v] # NoConn => \A i \in 1 .. Len(idle') : idle'[i] # conn'[v]
    BY <1>3, <1>6, <1>7 DEF BorrowInv
  <2>4. \A v, w \in R!Everyone : conn'[v] = conn'[w] /\ conn'[v] # NoConn => v = w
    BY <1>3 DEF BorrowInv
  <2> QED
    BY <2>2, <2>3, <2>4 DEF BorrowInv, R!Everyone
<1>11. AccountInv'
  <2>1. InUse' = InUse \ {u} /\ u \notin InUse
    BY <1>1, <1>2, InUseMoved
  <2>2. InUse' = InUse
    BY <2>1
  <2> QED
    BY <1>1, <1>6, <2>2 DEF AccountInv
<1>12. FreeInv'
  <2>1. ASSUME NEW d \in Conns \ soiled', \A v \in R!Everyone : conn'[v] # d, d # c
        PROVE  Fresh(d)'
    <3>1. d \notin soiled /\ \A v \in R!Everyone : conn[v] # d
      BY <1>c, <1>3, <1>4, <2>1
    <3>2. Fresh(d)
      BY <2>1, <3>1 DEF FreeInv
    <3> QED
      BY <1>4, <2>1, <3>2 DEF Fresh
  <2> QED
    BY <1>4, <2>1 DEF FreeInv, R!Everyone
<1>13. ASSUME NEW v \in R!Everyone, v # u
       PROVE  Hand(v)'
  <2>1. Hand(v) /\ UNCHANGED <<does, at[v], step[v], conn[v], answers[v]>>
    BY <1>1, <1>3, <1>13 DEF HandInv
  <2>2. conn[v] \in Conns \ soiled' =>
            conn[v] \notin soiled /\ wire'[conn[v]] = wire[conn[v]] /\ txn'[conn[v]] = txn[conn[v]]
    BY <1>4, <1>7, <1>13
  <2> HIDE DEF RedisInv
  <2> QED
    BY <2>1, <2>2, HandKept
<1>14. Hand(u)'
  <2>1. step'[u] = 1 /\ conn'[u] \notin Conns
    BY <1>1, <1>3, PartsAssumption DEF HandInv, Hand, Speaking
  <2> QED
    BY <1>2, <1>3, <2>1 DEF Hand, Speaking
<1> QED
  BY <1>8, <1>9, <1>10, <1>11, <1>12, <1>13, <1>14 DEF HandInv, R!Everyone

LEMMA JoinedInv ==
    ASSUME RedisInv, UNCHANGED <<R!clients, R!server, inUse>>, idle' = <<>> \/ idle' = idle
    PROVE  RedisInv'
<1> USE DEF RedisInv
<1>1. UNCHANGED <<does, at, step, conn, answers, wire, txn, soiled, inUse>>
  BY DEF R!clients, R!server
<1>2. Len(<<>>) = 0 /\ <<>> \in Seq(Conns)
  BY EmptySeq
<1>3. RedisTypeInv'
  BY <1>1, <1>2 DEF RedisTypeInv, R!Everyone
<1>4. PlaceInv' /\ FreeInv'
  BY <1>1 DEF PlaceInv, FreeInv, Fresh, R!Everyone
<1>5. BorrowInv'
  BY <1>1, <1>2 DEF BorrowInv, R!Everyone
<1>6. AccountInv'
  <2>1. InUse' = InUse
    BY <1>1 DEF InUse, R!Everyone
  <2> QED
    BY <1>1, <1>2, <2>1, PartsAssumption DEF AccountInv
<1>7. ASSUME NEW v \in R!Everyone
      PROVE  Hand(v)'
  <2>1. /\ Hand(v) /\ UNCHANGED <<does, at[v], step[v], conn[v], answers[v]>>
        /\ conn[v] \in Conns \ soiled' =>
            conn[v] \notin soiled /\ wire'[conn[v]] = wire[conn[v]] /\ txn'[conn[v]] = txn[conn[v]]
    BY <1>1 DEF HandInv
  <2> HIDE DEF RedisInv
  <2> QED
    BY <2>1, HandKept
<1> QED
  BY <1>3, <1>4, <1>5, <1>6, <1>7 DEF HandInv, R!Everyone

LEMMA RedisNextInv == RedisInv /\ [R!Next]_R!vars => RedisInv'
<1> SUFFICES ASSUME RedisInv, [R!Next]_R!vars
             PROVE  RedisInv'
  OBVIOUS
<1>1. ASSUME NEW u \in R!Everyone, R!ClientStep(u)
      PROVE  RedisInv'
  <2>1. CASE R!Begin(u)
    BY <2>1, BeginInv
  <2>2. CASE R!Reuse(u)
    BY <2>2, ReuseInv
  <2>3. CASE R!Renew(u)
    BY <2>3, RenewInv
  <2>4. CASE R!Dial(u)
    BY <2>4, DialInv
  <2>5. CASE R!Send(u)
    BY <2>5, SendInv
  <2>6. CASE R!Read(u)
    BY <2>6, ReadInv
  <2>7. CASE R!ReadError(u)
    BY <2>7, ReadErrorInv
  <2>8. CASE R!ReadOther(u)
    BY <2>8, ReadOtherInv
  <2>9. CASE R!ReadDiscarded(u)
    BY <2>9, ReadDiscardedInv
  <2>10. CASE R!ReadFails(u)
    BY <2>10, ReadFailsInv
  <2>11. CASE R!Release(u)
    BY <2>11, ReleaseInv
  <2>12. CASE R!Push(u)
    BY <2>12, PushInv
  <2> QED
    BY <1>1, <2>1, <2>2, <2>3, <2>4, <2>5, <2>6, <2>7, <2>8, <2>9, <2>10, <2>11, <2>12 DEF R!ClientStep
<1>2. CASE R!NextProbe
  BY <1>2, NextProbeInv
<1>3. CASE R!Destroy \/ R!Joined \/ UNCHANGED R!vars
  <2>1. UNCHANGED <<R!clients, R!server, inUse>> /\ (idle' = <<>> \/ idle' = idle)
    BY <1>3 DEF R!Destroy, R!Joined, R!vars
  <2> QED
    BY <2>1, JoinedInv
<1> QED
  BY <1>1, <1>2, <1>3 DEF R!Next

LEMMA RedisHolds == Spec => []RedisInv
<1>1. Init => RedisInv
  BY RedisInitInv DEF Init
<1>2. RedisInv /\ [Next]_vars => RedisInv'
  BY Steps, RedisNextInv
<1> QED
  BY <1>1, <1>2, PTL DEF Spec

LEMMA RedisPromises ==
    RedisInv => R!OneBorrower /\ R!PoolAccounts /\ R!CleanHandOver
<1> SUFFICES ASSUME RedisInv
             PROVE  R!OneBorrower /\ R!PoolAccounts /\ R!CleanHandOver
  OBVIOUS
<1>1. DOMAIN idle = 1 .. Len(idle) /\ \A i \in 1 .. Len(idle) : idle[i] \in Conns
  BY LenProperties, ElementOfSeq DEF RedisInv, RedisTypeInv
<1>2. R!OneBorrower
  <2>1. R!Held \cap R!Range(idle) = {}
    BY <1>1 DEF RedisInv, BorrowInv, R!Held, R!Range
  <2> QED
    BY <2>1 DEF RedisInv, BorrowInv, R!OneBorrower
<1>3. R!PoolAccounts
  <2>1. InUse = {u \in R!Everyone :
                   at[u] \in {"dial", "send", "read", "discard", "discarded", "release"}}
    BY DEF InUse, InUseModes, Speaking
  <2> QED
    BY <2>1, SameCardinality, Zenon DEF RedisInv, AccountInv, R!PoolAccounts
<1>4. ASSUME NEW i \in 1 .. Len(idle), idle[i] \notin soiled
      PROVE  wire[idle[i]] = <<>> /\ txn[idle[i]] = "none"
  <2>1. \A u \in R!Everyone : conn[u] # idle[i]
    BY <1>1, PartsAssumption DEF RedisInv, BorrowInv
  <2> QED
    BY <1>1, <1>4, <2>1 DEF RedisInv, FreeInv, Fresh
<1>5. ASSUME NEW u \in R!Everyone, conn[u] # NoConn, conn[u] \notin soiled
      PROVE  \A r \in answers[u] : r.to = u
  BY <1>5 DEF RedisInv, RedisTypeInv, HandInv, Hand, Exchange
<1> QED
  BY <1>2, <1>3, <1>4, <1>5 DEF R!CleanHandOver

---------------------------------------------------------------------------
(* The loading of a configuration.                                         *)

(* A nonempty set of natural numbers has a least element.                  *)
LEMMA LeastNatural ==
    ASSUME NEW T, T \subseteq Nat, T # {}
    PROVE  \E m \in T : \A n \in T : m <= n
<1>1. PICK m \in T : \A n \in T : ~(<<n, m>> \in OpToRel(<, Nat))
  BY NatLessThanWellFounded, WFMin
<1>2. \A n \in T : ~(n < m)
  BY <1>1 DEF OpToRel
<1> QED
  BY <1>2

(* If nothing is thrown, no check fails.                                   *)
LEMMA NoneFails ==
    ASSUME NEW checks, NEW n \in Nat, DOMAIN checks = 1 .. n,
           \A i \in 1 .. n : checks[i][1] => checks[i][2] # "none",
           C!FirstError(checks) = "none"
    PROVE  \A i \in 1 .. n : ~checks[i][1]
<1> DEFINE failed == {i \in DOMAIN checks : checks[i][1]}
<1> SUFFICES ASSUME failed # {}
             PROVE  FALSE
  OBVIOUS
<1>1. failed \subseteq Nat
  OBVIOUS
<1>2. C!FirstError(checks) = checks[C!Min(failed)][2]
  BY DEF C!FirstError
<1>3. C!Min(failed) \in failed
  <2> HIDE DEF failed
  <2>1. \E m \in failed : \A k \in failed : m <= k
    BY <1>1, LeastNatural
  <2> QED
    BY <2>1 DEF C!Min
<1>4. ASSUME NEW i \in failed
      PROVE  checks[i][2] # "none"
  OBVIOUS
<1> HIDE DEF failed
<1> QED
  BY <1>2, <1>3, <1>4

(* A check that throws what another check throws.                          *)
LEMMA Rethrown ==
    ASSUME NEW e, NEW check, check = <<e # "none", e>>
    PROVE  check[1] = (e # "none") /\ check[2] = e
<1>1. CASE e = "none"
  <2>1. check = <<FALSE, "none">>
    BY <1>1
  <2> QED
    BY <1>1, <2>1
<1>2. CASE e # "none"
  <2>1. check = <<TRUE, e>>
    BY <1>2
  <2> QED
    BY <1>2, <2>1
<1> QED
  BY <1>1, <1>2

(* What the checks of an operator leave to be relied on.                   *)
Sound(c, op) ==
    /\ op.skip \subseteq op.common_input \cup op.common_input_skip
    /\ op.sources \subseteq DOMAIN c.operators
    /\ ~(op.additive /\ op.mutates)
    /\ ~(op.data_parallel < 0)
    /\ op.data_parallel > 1 => C!Entry(op).concurrent_safe /\ op.common_output = {}

LEMMA ValidatedIsSound ==
    ASSUME NEW c, NEW op, C!ValidateOperator(c, op) = "none"
    PROVE  Sound(c, op)
<1> DEFINE a == \E f \in op.skip : f \notin c.control
                                   \/ f \notin op.common_input \cup op.common_input_skip
           checks == <<
               <<a, "ConfigError">>,
               <<~(op.sources \subseteq DOMAIN c.operators), "ConfigError">>,
               <<op.additive /\ op.mutates, "RegistryError">>,
               <<C!BadParam(op), "RegistryError">>,
               <<op.data_parallel < 0, "ValidationError">>,
               <<op.data_parallel > 1 /\ C!Entry(op).operator_type # "transform", "ValidationError">>,
               <<op.data_parallel > 1 /\ op.common_output # {}, "ValidationError">>,
               <<op.data_parallel > 1 /\ ~C!Entry(op).concurrent_safe, "ValidationError">> >>
<1>1. C!FirstError(checks) = "none"
  BY DEF C!ValidateOperator
<1>2. DOMAIN checks = 1 .. 8 /\ \A i \in 1 .. 8 : checks[i][2] # "none"
  <2> HIDE DEF a
  <2>1. DOMAIN checks = 1 .. 8
    OBVIOUS
  <2>2. \A i \in 1 .. 8 : i \in {1, 2, 3, 4, 5, 6, 7, 8}
    OBVIOUS
  <2>3. \A i \in {1, 2, 3, 4, 5, 6, 7, 8} : checks[i][2] # "none"
    OBVIOUS
  <2> QED
    BY <2>1, <2>2, <2>3
<1>3. \A i \in 1 .. 8 : ~checks[i][1]
  <2> HIDE DEF checks
  <2> QED
    BY <1>1, <1>2, NoneFails
<1>4. ~checks[1][1] /\ ~checks[2][1] /\ ~checks[3][1] /\ ~checks[5][1] /\ ~checks[7][1] /\ ~checks[8][1]
  <2> HIDE DEF checks
  <2> QED
    BY <1>3
<1>5. /\ ~a
      /\ op.sources \subseteq DOMAIN c.operators
      /\ ~(op.additive /\ op.mutates)
      /\ ~(op.data_parallel < 0)
      /\ ~(op.data_parallel > 1 /\ op.common_output # {})
      /\ ~(op.data_parallel > 1 /\ ~C!Entry(op).concurrent_safe)
  <2> HIDE DEF a
  <2> QED
    BY <1>4
<1> QED
  BY <1>5 DEF Sound

(* A check that throws nothing for any of the operators of a configuration *)
(* that a std::map has in order.                                           *)
LEMMA LoadedIsSound ==
    ASSUME NEW c, DOMAIN c.operators \subseteq C!ToSet(Order), C!Validate(c) = "none"
    PROVE  \A o \in DOMAIN c.operators : Sound(c, c.operators[o])
<1> DEFINE e == C!FirstOf(c, LAMBDA op : C!ValidateOperator(c, op))
           a == DOMAIN c.operators = {}
           b == DOMAIN c.group = {}
           d == DOMAIN c.operators \cap DOMAIN c.map # {}
           checks == << <<a, "ConfigError">>, <<b, "ConfigError">>, <<e # "none", e>>, <<d, "ConfigError">> >>
<1>1. C!FirstError(checks) = "none"
  BY DEF C!Validate
<1>2. e = "none"
  <2> HIDE DEF e, a, b, d
  <2>1. DOMAIN checks = 1 .. 4 /\ \A i \in 1 .. 4 : checks[i][1] => checks[i][2] # "none"
    <3>1. \A i \in 1 .. 4 : i \in {1, 2, 3, 4}
      OBVIOUS
    <3>2. checks[1][2] # "none" /\ checks[2][2] # "none" /\ checks[4][2] # "none"
      <4>1. checks[1] = <<a, "ConfigError">>
        OBVIOUS
      <4>2. checks[2] = <<b, "ConfigError">>
        OBVIOUS
      <4>3. checks[4] = <<d, "ConfigError">>
        OBVIOUS
      <4> HIDE DEF checks
      <4>4. checks[1][2] = "ConfigError"
        BY <4>1
      <4>5. checks[2][2] = "ConfigError"
        BY <4>2
      <4>6. checks[4][2] = "ConfigError"
        BY <4>3
      <4> QED
        BY <4>4, <4>5, <4>6
    <3>3. checks[3] = <<e # "none", e>>
      OBVIOUS
    <3>4. checks[3][1] => checks[3][2] # "none"
      <4> HIDE DEF checks
      <4> QED
        BY <3>3, Rethrown
    <3>5. DOMAIN checks = 1 .. 4
      OBVIOUS
    <3> HIDE DEF checks
    <3> QED
      BY <3>1, <3>2, <3>4, <3>5
  <2>2. \A i \in 1 .. 4 : ~checks[i][1]
    <3> HIDE DEF checks
    <3> QED
      BY <1>1, <2>1, NoneFails
  <2>3. ~checks[3][1]
    <3> HIDE DEF checks
    <3> QED
      BY <2>2
  <2> QED
    BY <2>3
<1> SUFFICES ASSUME NEW o \in DOMAIN c.operators
             PROVE  C!ValidateOperator(c, c.operators[o]) = "none"
  BY ValidatedIsSound
<1> DEFINE each == [i \in DOMAIN Order |->
                      IF Order[i] \in DOMAIN c.operators
                      THEN LET x == C!ValidateOperator(c, c.operators[Order[i]]) IN <<x # "none", x>>
                      ELSE <<FALSE, "none">>]
<1>3. C!FirstError(each) = "none"
  BY <1>2 DEF C!FirstOf
<1>4. /\ Len(Order) \in Nat /\ DOMAIN Order = 1 .. Len(Order) /\ DOMAIN each = 1 .. Len(Order)
      /\ \A i \in 1 .. Len(Order) : each[i] =
              IF Order[i] \in DOMAIN c.operators
              THEN << C!ValidateOperator(c, c.operators[Order[i]]) # "none",
                      C!ValidateOperator(c, c.operators[Order[i]]) >>
              ELSE <<FALSE, "none">>
  BY PartsAssumption, LenProperties
<1> HIDE DEF each
<1>5. \A i \in 1 .. Len(Order) : each[i][1] => each[i][2] # "none"
  <2> SUFFICES ASSUME NEW i \in 1 .. Len(Order)
               PROVE  each[i][1] => each[i][2] # "none"
    OBVIOUS
  <2> DEFINE x == C!ValidateOperator(c, c.operators[Order[i]])
  <2>1. CASE Order[i] \in DOMAIN c.operators
    <3>1. each[i] = <<x # "none", x>>
      BY <1>4, <2>1
    <3> HIDE DEF x
    <3> QED
      BY <3>1, Rethrown
  <2>2. CASE Order[i] \notin DOMAIN c.operators
    <3>1. each[i] = <<FALSE, "none">>
      BY <1>4, <2>2
    <3> QED
      BY <3>1
  <2> QED
    BY <2>1, <2>2
<1>6. \A i \in 1 .. Len(Order) : ~each[i][1]
  BY <1>3, <1>4, <1>5, NoneFails
<1>7. PICK i \in 1 .. Len(Order) : Order[i] = o
  BY <1>4 DEF C!ToSet
<1>8. each[i] = << C!ValidateOperator(c, c.operators[o]) # "none", C!ValidateOperator(c, c.operators[o]) >>
  BY <1>4, <1>7
<1>9. ~each[i][1]
  BY <1>6
<1> QED
  BY <1>8, <1>9, Rethrown

(* The stages of the loading.                                              *)
ConfigInv ==
    /\ stage = "text" => config \in Configs
    /\ stage = "config" => /\ C!IsConfig(config)
                           /\ \A o \in DOMAIN config.operators : Sound(config, config.operators[o])
    /\ C!AcceptedIsSafe

LEMMA LoadInv ==
    ASSUME ConfigInv, C!Load
    PROVE  ConfigInv'
<1>1. stage = "text" /\ config \in Configs /\ C!IsConfig(config)
  BY PartsAssumption DEF ConfigInv, C!Load
<1>2. CASE C!Unreadable(config) # "none"
  <2>1. stage' = "refused"
    BY <1>1, <1>2 DEF C!Load, C!Settle
  <2> QED
    BY <2>1 DEF ConfigInv, C!AcceptedIsSafe
<1>3. CASE C!Unreadable(config) = "none"
  <2> DEFINE c == C!WithTraits(config)
  <2>1. config' = c /\ stage' = IF C!Validate(c) = "none" THEN "config" ELSE "refused"
    BY <1>1, <1>3 DEF C!Load, C!Settle
  <2>2. C!IsConfig(c) /\ DOMAIN c.operators \subseteq C!ToSet(Order)
    <3> DEFINE ops == [o \in DOMAIN config.operators |-> C!Traits(config.operators[o])]
    <3>1. c = [config EXCEPT !.operators = ops]
      BY DEF C!WithTraits
    <3>2. \A o \in DOMAIN config.operators : ops[o] \in C!OperatorConfig
      <4>1. ASSUME NEW o \in DOMAIN config.operators
            PROVE  C!Traits(config.operators[o]) \in C!OperatorConfig
        <5>1. config.operators[o] \in C!OperatorConfig
          BY <1>1 DEF C!IsConfig
        <5> QED
          BY <5>1 DEF C!Traits, C!OperatorConfig
      <4> QED
        BY <4>1
    <3>3. DOMAIN ops = DOMAIN config.operators
      OBVIOUS
    <3> HIDE DEF ops
    <3>4. c = [storage_mode |-> config.storage_mode, control |-> config.control, group |-> config.group,
               map |-> config.map, operators |-> ops]
      BY <1>1, <3>1 DEF C!IsConfig
    <3> HIDE DEF c
    <3> QED
      BY <1>1, <3>2, <3>3, <3>4 DEF C!IsConfig
  <2>3. ASSUME stage' = "config"
        PROVE  \A o \in DOMAIN c.operators : Sound(c, c.operators[o])
    <3> HIDE DEF c
    <3>1. C!Validate(c) = "none"
      BY <2>1, <2>3
    <3> QED
      BY <2>2, <3>1, LoadedIsSound
  <2> HIDE DEF c
  <2>4. stage' # "text" /\ stage' # "engine"
    BY <2>1
  <2> QED
    BY <2>1, <2>2, <2>3, <2>4 DEF ConfigInv, C!AcceptedIsSafe, C!IsConfig, Sound
<1> QED
  BY <1>2, <1>3

(* A constructor that succeeds has found every source before its user.     *)
LEMMA NoSourceErrors ==
    ASSUME NEW c, NEW seq, "none" \in C!Endings(c, seq)
    PROVE  \A i \in DOMAIN seq : C!SourceErrors(c, seq, i) = {}
<1>1. \A i : "none" \notin C!SourceErrors(c, seq, i)
  BY DEF C!SourceErrors
<1> QED
  BY <1>1 DEF C!Endings

LEMMA ConstructInv ==
    ASSUME ConfigInv, C!Construct
    PROVE  ConfigInv'
<1> DEFINE x == C!Expanded(config)
<1>1. stage = "config" /\ C!IsConfig(config)
      /\ \A o \in DOMAIN config.operators : Sound(config, config.operators[o])
  BY DEF ConfigInv, C!Construct
<1>2. stage' \in {"engine", "refused"}
  BY DEF C!Construct, C!Settle
<1>3. CASE stage' = "refused"
  BY <1>3 DEF ConfigInv, C!AcceptedIsSafe
<1>4. CASE stage' = "engine"
  <2>1. /\ reads' = C!GraphReads(config) /\ config' = C!WithoutControls(config)
        /\ sequence' = x.sequence /\ "none" \in C!Endings(config, x.sequence)
    BY <1>4 DEF C!Construct, C!Settle
  <2> DEFINE ops == [o \in DOMAIN config.operators |->
                       [config.operators[o] EXCEPT !.common_input = @ \ config.operators[o].skip]]
  <2>2. config' = [config EXCEPT !.operators = ops]
    BY <2>1 DEF C!WithoutControls
  <2>3. config'.operators = ops /\ DOMAIN ops = DOMAIN config.operators
    BY <1>1, <2>2 DEF C!IsConfig
  <2>4. ASSUME NEW o \in DOMAIN config.operators
        PROVE  LET op == ops[o] IN
               /\ ~(op.additive /\ op.mutates)
               /\ op.data_parallel >= 0
               /\ op.data_parallel > 1 => C!Entry(op).concurrent_safe /\ op.common_output = {}
               /\ op.sources \subseteq DOMAIN config.operators
               /\ op.skip \cap op.common_input = {}
               /\ op.skip = config.operators[o].skip
               /\ op.sources = config.operators[o].sources
    <3>1. config.operators[o] \in C!OperatorConfig /\ Sound(config, config.operators[o])
      BY <1>1 DEF C!IsConfig
    <3> DEFINE old == config.operators[o]
               new == [old EXCEPT !.common_input = @ \ old.skip]
    <3>2. ops[o] = new
      OBVIOUS
    <3> HIDE DEF old, ops
    <3>3. old \in C!OperatorConfig /\ Sound(config, old)
      BY <3>1 DEF old
    <3> QED
      BY <3>2, <3>3 DEF C!OperatorConfig, Sound, C!Entry, old
  <2>5. ASSUME NEW o \in DOMAIN config.operators, NEW i \in DOMAIN sequence', sequence'[i] = o
        PROVE  config.operators[o].skip \subseteq reads'[i]
    <3>1. reads'[i] = C!CommonReadFields(config.operators[o])
      BY <2>1, <2>5 DEF C!GraphReads
    <3> QED
      BY <1>1, <3>1 DEF Sound, C!CommonReadFields
  <2>6. ASSUME NEW o \in DOMAIN config.operators, NEW i \in DOMAIN sequence', sequence'[i] = o
        PROVE  config.operators[o].sources \subseteq C!Earlier(sequence', i)
    <3>1. C!SourceErrors(config, x.sequence, i) = {}
      BY <2>1, <2>6, NoSourceErrors
    <3> QED
      BY <2>1, <2>6, <3>1 DEF C!SourceErrors
  <2> HIDE DEF ops
  <2>7. ASSUME NEW o \in DOMAIN config.operators, NEW i \in DOMAIN sequence', sequence'[i] = o
        PROVE  ops[o].skip \subseteq reads'[i] /\ ops[o].sources \subseteq C!Earlier(sequence', i)
    BY <2>4, <2>5, <2>6, <2>7
  <2> QED
    BY <1>4, <2>3, <2>4, <2>7 DEF ConfigInv, C!AcceptedIsSafe, C!Entry, C!Earlier
<1> QED
  BY <1>2, <1>3, <1>4

LEMMA ConfigHolds == Spec => []ConfigInv
<1>1. Init => ConfigInv
  BY DEF Init, C!Init, ConfigInv, C!AcceptedIsSafe
<1>2. ASSUME ConfigInv, [Next]_vars
      PROVE  ConfigInv'
  <2>1. CASE C!Load
    BY <1>2, <2>1, LoadInv
  <2>2. CASE C!Construct
    BY <1>2, <2>2, ConstructInv
  <2>3. CASE UNCHANGED C!vars
    BY <1>2, <2>3 DEF ConfigInv, C!vars, C!AcceptedIsSafe, C!IsConfig, Sound, C!Entry
  <2> QED
    BY <1>2, <2>1, <2>2, <2>3, Steps DEF C!Next
<1> QED
  BY <1>1, <1>2, PTL DEF Spec

---------------------------------------------------------------------------
(* A connection of the server, whose client waits for each answer.         *)

HttpByte  == [of : Nat, at : {"line", "end", "body"}, nr : Nat]
HttpReply == [to : Nat, status : Nat, result : {"none", "null", "partial", "whole"}]

HttpTypeInv ==
    /\ script \in Scripts /\ shut \in BOOLEAN /\ late \in BOOLEAN
    /\ unsent \in [of : Nat \ {0}, nr : Nat \ {0}]
    /\ unsent.of <= Len(script) => unsent.nr <= X!Length(unsent.of) + 2
    /\ unsent.of > Len(script) => unsent.nr = 1 /\ unsent.of = Len(script) + 1
    /\ phase \in X!Phases
    /\ inbox \in Seq(HttpByte) /\ buffer \in Seq(HttpByte)
    /\ counted \in [X!Classes -> Nat]
    /\ replies \in Seq(HttpReply)
    /\ handed \in Seq([id : Nat, body : Seq(HttpByte)])

(* The request to be answered, how much of a request has been sent, and    *)
(* how much of this one the buffer no longer holds.                        *)
Now     == Len(replies) + 1
Sent(k) == IF unsent.of = k THEN unsent.nr - 1
           ELSE IF unsent.of > k THEN X!Length(k) + 2 ELSE 0
Off     == IF phase = "body" THEN 2 ELSE 0

(* What is in the buffer and in the socket is, one after the other, what   *)
(* has been sent of the request to be answered.                            *)
StreamInv ==
    /\ phase # "closed" =>
         /\ unsent.of <= Now + 1
         /\ unsent.of = Now + 1 => unsent.nr = 1
         /\ unsent.of < Now => shut
    /\ phase \in {"head", "body"} =>
         /\ Off + Len(buffer) + Len(inbox) = Sent(Now)
         /\ \A i \in 1 .. Len(buffer) : buffer[i] = X!Byte(Now, Off + i)
         /\ \A i \in 1 .. Len(inbox) : inbox[i] = X!Byte(Now, Off + Len(buffer) + i)
    /\ phase = "executing" => inbox = <<>> /\ (unsent.of = Now + 1 \/ shut)

(* What the head was understood as, and what has been handed on.           *)
RequestInv ==
    /\ phase \in {"body", "executing"} =>
         /\ Now \in 1 .. Len(script) /\ request = [script[Now] EXCEPT !.id = Now]
         /\ request.length \in 0 .. MaxBody
    /\ phase = "executing" =>
         /\ buffer = X!BodyOf(Now) \/ shut
         /\ request.path = "/execute" => buffer = X!BodyOf(Now)
         /\ request.path # "/execute" => request.path \in DOMAIN Routes

ReplyInv ==
    \A k \in 1 .. Len(replies) :
        /\ replies[k].to = k
        /\ X!Servable(script[k]) /\ ~shut => replies[k].status = 200
        /\ replies[k].result = "whole" => script[k].content \notin {"failing", "invalid"}

HandedInv ==
    \A n \in 1 .. Len(handed) :
        LET k == handed[n].id
            b == handed[n].body
        IN  /\ k \in 1 .. Len(script)
            /\ Len(b) <= Len(X!BodyOf(k)) /\ \A i \in 1 .. Len(b) : b[i] = X!BodyOf(k)[i]
            /\ b = X!BodyOf(k) \/ shut

CountedInv == phase # "closed" => Len(replies) = counted["2xx"] + counted["4xx"] + counted["5xx"]

HttpParts == HttpTypeInv /\ StreamInv /\ RequestInv /\ ReplyInv /\ HandedInv /\ CountedInv
HttpInv == ~Pipelined /\ ~late => HttpParts

LEMMA ByteType == \A k, i \in Nat : X!Byte(k, i) \in HttpByte
BY DEF X!Byte, HttpByte

LEMMA HandedKept ==
    ASSUME HandedInv, UNCHANGED <<script, handed>>, shut => shut'
    PROVE  HandedInv'
<1>1. \A k : X!BodyOf(k)' = X!BodyOf(k)
  BY DEF X!BodyOf, X!Byte, X!Length
<1> QED
  BY <1>1 DEF HandedInv

LEMMA ScriptFacts ==
    ASSUME script \in Scripts, NEW k \in 1 .. Len(script)
    PROVE  /\ script[k] \in X!Requests /\ k \in Nat
           /\ X!Length(k) \in Nat
           /\ script[k].length \in 0 .. MaxBody => X!Length(k) = script[k].length
           /\ X!BodyOf(k) \in Seq(HttpByte) /\ Len(X!BodyOf(k)) = X!Length(k)
           /\ \A i \in 1 .. X!Length(k) : X!BodyOf(k)[i] = X!Byte(k, i + 2)
<1>1. script \in Seq(X!Requests) /\ Len(script) \in Nat
  BY PartsAssumption, LenProperties
<1>2. script[k] \in X!Requests /\ k \in Nat
  BY <1>1, ElementOfSeq
<1>3. X!Length(k) \in Nat /\ (script[k].length \in 0 .. MaxBody => X!Length(k) = script[k].length)
  BY <1>2, PartsAssumption DEF X!Length, X!Requests, X!Malformed
<1> DEFINE n == X!Length(k)
<1>4. X!BodyOf(k) = [i \in 1 .. n |-> X!Byte(k, i + 2)]
  BY DEF X!BodyOf
<1>5. \A i \in 1 .. n : X!Byte(k, i + 2) \in HttpByte
  BY <1>2, <1>3, ByteType
<1> HIDE DEF n
<1>6. X!BodyOf(k) \in [1 .. n -> HttpByte] /\ n \in Nat
  BY <1>3, <1>4, <1>5 DEF n
<1>7. X!BodyOf(k) \in Seq(HttpByte)
  BY <1>6, SeqDef
<1>8. DOMAIN X!BodyOf(k) = 1 .. n
  BY <1>4
<1>9. Len(X!BodyOf(k)) = n
  BY <1>6, <1>7, <1>8, LenProperties
<1> QED
  BY <1>2, <1>3, <1>4, <1>7, <1>9 DEF n

(* The rest of a sequence, and what has been read of it.                   *)
LEMMA Suffix ==
    ASSUME NEW S, NEW s \in Seq(S), NEW n \in Nat, n <= Len(s)
    PROVE  /\ SubSeq(s, n + 1, Len(s)) \in Seq(S) /\ Len(SubSeq(s, n + 1, Len(s))) = Len(s) - n
           /\ \A i \in 1 .. Len(s) - n : SubSeq(s, n + 1, Len(s))[i] = s[n + i]
<1>1. Len(s) \in Nat
  BY LenProperties
<1>2. \A i \in n + 1 .. Len(s) : s[i] \in S
  BY <1>1, ElementOfSeq
<1>3. n + 1 \in Int /\ Len(s) \in Int
  BY <1>1
<1> DEFINE r == SubSeq(s, n + 1, Len(s))
<1>4. /\ r \in Seq(S) /\ Len(r) = IF n + 1 <= Len(s) THEN Len(s) - (n + 1) + 1 ELSE 0
      /\ \A i \in 1 .. Len(s) - (n + 1) + 1 : r[i] = s[(n + 1) + i - 1]
  BY <1>2, <1>3, SubSeqProperties
<1> HIDE DEF r
<1>5. Len(s) - (n + 1) + 1 = Len(s) - n /\ (~(n + 1 <= Len(s)) => Len(s) - n = 0)
  BY <1>1
<1>6. \A i \in 1 .. Len(s) - n : (n + 1) + i - 1 = n + i
  BY <1>1
<1> QED
  BY <1>4, <1>5, <1>6 DEF r

LEMMA Received ==
    ASSUME NEW S, NEW b \in Seq(S), NEW s \in Seq(S), NEW n \in Nat, n <= Len(s)
    PROVE  LET c == b \o SubSeq(s, 1, n) IN
           /\ c \in Seq(S) /\ Len(c) = Len(b) + n
           /\ \A i \in 1 .. Len(b) : c[i] = b[i]
           /\ \A i \in 1 .. n : c[Len(b) + i] = s[i]
<1>1. Len(s) \in Nat /\ Len(b) \in Nat
  BY LenProperties
<1>2. \A i \in 1 .. n : s[i] \in S
  BY <1>1, ElementOfSeq
<1> DEFINE p == SubSeq(s, 1, n)
           c == b \o p
<1>3. /\ p \in Seq(S) /\ Len(p) = IF 1 <= n THEN n - 1 + 1 ELSE 0
      /\ \A i \in 1 .. n - 1 + 1 : p[i] = s[1 + i - 1]
  BY <1>2, SubSeqProperties
<1> HIDE DEF p
<1>4. Len(p) = n /\ \A i \in 1 .. n : p[i] = s[i]
  <2>1. n - 1 + 1 = n /\ (~(1 <= n) => n = 0) /\ \A i \in 1 .. n : 1 + i - 1 = i
    OBVIOUS
  <2> QED
    BY <1>3, <2>1
<1>5. /\ c \in Seq(S) /\ Len(c) = Len(b) + Len(p)
      /\ \A i \in 1 .. Len(b) + Len(p) : c[i] = IF i <= Len(b) THEN b[i] ELSE p[i - Len(b)]
  BY <1>3, ConcatProperties
<1> HIDE DEF c
<1>6. \A i \in 1 .. Len(b) : c[i] = b[i]
  BY <1>1, <1>4, <1>5
<1>7. \A i \in 1 .. n : c[Len(b) + i] = s[i]
  <2> SUFFICES ASSUME NEW i \in 1 .. n
               PROVE  c[Len(b) + i] = s[i]
    OBVIOUS
  <2>1. Len(b) + i \in 1 .. Len(b) + Len(p) /\ ~(Len(b) + i <= Len(b)) /\ (Len(b) + i) - Len(b) = i
    BY <1>1, <1>4
  <2>2. c[Len(b) + i] = p[(Len(b) + i) - Len(b)]
    BY <1>5, <2>1
  <2> QED
    BY <1>4, <2>1, <2>2
<1> QED
  BY <1>4, <1>5, <1>6, <1>7 DEF c, p

(* A step after which nothing more is read.                                *)
LEMMA CloseStep ==
    ASSUME HttpParts, phase' = "closed", UNCHANGED <<script, unsent, shut, late, counted, handed, replies>>,
           inbox' \in Seq(HttpByte), buffer' \in Seq(HttpByte)
    PROVE  HttpParts'
<1> USE DEF HttpParts
<1>1. HttpTypeInv'
  BY DEF HttpTypeInv, X!Phases, X!Length, X!Classes
<1>2. StreamInv' /\ RequestInv' /\ CountedInv'
  BY DEF StreamInv, RequestInv, CountedInv
<1>3. ReplyInv'
  BY DEF ReplyInv, X!Servable
<1>4. HandedInv'
  BY HandedKept
<1> QED
  BY <1>1, <1>2, <1>3, <1>4

(* An answer to the request of the moment.                                 *)
LEMMA ReplyStep ==
    ASSUME HttpTypeInv, ReplyInv, NEW status \in Nat, NEW result \in {"none", "null", "partial", "whole"},
           UNCHANGED <<script, shut>>,
           replies' = Append(replies, [to |-> Now, status |-> status, result |-> result]),
           X!Servable(script[Now]) /\ ~shut => status = 200,
           result = "whole" => script[Now].content \notin {"failing", "invalid"}
    PROVE  replies' \in Seq(HttpReply) /\ Len(replies') = Now /\ Now \in Nat /\ ReplyInv'
<1> DEFINE a == [to |-> Now, status |-> status, result |-> result]
<1>1. replies \in Seq(HttpReply) /\ Len(replies) \in Nat /\ Now \in Nat
  BY LenProperties DEF HttpTypeInv, Now
<1>2. a \in HttpReply
  BY <1>1 DEF HttpReply
<1>3. replies' = Append(replies, a) /\ a.to = Now /\ a.status = status /\ a.result = result
  OBVIOUS
<1> HIDE DEF a
<1>4. /\ replies' \in Seq(HttpReply) /\ Len(replies') = Len(replies) + 1
      /\ \A k \in 1 .. Len(replies) : replies'[k] = replies[k]
      /\ replies'[Len(replies) + 1] = a
  BY <1>1, <1>2, <1>3, AppendProperties
<1>5. ASSUME NEW k \in 1 .. Len(replies')
      PROVE  /\ replies'[k].to = k
             /\ X!Servable(script[k]) /\ ~shut => replies'[k].status = 200
             /\ replies'[k].result = "whole" => script[k].content \notin {"failing", "invalid"}
  <2>1. CASE k = Now
    <3>1. replies'[k] = a
      BY <1>4, <2>1 DEF Now
    <3> QED
      BY <1>3, <2>1, <3>1
  <2>2. CASE k # Now
    <3>1. k \in 1 .. Len(replies) /\ replies'[k] = replies[k]
      BY <1>1, <1>4, <2>2 DEF Now
    <3> QED
      BY <3>1 DEF ReplyInv
  <2> QED
    BY <2>1, <2>2
<1>6. ReplyInv'
  BY <1>5 DEF ReplyInv, X!Servable
<1> QED
  BY <1>1, <1>4, <1>6 DEF Now

LEMMA RefuseStep ==
    ASSUME HttpParts, NEW r, r.id = Now, NEW status \in Nat, X!Refuse(r, status),
           ~X!Servable(script[Now]), UNCHANGED <<script, unsent, shut, late>>,
           inbox' \in Seq(HttpByte), buffer' \in Seq(HttpByte)
    PROVE  HttpParts'
<1> USE DEF HttpParts
<1>1. /\ replies' = Append(replies, [to |-> Now, status |-> status, result |-> "none"])
      /\ phase' = "closed" /\ UNCHANGED <<counted, handed>>
  BY DEF X!Refuse, X!Log
<1>2. replies' \in Seq(HttpReply) /\ ReplyInv'
  BY <1>1, ReplyStep
<1>3. HttpTypeInv'
  BY <1>1, <1>2 DEF HttpTypeInv, X!Phases, X!Length, X!Classes
<1>4. StreamInv' /\ RequestInv' /\ CountedInv'
  BY <1>1 DEF StreamInv, RequestInv, CountedInv
<1>5. HandedInv'
  BY <1>1, HandedKept
<1> QED
  BY <1>2, <1>3, <1>4, <1>5

LEMMA RespondStep ==
    ASSUME HttpParts, phase \in {"body", "executing"}, inbox = <<>>, UNCHANGED inbox,
           unsent.of = Now + 1 \/ shut,
           NEW status \in Nat, NEW result \in {"none", "null", "partial", "whole"},
           X!Respond(request, status, result), UNCHANGED <<script, unsent, shut, late, handed>>,
           X!Servable(script[Now]) /\ ~shut => status = 200,
           result = "whole" => script[Now].content \notin {"failing", "invalid"}
    PROVE  HttpParts'
<1> USE DEF HttpParts
<1>1. Now \in 1 .. Len(script) /\ request.id = Now
  <2>1. Now \in 1 .. Len(script) /\ request = [script[Now] EXCEPT !.id = Now]
    BY DEF RequestInv
  <2>2. script[Now] \in X!Requests
    BY <2>1, ScriptFacts DEF HttpTypeInv
  <2> QED
    BY <2>1, <2>2 DEF X!Requests
<1>2. /\ replies' = Append(replies, [to |-> Now, status |-> status, result |-> result])
      /\ counted' = [counted EXCEPT ![X!StatusClass(status)] = @ + 1]
      /\ phase' \in {"head", "closed"} /\ buffer' = <<>> /\ inbox' = <<>>
  BY <1>1 DEF X!Respond, X!Log
<1>3. replies' \in Seq(HttpReply) /\ Len(replies') = Now /\ Now \in Nat /\ ReplyInv'
  BY <1>2, ReplyStep
<1>4. X!StatusClass(status) \in X!Classes
  BY DEF X!StatusClass, X!Classes
<1>5. <<>> \in Seq(HttpByte) /\ Len(<<>>) = 0
  BY EmptySeq
<1>6. HttpTypeInv'
  <2>1. counted' \in [X!Classes -> Nat]
    BY <1>2, <1>4 DEF HttpTypeInv
  <2>2. inbox' \in Seq(HttpByte) /\ buffer' \in Seq(HttpByte) /\ phase' \in X!Phases
    BY <1>2, <1>5 DEF X!Phases
  <2>3. UNCHANGED <<script, unsent, shut, late, handed>> /\ \A k : X!Length(k)' = X!Length(k)
    BY DEF X!Length
  <2> QED
    BY <1>3, <2>1, <2>2, <2>3 DEF HttpTypeInv, X!Classes
<1>7. Now' = Now + 1
  BY <1>3 DEF Now
<1>8. StreamInv'
  <2>1. unsent.of \in Nat /\ unsent.nr \in Nat /\ unsent' = unsent
    BY DEF HttpTypeInv
  <2>2. unsent.of <= Now + 1 /\ (unsent.of = Now + 1 => unsent.nr = 1)
    BY DEF StreamInv
  <2>3. phase' # "closed" =>
          /\ unsent'.of <= Now' + 1
          /\ unsent'.of = Now' + 1 => unsent'.nr = 1
          /\ unsent'.of < Now' => shut'
    BY <1>3, <1>7, <2>1, <2>2
  <2>4. Sent(Now)' = 0 /\ Off' = 0
    BY <1>2, <1>3, <1>7, <2>1, <2>2 DEF Sent, Off
  <2>5. Off' + Len(buffer') + Len(inbox') = Sent(Now)'
    BY <1>2, <1>5, <2>4
  <2>6. \A i \in 1 .. 0 : FALSE
    OBVIOUS
  <2> QED
    BY <1>2, <1>5, <2>3, <2>5, <2>6 DEF StreamInv
<1>9. RequestInv'
  BY <1>2 DEF RequestInv
<1>10. HandedInv'
  BY HandedKept
<1>11. CountedInv'
  <2>1. Len(replies) = counted["2xx"] + counted["4xx"] + counted["5xx"]
    BY DEF CountedInv
  <2>2. /\ counted["2xx"] \in Nat /\ counted["4xx"] \in Nat /\ counted["5xx"] \in Nat
        /\ DOMAIN counted = {"2xx", "4xx", "5xx"}
    BY DEF HttpTypeInv, X!Classes
  <2>3. counted'["2xx"] + counted'["4xx"] + counted'["5xx"]
            = counted["2xx"] + counted["4xx"] + counted["5xx"] + 1
    BY <1>2, <1>4, <2>2 DEF X!Classes
  <2> QED
    BY <1>3, <2>1, <2>2, <2>3 DEF CountedInv, Now
<1> QED
  BY <1>3, <1>6, <1>8, <1>9, <1>10, <1>11

---------------------------------------------------------------------------
(* The client, the network, and the reading of a request.                  *)

(* A body that has come in whole is the request's.                         *)
LEMMA WholeBody ==
    ASSUME script \in Scripts, NEW k \in 1 .. Len(script), NEW b \in Seq(HttpByte),
           Len(b) = X!Length(k), \A i \in 1 .. Len(b) : b[i] = X!Byte(k, 2 + i)
    PROVE  b = X!BodyOf(k)
<1>1. /\ X!BodyOf(k) \in Seq(HttpByte) /\ Len(X!BodyOf(k)) = Len(b) /\ Len(b) \in Nat
      /\ \A i \in 1 .. Len(b) : X!BodyOf(k)[i] = X!Byte(k, i + 2)
  BY ScriptFacts
<1>2. \A i \in 1 .. Len(b) : i + 2 = 2 + i
  BY <1>1
<1>3. \A i \in 1 .. Len(b) : b[i] = X!BodyOf(k)[i]
  BY <1>1, <1>2
<1> QED
  BY <1>1, <1>3, SeqEqual

LEMMA CountsUp ==
    ASSUME NEW a \in Nat, NEW b \in Nat, NEW c \in Nat, NEW d \in Nat, NEW e,
           a + b + c = d - 1, e = c + 1
    PROVE  a + b + e = d
OBVIOUS

LEMMA HttpSendInv ==
    ASSUME ~Pipelined, HttpParts, X!Send
    PROVE  HttpParts'
<1> USE DEF HttpParts
<1>1. /\ unsent.of <= Len(script) /\ ~shut /\ phase # "closed" /\ unsent.of <= Len(replies) + 1
      /\ inbox' = Append(inbox, X!Byte(unsent.of, unsent.nr))
      /\ UNCHANGED <<script, shut, replies, counted, handed, phase, buffer, request, late>>
  BY DEF X!Send, X!logVars
<1>2. /\ unsent \in [of : Nat \ {0}, nr : Nat \ {0}] /\ unsent.of \in 1 .. Len(script)
      /\ Len(script) \in Nat /\ Now \in Nat /\ Len(buffer) \in Nat /\ Len(inbox) \in Nat
      /\ inbox \in Seq(HttpByte) /\ unsent.nr <= X!Length(unsent.of) + 2
  <2>1. Len(script) \in Nat /\ Len(replies) \in Nat
    BY PartsAssumption, LenProperties DEF HttpTypeInv
  <2> QED
    BY <1>1, <2>1, LenProperties DEF HttpTypeInv, Now
<1>3. unsent.of = Now /\ phase \in {"head", "body"}
  BY <1>1, <1>2 DEF StreamInv, Now, HttpTypeInv, X!Phases
<1>4. X!Length(Now) \in Nat
  BY <1>2, <1>3, ScriptFacts DEF HttpTypeInv
<1> DEFINE b == X!Byte(unsent.of, unsent.nr)
<1>5. b = X!Byte(Now, unsent.nr) /\ b \in HttpByte
  BY <1>2, <1>3, ByteType
<1> HIDE DEF b
<1>6. /\ inbox' \in Seq(HttpByte) /\ Len(inbox') = Len(inbox) + 1
      /\ \A i \in 1 .. Len(inbox) : inbox'[i] = inbox[i]
      /\ inbox'[Len(inbox) + 1] = b
  BY <1>1, <1>2, <1>5, AppendProperties DEF b
<1>7. \/ /\ unsent.nr < X!Length(Now) + 2
         /\ unsent'.of = Now /\ unsent'.nr = unsent.nr + 1
      \/ /\ unsent.nr = X!Length(Now) + 2
         /\ unsent'.of = Now + 1 /\ unsent'.nr = 1
  BY <1>2, <1>3, <1>4 DEF X!Send
<1>8. unsent' \in [of : Nat \ {0}, nr : Nat \ {0}]
  <2>1. \/ unsent' = [unsent EXCEPT !.nr = @ + 1]
        \/ unsent' = [of |-> unsent.of + 1, nr |-> 1]
    BY DEF X!Send
  <2>2. CASE unsent' = [unsent EXCEPT !.nr = @ + 1]
    BY <1>2, <2>2
  <2>3. CASE unsent' = [of |-> unsent.of + 1, nr |-> 1]
    BY <1>2, <2>3
  <2> QED
    BY <2>1, <2>2, <2>3
<1>9. Now' = Now /\ X!Length(Now)' = X!Length(Now) /\ \A k : X!Length(k)' = X!Length(k)
  BY <1>1 DEF Now, X!Length
<1>10. HttpTypeInv'
  <2>1. unsent'.of <= Len(script) => unsent'.nr <= X!Length(unsent'.of) + 2
    <3>1. CASE unsent'.of = Now /\ unsent'.nr = unsent.nr + 1 /\ unsent.nr < X!Length(Now) + 2
      BY <1>2, <1>4, <3>1
    <3>2. CASE unsent'.of = Now + 1 /\ unsent'.nr = 1
      <4>1. CASE Now + 1 <= Len(script)
        <5>1. Now + 1 \in 1 .. Len(script)
          BY <1>2, <4>1
        <5>2. X!Length(Now + 1) \in Nat
          BY <5>1, ScriptFacts DEF HttpTypeInv
        <5> QED
          BY <3>2, <5>2
      <4>2. CASE ~(Now + 1 <= Len(script))
        BY <3>2, <4>2
      <4> QED
        BY <4>1, <4>2
    <3> QED
      BY <1>7, <3>1, <3>2
  <2>2. unsent'.of > Len(script) => unsent'.nr = 1 /\ unsent'.of = Len(script) + 1
    BY <1>2, <1>3, <1>7
  <2>3. X!Length(unsent.of)' = X!Length(unsent'.of)
    BY <1>1 DEF X!Length
  <2> QED
    BY <1>1, <1>6, <1>8, <2>1, <2>2, <2>3 DEF HttpTypeInv
<1>11. StreamInv'
  <2>1. /\ unsent'.of <= Now + 1
        /\ unsent'.of = Now + 1 => unsent'.nr = 1
        /\ ~(unsent'.of < Now)
    BY <1>2, <1>7
  <2>2. Sent(Now) = unsent.nr - 1 /\ Sent(Now)' = unsent.nr
    <3>1. Sent(Now) = unsent.nr - 1
      BY <1>3 DEF Sent
    <3>2. Sent(Now)' = IF unsent'.of = Now THEN unsent'.nr - 1
                       ELSE IF unsent'.of > Now THEN X!Length(Now) + 2 ELSE 0
      BY <1>9 DEF Sent
    <3>3. CASE unsent'.of = Now /\ unsent'.nr = unsent.nr + 1
      BY <1>2, <3>1, <3>2, <3>3
    <3>4. CASE unsent'.of = Now + 1 /\ unsent.nr = X!Length(Now) + 2
      BY <1>2, <3>1, <3>2, <3>4
    <3> QED
      BY <1>7, <3>3, <3>4
  <2>3. Off \in Nat /\ Off' = Off
    BY <1>1 DEF Off
  <2>4. Off + Len(buffer) + Len(inbox) = unsent.nr - 1
    BY <1>3, <2>2 DEF StreamInv
  <2>5. Off + Len(buffer) + Len(inbox') = unsent.nr
    <3>1. unsent.nr \in Nat /\ Len(buffer) \in Nat /\ Len(inbox) \in Nat /\ Len(inbox') = Len(inbox) + 1
      BY <1>2, <1>6
    <3> HIDE DEF HttpParts
    <3> QED
      BY <2>3, <2>4, <3>1, CountsUp
  <2>6. ASSUME NEW i \in 1 .. Len(inbox')
        PROVE  inbox'[i] = X!Byte(Now, Off + Len(buffer) + i)
    <3>1. CASE i \in 1 .. Len(inbox)
      BY <1>3, <1>6, <3>1 DEF StreamInv
    <3>2. CASE i = Len(inbox) + 1
      <4>1. Off + Len(buffer) + i = unsent.nr
        BY <1>2, <2>3, <2>4, <3>2
      <4> QED
        BY <1>5, <1>6, <3>2, <4>1
    <3> QED
      BY <1>2, <1>6, <3>1, <3>2
  <2>7. \A i \in 1 .. Len(buffer) : buffer[i] = X!Byte(Now, Off + i)
    BY <1>3 DEF StreamInv
  <2>8. \A i : X!Byte(Now, i)' = X!Byte(Now, i)
    BY <1>9 DEF X!Byte
  <2> QED
    BY <1>1, <1>3, <1>9, <2>1, <2>2, <2>3, <2>5, <2>6, <2>7, <2>8 DEF StreamInv, X!Byte
<1>12. RequestInv'
  BY <1>1, <1>3, <1>9 DEF RequestInv
<1>13. ReplyInv'
  BY <1>1 DEF ReplyInv, X!Servable
<1>14. HandedInv'
  BY <1>1, HandedKept
<1>15. CountedInv'
  BY <1>1 DEF CountedInv
<1> QED
  BY <1>10, <1>11, <1>12, <1>13, <1>14, <1>15

LEMMA HttpShutInv ==
    ASSUME HttpParts, X!Shut
    PROVE  HttpParts'
<1> USE DEF HttpParts
<1>1. shut' = TRUE
      /\ UNCHANGED <<script, unsent, replies, counted, handed, inbox, phase, buffer, request, late>>
  BY DEF X!Shut, X!logVars
<1>2. HttpTypeInv'
  BY <1>1 DEF HttpTypeInv, X!Length
<1>3. Now' = Now /\ Off' = Off /\ (\A k : Sent(k)' = Sent(k)) /\ \A k : X!BodyOf(k)' = X!BodyOf(k)
  BY <1>1 DEF Now, Off, Sent, X!Length, X!BodyOf, X!Byte
<1>4. StreamInv'
  BY <1>1, <1>3 DEF StreamInv, X!Byte
<1>5. RequestInv' /\ CountedInv'
  BY <1>1, <1>3 DEF RequestInv, CountedInv
<1>6. ReplyInv'
  BY <1>1 DEF ReplyInv, X!Servable
<1>7. HandedInv'
  BY <1>1, HandedKept
<1> QED
  BY <1>2, <1>4, <1>5, <1>6, <1>7

LEMMA HeadFailsInv ==
    ASSUME HttpParts, X!HeadFails
    PROVE  HttpParts'
<1>1. phase' = "closed" /\ UNCHANGED <<script, unsent, shut, late, counted, handed, replies, inbox, buffer>>
  BY DEF X!HeadFails, X!Close, X!clientVars, X!logVars
<1>2. inbox' \in Seq(HttpByte) /\ buffer' \in Seq(HttpByte)
  BY <1>1 DEF HttpParts, HttpTypeInv
<1> QED
  BY <1>1, <1>2, CloseStep

(* Bytes go from the socket to the buffer.                                 *)
LEMMA ReadOn ==
    ASSUME HttpParts, phase \in {"head", "body"}, NEW n \in 1 .. Len(inbox)
    PROVE  LET b == buffer \o SubSeq(inbox, 1, n)
               r == SubSeq(inbox, n + 1, Len(inbox)) IN
           /\ b \in Seq(HttpByte) /\ r \in Seq(HttpByte)
           /\ Len(b) \in Nat /\ Len(r) \in Nat /\ Off \in Nat /\ Len(b) = Len(buffer) + n
           /\ Off + Len(b) + Len(r) = Sent(Now)
           /\ \A i \in 1 .. Len(b) : b[i] = X!Byte(Now, Off + i)
           /\ \A i \in 1 .. Len(r) : r[i] = X!Byte(Now, Off + Len(b) + i)
<1> DEFINE b == buffer \o SubSeq(inbox, 1, n)
           r == SubSeq(inbox, n + 1, Len(inbox))
<1>1. /\ inbox \in Seq(HttpByte) /\ buffer \in Seq(HttpByte) /\ Len(inbox) \in Nat /\ Len(buffer) \in Nat
      /\ n \in Nat /\ n <= Len(inbox) /\ Off \in Nat
  BY LenProperties DEF HttpParts, HttpTypeInv, Off
<1>2. /\ b \in Seq(HttpByte) /\ Len(b) = Len(buffer) + n
      /\ \A i \in 1 .. Len(buffer) : b[i] = buffer[i]
      /\ \A i \in 1 .. n : b[Len(buffer) + i] = inbox[i]
  BY <1>1, Received
<1>3. /\ r \in Seq(HttpByte) /\ Len(r) = Len(inbox) - n
      /\ \A i \in 1 .. Len(inbox) - n : r[i] = inbox[n + i]
  BY <1>1, Suffix
<1>4. /\ Off + Len(buffer) + Len(inbox) = Sent(Now)
      /\ \A i \in 1 .. Len(buffer) : buffer[i] = X!Byte(Now, Off + i)
      /\ \A i \in 1 .. Len(inbox) : inbox[i] = X!Byte(Now, Off + Len(buffer) + i)
  BY DEF HttpParts, StreamInv
<1> HIDE DEF b, r
<1>5. Len(b) \in Nat /\ Len(r) \in Nat /\ Off + Len(b) + Len(r) = Sent(Now)
  BY <1>1, <1>2, <1>3, <1>4
<1>6. ASSUME NEW i \in 1 .. Len(b)
      PROVE  b[i] = X!Byte(Now, Off + i)
  <2>1. CASE i <= Len(buffer)
    <3>1. i \in 1 .. Len(buffer)
      BY <1>1, <2>1
    <3> QED
      BY <1>2, <1>4, <3>1
  <2>2. CASE ~(i <= Len(buffer))
    <3>1. PICK j \in 1 .. n : i = Len(buffer) + j
      <4>1. i - Len(buffer) \in 1 .. n /\ i = Len(buffer) + (i - Len(buffer))
        BY <1>1, <1>2, <2>2
      <4> QED
        BY <4>1
    <3>2. j \in 1 .. Len(inbox) /\ Off + i = Off + Len(buffer) + j
      BY <1>1, <3>1
    <3> QED
      BY <1>2, <1>4, <3>1, <3>2
  <2> QED
    BY <2>1, <2>2
<1>7. ASSUME NEW i \in 1 .. Len(r)
      PROVE  r[i] = X!Byte(Now, Off + Len(b) + i)
  <2>1. i \in 1 .. Len(inbox) - n /\ n + i \in 1 .. Len(inbox)
    BY <1>1, <1>3
  <2>2. Off + Len(buffer) + (n + i) = Off + Len(b) + i
    BY <1>1, <1>2, <2>1
  <2> QED
    BY <1>3, <1>4, <2>1, <2>2
<1> QED
  BY <1>1, <1>2, <1>3, <1>5, <1>6, <1>7 DEF b, r

(* The buffer has grown and nothing is decided yet.                        *)
LEMMA BufferStep ==
    ASSUME HttpParts, phase \in {"head", "body"}, NEW n \in 1 .. Len(inbox),
           buffer' = buffer \o SubSeq(inbox, 1, n), inbox' = SubSeq(inbox, n + 1, Len(inbox)),
           UNCHANGED <<script, unsent, shut, late, phase, request, counted, handed, replies>>
    PROVE  HttpParts'
<1> USE DEF HttpParts
<1>1. /\ buffer' \in Seq(HttpByte) /\ inbox' \in Seq(HttpByte)
      /\ Off + Len(buffer') + Len(inbox') = Sent(Now)
      /\ \A i \in 1 .. Len(buffer') : buffer'[i] = X!Byte(Now, Off + i)
      /\ \A i \in 1 .. Len(inbox') : inbox'[i] = X!Byte(Now, Off + Len(buffer') + i)
  BY ReadOn
<1>2. HttpTypeInv'
  BY <1>1 DEF HttpTypeInv, X!Length
<1>3. Now' = Now /\ Off' = Off /\ Sent(Now)' = Sent(Now)
  BY DEF Now, Off, Sent, X!Length
<1>4. StreamInv'
  BY <1>1, <1>3 DEF StreamInv, X!Byte
<1>5. RequestInv' /\ CountedInv'
  BY <1>3 DEF RequestInv, CountedInv
<1>6. ReplyInv'
  BY DEF ReplyInv, X!Servable
<1>7. HandedInv'
  BY HandedKept
<1> QED
  BY <1>2, <1>4, <1>5, <1>6, <1>7

(* Some of a request has been sent, so there is one, and it is not more    *)
(* than what there is of it.                                               *)
LEMMA SomeSent ==
    ASSUME HttpParts, phase # "closed", Sent(Now) \in Nat \ {0}
    PROVE  /\ Now \in 1 .. Len(script) /\ Now \in Nat
           /\ X!Length(Now) \in Nat /\ Sent(Now) <= X!Length(Now) + 2
           /\ Sent(Now) = X!Length(Now) + 2 => unsent.of = Now + 1
           /\ unsent.of = Now + 1 => Sent(Now) = X!Length(Now) + 2
<1>1. /\ unsent.of \in Nat \ {0} /\ unsent.nr \in Nat \ {0} /\ Len(script) \in Nat
      /\ Len(replies) \in Nat /\ Now = Len(replies) + 1 /\ Now \in Nat \ {0}
      /\ script \in Scripts
  BY PartsAssumption, LenProperties DEF HttpParts, HttpTypeInv, Now
<1>2. unsent.of <= Now + 1
  BY DEF HttpParts, StreamInv
<1>3. CASE unsent.of = Now
  <2>1. Sent(Now) = unsent.nr - 1
    BY <1>3 DEF Sent
  <2>2. unsent.of <= Len(script) /\ unsent.nr <= X!Length(unsent.of) + 2
    BY <1>1, <2>1 DEF HttpParts, HttpTypeInv
  <2>3. Now \in 1 .. Len(script)
    BY <1>1, <1>3, <2>2
  <2>4. X!Length(Now) \in Nat
    BY <1>1, <2>3, ScriptFacts
  <2> QED
    BY <1>1, <1>3, <2>1, <2>2, <2>3, <2>4
<1>4. CASE unsent.of = Now + 1
  <2>1. Sent(Now) = X!Length(Now) + 2
    BY <1>1, <1>4 DEF Sent
  <2>2. unsent.of <= Len(script) + 1
    BY <1>1 DEF HttpParts, HttpTypeInv
  <2>3. Now \in 1 .. Len(script)
    BY <1>1, <1>4, <2>2
  <2>4. X!Length(Now) \in Nat
    BY <1>1, <2>3, ScriptFacts
  <2> QED
    BY <1>1, <1>4, <2>1, <2>3, <2>4
<1>5. CASE unsent.of < Now
  <2>1. Sent(Now) = 0
    BY <1>1, <1>5 DEF Sent
  <2> QED
    BY <2>1
<1> QED
  BY <1>1, <1>2, <1>3, <1>4, <1>5

(* The head is understood as that of the request to be answered.           *)
LEMMA HeadUnderstood ==
    ASSUME HttpParts, NEW b \in Seq(HttpByte), Len(b) \in Nat,
           \A i \in 1 .. Len(b) : b[i] = X!Byte(Now, i),
           NEW ends, ends = {i \in DOMAIN b : b[i].at = "end"}, Len(b) >= 1
    PROVE  /\ b[1].at = "line"
           /\ ends # {} => /\ Len(b) >= 2 /\ X!Min(ends) = 2
                           /\ X!Understood(b, 2) = {[script[Now] EXCEPT !.id = Now]}
<1>1. DOMAIN b = 1 .. Len(b)
  BY LenProperties
<1>2. \A i \in 1 .. Len(b) : b[i].of = Now /\ (b[i].at = "line" <=> i = 1) /\ (b[i].at = "end" <=> i = 2)
  <2> SUFFICES ASSUME NEW i \in 1 .. Len(b)
               PROVE  b[i].of = Now /\ (b[i].at = "line" <=> i = 1) /\ (b[i].at = "end" <=> i = 2)
    OBVIOUS
  <2>1. b[i] = X!Byte(Now, i)
    OBVIOUS
  <2>2. CASE i = 1
    BY <2>1, <2>2 DEF X!Byte
  <2>3. CASE i = 2
    BY <2>1, <2>3 DEF X!Byte
  <2>4. CASE i # 1 /\ i # 2
    BY <2>1, <2>4 DEF X!Byte
  <2> QED
    BY <2>2, <2>3, <2>4
<1>3. b[1].at = "line" /\ b[1].of = Now
  BY <1>2
<1>4. ASSUME ends # {}
      PROVE  Len(b) >= 2 /\ ends = {2}
  BY <1>1, <1>2, <1>4
<1>5. X!Min({2}) = 2
  BY DEF X!Min
<1>6. ASSUME Len(b) >= 2
      PROVE  X!Understood(b, 2) = {[script[Now] EXCEPT !.id = Now]}
  <2>1. b[2].of = Now
    BY <1>2, <1>6
  <2> QED
    BY <1>3, <2>1 DEF X!Understood
<1> QED
  BY <1>3, <1>4, <1>5, <1>6

LEMMA RecvHeadInv ==
    ASSUME HttpParts, X!RecvHead
    PROVE  HttpParts'
<1>1. phase = "head" /\ UNCHANGED <<script, unsent, shut, late>>
  BY DEF X!RecvHead, X!clientVars
<1>2. PICK n \in 1 .. Len(inbox) :
          LET b    == buffer \o SubSeq(inbox, 1, n)
              ends == {i \in DOMAIN b : b[i].at = "end"}
          IN  /\ inbox' = SubSeq(inbox, n + 1, Len(inbox))
              /\ \/ phase' = "closed" /\ UNCHANGED <<replies, counted, handed, buffer, request>>
                 \/ buffer' = b /\ UNCHANGED <<replies, counted, handed, phase, request>>
                 \/ /\ ends # {}
                    /\ \E r \in X!Understood(b, X!Min(ends)) :
                          /\ request' = r
                          /\ buffer' = X!BodyStart(b, X!Min(ends))
                          /\ CASE r.length = X!Malformed -> X!Refuse(r, 400)
                               [] r.length > MaxBody     -> X!Refuse(r, 413)
                               [] OTHER -> phase' = "body" /\ UNCHANGED <<replies, counted, handed>>
  BY Zenon DEF X!RecvHead, X!logVars
<1>3. PICK b : b = buffer \o SubSeq(inbox, 1, n)
  OBVIOUS
<1>4. PICK ends : ends = {i \in DOMAIN b : b[i].at = "end"}
  OBVIOUS
<1>5. /\ inbox' = SubSeq(inbox, n + 1, Len(inbox))
      /\ \/ phase' = "closed" /\ UNCHANGED <<replies, counted, handed, buffer, request>>
         \/ buffer' = b /\ UNCHANGED <<replies, counted, handed, phase, request>>
         \/ /\ ends # {}
            /\ \E r \in X!Understood(b, X!Min(ends)) :
                  /\ request' = r
                  /\ buffer' = X!BodyStart(b, X!Min(ends))
                  /\ CASE r.length = X!Malformed -> X!Refuse(r, 400)
                       [] r.length > MaxBody     -> X!Refuse(r, 413)
                       [] OTHER -> phase' = "body" /\ UNCHANGED <<replies, counted, handed>>
  BY <1>2, <1>3, <1>4, Zenon
<1>6. /\ b \in Seq(HttpByte) /\ inbox' \in Seq(HttpByte)
      /\ Len(b) \in Nat /\ Len(inbox') \in Nat /\ Len(b) = Len(buffer) + n
      /\ Len(b) + Len(inbox') = Sent(Now)
      /\ \A i \in 1 .. Len(b) : b[i] = X!Byte(Now, i)
      /\ \A i \in 1 .. Len(inbox') : inbox'[i] = X!Byte(Now, Len(b) + i)
  <2>1. Off = 0
    BY <1>1 DEF Off
  <2>2. /\ b \in Seq(HttpByte) /\ inbox' \in Seq(HttpByte)
        /\ Len(b) \in Nat /\ Len(inbox') \in Nat /\ Len(b) = Len(buffer) + n
        /\ 0 + Len(b) + Len(inbox') = Sent(Now)
        /\ \A i \in 1 .. Len(b) : b[i] = X!Byte(Now, 0 + i)
        /\ \A i \in 1 .. Len(inbox') : inbox'[i] = X!Byte(Now, 0 + Len(b) + i)
    BY <1>1, <1>3, <1>5, <2>1, ReadOn
  <2>3. /\ 0 + Len(b) + Len(inbox') = Len(b) + Len(inbox') /\ (\A i \in 1 .. Len(b) : 0 + i = i)
        /\ \A i \in 1 .. Len(inbox') : 0 + Len(b) + i = Len(b) + i
    BY <2>2
  <2> QED
    BY <2>2, <2>3
<1>7. Len(buffer) \in Nat /\ buffer \in Seq(HttpByte) /\ Len(b) >= 1 /\ Sent(Now) \in Nat \ {0}
  <2>1. buffer \in Seq(HttpByte) /\ Len(buffer) \in Nat
    BY LenProperties DEF HttpParts, HttpTypeInv
  <2> QED
    BY <1>6, <2>1
<1>8. CASE phase' = "closed" /\ UNCHANGED <<replies, counted, handed, buffer, request>>
  BY <1>1, <1>6, <1>7, <1>8, CloseStep
<1>9. CASE buffer' = b /\ UNCHANGED <<replies, counted, handed, phase, request>>
  BY <1>1, <1>3, <1>5, <1>9, BufferStep
<1>10. CASE /\ ends # {}
            /\ \E r \in X!Understood(b, X!Min(ends)) :
                  /\ request' = r
                  /\ buffer' = X!BodyStart(b, X!Min(ends))
                  /\ CASE r.length = X!Malformed -> X!Refuse(r, 400)
                       [] r.length > MaxBody     -> X!Refuse(r, 413)
                       [] OTHER -> phase' = "body" /\ UNCHANGED <<replies, counted, handed>>
  <2>1. Len(b) >= 2 /\ X!Min(ends) = 2 /\ X!Understood(b, 2) = {[script[Now] EXCEPT !.id = Now]}
    BY <1>4, <1>6, <1>7, <1>10, HeadUnderstood
  <2>2. PICK r : /\ r = [script[Now] EXCEPT !.id = Now]
                 /\ request' = r /\ buffer' = X!BodyStart(b, 2)
                 /\ CASE r.length = X!Malformed -> X!Refuse(r, 400)
                      [] r.length > MaxBody     -> X!Refuse(r, 413)
                      [] OTHER -> phase' = "body" /\ UNCHANGED <<replies, counted, handed>>
    BY <1>10, <2>1, Zenon
  <2>3. Now \in 1 .. Len(script) /\ Now \in Nat
    BY <1>1, <1>7, SomeSent
  <2>4. script[Now] \in X!Requests
    BY <2>3, ScriptFacts DEF HttpParts, HttpTypeInv
  <2>5. r.id = Now /\ r.length = script[Now].length /\ r.length \in Nat \cup {X!Malformed}
    BY <2>2, <2>3, <2>4 DEF X!Requests
  <2>6. /\ buffer' \in Seq(HttpByte) /\ Len(buffer') = Len(b) - 2
        /\ \A i \in 1 .. Len(b) - 2 : buffer'[i] = b[2 + i]
    <3>1. 2 \in Nat /\ 2 <= Len(b) /\ buffer' = SubSeq(b, 2 + 1, Len(b))
      BY <1>6, <2>1, <2>2 DEF X!BodyStart
    <3> QED
      BY <1>6, <3>1, Suffix
  <2>7. X!Malformed = -2 /\ MaxBody \in Nat
    BY PartsAssumption DEF X!Malformed
  <2>8. CASE r.length = X!Malformed
    <3>1. X!Refuse(r, 400)
      BY <2>2, <2>7, <2>8
    <3>2. ~X!Servable(script[Now])
      BY <2>5, <2>7, <2>8 DEF X!Servable
    <3> QED
      BY <1>1, <1>6, <2>5, <2>6, <3>1, <3>2, RefuseStep
  <2>9. CASE r.length \in Nat /\ r.length > MaxBody
    <3>1. X!Refuse(r, 413)
      BY <2>2, <2>7, <2>9
    <3>2. ~X!Servable(script[Now])
      <4>1. script[Now].length \notin 0 .. MaxBody
        BY <2>5, <2>7, <2>9
      <4> QED
        BY <4>1 DEF X!Servable
    <3> QED
      BY <1>1, <1>6, <2>5, <2>6, <3>1, <3>2, RefuseStep
  <2>10. CASE r.length \in 0 .. MaxBody
    <3>1. phase' = "body" /\ UNCHANGED <<replies, counted, handed>>
      BY <2>2, <2>7, <2>10
    <3>2. HttpTypeInv'
      BY <1>1, <1>6, <2>6, <3>1 DEF HttpParts, HttpTypeInv, X!Phases, X!Length, X!Classes
    <3>3. Now' = Now /\ Off' = 2 /\ Sent(Now)' = Sent(Now)
      BY <1>1, <3>1 DEF Now, Off, Sent, X!Length
    <3>4. StreamInv'
      <4>1. /\ unsent'.of <= Now + 1
            /\ unsent'.of = Now + 1 => unsent'.nr = 1
            /\ unsent'.of < Now => shut'
        BY <1>1 DEF HttpParts, StreamInv
      <4>2. 2 + Len(buffer') + Len(inbox') = Sent(Now)
        BY <1>6, <2>6
      <4>3. \A i \in 1 .. Len(buffer') : buffer'[i] = X!Byte(Now, 2 + i)
        <5>1. \A i \in 1 .. Len(b) - 2 : 2 + i \in 1 .. Len(b)
          BY <1>6
        <5> QED
          BY <1>6, <2>6, <5>1
      <4>4. \A i \in 1 .. Len(inbox') : inbox'[i] = X!Byte(Now, 2 + Len(buffer') + i)
        <5>1. 2 + Len(buffer') = Len(b)
          BY <1>6, <2>6
        <5> QED
          BY <1>6, <5>1
      <4> QED
        BY <1>1, <3>1, <3>3, <4>1, <4>2, <4>3, <4>4 DEF StreamInv, X!Byte
    <3>5. RequestInv'
      BY <1>1, <2>2, <2>3, <2>10, <3>1, <3>3 DEF RequestInv
    <3>6. ReplyInv' /\ CountedInv'
      BY <1>1, <3>1 DEF HttpParts, ReplyInv, X!Servable, CountedInv
    <3>7. HandedInv'
      BY <1>1, <3>1, HandedKept DEF HttpParts
    <3> QED
      BY <3>2, <3>4, <3>5, <3>6, <3>7 DEF HttpParts
  <2> QED
    BY <2>5, <2>7, <2>8, <2>9, <2>10
<1> QED
  BY <1>5, <1>8, <1>9, <1>10

LEMMA RecvBodyInv ==
    ASSUME HttpParts, X!RecvBody
    PROVE  HttpParts'
<1>1. PICK n \in 1 .. Len(inbox) :
          /\ buffer' = buffer \o SubSeq(inbox, 1, n)
          /\ inbox' = SubSeq(inbox, n + 1, Len(inbox))
  BY DEF X!RecvBody
<1>2. phase = "body" /\ UNCHANGED <<script, unsent, shut, late, phase, request, counted, handed, replies>>
  BY DEF X!RecvBody, X!clientVars, X!logVars
<1> QED
  BY <1>1, <1>2, BufferStep

---------------------------------------------------------------------------
(* The dispatch and the answers.                                           *)

(* What is read of a body that was read as a whole is its content.         *)
LEMMA ContentOfBody ==
    ASSUME HttpParts, phase \in {"body", "executing"}
    PROVE  /\ Now \in 1 .. Len(script) /\ Now \in Nat \ {0} /\ request = [script[Now] EXCEPT !.id = Now]
           /\ script[Now] \in X!Requests /\ request \in X!Requests /\ request.id = Now
           /\ request.path = script[Now].path /\ request.method = script[Now].method
           /\ request.length = script[Now].length /\ request.content = script[Now].content
           /\ buffer = X!BodyOf(Now) => X!Content(request, buffer) = script[Now].content
           /\ buffer # X!BodyOf(Now) => X!Content(request, buffer) = "garbage"
<1>1. Now \in 1 .. Len(script) /\ request = [script[Now] EXCEPT !.id = Now]
  BY DEF HttpParts, RequestInv
<1>2. Now \in Nat \ {0}
  <2>1. Len(script) \in Nat
    BY PartsAssumption, LenProperties DEF HttpParts, HttpTypeInv
  <2> QED
    BY <1>1, <2>1
<1>3. script[Now] \in X!Requests
  BY <1>1, ScriptFacts DEF HttpParts, HttpTypeInv
<1>4. /\ request \in X!Requests /\ request.id = Now
      /\ request.path = script[Now].path /\ request.method = script[Now].method
      /\ request.length = script[Now].length /\ request.content = script[Now].content
  BY <1>1, <1>2, <1>3 DEF X!Requests
<1> QED
  BY <1>1, <1>2, <1>3, <1>4 DEF X!Content

(* A request that can only be answered with 200 is not answered before the *)
(* engine has run.                                                         *)
LEMMA ServableRuns ==
    ASSUME HttpParts, phase = "body", buffer = X!BodyOf(Now), X!Servable(script[Now])
    PROVE  X!Immediate(request, buffer) = 0
<1>1. /\ request.path = script[Now].path /\ request.method = script[Now].method
      /\ request.length = script[Now].length /\ X!Content(request, buffer) = script[Now].content
  BY ContentOfBody
<1>2. script[Now].content = "good" /\ script[Now].length \in 0 .. MaxBody /\ script[Now].method = "POST"
  BY DEF X!Servable
<1>3. MaxBody \in Nat /\ ~(request.length > MaxBody)
  BY <1>1, <1>2, PartsAssumption
<1>4. X!Content(request, buffer) \notin {"garbage", "array", "nil"} /\ request.method = "POST"
  BY <1>1, <1>2
<1>5. CASE request.path = "/execute"
  BY <1>3, <1>4, <1>5 DEF X!Immediate, X!Builtins
<1>6. CASE request.path \in DOMAIN Routes /\ Routes[request.path] \in {"", "POST"}
  <2>1. request.path \notin X!Builtins
    BY <1>6, PartsAssumption
  <2>2. Routes[request.path] \in {"", request.method}
    BY <1>4, <1>6
  <2> QED
    BY <1>6, <2>1, <2>2 DEF X!Immediate
<1> QED
  BY <1>1, <1>5, <1>6 DEF X!Servable

LEMMA ImmediateFacts ==
    ASSUME HttpParts, phase = "body"
    PROVE  /\ X!Immediate(request, buffer) \in {0, 200, 400, 404, 405, 413}
           /\ X!Immediate(request, buffer) = 0 =>
                 /\ request.path = "/execute" => buffer = X!BodyOf(Now)
                 /\ request.path # "/execute" => request.path \in DOMAIN Routes
<1>1. X!Content(request, buffer) # "garbage" => buffer = X!BodyOf(Now)
  BY ContentOfBody
<1>2. CASE request.path = "/execute"
  <2>1. request.path \in X!Builtins
    BY <1>2 DEF X!Builtins
  <2>2. X!Immediate(request, buffer) =
            IF request.method # "POST" THEN 405
            ELSE IF request.length > MaxBody THEN 413
            ELSE IF X!Content(request, buffer) \in {"garbage", "array", "nil"} THEN 400 ELSE 0
    BY <1>2, <2>1 DEF X!Immediate
  <2>3. CASE X!Content(request, buffer) = "garbage"
    BY <1>2, <2>2, <2>3
  <2>4. CASE X!Content(request, buffer) # "garbage"
    BY <1>1, <1>2, <2>2, <2>4
  <2> QED
    BY <2>3, <2>4
<1>3. CASE request.path # "/execute" /\ request.path \in X!Builtins
  BY <1>3 DEF X!Immediate
<1>4. CASE request.path \notin X!Builtins
  <2>1. request.path # "/execute"
    BY <1>4 DEF X!Builtins
  <2>2. X!Immediate(request, buffer) =
            IF request.path \in DOMAIN Routes
            THEN IF Routes[request.path] \notin {"", request.method} THEN 405 ELSE 0
            ELSE 404
    BY <1>4 DEF X!Immediate
  <2>3. CASE request.path \in DOMAIN Routes
    <3>1. X!Immediate(request, buffer) \in {0, 405}
      BY <2>2, <2>3
    <3> QED
      BY <2>1, <2>3, <3>1
  <2>4. CASE request.path \notin DOMAIN Routes
    <3>1. X!Immediate(request, buffer) = 404
      BY <2>2, <2>4
    <3> QED
      BY <3>1
  <2> QED
    BY <2>3, <2>4
<1> QED
  BY <1>2, <1>3, <1>4

(* What has come of the body is a part of it, all of it unless the client  *)
(* is gone.                                                                *)
LEMMA DispatchStep ==
    ASSUME HttpParts, phase = "body", inbox = <<>>, unsent.of = Now + 1 \/ shut,
           buffer = X!BodyOf(Now) \/ shut, X!Dispatch, UNCHANGED late
    PROVE  HttpParts'
<1>1. UNCHANGED <<script, unsent, shut, inbox, late>>
  BY DEF X!Dispatch, X!clientVars
<1>2. /\ Now \in 1 .. Len(script) /\ Now \in Nat \ {0} /\ request = [script[Now] EXCEPT !.id = Now]
      /\ request.id = Now /\ script[Now] \in X!Requests /\ request.length = script[Now].length
      /\ request.length \in 0 .. MaxBody
  BY ContentOfBody DEF HttpParts, RequestInv
<1>3. /\ X!Length(Now) \in Nat /\ X!Length(Now) = request.length
      /\ X!BodyOf(Now) \in Seq(HttpByte) /\ Len(X!BodyOf(Now)) = X!Length(Now)
      /\ \A i \in 1 .. X!Length(Now) : X!BodyOf(Now)[i] = X!Byte(Now, i + 2)
  BY <1>2, ScriptFacts DEF HttpParts, HttpTypeInv
<1>4. /\ buffer \in Seq(HttpByte) /\ Len(buffer) \in Nat /\ Len(buffer) <= X!Length(Now)
      /\ \A i \in 1 .. Len(buffer) : buffer[i] = X!BodyOf(Now)[i]
  <2>1. buffer \in Seq(HttpByte) /\ Len(buffer) \in Nat /\ Len(inbox) = 0
    BY LenProperties, EmptySeq DEF HttpParts, HttpTypeInv
  <2>2. Off = 2
    BY DEF Off
  <2>3. /\ Off + Len(buffer) + Len(inbox) = Sent(Now)
        /\ \A i \in 1 .. Len(buffer) : buffer[i] = X!Byte(Now, Off + i)
    BY DEF HttpParts, StreamInv
  <2>4. Sent(Now) = 2 + Len(buffer) /\ Sent(Now) \in Nat \ {0}
    BY <2>1, <2>2, <2>3
  <2>5. Sent(Now) <= X!Length(Now) + 2
    BY <2>4, SomeSent
  <2>6. Len(buffer) <= X!Length(Now)
    BY <1>3, <2>1, <2>4, <2>5
  <2>7. \A i \in 1 .. Len(buffer) : buffer[i] = X!BodyOf(Now)[i]
    <3>1. \A i \in 1 .. Len(buffer) : i \in 1 .. X!Length(Now) /\ i + 2 = 2 + i
      BY <1>3, <2>1, <2>6
    <3> QED
      BY <1>3, <2>2, <2>3, <3>1
  <2> QED
    BY <2>1, <2>6, <2>7
<1>5. ~(Len(buffer) > MaxBody)
  BY <1>2, <1>3, <1>4, PartsAssumption
<1> DEFINE status == X!Immediate(request, buffer)
<1>6. \/ /\ status # 0
         /\ X!Respond(request, status, "none") /\ UNCHANGED handed
      \/ /\ status = 0
         /\ phase' = "executing" /\ handed' = Append(handed, [id |-> request.id, body |-> buffer])
         /\ UNCHANGED <<replies, counted, buffer, request>>
  BY <1>5 DEF X!Dispatch
<1>7. /\ status \in {0, 200, 400, 404, 405, 413}
      /\ status = 0 => /\ request.path = "/execute" => buffer = X!BodyOf(Now)
                       /\ request.path # "/execute" => request.path \in DOMAIN Routes
  BY ImmediateFacts
<1>8. X!Servable(script[Now]) /\ ~shut => status = 0
  BY ServableRuns
<1> HIDE DEF status
<1>9. CASE status # 0 /\ X!Respond(request, status, "none") /\ UNCHANGED handed
  <2>1. status \in Nat /\ "none" \in {"none", "null", "partial", "whole"} /\ "none" # "whole"
    BY <1>7
  <2> QED
    BY <1>1, <1>8, <1>9, <2>1, RespondStep
<1>10. CASE /\ status = 0
            /\ phase' = "executing" /\ handed' = Append(handed, [id |-> request.id, body |-> buffer])
            /\ UNCHANGED <<replies, counted, buffer, request>>
  <2> DEFINE h == [id |-> Now, body |-> buffer]
  <2>1. /\ handed \in Seq([id : Nat, body : Seq(HttpByte)]) /\ Len(handed) \in Nat
        /\ h \in [id : Nat, body : Seq(HttpByte)] /\ handed' = Append(handed, h)
        /\ h.id = Now /\ h.body = buffer
    BY <1>2, <1>4, <1>10, LenProperties DEF HttpParts, HttpTypeInv
  <2> HIDE DEF h
  <2>2. /\ handed' \in Seq([id : Nat, body : Seq(HttpByte)]) /\ Len(handed') = Len(handed) + 1
        /\ \A i \in 1 .. Len(handed) : handed'[i] = handed[i]
        /\ handed'[Len(handed) + 1] = h
    BY <2>1, AppendProperties
  <2>3. HttpTypeInv'
    BY <1>1, <1>10, <2>2 DEF HttpParts, HttpTypeInv, X!Phases, X!Length, X!Classes
  <2>4. Now' = Now
    BY <1>10 DEF Now
  <2>5. StreamInv'
    BY <1>1, <1>10, <2>4 DEF HttpParts, StreamInv
  <2>6. \A k : X!BodyOf(k)' = X!BodyOf(k)
    BY <1>1 DEF X!BodyOf, X!Byte, X!Length
  <2>7. RequestInv'
    BY <1>1, <1>2, <1>7, <1>10, <2>4, <2>6 DEF RequestInv
  <2>8. ReplyInv' /\ CountedInv'
    BY <1>1, <1>10 DEF HttpParts, ReplyInv, X!Servable, CountedInv
  <2>9. HandedInv'
    <3> DEFINE Good(g) == /\ g.id \in 1 .. Len(script)
                          /\ Len(g.body) <= Len(X!BodyOf(g.id))
                          /\ \A i \in 1 .. Len(g.body) : g.body[i] = X!BodyOf(g.id)[i]
                          /\ g.body = X!BodyOf(g.id) \/ shut
    <3>1. \A n \in 1 .. Len(handed) : Good(handed[n])
      BY DEF HttpParts, HandedInv
    <3>2. Good(h)
      BY <1>2, <1>3, <1>4, <2>1
    <3> HIDE DEF Good
    <3>3. \A n \in 1 .. Len(handed') : Good(handed'[n])
      BY <2>1, <2>2, <3>1, <3>2
    <3>4. \A n \in 1 .. Len(handed') :
             /\ handed'[n].id \in 1 .. Len(script)
             /\ Len(handed'[n].body) <= Len(X!BodyOf(handed'[n].id))
             /\ \A i \in 1 .. Len(handed'[n].body) : handed'[n].body[i] = X!BodyOf(handed'[n].id)[i]
             /\ handed'[n].body = X!BodyOf(handed'[n].id) \/ shut
      BY <3>3 DEF Good
    <3> QED
      BY <1>1, <2>6, <3>4, Zenon DEF HandedInv
  <2> QED
    BY <2>3, <2>5, <2>7, <2>8, <2>9 DEF HttpParts
<1> QED
  BY <1>6, <1>9, <1>10

(* How much is wanting is what the client has not sent and what the socket *)
(* has and the thread has not read.                                        *)
LEMMA BodyFacts ==
    ASSUME HttpParts, phase = "body"
    PROVE  /\ Len(buffer) \in Nat /\ Len(inbox) \in Nat /\ request.length = X!Length(Now)
           /\ request.id = Now /\ Now \in Nat /\ unsent.of \in Nat /\ unsent.of <= Now + 1
           /\ unsent.of < Now => shut
           /\ X!Wanting <=> Len(buffer) < X!Length(Now)
           /\ ~X!Wanting => inbox = <<>> /\ unsent.of = Now + 1 /\ buffer = X!BodyOf(Now)
           /\ unsent.of = Now + 1 /\ inbox = <<>> => ~X!Wanting
<1>1. /\ Now \in 1 .. Len(script) /\ Now \in Nat /\ request.id = Now
      /\ request.length = script[Now].length /\ request.length \in 0 .. MaxBody
  BY ContentOfBody DEF HttpParts, RequestInv
<1>2. X!Length(Now) \in Nat /\ X!Length(Now) = request.length /\ script \in Scripts
  BY <1>1, ScriptFacts DEF HttpParts, HttpTypeInv
<1>3. /\ buffer \in Seq(HttpByte) /\ inbox \in Seq(HttpByte)
      /\ Len(buffer) \in Nat /\ Len(inbox) \in Nat /\ unsent.of \in Nat
  BY LenProperties DEF HttpParts, HttpTypeInv
<1>4. unsent.of <= Now + 1 /\ (unsent.of < Now => shut)
  BY DEF HttpParts, StreamInv
<1>5. Off = 2
  BY DEF Off
<1>6. /\ 2 + Len(buffer) + Len(inbox) = Sent(Now)
      /\ \A i \in 1 .. Len(buffer) : buffer[i] = X!Byte(Now, 2 + i)
  BY <1>5 DEF HttpParts, StreamInv
<1>7. Sent(Now) \in Nat \ {0}
  BY <1>3, <1>6
<1>8. /\ Sent(Now) <= X!Length(Now) + 2
      /\ Sent(Now) = X!Length(Now) + 2 => unsent.of = Now + 1
      /\ unsent.of = Now + 1 => Sent(Now) = X!Length(Now) + 2
  BY <1>7, SomeSent
<1>9. X!Wanting <=> Len(buffer) < X!Length(Now)
  <2>1. X!Wanting <=> request.length - Len(buffer) > 0 /\ Len(buffer) < MaxBody + 1
    BY DEF X!Wanting, X!Need
  <2> QED
    BY <1>1, <1>2, <1>3, <2>1, PartsAssumption
<1>10. ASSUME ~X!Wanting
       PROVE  inbox = <<>> /\ unsent.of = Now + 1 /\ buffer = X!BodyOf(Now)
  <2>1. Len(buffer) = X!Length(Now) /\ Len(inbox) = 0 /\ Sent(Now) = X!Length(Now) + 2
    BY <1>2, <1>3, <1>6, <1>8, <1>9, <1>10
  <2>2. buffer = X!BodyOf(Now)
    BY <1>1, <1>2, <1>3, <1>6, <2>1, WholeBody
  <2>3. inbox = <<>>
    BY <1>3, <2>1, EmptySeq
  <2> QED
    BY <1>8, <2>1, <2>2, <2>3
<1>11. ASSUME unsent.of = Now + 1, inbox = <<>>
       PROVE  ~X!Wanting
  <2>1. Len(inbox) = 0
    BY <1>11, EmptySeq
  <2> QED
    BY <1>2, <1>3, <1>6, <1>8, <1>9, <1>11, <2>1
<1> QED
  BY <1>1, <1>2, <1>3, <1>4, <1>9, <1>10, <1>11

LEMMA BodyCompleteInv ==
    ASSUME HttpParts, X!BodyComplete
    PROVE  HttpParts'
<1>1. phase = "body" /\ ~X!Wanting /\ X!Dispatch /\ UNCHANGED late
  BY DEF X!BodyComplete
<1>2. inbox = <<>> /\ unsent.of = Now + 1 /\ buffer = X!BodyOf(Now)
  BY <1>1, BodyFacts
<1> QED
  BY <1>1, <1>2, DispatchStep

LEMMA BodyFailsInv ==
    ASSUME HttpParts, ~late, ~late', X!BodyFails
    PROVE  HttpParts'
<1>1. phase = "body" /\ X!Wanting /\ inbox = <<>> /\ X!Dispatch
  BY DEF X!BodyFails
<1>2. shut \/ unsent.of # request.id
  BY DEF X!BodyFails
<1>3. UNCHANGED late
  BY DEF X!BodyFails, HttpParts, HttpTypeInv
<1>4. shut
  <2>1. /\ request.id = Now /\ Now \in Nat /\ unsent.of \in Nat /\ unsent.of <= Now + 1
        /\ unsent.of < Now => shut
        /\ unsent.of # Now + 1
    BY <1>1, BodyFacts
  <2> QED
    BY <1>2, <2>1
<1> QED
  BY <1>1, <1>3, <1>4, DispatchStep

(* What an execution of a content may end with.                            *)
LEMMA OutcomeFacts ==
    ASSUME NEW content, NEW o \in X!Outcomes(content), shut \in BOOLEAN
    PROVE  /\ o[1] \in {200, 400, 500} /\ o[2] \in {"null", "partial", "whole"}
           /\ o[2] = "whole" \/ o[1] = 200 => content \notin {"failing", "invalid"}
           /\ content = "good" /\ ~shut => o[1] = 200
BY DEF X!Outcomes

LEMMA EndExecuteInv ==
    ASSUME HttpParts, X!EndExecute
    PROVE  HttpParts'
<1>1. phase = "executing" /\ request.path = "/execute"
      /\ UNCHANGED <<script, unsent, shut, inbox, handed, late>>
  BY DEF X!EndExecute, X!clientVars
<1>2. PICK o \in X!Outcomes(X!Content(request, buffer)) : X!Respond(request, o[1], o[2])
  BY DEF X!EndExecute
<1>3. X!Content(request, buffer) = script[Now].content
  BY <1>1, ContentOfBody DEF HttpParts, RequestInv
<1>4. /\ o[1] \in {200, 400, 500} /\ o[2] \in {"null", "partial", "whole"}
      /\ o[2] = "whole" => script[Now].content \notin {"failing", "invalid"}
      /\ script[Now].content = "good" /\ ~shut => o[1] = 200
  BY <1>2, <1>3, OutcomeFacts DEF HttpParts, HttpTypeInv
<1>5. o[1] \in Nat /\ o[2] \in {"none", "null", "partial", "whole"}
  BY <1>4
<1>6. X!Servable(script[Now]) /\ ~shut => o[1] = 200
  BY <1>4 DEF X!Servable
<1>7. inbox = <<>> /\ (unsent.of = Now + 1 \/ shut)
  BY <1>1 DEF HttpParts, StreamInv
<1> QED
  BY <1>1, <1>2, <1>4, <1>5, <1>6, <1>7, RespondStep

LEMMA EndRouteInv ==
    ASSUME HttpParts, X!EndRoute
    PROVE  HttpParts'
<1>1. phase = "executing" /\ UNCHANGED <<script, unsent, shut, inbox, handed, late>>
  BY DEF X!EndRoute, X!clientVars
<1>2. inbox = <<>> /\ (unsent.of = Now + 1 \/ shut) /\ (buffer = X!BodyOf(Now) \/ shut)
  BY <1>1 DEF HttpParts, StreamInv, RequestInv
<1>3. /\ buffer = X!BodyOf(Now) => X!Content(request, buffer) = script[Now].content
      /\ buffer # X!BodyOf(Now) => X!Content(request, buffer) = "garbage"
  BY <1>1, ContentOfBody
<1>4. ASSUME ~(X!Servable(script[Now]) /\ ~shut), X!Respond(request, 500, "null")
      PROVE  HttpParts'
  BY <1>1, <1>2, <1>4, RespondStep
<1>5. CASE X!Content(request, buffer) \in {"garbage", "array", "nil"} /\ X!Respond(request, 500, "null")
  <2>1. ~(X!Servable(script[Now]) /\ ~shut)
    BY <1>2, <1>3, <1>5 DEF X!Servable
  <2> QED
    BY <1>4, <1>5, <2>1
<1>6. CASE /\ X!Content(request, buffer) \notin {"garbage", "array", "nil"}
           /\ \E o \in X!Outcomes(X!Content(request, buffer)) :
                 IF o[1] = 200 THEN X!Respond(request, 200, "whole") ELSE X!Respond(request, 500, "null")
  <2>1. PICK o \in X!Outcomes(X!Content(request, buffer)) :
                 IF o[1] = 200 THEN X!Respond(request, 200, "whole") ELSE X!Respond(request, 500, "null")
    BY <1>6
  <2>2. X!Content(request, buffer) = script[Now].content
    BY <1>3, <1>6
  <2>3. /\ o[1] = 200 => script[Now].content \notin {"failing", "invalid"}
        /\ script[Now].content = "good" /\ ~shut => o[1] = 200
    BY <2>1, <2>2, OutcomeFacts DEF HttpParts, HttpTypeInv
  <2>4. CASE o[1] = 200
    <3>1. X!Respond(request, 200, "whole") /\ script[Now].content \notin {"failing", "invalid"}
      BY <2>1, <2>3, <2>4
    <3> QED
      BY <1>1, <1>2, <3>1, RespondStep
  <2>5. CASE o[1] # 200
    <3>1. X!Respond(request, 500, "null") /\ ~(X!Servable(script[Now]) /\ ~shut)
      BY <2>1, <2>3, <2>5 DEF X!Servable
    <3> QED
      BY <1>4, <3>1
  <2> QED
    BY <2>4, <2>5
<1> QED
  BY <1>5, <1>6 DEF X!EndRoute
LEMMA HttpInit == X!Init => HttpInv
<1> SUFFICES ASSUME X!Init
             PROVE  HttpParts
  BY DEF HttpInv
<1>1. /\ script \in Scripts /\ unsent = [of |-> 1, nr |-> 1] /\ inbox = <<>> /\ shut = FALSE
      /\ phase = "head" /\ buffer = <<>> /\ replies = <<>> /\ handed = <<>> /\ late = FALSE
      /\ counted = [c \in X!Classes |-> 0]
  BY DEF X!Init
<1>2. Len(script) \in Nat
  BY <1>1, PartsAssumption, LenProperties
<1>3. \A S : <<>> \in Seq(S)
  BY EmptySeq
<1>4. Len(<<>>) = 0
  BY EmptySeq
<1>5. HttpTypeInv
  <2>1. 1 <= Len(script) => X!Length(1) \in Nat
    <3>1. CASE 1 <= Len(script)
      <4>1. 1 \in 1 .. Len(script)
        BY <1>2, <3>1
      <4> QED
        BY <1>1, <4>1, ScriptFacts
    <3> QED
      BY <3>1
  <2>2. unsent.of <= Len(script) => unsent.nr <= X!Length(unsent.of) + 2
    BY <1>1, <2>1
  <2>3. unsent.of > Len(script) => unsent.nr = 1 /\ unsent.of = Len(script) + 1
    BY <1>1, <1>2
  <2>4. counted \in [X!Classes -> Nat]
    BY <1>1
  <2>5. unsent \in [of : Nat \ {0}, nr : Nat \ {0}] /\ phase \in X!Phases
    BY <1>1 DEF X!Phases
  <2>6. /\ inbox \in Seq(HttpByte) /\ buffer \in Seq(HttpByte) /\ replies \in Seq(HttpReply)
        /\ handed \in Seq([id : Nat, body : Seq(HttpByte)])
    BY <1>1, <1>3
  <2>7. script \in Scripts /\ shut \in BOOLEAN /\ late \in BOOLEAN
    BY <1>1
  <2> QED
    BY <2>2, <2>3, <2>4, <2>5, <2>6, <2>7, Zenon DEF HttpTypeInv
<1>6. Now = 1 /\ Off = 0 /\ Sent(1) = 0
  BY <1>1, <1>4 DEF Now, Off, Sent
<1>7. StreamInv
  BY <1>1, <1>4, <1>6 DEF StreamInv
<1>8. RequestInv /\ ReplyInv /\ HandedInv
  BY <1>1, <1>4 DEF RequestInv, ReplyInv, HandedInv
<1>9. CountedInv
  BY <1>1, <1>4 DEF CountedInv, X!Classes
<1> QED
  BY <1>5, <1>7, <1>8, <1>9 DEF HttpParts

(* Nothing changes for a step of another part.                             *)
LEMMA HttpIdle ==
    ASSUME HttpParts, UNCHANGED X!vars
    PROVE  HttpParts'
<1>1. UNCHANGED <<script, unsent, inbox, shut, phase, buffer, request, replies, counted, handed, late>>
  BY DEF X!vars, X!clientVars, X!logVars
<1>2. \A k : X!Length(k)' = X!Length(k) /\ X!BodyOf(k)' = X!BodyOf(k)
  BY <1>1 DEF X!Length, X!BodyOf, X!Byte
<1>3. Now' = Now /\ Off' = Off /\ Sent(Now)' = Sent(Now)
  BY <1>1, <1>2 DEF Now, Off, Sent
<1>4. HttpTypeInv'
  BY <1>1, <1>2 DEF HttpParts, HttpTypeInv, X!Length
<1>5. StreamInv'
  BY <1>1, <1>3 DEF HttpParts, StreamInv, X!Byte
<1>6. RequestInv' /\ CountedInv'
  BY <1>1, <1>2, <1>3 DEF HttpParts, RequestInv, CountedInv
<1>7. ReplyInv'
  BY <1>1 DEF HttpParts, ReplyInv, X!Servable
<1>8. HandedInv'
  BY <1>1, HandedKept DEF HttpParts
<1> QED
  BY <1>4, <1>5, <1>6, <1>7, <1>8 DEF HttpParts

(* Every step of a client that waits, and whose bodies come in time.       *)
LEMMA HttpNext ==
    ASSUME HttpInv, [X!Next]_X!vars
    PROVE  HttpInv'
<1> SUFFICES ASSUME ~Pipelined, ~late'
             PROVE  HttpParts'
  BY DEF HttpInv
<1>1. ~late
  <2>1. UNCHANGED late \/ late' = (late \/ (~shut /\ unsent.of = request.id))
    BY DEF X!Next, X!vars, X!Send, X!Shut, X!HeadFails, X!Close, X!RecvHead, X!RecvBody, X!BodyComplete,
           X!BodyFails, X!EndExecute, X!EndRoute
  <2> QED
    BY <2>1
<1>2. HttpParts
  BY <1>1 DEF HttpInv
<1>3. CASE X!Send
  BY <1>2, <1>3, HttpSendInv
<1>4. CASE X!Shut
  BY <1>2, <1>4, HttpShutInv
<1>5. CASE X!HeadFails
  BY <1>2, <1>5, HeadFailsInv
<1>6. CASE X!RecvHead
  BY <1>2, <1>6, RecvHeadInv
<1>7. CASE X!RecvBody
  BY <1>2, <1>7, RecvBodyInv
<1>8. CASE X!BodyComplete
  BY <1>2, <1>8, BodyCompleteInv
<1>9. CASE X!BodyFails
  BY <1>1, <1>2, <1>9, BodyFailsInv
<1>10. CASE X!EndExecute
  BY <1>2, <1>10, EndExecuteInv
<1>11. CASE X!EndRoute
  BY <1>2, <1>11, EndRouteInv
<1>12. CASE UNCHANGED X!vars
  BY <1>2, <1>12, HttpIdle
<1> QED
  BY <1>3, <1>4, <1>5, <1>6, <1>7, <1>8, <1>9, <1>10, <1>11, <1>12 DEF X!Next

THEOREM HttpHolds == Spec => []HttpInv
<1>1. Init => HttpInv
  BY HttpInit DEF Init
<1>2. HttpInv /\ [Next]_vars => HttpInv'
  BY Steps, HttpNext
<1> QED
  BY <1>1, <1>2, PTL DEF Spec

(* A sequence that agrees with a longer one as far as it goes is a prefix  *)
(* of it.                                                                  *)
LEMMA PrefixOf ==
    ASSUME NEW S, NEW b \in Seq(S), NEW s \in Seq(S), Len(b) <= Len(s),
           \A i \in 1 .. Len(b) : b[i] = s[i]
    PROVE  X!IsPrefix(b, s)
<1>1. Len(b) \in Nat /\ Len(s) \in Nat
  BY LenProperties
<1> DEFINE n == Len(b)
<1>2. n \in Nat /\ n <= Len(s) /\ (\A i \in 1 .. n : b[i] \in S /\ s[i] \in S)
  BY <1>1, ElementOfSeq
<1>3. /\ SubSeq(b, 1, n) \in Seq(S) /\ Len(SubSeq(b, 1, n)) = IF 1 <= n THEN n - 1 + 1 ELSE 0
      /\ \A i \in 1 .. n - 1 + 1 : SubSeq(b, 1, n)[i] = b[1 + i - 1]
  BY <1>2, SubSeqProperties
<1>4. /\ SubSeq(s, 1, n) \in Seq(S) /\ Len(SubSeq(s, 1, n)) = IF 1 <= n THEN n - 1 + 1 ELSE 0
      /\ \A i \in 1 .. n - 1 + 1 : SubSeq(s, 1, n)[i] = s[1 + i - 1]
  BY <1>2, SubSeqProperties
<1> HIDE DEF n
<1>5. n - 1 + 1 = n /\ (~(1 <= n) => n = 0) /\ \A i \in 1 .. n : 1 + i - 1 = i
  BY <1>2
<1>6. \A i \in 1 .. n : b[i] = s[i]
  BY DEF n
<1>7. Len(SubSeq(b, 1, n)) = n /\ Len(SubSeq(s, 1, n)) = n
  BY <1>3, <1>4, <1>5
<1>8. \A i \in 1 .. n : SubSeq(b, 1, n)[i] = SubSeq(s, 1, n)[i]
  BY <1>3, <1>4, <1>5, <1>6
<1>9. SubSeq(b, 1, n) = SubSeq(s, 1, n)
  BY <1>3, <1>4, <1>7, <1>8, SeqEqual
<1> QED
  BY <1>9 DEF X!IsPrefix, n

LEMMA HttpInvGives == HttpInv => AnsweredInOrder
<1> SUFFICES ASSUME ~Pipelined, ~late, HttpParts
             PROVE  /\ \A k \in DOMAIN replies :
                          /\ replies[k].to = k
                          /\ X!Servable(script[k]) /\ ~shut => replies[k].status = 200
                          /\ replies[k].result = "whole" => script[k].content \notin {"failing", "invalid"}
                    /\ \A h \in X!ToSet(handed) :
                          X!IsPrefix(h.body, X!BodyOf(h.id)) /\ (h.body = X!BodyOf(h.id) \/ shut)
                    /\ phase = "head" /\ buffer = <<>> /\ inbox = <<>> =>
                          \A k \in DOMAIN script : k \in DOMAIN replies \/ k >= unsent.of
                    /\ phase # "closed" => Len(replies) = counted["2xx"] + counted["4xx"] + counted["5xx"]
  BY DEF HttpInv, AnsweredInOrder, X!AnsweredInOrder
<1>1. /\ replies \in Seq(HttpReply) /\ Len(replies) \in Nat /\ DOMAIN replies = 1 .. Len(replies)
      /\ script \in Seq(X!Requests) /\ Len(script) \in Nat /\ DOMAIN script = 1 .. Len(script)
      /\ handed \in Seq([id : Nat, body : Seq(HttpByte)]) /\ DOMAIN handed = 1 .. Len(handed)
      /\ unsent.of \in Nat \ {0} /\ unsent.nr \in Nat \ {0}
  BY PartsAssumption, LenProperties DEF HttpParts, HttpTypeInv
<1>2. ASSUME NEW h \in X!ToSet(handed)
      PROVE  X!IsPrefix(h.body, X!BodyOf(h.id)) /\ (h.body = X!BodyOf(h.id) \/ shut)
  <2>1. PICK n \in 1 .. Len(handed) : h = handed[n]
    BY <1>1 DEF X!ToSet
  <2>2. h.body \in Seq(HttpByte)
    <3>1. h \in [id : Nat, body : Seq(HttpByte)]
      BY <1>1, <2>1, ElementOfSeq
    <3> QED
      BY <3>1
  <2>3. /\ h.id \in 1 .. Len(script)
        /\ Len(h.body) <= Len(X!BodyOf(h.id)) /\ \A i \in 1 .. Len(h.body) : h.body[i] = X!BodyOf(h.id)[i]
        /\ h.body = X!BodyOf(h.id) \/ shut
    BY <2>1 DEF HttpParts, HandedInv
  <2>4. X!BodyOf(h.id) \in Seq(HttpByte)
    BY <2>3, ScriptFacts DEF HttpParts, HttpTypeInv
  <2> QED
    BY <2>2, <2>3, <2>4, PrefixOf
<1>3. ASSUME phase = "head", buffer = <<>>, inbox = <<>>, NEW k \in DOMAIN script
      PROVE  k \in DOMAIN replies \/ k >= unsent.of
  <2>1. Now = Len(replies) + 1 /\ Now \in Nat /\ Off = 0 /\ Len(<<>>) = 0 /\ k \in Nat \ {0}
    BY <1>1, <1>3, EmptySeq DEF Now, Off
  <2>2. Sent(Now) = 0 /\ unsent.of <= Now + 1
    BY <1>3, <2>1 DEF HttpParts, StreamInv
  <2>3. unsent.of <= Now
    <3> SUFFICES ASSUME unsent.of = Now + 1
                 PROVE  FALSE
      BY <1>1, <2>1, <2>2
    <3>1. Sent(Now) = X!Length(Now) + 2
      BY <2>1 DEF Sent
    <3>2. Now \in 1 .. Len(script)
      BY <1>1, <2>1 DEF HttpParts, HttpTypeInv
    <3>3. X!Length(Now) \in Nat
      BY <3>2, ScriptFacts DEF HttpParts, HttpTypeInv
    <3> QED
      BY <2>2, <3>1, <3>3
  <2> QED
    BY <1>1, <2>1, <2>3
<1>4. phase # "closed" => Len(replies) = counted["2xx"] + counted["4xx"] + counted["5xx"]
  BY DEF HttpParts, CountedInv
<1>5. \A k \in DOMAIN replies :
          /\ replies[k].to = k
          /\ X!Servable(script[k]) /\ ~shut => replies[k].status = 200
          /\ replies[k].result = "whole" => script[k].content \notin {"failing", "invalid"}
  BY <1>1 DEF HttpParts, ReplyInv
<1> QED
  BY <1>2, <1>3, <1>4, <1>5

---------------------------------------------------------------------------
(* A Lua state is free, with one call or with nobody, a Redis connection   *)
(* is idle once or with one thread, and the counters of both pools say how *)
(* many are where, whichever of their steps fail (lua_pool.cpp,            *)
(* connection_pool.cpp).                                                   *)
THEOREM PartsOneHolder == Spec => []OneHolder
<1>1. LuaInv /\ LuaCountInv /\ RedisInv => OneHolder
  BY LuaPromises, RedisPromises DEF OneHolder
<1> QED
  BY <1>1, LuaHolds, RedisHolds, PTL

(* What a call has assigned to the globals of a Lua state is gone when the *)
(* state is free again (LuaSnapshot::reset_to_baseline), and a Redis       *)
(* connection whose exchanges have all succeeded is handed on with nothing *)
(* to read and outside of a transaction, so that its next holder reads the *)
(* answers to its own commands (ConnectionPool::release).                  *)
THEOREM PartsNothingLeaks == Spec => []NothingLeaks
<1>1. LuaInv /\ LuaCountInv /\ RedisInv => NothingLeaks
  BY LuaPromises, RedisPromises DEF NothingLeaks
<1> QED
  BY <1>1, LuaHolds, RedisHolds, PTL

(* What the graph, the shards and the operators of an engine rely on holds *)
(* of every configuration it was made of, however the flags of the         *)
(* operators' classes were added (load_config_from_json, Engine::Engine).  *)
THEOREM PartsAcceptedIsSafe == Spec => []AcceptedIsSafe
<1>1. ConfigInv => AcceptedIsSafe
  BY DEF ConfigInv, AcceptedIsSafe
<1> QED
  BY <1>1, ConfigHolds, PTL

(* A client that waits for each answer and sends each body in time gets    *)
(* one answer per request, in the order of its requests; what the engine   *)
(* or an ingress is given is that request's body, cut short only by the    *)
(* client's going; no servable request is refused; and every answer is     *)
(* counted, but for a refusal that ends the connection - for every script, *)
(* every limit, and however the stream is cut up (server.cpp:126-291,      *)
(* 1402-1501).                                                             *)
THEOREM PartsAnsweredInOrder == Spec => []AnsweredInOrder
BY HttpHolds, HttpInvGives, PTL

---------------------------------------------------------------------------
(* The manager of resources.                                               *)

LEMMA ManagerConstants == Managed \in Nat /\ MaxStarts \in Nat /\ MaxFetches \in Nat
BY PartsAssumption

Started == {"spawning", "up", "flagged", "joining"}
Dead    == {"none", "ended"}

(* The flags follow the owner.                                             *)
FlagInv ==
    /\ started <=> manager \in Started
    /\ stopping <=> manager \in {"flagged", "joining"}
    /\ manager \notin M!Idle => starts \in M!Runs

(* A thread that is alive belongs to the last start(), which has not been  *)
(* stopped, and to a resource that is refreshed.                           *)
AliveInv ==
    \A r \in M!Resources, g \in M!Runs :
        /\ thread[r][g] \notin Dead =>
               g = starts /\ manager \in Started /\ r \in registered \cap timed
        /\ g > starts => thread[r][g] = "none"

(* The threads of the last start().                                        *)
ThreadsInv ==
    /\ manager = "starting" => \A r \in M!Resources : thread[r][starts] = "none"
    /\ manager = "spawning" =>
           /\ todo \subseteq timed
           /\ \A r \in todo : thread[r][starts] = "none"
           /\ \A r \in (registered \cap timed) \ todo : thread[r][starts] \notin Dead
    /\ manager = "up" => \A r \in registered \cap timed : thread[r][starts] \notin Dead

(* What is loaded, and how old it is.                                      *)
LoadedInv ==
    /\ loaded \subseteq registered
    /\ manager = "starting" => registered \ todo \subseteq loaded
    /\ manager \in Started => registered \subseteq loaded

AgeInv ==
    /\ \A r \in M!Resources : value[r] <= fetches[r]
    /\ \A r \in M!Resources, g \in M!Runs :
           thread[r][g] = "storing" =>
               hand[r][g] # 0 /\ value[r] <= hand[r][g] /\ hand[r][g] <= fetches[r]

ManagerInv == M!TypeOK /\ FlagInv /\ AliveInv /\ ThreadsInv /\ LoadedInv /\ AgeInv

USE DEF M!Resources, M!Runs, M!Idle, Started, Dead

---------------------------------------------------------------------------
LEMMA ManagerNumbers == M!TypeOK => value \in [M!Resources -> Nat] /\ fetches \in [M!Resources -> Nat]
BY ManagerConstants DEF M!TypeOK

LEMMA ManagerInitInv == M!Init => ManagerInv
<1> SUFFICES ASSUME M!Init PROVE ManagerInv
  OBVIOUS
<1>1. /\ value \in [M!Resources -> 0 .. MaxFetches] /\ fetches \in [M!Resources -> 0 .. MaxFetches]
      /\ thread \in [M!Resources -> [M!Runs -> M!ThreadPcs]]
      /\ hand \in [M!Resources -> [M!Runs -> 0 .. MaxFetches]]
  BY ManagerConstants DEF M!Init, M!ThreadPcs
<1>2. loaded = {r \in M!Resources : value[r] # 0}
  BY DEF M!Init
<1>3. M!TypeOK
  <2>1. starts \in 0 .. MaxStarts
    BY ManagerConstants DEF M!Init
  <2>2. /\ timed \subseteq M!Resources /\ handles \subseteq M!Resources
        /\ registered \subseteq M!Resources /\ todo \subseteq registered
        /\ manager \in M!Phases /\ started \in BOOLEAN /\ stopping \in BOOLEAN
    BY DEF M!Init, M!Phases
  <2> QED
    BY <1>1, <1>2, <2>1, <2>2 DEF M!TypeOK
<1>4. FlagInv /\ ThreadsInv /\ LoadedInv
  BY DEF M!Init, FlagInv, ThreadsInv, LoadedInv
<1>5. /\ \A r \in M!Resources, g \in M!Runs : thread[r][g] = "none"
      /\ \A r \in M!Resources : value[r] = 0 /\ fetches[r] = 0
  BY DEF M!Init
<1>6. AliveInv /\ AgeInv
  <2>1. AliveInv
    BY <1>5 DEF AliveInv
  <2>2. AgeInv
    <3>1. \A r \in M!Resources : value[r] <= fetches[r]
      BY <1>5
    <3>2. \A r \in M!Resources, g \in M!Runs : thread[r][g] # "storing"
      BY <1>5
    <3> QED
      BY <3>1, <3>2 DEF AgeInv
  <2> QED
    BY <2>1, <2>2
<1> QED
  BY <1>3, <1>4, <1>6 DEF ManagerInv

LEMMA ManagerRegisterInv == ASSUME ManagerInv, NEW r \in M!Resources, M!Register(r) PROVE ManagerInv'
BY DEF M!Register, M!ownerVars, ManagerInv, M!TypeOK, FlagInv, AliveInv, ThreadsInv, LoadedInv, AgeInv

LEMMA ManagerBeginStartInv == ASSUME ManagerInv, M!BeginStart PROVE ManagerInv'
<1>1. starts' = starts + 1 /\ starts' \in M!Runs /\ manager' = "starting"
  BY ManagerConstants DEF M!BeginStart, ManagerInv, M!TypeOK
<1>2. \A r \in M!Resources, g \in M!Runs : thread[r][g] \in Dead
  BY DEF M!BeginStart, ManagerInv, AliveInv, M!TypeOK
<1>3. /\ M!TypeOK'
      /\ FlagInv'
      /\ LoadedInv'
      /\ AgeInv'
  <2>1. M!TypeOK'
    BY <1>1, ManagerConstants DEF M!BeginStart, M!declVars, ManagerInv, M!TypeOK, M!Phases
  <2>2. FlagInv' /\ LoadedInv'
    BY <1>1 DEF M!BeginStart, M!declVars, ManagerInv, FlagInv, LoadedInv
  <2>3. AgeInv'
    BY DEF M!BeginStart, ManagerInv, AgeInv
  <2> QED
    BY <2>1, <2>2, <2>3
<1>4. starts \in Nat /\ \A g \in M!Runs : g \in Nat
  BY ManagerConstants DEF ManagerInv, M!TypeOK
<1>5. thread' = thread /\ \A r \in M!Resources, g \in M!Runs : g > starts => thread[r][g] = "none"
  BY DEF M!BeginStart, ManagerInv, AliveInv
<1>6. AliveInv'
  BY <1>1, <1>2, <1>4, <1>5 DEF AliveInv
<1>7. ThreadsInv'
  BY <1>1, <1>4, <1>5 DEF ThreadsInv
<1> QED
  BY <1>3, <1>6, <1>7 DEF ManagerInv

LEMMA ManagerFetchFirstInv == ASSUME ManagerInv, NEW r \in M!Resources, M!FetchFirst(r) PROVE ManagerInv'
<1>1. \A q \in M!Resources, g \in M!Runs : thread[q][g] \in Dead
  BY DEF M!FetchFirst, ManagerInv, AliveInv, M!TypeOK
<1>2. r \in registered
  BY DEF M!FetchFirst, M!Earliest, ManagerInv, M!TypeOK
<1>3. FlagInv' /\ AliveInv' /\ ThreadsInv'
  BY <1>1 DEF M!FetchFirst, M!declVars, ManagerInv, M!TypeOK, FlagInv, AliveInv, ThreadsInv
<1>4. M!TypeOK' /\ LoadedInv' /\ AgeInv'
  <2>1. CASE manager' = "broken"
    BY <1>1, <2>1 DEF M!FetchFirst, M!declVars, ManagerInv, M!TypeOK, LoadedInv, AgeInv, M!Phases
  <2>2. CASE manager' = manager
    <3>1. fetches[r] \in Nat /\ fetches[r] + 1 \in 1 .. MaxFetches
      BY <2>2, ManagerConstants DEF M!FetchFirst, ManagerInv, M!TypeOK
    <3>2. /\ fetches' = [fetches EXCEPT ![r] = fetches[r] + 1]
          /\ value' = [value EXCEPT ![r] = fetches[r] + 1]
          /\ loaded' = loaded \cup {r} /\ todo' = todo \ {r}
      BY <2>2 DEF M!FetchFirst
    <3>3. fetches' \in [M!Resources -> 0 .. MaxFetches] /\ value' \in [M!Resources -> 0 .. MaxFetches]
      BY <3>1, <3>2 DEF ManagerInv, M!TypeOK
    <3>4. loaded' = {q \in M!Resources : value'[q] # 0}
      BY <3>1, <3>2 DEF ManagerInv, M!TypeOK
    <3>5. M!TypeOK'
      BY <3>2, <3>3, <3>4, <2>2 DEF M!FetchFirst, M!declVars, ManagerInv, M!TypeOK
    <3>6. LoadedInv'
      BY <3>2, <2>2, <1>2 DEF M!FetchFirst, M!declVars, ManagerInv, LoadedInv
    <3>7. AgeInv'
      BY <1>1, <3>1, <3>2 DEF M!FetchFirst, M!declVars, ManagerInv, AgeInv, M!TypeOK
    <3> QED
      BY <3>5, <3>6, <3>7
  <2> QED
    BY <2>1, <2>2 DEF M!FetchFirst
<1> QED
  BY <1>3, <1>4 DEF ManagerInv

LEMMA ManagerAllFetchedInv == ASSUME ManagerInv, M!AllFetched PROVE ManagerInv'
BY DEF M!AllFetched, M!declVars, ManagerInv, M!TypeOK, FlagInv, AliveInv, ThreadsInv, LoadedInv, AgeInv, M!Phases

LEMMA ManagerSpawnInv == ASSUME ManagerInv, NEW r \in M!Resources, M!Spawn(r) PROVE ManagerInv'
<1>1. starts \in M!Runs /\ r \in todo /\ manager = "spawning" /\ r \in registered \cap timed
  BY DEF M!Spawn, M!Earliest, ManagerInv, FlagInv, ThreadsInv, M!TypeOK
<1>2. thread' = [thread EXCEPT ![r][starts] = "head"]
  BY DEF M!Spawn, M!Goto
<1>3. M!TypeOK' /\ FlagInv' /\ LoadedInv'
  <2>1. thread' \in [M!Resources -> [M!Runs -> M!ThreadPcs]]
    BY <1>1, <1>2 DEF ManagerInv, M!TypeOK, M!ThreadPcs
  <2>2. M!TypeOK'
    BY <2>1 DEF M!Spawn, M!declVars, ManagerInv, M!TypeOK
  <2>3. todo' = todo \ {r} /\ UNCHANGED <<registered, manager, starts, started, stopping, loaded>>
    BY DEF M!Spawn, M!declVars
  <2>4. FlagInv'
    BY <2>3 DEF ManagerInv, FlagInv, M!Idle, M!Runs, Started
  <2>5. LoadedInv'
    BY <1>1, <2>3 DEF ManagerInv, LoadedInv, Started
  <2> QED
    BY <2>2, <2>4, <2>5
<1>4. \A q \in M!Resources, g \in M!Runs :
          (thread[q][g])' = IF q = r /\ g = starts THEN "head" ELSE thread[q][g]
  BY <1>1, <1>2 DEF ManagerInv, M!TypeOK
<1>5. AliveInv'
  BY <1>1, <1>4 DEF M!Spawn, M!declVars, ManagerInv, M!TypeOK, AliveInv
<1>6. ThreadsInv'
  <2>1. todo' = todo \ {r} /\ UNCHANGED <<registered, timed, manager, starts>>
    BY DEF M!Spawn, M!declVars
  <2>2. \A q \in M!Resources : (thread[q][starts])' = IF q = r THEN "head" ELSE thread[q][starts]
    BY <1>1, <1>4, <2>1
  <2>3. ThreadsInv /\ registered \subseteq M!Resources /\ todo \subseteq registered
    BY DEF ManagerInv, M!TypeOK
  <2> QED
    BY <1>1, <2>1, <2>2, <2>3 DEF ThreadsInv, Dead
<1>7. AgeInv'
  BY <1>4 DEF M!Spawn, ManagerInv, AgeInv
<1> QED
  BY <1>3, <1>5, <1>6, <1>7 DEF ManagerInv

LEMMA ManagerAllSpawnedInv == ASSUME ManagerInv, M!AllSpawned PROVE ManagerInv'
BY DEF M!AllSpawned, M!declVars, ManagerInv, M!TypeOK, FlagInv, AliveInv, ThreadsInv, LoadedInv, AgeInv, M!Phases

LEMMA ManagerBeginStopInv == ASSUME ManagerInv, M!BeginStop PROVE ManagerInv'
BY DEF M!BeginStop, M!declVars, ManagerInv, M!TypeOK, FlagInv, AliveInv, ThreadsInv, LoadedInv, AgeInv, M!Phases

LEMMA ManagerNotifyAllInv == ASSUME ManagerInv, M!NotifyAll PROVE ManagerInv'
<1>1. \A r \in M!Resources, g \in M!Runs :
          /\ (thread[r][g])' \in Dead <=> thread[r][g] \in Dead
          /\ (thread[r][g])' = "storing" <=> thread[r][g] = "storing"
          /\ thread[r][g] = "none" => (thread[r][g])' = "none"
  BY DEF M!NotifyAll, M!Awakened, ManagerInv, M!TypeOK
<1>2. thread' \in [M!Resources -> [M!Runs -> M!ThreadPcs]]
  BY DEF M!NotifyAll, M!Awakened, ManagerInv, M!TypeOK, M!ThreadPcs
<1>3. M!TypeOK' /\ FlagInv' /\ ThreadsInv' /\ LoadedInv'
  BY <1>2 DEF M!NotifyAll, M!declVars, ManagerInv, M!TypeOK, FlagInv, ThreadsInv, LoadedInv, M!Phases
<1>4. AliveInv' /\ AgeInv'
  BY <1>1 DEF M!NotifyAll, M!declVars, ManagerInv, AliveInv, AgeInv
<1> QED
  BY <1>3, <1>4 DEF ManagerInv

LEMMA ManagerJoinInv == ASSUME ManagerInv, M!Join PROVE ManagerInv'
<1>1. \A r \in M!Resources, g \in M!Runs : thread[r][g] \in Dead
  BY DEF M!Join, M!Alive
<1>2. \A r \in M!Resources : value'[r] = IF r \in loaded \cap handles THEN 0 ELSE value[r]
  BY DEF M!Join, M!Release
<1>3. M!TypeOK'
  <2>1. value' \in [M!Resources -> 0 .. MaxFetches]
    BY ManagerConstants DEF M!Join, M!Release, ManagerInv, M!TypeOK
  <2>2. loaded' = {r \in M!Resources : value'[r] # 0}
    BY <1>2 DEF M!Join, M!Release, ManagerInv, M!TypeOK
  <2> QED
    BY <2>1, <2>2 DEF M!Join, M!Release, M!declVars, ManagerInv, M!TypeOK, M!Phases
<1>4. FlagInv' /\ AliveInv' /\ ThreadsInv' /\ LoadedInv'
  BY <1>1 DEF M!Join, M!Release, M!declVars, ManagerInv, M!TypeOK, FlagInv, AliveInv, ThreadsInv, LoadedInv
<1>5. AgeInv'
  BY <1>1, <1>2 DEF M!Join, M!declVars, ManagerInv, M!TypeOK, AgeInv
<1> QED
  BY <1>3, <1>4, <1>5 DEF ManagerInv

---------------------------------------------------------------------------
(* A step of a refresh thread that neither fetches nor stores.             *)
LEMMA ManagerMoveInv ==
    ASSUME ManagerInv, NEW r \in M!Resources, NEW g \in M!Runs, NEW l \in M!ThreadPcs \ {"none", "storing"},
           thread[r][g] \notin Dead, M!Goto(r, g, l), l = "ended" => stopping,
           UNCHANGED <<M!declVars, M!ownerVars, value, loaded, fetches, hand>>
    PROVE  ManagerInv'
<1>1. thread' = [thread EXCEPT ![r][g] = l]
  BY DEF M!Goto
<1>2. M!TypeOK' /\ FlagInv' /\ LoadedInv'
  BY <1>1 DEF M!declVars, M!ownerVars, ManagerInv, M!TypeOK, FlagInv, LoadedInv
<1>3. AliveInv' /\ ThreadsInv' /\ AgeInv'
  BY <1>1 DEF M!declVars, M!ownerVars, ManagerInv, M!TypeOK, FlagInv, AliveInv, ThreadsInv, AgeInv
<1> QED
  BY <1>2, <1>3 DEF ManagerInv

LEMMA ManagerFetchInv ==
    ASSUME ManagerInv, NEW r \in M!Resources, NEW g \in M!Runs, M!Fetch(r, g)
    PROVE  ManagerInv'
<1>1. CASE M!Goto(r, g, "head") /\ UNCHANGED <<fetches, hand>>
  BY <1>1, ManagerMoveInv DEF M!Fetch, M!ThreadPcs
<1>2. CASE /\ fetches[r] < MaxFetches
           /\ fetches' = [fetches EXCEPT ![r] = @ + 1]
           /\ hand' = [hand EXCEPT ![r][g] = fetches[r] + 1]
           /\ M!Goto(r, g, "storing")
  <2>1. fetches[r] \in Nat /\ fetches[r] + 1 \in 1 .. MaxFetches /\ thread[r][g] \notin Dead
    <3>1. fetches[r] \in 0 .. MaxFetches /\ thread[r][g] = "fetching"
      BY DEF M!Fetch, ManagerInv, M!TypeOK
    <3> QED
      BY <1>2, <3>1, ManagerConstants
  <2>2. thread' = [thread EXCEPT ![r][g] = "storing"]
    BY <1>2 DEF M!Goto
  <2>3. M!TypeOK' /\ FlagInv' /\ LoadedInv'
    BY <1>2, <2>1, <2>2 DEF M!Fetch, M!declVars, M!ownerVars, ManagerInv, M!TypeOK, FlagInv, LoadedInv, M!ThreadPcs
  <2>4. AliveInv' /\ ThreadsInv'
    BY <2>1, <2>2 DEF M!Fetch, M!declVars, M!ownerVars, ManagerInv, M!TypeOK, AliveInv, ThreadsInv
  <2>5. AgeInv'
    <3>1. \A q \in M!Resources : fetches[q] <= fetches'[q] /\ value[q] \in Nat /\ value'[q] = value[q]
      <4>1. value \in [M!Resources -> Nat] /\ fetches \in [M!Resources -> Nat]
        BY ManagerNumbers DEF ManagerInv
      <4>2. value' = value
        BY DEF M!Fetch
      <4>3. \A q \in M!Resources : fetches'[q] = IF q = r THEN fetches[q] + 1 ELSE fetches[q]
        BY <1>2, <4>1
      <4> QED
        BY <4>1, <4>2, <4>3
    <3>2. \A q \in M!Resources, h \in M!Runs :
              \/ /\ q = r /\ h = g
                 /\ (hand[q][h])' = fetches[r] + 1 /\ fetches'[q] = fetches[r] + 1
              \/ /\ (hand[q][h])' = hand[q][h]
                 /\ (thread[q][h])' = thread[q][h]
      BY <1>2, <2>1, <2>2 DEF ManagerInv, M!TypeOK
    <3>3. \A q \in M!Resources, h \in M!Runs : hand[q][h] \in Nat /\ fetches[q] \in Nat /\ fetches'[q] \in Nat
      BY <1>2, <2>1, ManagerConstants DEF ManagerInv, M!TypeOK
    <3> QED
      BY <3>1, <3>2, <3>3, <2>1 DEF ManagerInv, AgeInv
  <2> QED
    BY <2>3, <2>4, <2>5 DEF ManagerInv
<1> QED
  BY <1>1, <1>2 DEF M!Fetch

LEMMA ManagerStoreInv ==
    ASSUME ManagerInv, NEW r \in M!Resources, NEW g \in M!Runs, M!Store(r, g)
    PROVE  ManagerInv' /\ value[r] <= value'[r]
<1>1. /\ hand[r][g] \in 0 .. MaxFetches /\ hand[r][g] # 0
      /\ value[r] <= hand[r][g] /\ hand[r][g] <= fetches[r]
  BY DEF M!Store, ManagerInv, AgeInv, M!TypeOK
<1>2. /\ value' = [value EXCEPT ![r] = hand[r][g]]
      /\ thread' = [thread EXCEPT ![r][g] = "head"]
  BY DEF M!Store, M!Goto
<1>3. r \in loaded /\ g = starts /\ thread[r][g] \notin Dead
  BY DEF M!Store, ManagerInv, AliveInv, LoadedInv
<1>4. loaded = {q \in M!Resources : value'[q] # 0}
  BY <1>1, <1>2, <1>3 DEF ManagerInv, M!TypeOK
<1>5. M!TypeOK' /\ FlagInv' /\ LoadedInv'
  BY <1>1, <1>2, <1>4 DEF M!Store, M!declVars, M!ownerVars, ManagerInv, M!TypeOK, FlagInv, LoadedInv, M!ThreadPcs
<1>6. AliveInv' /\ ThreadsInv'
  BY <1>2, <1>3 DEF M!Store, M!declVars, M!ownerVars, ManagerInv, M!TypeOK, AliveInv, ThreadsInv
<1>7. AgeInv'
  BY <1>1, <1>2, <1>3 DEF M!Store, ManagerInv, M!TypeOK, AliveInv, AgeInv
<1>8. value[r] <= value'[r]
  BY <1>1, <1>2 DEF ManagerInv, M!TypeOK
<1> QED
  BY <1>5, <1>6, <1>7, <1>8 DEF ManagerInv

LEMMA ManagerStutterInv == ASSUME ManagerInv, UNCHANGED M!vars PROVE ManagerInv'
BY DEF M!vars, M!declVars, M!ownerVars, ManagerInv, M!TypeOK, FlagInv, AliveInv, ThreadsInv, LoadedInv, AgeInv

LEMMA ManagerNextInv == ManagerInv /\ [M!Next]_M!vars => ManagerInv'
<1> SUFFICES ASSUME ManagerInv, [M!Next]_M!vars PROVE ManagerInv'
  OBVIOUS
<1>1. CASE M!OwnerStep
  BY <1>1, ManagerFetchFirstInv, ManagerSpawnInv, ManagerAllFetchedInv, ManagerAllSpawnedInv,
     ManagerNotifyAllInv, ManagerJoinInv
     DEF M!OwnerStep
<1>2. CASE M!BeginStart \/ M!BeginStop \/ \E r \in M!Resources : M!Register(r)
  BY <1>2, ManagerBeginStartInv, ManagerBeginStopInv, ManagerRegisterInv
<1>3. ASSUME NEW r \in M!Resources, NEW g \in M!Runs, M!RefreshStep(r, g) \/ M!SpuriousWake(r, g)
      PROVE  ManagerInv'
  <2>1. CASE M!Test(r, g) \/ M!Sleep(r, g)
    BY <2>1, ManagerMoveInv DEF M!Test, M!Sleep, M!ThreadPcs
  <2>2. CASE M!TimesOut(r, g) \/ M!Woken(r, g) \/ M!SpuriousWake(r, g)
    BY <2>2, ManagerMoveInv DEF M!TimesOut, M!Woken, M!SpuriousWake, M!ThreadPcs
  <2>3. CASE M!Fetch(r, g) \/ M!Store(r, g)
    BY <2>3, ManagerFetchInv, ManagerStoreInv
  <2> QED
    BY <1>3, <2>1, <2>2, <2>3 DEF M!RefreshStep
<1> QED
  BY <1>1, <1>2, <1>3, ManagerStutterInv DEF M!Next

LEMMA ManagerHolds == Spec => []ManagerInv
<1>1. Init => ManagerInv
  BY ManagerInitInv DEF Init
<1>2. ManagerInv /\ [Next]_vars => ManagerInv'
  BY Steps, ManagerNextInv
<1> QED
  BY <1>1, <1>2, PTL DEF Spec

---------------------------------------------------------------------------
(* The manager is well typed, and no resource is called loaded without a   *)
(* fetched value (resource.cpp).                                           *)
THEOREM ManagerTypes == Spec => []M!TypeOK
<1>1. ManagerInv => M!TypeOK
  BY DEF ManagerInv
<1> QED
  BY <1>1, ManagerHolds, PTL

(* A started manager has every registered resource, whatever fetches fail  *)
(* in start() and in refresh_loop.                                         *)
THEOREM ManagerComplete == Spec => []StartedIsComplete
<1>1. ManagerInv => StartedIsComplete
  BY DEF ManagerInv, FlagInv, LoadedInv, StartedIsComplete, M!StartedIsComplete
<1> QED
  BY <1>1, ManagerHolds, PTL

(* Starting and stopping again and again never leaves two threads at one   *)
(* resource, nor a resource of a running manager without one (start, stop  *)
(* and refresh_loop).                                                      *)
THEOREM ManagerOneRefresher == Spec => []OneRefresher
<1>1. ManagerInv => OneRefresher
  <2> SUFFICES ASSUME ManagerInv, NEW r \in M!Resources
               PROVE  /\ \A g, h \in M!Alive(r) : g = h
                      /\ manager = "up" => (M!Alive(r) # {} <=> r \in registered \cap timed)
                      /\ manager \in M!Idle => M!Alive(r) = {}
    BY DEF OneRefresher, M!OneRefresher
  <2>1. \A g \in M!Alive(r) : g \in M!Runs /\ thread[r][g] \notin Dead
    BY DEF M!Alive
  <2>2. \A g \in M!Alive(r) : g = starts /\ manager \in Started /\ r \in registered \cap timed
    BY <2>1 DEF ManagerInv, AliveInv
  <2>3. manager = "up" /\ r \in registered \cap timed => starts \in M!Alive(r)
    BY DEF ManagerInv, FlagInv, ThreadsInv, M!Alive
  <2> QED
    BY <2>2, <2>3
<1> QED
  BY <1>1, ManagerHolds, PTL

(* No store of a refresh, however late, puts an older value in the place   *)
(* of a newer one: refresh_loop fetches without the lock and stores later. *)
THEOREM ManagerNeverOlder == Spec => NeverOlder
<1>1. ManagerInv /\ [M!Next]_M!vars =>
          [\A r \in M!Resources : value'[r] # 0 => value'[r] >= value[r]]_M!vars
  <2> SUFFICES ASSUME ManagerInv, M!Next, NEW r \in M!Resources, value'[r] # 0
               PROVE  value'[r] >= value[r]
    OBVIOUS
  <2>0. value \in [M!Resources -> Nat] /\ fetches \in [M!Resources -> Nat]
    BY ManagerNumbers DEF ManagerInv
  <2>1. ASSUME NEW q \in M!Resources, M!FetchFirst(q) PROVE value'[r] >= value[r]
    <3>1. value[q] <= fetches[q]
      BY DEF ManagerInv, AgeInv
    <3>2. \/ value' = [value EXCEPT ![q] = fetches[q] + 1]
          \/ value' = value
      BY <2>1 DEF M!FetchFirst
    <3>3. value[r] \in Nat /\ value[q] \in Nat /\ fetches[q] \in Nat
      BY <2>0
    <3>4. value'[r] = value[r] \/ (q = r /\ value'[r] = fetches[q] + 1)
      BY <2>0, <3>2
    <3> QED
      BY <3>1, <3>3, <3>4
  <2>2. ASSUME NEW q \in M!Resources, NEW g \in M!Runs, M!Store(q, g) PROVE value'[r] >= value[r]
    <3>1. value[q] <= value'[q]
      BY <2>2, ManagerStoreInv
    <3> QED
      BY <2>0, <2>2, <3>1 DEF M!Store
  <2>3. CASE M!Join
    BY <2>0, <2>3 DEF M!Join, M!Release
  <2>4. CASE UNCHANGED value
    BY <2>0, <2>4
  <2> QED
    BY <2>1, <2>2, <2>3, <2>4
       DEF M!Next, M!OwnerStep, M!Spawn, M!AllFetched, M!AllSpawned, M!NotifyAll, M!BeginStart, M!BeginStop,
           M!Register, M!RefreshStep, M!Test, M!Sleep, M!TimesOut, M!Woken, M!Fetch, M!SpuriousWake
<1> QED
  <2>1. [Next]_vars => [M!Next]_M!vars
    BY Steps
  <2> QED
    BY <1>1, <2>1, ManagerHolds, PTL DEF Spec, NeverOlder, M!NeverOlder
===============================================================================
