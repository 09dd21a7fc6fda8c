------------------------- MODULE ShardExecutorProofs --------------------------
(***************************************************************************)
(* Theorems about ShardExecutor, for frames, data_parallel and pools of    *)
(* every size.                                                             *)
(***************************************************************************)
EXTENDS ShardExecutor, WellFoundedInduction, TLAPS

---------------------------------------------------------------------------
(* The windows.                                                            *)

LEMMA Quotient ==
    ASSUME NEW a \in Nat, NEW b \in Nat \ {0}
    PROVE  /\ a \div b \in Nat
           /\ a % b \in 0 .. b - 1
           /\ a = b * (a \div b) + (a % b)
  OBVIOUS

LEMMA Times ==
    ASSUME NEW q \in Nat, NEW i \in Nat, NEW m \in Nat, i < m
    PROVE  i * q + q <= m * q /\ i * q \in Nat /\ (i + 1) * q = i * q + q
  <1>1. m * q = (i + 1) * q + (m - i - 1) * q
    OBVIOUS
  <1>2. (m - i - 1) * q \in Nat
    OBVIOUS
  <1> QED  BY <1>1, <1>2

(* The windows of parallel_execute lie in the frame, follow each other     *)
(* without gap or overlap, begin at the first item and end at the last.    *)
THEOREM WindowsCoverFrame ==
    ASSUME total \in Nat, par \in Nat, Sharded
    PROVE  /\ Offset(0) = 0
           /\ \A i \in Shards : /\ Offset(i) \in Nat /\ Size(i) \in Nat \ {0}
                                /\ Offset(i) + Size(i) = Offset(i + 1)
                                /\ Offset(i) + Size(i) <= total
           /\ Offset(n) = total
  <1> DEFINE q == total \div n
             r == total % n
  <1>1. n \in Nat \ {0} /\ n <= total
    BY DEF n, Sharded
  <1>2. q \in Nat /\ r \in 0 .. n - 1 /\ total = n * q + r
    BY <1>1, Quotient
  <1>3. q # 0
    <2>1. q = 0 => total = r
      BY <1>1, <1>2
    <2> QED  BY <2>1, <1>1, <1>2
  <1>4. ASSUME NEW i \in Shards
        PROVE  /\ Offset(i) \in Nat /\ Size(i) \in Nat \ {0}
               /\ Offset(i) + Size(i) = Offset(i + 1)
               /\ Offset(i) + Size(i) <= total
    <2>1. i \in Nat /\ i < n
      BY <1>1 DEF Shards, Sharded
    <2>2. i * q + q <= n * q /\ i * q \in Nat /\ (i + 1) * q = i * q + q
      BY <2>1, <1>1, <1>2, Times
    <2>3. Offset(i) = i * q + Lesser(i, r) /\ Offset(i + 1) = (i + 1) * q + Lesser(i + 1, r)
      BY DEF Offset
    <2>4. Size(i) = q + (IF i < r THEN 1 ELSE 0)
      BY DEF Size
    <2>5. /\ Lesser(i, r) \in Nat /\ Lesser(i + 1, r) <= r
          /\ Lesser(i, r) + (IF i < r THEN 1 ELSE 0) = Lesser(i + 1, r)
      BY <2>1, <1>2 DEF Lesser
    <2> HIDE DEF q, r
    <2>6. Offset(i) + Size(i) = Offset(i + 1) /\ Offset(i) \in Nat
      BY <2>1, <2>2, <2>3, <2>4, <2>5, <1>2
    <2>7. n * q \in Nat
      BY <1>1, <1>2
    <2>8. Offset(i + 1) <= total
      BY <2>1, <2>2, <2>3, <2>5, <2>7, <1>2 DEF Lesser
    <2>9. Size(i) \in Nat \ {0}
      BY <2>4, <1>2, <1>3
    <2> QED  BY <2>6, <2>8, <2>9
  <1>5. Offset(0) = 0
    BY <1>1, <1>2 DEF Offset, Lesser
  <1>6. Offset(n) = total
    BY <1>1, <1>2 DEF Offset, Lesser
  <1> QED  BY <1>4, <1>5, <1>6

---------------------------------------------------------------------------
(* Why an operator fails.  The invariant follows the cause from shard_ctx  *)
(* and first_err to what is thrown.                                        *)

OpTypes == total \in Nat /\ par \in Nat

CauseInv ==
    /\ OpTypes
    /\ shardDone => ctxDone \/ firstErr # "none"
    /\ skipped => shardDone
    /\ firstErr \in {"none", "own", "canceled"}
    /\ firstErr = "canceled" => ctxDone
    /\ firstErr = "own" => Fails(0, total)
    /\ ErrorIsCause

LEMMA FailsWithin ==
    ASSUME OpTypes, NEW i \in Shards, Fails(Offset(i), Size(i))
    PROVE  Fails(0, total)
  <1>1. Sharded
    BY DEF Shards
  <1>2. Offset(i) \in Nat /\ Size(i) \in Nat /\ Offset(i) + Size(i) <= total
    BY <1>1, WindowsCoverFrame DEF OpTypes
  <1>3. Offset(i) .. Offset(i) + Size(i) - 1 \subseteq 0 .. 0 + total - 1
    BY <1>2 DEF OpTypes
  <1> QED  BY <1>3 DEF Fails

LEMMA CauseInit == Init => CauseInv
  BY ShardAssumption DEF Init, CauseInv, OpTypes, ErrorIsCause

LEMMA CauseStep == CauseInv /\ [Next]_vars => CauseInv'
  <1> SUFFICES ASSUME CauseInv, [Next]_vars
               PROVE  CauseInv'
    OBVIOUS
  <1> USE DEF CauseInv, OpTypes, opVars
  <1>0. opVars' = opVars => (Fails(0, total)' <=> Fails(0, total))
    BY DEF Fails
  <1>1. CASE CancelRun
    BY <1>1, <1>0 DEF CancelRun, ErrorIsCause
  <1>2. CASE RunWhole
    BY <1>2, <1>0 DEF RunWhole, ErrorIsCause, Throws, Returns
  <1>3. CASE Submit \/ SubmitThrows
    BY <1>3, <1>0 DEF Submit, SubmitThrows, Throws, ErrorIsCause
  <1>4. CASE Join
    <2>1. result' = [kind |-> "ok", out |-> MergedOut] \/ \E why \in Errors \cup {"none"} :
              /\ result' = [kind |-> "error", why |-> why]
              /\ why = "canceled" => firstErr = "canceled" \/ (firstErr = "none" /\ skipped)
              /\ why = "own" => firstErr = "own"
      BY <1>4 DEF Join, Throws, Returns, Errors
    <2> QED  BY <1>4, <1>0, <2>1 DEF Join, ErrorIsCause
  <1>5. ASSUME NEW i \in Shards, ShardStep(i)
        PROVE  CauseInv'
    <2>1. CASE Take(i)
      BY <2>1, <1>0 DEF Take, ErrorIsCause
    <2>2. CASE Bail(i)
      BY <2>2, <1>0 DEF Bail, ErrorIsCause
    <2>3. CASE Dispatch(i)
      BY <2>3, <1>0 DEF Dispatch, ErrorIsCause
    <2>4. CASE Finish(i)
      BY <2>4, <1>0 DEF Finish, ErrorIsCause
    <2>5. CASE Fail(i)
      <3>1. PICK e \in Thrown(i) : firstErr' = IF firstErr = "none" THEN e ELSE firstErr
        BY <2>5 DEF Fail
      <3>2. e \in {"own", "canceled"} /\ (e = "own" => Fails(0, total)) /\ (e = "canceled" => shardDone)
        BY FailsWithin DEF Thrown
      <3> QED  BY <2>5, <3>1, <3>2, <1>0 DEF Fail, ErrorIsCause
    <2> QED  BY <1>5, <2>1, <2>2, <2>3, <2>4, <2>5 DEF ShardStep
  <1>6. CASE UNCHANGED vars
    BY <1>6, <1>0 DEF vars, ErrorIsCause
  <1> QED  BY <1>1, <1>2, <1>3, <1>4, <1>5, <1>6 DEF Next

(* "context canceled" is reported only if the caller's context is done,    *)
(* and a failure only if some item fails: no shard that stops because      *)
(* another failed hides that failure (first_err in parallel_execute).      *)
THEOREM ErrorIsCauseThm == Spec => []ErrorIsCause
  <1>1. CauseInv => ErrorIsCause
    BY DEF CauseInv
  <1> QED  BY CauseInit, CauseStep, <1>1, PTL DEF Spec

---------------------------------------------------------------------------
(* Every item lies in one window.                                          *)

LEMMA LeastNatural ==
    ASSUME NEW T, T \subseteq Nat, T # {}
    PROVE  \E m \in T : \A k \in T : m <= k
  <1>1. PICK m \in T : \A k \in T : ~(<<k, m>> \in OpToRel(<, Nat))
    BY NatLessThanWellFounded, WFMin
  <1>2. \A k \in T : ~(k < m)
    BY <1>1 DEF OpToRel
  <1> QED  BY <1>2

Window(i) == Offset(i) .. Offset(i) + Size(i) - 1

(* The windows follow each other.                                          *)
LEMMA WindowsInOrder ==
    ASSUME OpTypes, NEW i \in Shards, NEW j \in Shards, i < j
    PROVE  Offset(i) + Size(i) <= Offset(j)
  <1> DEFINE q == total \div n
             r == total % n
  <1>1. Sharded /\ n \in Nat \ {0} /\ i \in Nat /\ j \in Nat
    BY DEF n, Sharded, Shards, OpTypes
  <1>2. q \in Nat /\ r \in 0 .. n - 1
    BY <1>1, Quotient DEF OpTypes
  <1>3. Offset(i) + Size(i) = Offset(i + 1)
    BY <1>1, WindowsCoverFrame DEF OpTypes
  <1>4. (i + 1) * q <= j * q /\ (i + 1) * q \in Nat /\ j * q \in Nat
    <2>1. CASE i + 1 = j
      <3>1. j * q \in Nat
        BY <1>1, <1>2
      <3> QED  BY <2>1, <3>1
    <2>2. CASE i + 1 < j
      <3>1. (i + 1) * q + q <= j * q /\ (i + 1) * q \in Nat
        BY <2>2, <1>1, <1>2, Times
      <3>2. j * q \in Nat
        BY <1>1, <1>2
      <3> QED  BY <3>1, <3>2, <1>2
    <2> QED  BY <2>1, <2>2, <1>1
  <1>5. Lesser(i + 1, r) <= Lesser(j, r) /\ Lesser(i + 1, r) \in Nat /\ Lesser(j, r) \in Nat
    BY <1>1, <1>2 DEF Lesser
  <1>6. Offset(i + 1) = (i + 1) * q + Lesser(i + 1, r) /\ Offset(j) = j * q + Lesser(j, r)
    BY DEF Offset
  <1> HIDE DEF q, r
  <1> QED  BY <1>3, <1>4, <1>5, <1>6

LEMMA OneWindow ==
    ASSUME OpTypes, Sharded
    PROVE  /\ \A i \in Shards : Window(i) \subseteq 0 .. total - 1
           /\ \A i, j \in Shards, k \in Int : k \in Window(i) /\ k \in Window(j) => i = j
           /\ \A k \in 0 .. total - 1 : \E i \in Shards : k \in Window(i)
  <1>1. n \in Nat \ {0}
    BY DEF n, Sharded, OpTypes
  <1>2. \A i \in Shards : /\ i \in Nat /\ Offset(i) \in Nat /\ Size(i) \in Nat \ {0}
                          /\ Offset(i) + Size(i) = Offset(i + 1)
                          /\ Offset(i) + Size(i) <= total
    BY <1>1, WindowsCoverFrame DEF OpTypes, Shards
  <1>3. \A i \in Shards : Window(i) \subseteq 0 .. total - 1
    BY <1>2 DEF Window, OpTypes
  <1>4. ASSUME NEW i \in Shards, NEW j \in Shards, NEW k \in Int, k \in Window(i), k \in Window(j)
        PROVE  i = j
    <2>1. ~(i < j)
      <3>1. i < j => Offset(i) + Size(i) <= Offset(j)
        BY WindowsInOrder
      <3> QED  BY <3>1, <1>2, <1>4 DEF Window
    <2>2. ~(j < i)
      <3>1. j < i => Offset(j) + Size(j) <= Offset(i)
        BY WindowsInOrder
      <3> QED  BY <3>1, <1>2, <1>4 DEF Window
    <2> QED  BY <2>1, <2>2, <1>2
  <1>5. ASSUME NEW k \in 0 .. total - 1
        PROVE  \E i \in Shards : k \in Window(i)
    <2> DEFINE T == {i \in 1 .. n : k < Offset(i)}
    <2>1. n \in T
      BY <1>1, WindowsCoverFrame DEF OpTypes
    <2>2. T \subseteq Nat /\ T # {}
      BY <1>1, <2>1
    <2> HIDE DEF T
    <2>3. PICK m \in T : \A i \in T : m <= i
      BY <2>2, LeastNatural
    <2> USE DEF T
    <2>4. m \in 1 .. n /\ k < Offset(m) /\ m - 1 \in Shards /\ m - 1 \notin T
      <3>1. m \in 1 .. n /\ k < Offset(m)
        BY <2>3
      <3>2. m - 1 \in Shards
        BY <3>1, <1>1 DEF Shards
      <3>3. m - 1 \notin T
        <4> HIDE DEF T
        <4> QED  BY <3>1, <2>3, <1>1
      <3> QED  BY <3>1, <3>2, <3>3
    <2>5. Offset(m - 1) <= k
      <3>1. CASE m = 1
        <4>1. Offset(0) = 0
          BY WindowsCoverFrame DEF OpTypes
        <4> QED  BY <3>1, <4>1
      <3>2. CASE m # 1
        <4>1. m - 1 \in 1 .. n
          BY <3>2, <2>4, <1>1
        <4> QED  BY <4>1, <2>4, <1>2
      <3> QED  BY <3>1, <3>2
    <2>6. Offset(m - 1) + Size(m - 1) = Offset(m)
      <3>1. m - 1 + 1 = m
        BY <2>4, <1>1
      <3> QED  BY <3>1, <2>4, <1>2
    <2>7. k \in Window(m - 1)
      BY <2>4, <2>5, <2>6, <1>2 DEF Window
    <2> QED  BY <2>4, <2>7
  <1> QED  BY <1>3, <1>4, <1>5

---------------------------------------------------------------------------
(* The merge.                                                              *)

Written(k) == column \/ acts[k] = "item"
Text(k)    == <<IF column THEN "column" ELSE "item", k>>
Warns(lo, size) == {k \in lo .. lo + size - 1 : acts[k] = "warn"}
LeastOf(T, m) == m \in T /\ \A k \in T : m <= k

(* What an operator says of the items of one window, in their numbers in   *)
(* the frame.                                                              *)
LEMMA OutOfWindow ==
    ASSUME column \in BOOLEAN, NEW lo \in Nat, NEW size \in Nat
    PROVE  LET out == OpOut(lo, size) IN
           /\ out.writes = [j \in {j \in 0 .. size - 1 : Written(lo + j)} |-> Text(lo + j)]
           /\ out.removed = {j \in 0 .. size - 1 : acts[lo + j] = "remove"}
           /\ out.added <=> \E j \in 0 .. size - 1 : acts[lo + j] = "add"
           /\ out.added \in BOOLEAN
           /\ Warns(lo, size) = {} => out.warning = -1
           /\ Warns(lo, size) # {} => LeastOf(Warns(lo, size), out.warning)
           /\ out = [writes |-> out.writes, removed |-> out.removed, added |-> out.added,
                     warning |-> out.warning]
  <1> DEFINE out == OpOut(lo, size)
             warns == {j \in 0 .. size - 1 : acts[lo + j] = "warn"}
  <1>1. out.writes = [j \in {j \in 0 .. size - 1 : Written(lo + j)} |-> Text(lo + j)]
    <2>1. {j \in 0 .. size - 1 : Written(lo + j)} =
              IF column THEN 0 .. size - 1 ELSE {j \in 0 .. size - 1 : acts[lo + j] = "item"}
      BY DEF Written
    <2> QED  BY <2>1 DEF OpOut, Text
  <1>2. out.removed = {j \in 0 .. size - 1 : acts[lo + j] = "remove"}
    BY DEF OpOut
  <1>3. /\ out.added <=> \E j \in 0 .. size - 1 : acts[lo + j] = "add"
        /\ out.added \in BOOLEAN
    BY DEF OpOut
  <1>4. out.warning = IF warns = {} THEN -1
                      ELSE lo + CHOOSE i \in warns : \A j \in warns : i <= j
    BY DEF OpOut
  <1>5. \A k \in Warns(lo, size) : k - lo \in warns
    BY DEF Warns
  <1>6. \A j \in warns : lo + j \in Warns(lo, size)
    BY DEF Warns
  <1>7. Warns(lo, size) = {} => out.warning = -1
    BY <1>4, <1>6
  <1>8. ASSUME Warns(lo, size) # {}
        PROVE  LeastOf(Warns(lo, size), out.warning)
    <2>1. warns # {} /\ warns \subseteq Nat
      BY <1>5, <1>8
    <2>2. \A k \in Warns(lo, size) : k \in Nat
      BY DEF Warns
    <2> HIDE DEF warns, out
    <2>3. \E m \in warns : \A j \in warns : m <= j
      BY <2>1, LeastNatural
    <2> DEFINE m == CHOOSE i \in warns : \A j \in warns : i <= j
    <2>4. m \in warns /\ \A j \in warns : m <= j
      BY <2>3
    <2>5. out.warning = lo + m
      BY <1>4, <2>1
    <2> HIDE DEF m
    <2>6. m \in Nat
      BY <2>1, <2>4
    <2>7. ASSUME NEW k \in Warns(lo, size)
          PROVE  lo + m <= k
      <3>1. m <= k - lo
        BY <1>5, <2>4
      <3> QED  BY <3>1, <2>2, <2>6
    <2> QED  BY <1>6, <2>4, <2>5, <2>7 DEF LeastOf
  <1>9. out = [writes |-> out.writes, removed |-> out.removed, added |-> out.added,
               warning |-> out.warning]
    BY DEF OpOut
  <1> QED  BY <1>1, <1>2, <1>3, <1>7, <1>8, <1>9

ShardsSaid == \A i \in Shards : outs[i] = OpOut(Offset(i), Size(i))

(* merge_shard_output puts a shard's writes and removals at their place.   *)
LEMMA MergedWindow ==
    ASSUME OpTypes, column \in BOOLEAN, Sharded, ShardsSaid, NEW i \in Shards
    PROVE  /\ Merged(i).writes = [k \in {k \in Window(i) : Written(k)} |-> Text(k)]
           /\ Merged(i).removed = {k \in Window(i) : acts[k] = "remove"}
  <1> DEFINE o == Offset(i)
             out == OpOut(o, Size(i))
  <1>1. o \in Nat /\ Size(i) \in Nat
    BY WindowsCoverFrame DEF OpTypes
  <1>2. /\ out.writes = [j \in {j \in 0 .. Size(i) - 1 : Written(o + j)} |-> Text(o + j)]
        /\ out.removed = {j \in 0 .. Size(i) - 1 : acts[o + j] = "remove"}
    BY <1>1, OutOfWindow
  <1>3. outs[i] = out
    BY DEF ShardsSaid
  <1> HIDE DEF o, out
  <1>4. \A k \in Window(i) : k \in Int /\ k - o \in 0 .. Size(i) - 1 /\ o + (k - o) = k
    BY <1>1 DEF Window, o
  <1>5. \A j \in 0 .. Size(i) - 1 : o + j \in Window(i)
    BY <1>1 DEF Window, o
  <1>6. {o + j : j \in DOMAIN out.writes} = {k \in Window(i) : Written(k)}
    BY <1>2, <1>4, <1>5
  <1>7. {o + j : j \in out.removed} = {k \in Window(i) : acts[k] = "remove"}
    BY <1>2, <1>4, <1>5
  <1>8. \A k \in {k \in Window(i) : Written(k)} : out.writes[k - o] = Text(k)
    BY <1>2, <1>4
  <1>9. /\ Merged(i).writes = [k \in {o + j : j \in DOMAIN out.writes} |-> out.writes[k - o]]
        /\ Merged(i).removed = {o + j : j \in out.removed}
    BY <1>3 DEF Merged, o
  <1> QED  BY <1>6, <1>7, <1>8, <1>9

(* The merged outputs are what one run on the whole frame would have said. *)
LEMMA MergeIsWhole ==
    ASSUME OpTypes, column \in BOOLEAN, Sharded, ShardsSaid, \A i \in Shards : ~outs[i].added
    PROVE  MergedOut = OpOut(0, total)
  <1> DEFINE whole == OpOut(0, total)
             writes == [i \in Shards |-> Merged(i).writes]
             touched == UNION {DOMAIN writes[i] : i \in Shards}
             warnings == {i \in Shards : outs[i].warning # -1}
  <1>1. /\ whole.writes = [j \in {j \in 0 .. total - 1 : Written(0 + j)} |-> Text(0 + j)]
        /\ whole.removed = {j \in 0 .. total - 1 : acts[0 + j] = "remove"}
        /\ whole.added <=> \E j \in 0 .. total - 1 : acts[0 + j] = "add"
        /\ whole.added \in BOOLEAN
        /\ Warns(0, total) = {} => whole.warning = -1
        /\ Warns(0, total) # {} => LeastOf(Warns(0, total), whole.warning)
        /\ whole = [writes |-> whole.writes, removed |-> whole.removed, added |-> whole.added,
                    warning |-> whole.warning]
    BY OutOfWindow DEF OpTypes
  <1>2. \A j \in 0 .. total - 1 : 0 + j = j
    BY DEF OpTypes
  <1>3. /\ \A i \in Shards : Window(i) \subseteq 0 .. total - 1
        /\ \A i, j \in Shards, k \in Int : k \in Window(i) /\ k \in Window(j) => i = j
        /\ \A k \in 0 .. total - 1 : \E i \in Shards : k \in Window(i)
    BY OneWindow
  <1>4. \A i \in Shards : /\ writes[i] = [k \in {k \in Window(i) : Written(k)} |-> Text(k)]
                          /\ Merged(i).removed = {k \in Window(i) : acts[k] = "remove"}
    BY MergedWindow
  <1>4a. \A i \in Shards : \A k : k \in DOMAIN writes[i] <=> k \in Window(i) /\ Written(k)
    <2> HIDE DEF writes
    <2> QED  BY <1>4
  <1>5. \A k \in 0 .. total - 1 : k \in Int
    BY DEF OpTypes
  <1> HIDE DEF whole, writes
  <1>6. MergedOut.writes = whole.writes
    <2>1. touched = {k \in 0 .. total - 1 : Written(k)}
      <3>1. \A k \in touched : k \in 0 .. total - 1 /\ Written(k)
        BY <1>3, <1>4a
      <3>2. \A k \in 0 .. total - 1 : Written(k) => k \in touched
        BY <1>3, <1>4a
      <3> HIDE DEF touched
      <3> QED  BY <3>1, <3>2
    <2>2. ASSUME NEW k \in touched, NEW i \in Shards, k \in DOMAIN writes[i]
          PROVE  writes[i][k] = Text(k)
      BY <1>4, <2>2
    <2>3. ASSUME NEW k \in touched
          PROVE  LET wrote == {i \in Shards : k \in DOMAIN writes[i]}
                 IN  writes[CHOOSE i \in wrote : \A j \in wrote : j <= i][k] = Text(k)
      <3> DEFINE wrote == {i \in Shards : k \in DOMAIN writes[i]}
      <3>1. PICK i \in Shards : k \in DOMAIN writes[i]
        OBVIOUS
      <3>2. k \in Int /\ \A j \in wrote : k \in Window(j)
        <4>1. k \in 0 .. total - 1
          BY <2>1
        <4> HIDE DEF touched
        <4> QED  BY <1>4a, <1>5, <4>1
      <3>3. \A j \in wrote : j = i
        BY <1>3, <3>1, <3>2
      <3>4. i <= i
        BY DEF Shards, n, OpTypes
      <3>5. \A j \in wrote : j <= i
        BY <3>3, <3>4
      <3>6. i \in wrote
        BY <3>1
      <3> HIDE DEF wrote, touched
      <3>7. (CHOOSE m \in wrote : \A j \in wrote : j <= m) \in wrote
        BY <3>5, <3>6
      <3>8. (CHOOSE m \in wrote : \A j \in wrote : j <= m) = i
        BY <3>3, <3>7
      <3> QED  BY <2>2, <3>1, <3>8 DEF wrote
    <2>4. MergedOut.writes = [k \in touched |->
                                 LET wrote == {i \in Shards : k \in DOMAIN writes[i]}
                                 IN  writes[CHOOSE i \in wrote : \A j \in wrote : j <= i][k]]
      BY DEF MergedOut, writes
    <2>5. whole.writes = [k \in {j \in 0 .. total - 1 : Written(j)} |-> Text(k)]
      BY <1>1, <1>2
    <2>6. \A k \in touched :
             (LET wrote == {i \in Shards : k \in DOMAIN writes[i]}
              IN  writes[CHOOSE i \in wrote : \A j \in wrote : j <= i][k]) = Text(k)
      BY <2>3
    <2> HIDE DEF touched
    <2>7. MergedOut.writes = [k \in touched |-> Text(k)]
      BY <2>4, <2>6
    <2> QED  BY <2>1, <2>5, <2>7
  <1>7. MergedOut.removed = whole.removed
    <2>1. MergedOut.removed = UNION {Merged(i).removed : i \in Shards}
      BY DEF MergedOut
    <2>2. whole.removed = {k \in 0 .. total - 1 : acts[k] = "remove"}
      BY <1>1, <1>2
    <2> DEFINE removed == [i \in Shards |-> Merged(i).removed]
    <2>3. \A i \in Shards : \A k : k \in removed[i] <=> k \in Window(i) /\ acts[k] = "remove"
      BY <1>4
    <2>4. MergedOut.removed = UNION {removed[i] : i \in Shards}
      BY <2>1
    <2> HIDE DEF removed
    <2>5. \A k \in MergedOut.removed : k \in 0 .. total - 1 /\ acts[k] = "remove"
      BY <2>3, <2>4, <1>3
    <2>6. \A k \in 0 .. total - 1 : acts[k] = "remove" => k \in MergedOut.removed
      BY <2>3, <2>4, <1>3
    <2> QED  BY <2>2, <2>5, <2>6
  <1>8. MergedOut.added = whole.added
    <2>1. ASSUME NEW k \in 0 .. total - 1, acts[k] = "add"
          PROVE  FALSE
      <3>1. PICK i \in Shards : k \in Window(i)
        BY <1>3
      <3>2. Offset(i) \in Nat /\ Size(i) \in Nat
        BY WindowsCoverFrame DEF OpTypes
      <3>3. k - Offset(i) \in 0 .. Size(i) - 1 /\ Offset(i) + (k - Offset(i)) = k
        BY <1>5, <3>1, <3>2 DEF Window
      <3>4. \E j \in 0 .. Size(i) - 1 : acts[Offset(i) + j] = "add"
        BY <2>1, <3>3
      <3>5. OpOut(Offset(i), Size(i)).added
        BY <3>2, <3>4, OutOfWindow
      <3> QED  BY <3>5 DEF ShardsSaid
    <2>2. whole.added = FALSE
      BY <1>1, <1>2, <2>1
    <2> QED  BY <2>2 DEF MergedOut
  <1>9. MergedOut.warning = whole.warning
    <2>1. ASSUME NEW i \in Shards
          PROVE  LET warned == {k \in Window(i) : acts[k] = "warn"} IN
                 /\ warned = {} => outs[i].warning = -1
                 /\ warned # {} => LeastOf(warned, outs[i].warning) /\ outs[i].warning # -1
      <3>1. Offset(i) \in Nat /\ Size(i) \in Nat
        BY WindowsCoverFrame DEF OpTypes
      <3>2. Warns(Offset(i), Size(i)) = {k \in Window(i) : acts[k] = "warn"}
        BY DEF Warns, Window
      <3>3. \A k \in Window(i) : k # -1
        BY <3>1 DEF Window
      <3>4. outs[i] = OpOut(Offset(i), Size(i))
        BY DEF ShardsSaid
      <3>5. /\ Warns(Offset(i), Size(i)) = {} => outs[i].warning = -1
            /\ Warns(Offset(i), Size(i)) # {} => LeastOf(Warns(Offset(i), Size(i)), outs[i].warning)
        <4> DEFINE out == OpOut(Offset(i), Size(i))
        <4>1. /\ Warns(Offset(i), Size(i)) = {} => out.warning = -1
              /\ Warns(Offset(i), Size(i)) # {} => LeastOf(Warns(Offset(i), Size(i)), out.warning)
          BY <3>1, OutOfWindow DEF OpTypes
        <4> HIDE DEF out
        <4> QED  BY <3>4, <4>1 DEF out
      <3> QED  BY <3>2, <3>3, <3>5 DEF LeastOf
    <2>2. Warns(0, total) = {k \in 0 .. total - 1 : acts[k] = "warn"}
      BY DEF Warns, OpTypes
    <2>3. MergedOut.warning = IF warnings = {} THEN -1
                              ELSE outs[CHOOSE i \in warnings : \A j \in warnings : i <= j].warning
      BY DEF MergedOut
    <2>4. CASE warnings = {}
      <3>1. Warns(0, total) = {}
        BY <1>3, <2>1, <2>2, <2>4
      <3> QED  BY <1>1, <2>3, <2>4, <3>1
    <2>5. CASE warnings # {}
      <3>1. warnings \subseteq Nat
        BY DEF Shards, n, OpTypes
      <3> DEFINE m == CHOOSE i \in warnings : \A j \in warnings : i <= j
      <3>2. m \in warnings /\ \A j \in warnings : m <= j
        <4> HIDE DEF warnings
        <4>1. \E i \in warnings : \A j \in warnings : i <= j
          BY <2>5, <3>1, LeastNatural
        <4> QED  BY <4>1
      <3> HIDE DEF m
      <3>3. m \in Shards /\ LeastOf({k \in Window(m) : acts[k] = "warn"}, outs[m].warning)
        BY <2>1, <3>2
      <3> DEFINE w == outs[m].warning
      <3>4. w \in Warns(0, total) /\ w \in Window(m)
        BY <1>3, <2>2, <3>3 DEF LeastOf
      <3>5. ASSUME NEW k \in Warns(0, total)
            PROVE  w <= k
        <4>1. PICK i \in Shards : k \in Window(i)
          BY <1>3, <2>2
        <4>2. i \in warnings
          BY <2>1, <2>2, <4>1
        <4>3. CASE i = m
          BY <3>3, <4>1, <4>3, <2>2 DEF LeastOf
        <4>4. CASE i # m
          <5>1. m < i
            BY <4>2, <4>4, <3>1, <3>2
          <5>2. Offset(m) + Size(m) <= Offset(i)
            BY <5>1, <3>3, WindowsInOrder
          <5>3. /\ Offset(m) \in Nat /\ Size(m) \in Nat
                /\ Offset(i) \in Nat /\ Size(i) \in Nat
            BY <3>3, WindowsCoverFrame DEF OpTypes
          <5> HIDE DEF w
          <5> QED  BY <3>4, <4>1, <5>2, <5>3 DEF Window
        <4> QED  BY <4>3, <4>4
      <3>6. LeastOf(Warns(0, total), whole.warning)
        BY <1>1, <3>4
      <3>7. w \in Int /\ whole.warning \in Int /\ w <= whole.warning /\ whole.warning <= w
        BY <3>4, <3>5, <3>6, <2>2, <1>5 DEF LeastOf
      <3>8. w = whole.warning
        <4> HIDE DEF w
        <4> QED  BY <3>7
      <3> QED  BY <2>3, <2>5, <3>8 DEF m
    <2> QED  BY <2>4, <2>5
  <1>10. MergedOut = [writes |-> MergedOut.writes, removed |-> MergedOut.removed,
                      added |-> MergedOut.added, warning |-> MergedOut.warning]
    BY DEF MergedOut
  <1> QED
    <2> HIDE DEF touched, warnings
    <2>1. OpOut(0, total) = whole
      BY DEF whole
    <2> QED  BY <1>1, <1>6, <1>7, <1>8, <1>9, <1>10, <2>1

---------------------------------------------------------------------------
(* What the shards have left when parallel_execute joins them: an output   *)
(* for every window, or a trace of what went wrong.                        *)

SaidInv ==
    \A i \in Shards :
        /\ phase[i] = "done" => /\ ~Fails(Offset(i), Size(i))
                                /\ outs[i] = OpOut(Offset(i), Size(i))
        /\ phase[i] = "failed" => firstErr # "none"
        /\ phase[i] = "skipped" => skipped

TransparentInv == TypeOK /\ SaidInv /\ Transparent

LEMMA TypesOfOps == TypeOK => OpTypes /\ column \in BOOLEAN
  BY ShardAssumption DEF TypeOK, OpTypes

LEMMA OpsSame ==
    ASSUME opVars' = opVars
    PROVE  /\ Shards' = Shards /\ total' = total /\ n' = n /\ Sharded' = Sharded
           /\ \A i : Offset(i)' = Offset(i) /\ Size(i)' = Size(i)
           /\ \A lo, size : OpOut(lo, size)' = OpOut(lo, size) /\ Fails(lo, size)' = Fails(lo, size)
  BY DEF opVars, Shards, n, Sharded, Offset, Size, Lesser, OpOut, Fails

(* An output of a run on the whole frame speaks of its items only.         *)
LEMMA WholeInFrame ==
    ASSUME TypeOK
    PROVE  LET out == OpOut(0, total) IN DOMAIN out.writes \cup out.removed \subseteq 0 .. total - 1
  <1>1. total \in Nat /\ column \in BOOLEAN
    BY TypesOfOps DEF OpTypes
  <1> DEFINE out == OpOut(0, total)
  <1>2. /\ out.writes = [j \in {j \in 0 .. total - 1 : Written(0 + j)} |-> Text(0 + j)]
        /\ out.removed = {j \in 0 .. total - 1 : acts[0 + j] = "remove"}
        /\ out.added <=> \E j \in 0 .. total - 1 : acts[0 + j] = "add"
        /\ out.added \in BOOLEAN
        /\ Warns(0, total) = {} => out.warning = -1
        /\ Warns(0, total) # {} => LeastOf(Warns(0, total), out.warning)
        /\ out = [writes |-> out.writes, removed |-> out.removed, added |-> out.added,
                  warning |-> out.warning]
    BY <1>1, OutOfWindow
  <1> HIDE DEF out
  <1>3. DOMAIN out.writes = {j \in 0 .. total - 1 : Written(0 + j)}
    BY <1>2
  <1>4. DOMAIN out.writes \cup out.removed \subseteq 0 .. total - 1
    BY <1>2, <1>3
  <1> QED  BY <1>4 DEF out

(* No item fails if no window has one that does.                           *)
LEMMA NoneFails ==
    ASSUME OpTypes, Sharded, \A i \in Shards : ~Fails(Offset(i), Size(i))
    PROVE  ~Fails(0, total)
  <1> SUFFICES ASSUME NEW k \in 0 .. total - 1, acts[k] = "fail"
               PROVE  FALSE
    BY DEF Fails, OpTypes
  <1>1. PICK i \in Shards : k \in Window(i)
    BY OneWindow
  <1> QED  BY <1>1 DEF Fails, Window

LEMMA TransparentInit == Init => TransparentInv
  <1> SUFFICES ASSUME Init
               PROVE  TransparentInv
    OBVIOUS
  <1>1. submitted \in 0 .. Lesser(total, MaxParallel)
    BY ShardAssumption DEF Init, Lesser
  <1> QED  BY <1>1 DEF Init, TransparentInv, TypeOK, SaidInv, Transparent, Phases, Errors

(* Every step but the ones that produce the result leaves it alone.        *)
LEMMA ResultStays ==
    ASSUME TypeOK, Transparent, opVars' = opVars, result' = result
    PROVE  Transparent' /\ (result'.kind = "ok" =>
               DOMAIN result'.out.writes \cup result'.out.removed \subseteq 0 .. total' - 1)
  <1>1. total' = total
    BY OpsSame
  <1> QED  BY <1>1, OpsSame DEF TypeOK, Transparent

LEMMA ShardKeeps ==
    ASSUME TransparentInv, NEW i \in Shards, ShardStep(i)
    PROVE  TransparentInv'
  <1>1. /\ opVars' = opVars /\ result' = result
        /\ UNCHANGED <<total, par, acts, column, ctxDone, submitted>>
    BY DEF ShardStep, Take, Bail, Dispatch, Finish, Fail, opVars
  <1>2. /\ Shards' = Shards
        /\ \A j : Offset(j)' = Offset(j) /\ Size(j)' = Size(j)
        /\ \A lo, size : OpOut(lo, size)' = OpOut(lo, size) /\ Fails(lo, size)' = Fails(lo, size)
    BY <1>1, OpsSame
  <1>3. /\ Transparent'
        /\ result'.kind = "ok" =>
               DOMAIN result'.out.writes \cup result'.out.removed \subseteq 0 .. total' - 1
    BY <1>1, ResultStays DEF TransparentInv
  <1>4. /\ shardDone' \in BOOLEAN /\ skipped' \in BOOLEAN /\ firstErr' \in Errors \cup {"none"}
        /\ phase' \in [Shards -> Phases] /\ DOMAIN outs' = Shards
        /\ firstErr # "none" => firstErr' # "none"
        /\ skipped => skipped'
    BY DEF TransparentInv, TypeOK, ShardStep, Take, Bail, Dispatch, Finish, Fail, Thrown, Errors, Phases
  <1>5. TypeOK'
    BY <1>1, <1>2, <1>3, <1>4 DEF TransparentInv, TypeOK
  <1>6. SaidInv'
    <2>1. ASSUME NEW j \in Shards, j # i
          PROVE  phase'[j] = phase[j] /\ outs'[j] = outs[j]
      BY <2>1 DEF TransparentInv, TypeOK, ShardStep, Take, Bail, Dispatch, Finish, Fail
    <2>2. \/ phase'[i] \in {"taken", "running"}
          \/ phase'[i] = "skipped" /\ skipped'
          \/ phase'[i] = "failed" /\ firstErr' # "none"
          \/ /\ phase'[i] = "done" /\ ~Fails(Offset(i), Size(i))
             /\ outs'[i] = OpOut(Offset(i), Size(i))
      <3>1. CASE Take(i) \/ Bail(i) \/ Dispatch(i)
        BY <3>1 DEF TransparentInv, TypeOK, Take, Bail, Dispatch
      <3>2. CASE Finish(i)
        BY <3>2 DEF TransparentInv, TypeOK, Finish
      <3>3. CASE Fail(i)
        BY <3>3 DEF TransparentInv, TypeOK, Fail, Thrown
      <3> QED  BY <3>1, <3>2, <3>3 DEF ShardStep
    <2> QED  BY <1>2, <1>4, <2>1, <2>2 DEF TransparentInv, SaidInv
  <1> QED  BY <1>3, <1>5, <1>6 DEF TransparentInv

(* The caller's steps that leave the result alone.                         *)
LEMMA CallerKeeps ==
    ASSUME TransparentInv, CancelRun \/ Submit \/ UNCHANGED vars
    PROVE  TransparentInv'
  <1>1. /\ opVars' = opVars /\ result' = result
        /\ UNCHANGED <<total, par, acts, column, phase, outs, firstErr, skipped>>
    BY DEF CancelRun, Submit, opVars, vars
  <1>2. /\ Shards' = Shards
        /\ \A j : Offset(j)' = Offset(j) /\ Size(j)' = Size(j)
        /\ \A lo, size : OpOut(lo, size)' = OpOut(lo, size) /\ Fails(lo, size)' = Fails(lo, size)
    BY <1>1, OpsSame
  <1>3. /\ Transparent'
        /\ result'.kind = "ok" =>
               DOMAIN result'.out.writes \cup result'.out.removed \subseteq 0 .. total' - 1
    BY <1>1, ResultStays DEF TransparentInv
  <1>4. ctxDone' \in BOOLEAN /\ shardDone' \in BOOLEAN
    BY DEF TransparentInv, TypeOK, CancelRun, Submit, vars
  <1>5. submitted' \in 0 .. Lesser(total, MaxParallel)
    <2>1. CASE Submit
      <3>1. total \in Nat /\ par \in Nat /\ submitted \in Nat /\ par <= MaxParallel
        BY ShardAssumption DEF TransparentInv, TypeOK, Lesser
      <3> QED  BY <2>1, <3>1, ShardAssumption DEF Submit, n, Lesser
    <2>2. CASE CancelRun \/ UNCHANGED vars
      BY <2>2 DEF CancelRun, vars, TransparentInv, TypeOK
    <2> QED  BY <2>1, <2>2
  <1>6. TypeOK'
    BY <1>1, <1>2, <1>3, <1>4, <1>5 DEF TransparentInv, TypeOK, Lesser
  <1>7. SaidInv'
    BY <1>1, <1>2 DEF TransparentInv, SaidInv
  <1> QED  BY <1>3, <1>6, <1>7 DEF TransparentInv

(* The result is an error, or what one run on the whole frame says.        *)
LEMMA ResultKeeps ==
    ASSUME TransparentInv, RunWhole \/ SubmitThrows \/ Join
    PROVE  TransparentInv'
  <1>1. /\ opVars' = opVars
        /\ UNCHANGED <<total, par, acts, column, ctxDone, shardDone, submitted, phase, outs,
                       firstErr, skipped>>
    BY DEF RunWhole, SubmitThrows, Join, opVars
  <1>2. /\ Shards' = Shards
        /\ \A j : Offset(j)' = Offset(j) /\ Size(j)' = Size(j)
        /\ \A lo, size : OpOut(lo, size)' = OpOut(lo, size) /\ Fails(lo, size)' = Fails(lo, size)
    BY <1>1, OpsSame
  <1>3. \/ result'.kind = "error"
        \/ result'.kind = "ok" /\ ~Fails(0, total) /\ result'.out = OpOut(0, total)
    <2>1. CASE RunWhole
      BY <2>1 DEF RunWhole, Throws, Returns
    <2>3. CASE SubmitThrows
      BY <2>3 DEF SubmitThrows, Throws
    <2>2. CASE Join
      <3>1. CASE firstErr # "none" \/ skipped \/ \E i \in Shards : outs[i].added
        BY <2>2, <3>1 DEF Join, Throws
      <3>2. CASE firstErr = "none" /\ ~skipped /\ \A i \in Shards : ~outs[i].added
        <4>1. Sharded /\ OpTypes /\ column \in BOOLEAN
          BY <2>2, TypesOfOps DEF Join, TransparentInv
        <4>2. \A i \in Shards : phase[i] = "done"
          BY <2>2, <3>2 DEF Join, TransparentInv, SaidInv
        <4>3. ShardsSaid /\ ~Fails(0, total)
          BY <4>1, <4>2, NoneFails DEF ShardsSaid, TransparentInv, SaidInv
        <4>4. MergedOut = OpOut(0, total)
          BY <3>2, <4>1, <4>3, MergeIsWhole
        <4>5. result' = [kind |-> "ok", out |-> MergedOut]
          BY <2>2, <3>2 DEF Join, Returns
        <4> QED  BY <4>3, <4>4, <4>5
      <3> QED  BY <3>1, <3>2
    <2> QED  BY <2>1, <2>2, <2>3
  <1>4. Transparent'
    BY <1>1, <1>2, <1>3 DEF Transparent
  <1>5. TypeOK'
    BY <1>1, <1>2, <1>3, WholeInFrame DEF TransparentInv, TypeOK, Lesser
  <1>6. SaidInv'
    BY <1>1, <1>2 DEF TransparentInv, SaidInv
  <1> QED  BY <1>4, <1>5, <1>6 DEF TransparentInv

LEMMA TransparentStep == TransparentInv /\ [Next]_vars => TransparentInv'
  BY ShardKeeps, CallerKeeps, ResultKeeps DEF Next

LEMMA TransparentAlways == Spec => []TransparentInv
  BY TransparentInit, TransparentStep, PTL DEF Spec

(* The variables have their types, and no result names an item that the    *)
(* frame does not have.                                                    *)
THEOREM ShardTypes == Spec => []TypeOK
  <1>1. TransparentInv => TypeOK
    BY DEF TransparentInv
  <1> QED  BY <1>1, TransparentAlways, PTL

(* Sharding cannot be seen: however many items there are and into however  *)
(* many windows they are cut, whichever threads run them in which order, a *)
(* result is that of one run on the whole frame (parallel_execute).        *)
THEOREM ShardTransparent == Spec => []Transparent
  <1>1. TransparentInv => Transparent
    BY DEF TransparentInv
  <1> QED  BY <1>1, TransparentAlways, PTL
===============================================================================
