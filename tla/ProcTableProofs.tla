-------------------------- MODULE ProcTableProofs --------------------------
(***************************************************************************)
(* The table of host functions, for any realms, procs and size.            *)
(***************************************************************************)
EXTENDS ProcTable, FiniteSetTheorems, TLAPS

IInv == TableTypeOK /\ FreeListIsExact

USE DEF InUse

-----------------------------------------------------------------------------
(* The table starts empty, and teardown empties it again. *)
LEMMA InitInductive == TableInit => IInv
<1> SUFFICES ASSUME TableInit PROVE IInv
  OBVIOUS
<1>1. slots = <<>> /\ free = <<>> /\ DOMAIN slots = {} /\ DOMAIN free = {} /\ Len(slots) = 0
  BY DEF TableInit
<1> QED
  BY <1>1, ProcTableAssumption DEF IInv, TableTypeOK, FreeListIsExact

LEMMA ClearInductive == Clear => IInv'
<1> SUFFICES ASSUME Clear PROVE IInv'
  OBVIOUS
<1>1. slots' = <<>> /\ free' = <<>>
  BY DEF Clear
<1>2. DOMAIN slots' = {} /\ DOMAIN free' = {} /\ Len(slots') = 0
  BY <1>1
<1> QED
  BY <1>1, <1>2, ProcTableAssumption DEF IInv, TableTypeOK, FreeListIsExact

(* The first m elements of a sequence. *)
LEMMA Prefix ==
  ASSUME NEW T, NEW q \in Seq(T), NEW m \in 0..Len(q)
  PROVE  /\ SubSeq(q, 1, m) \in Seq(T)
         /\ DOMAIN SubSeq(q, 1, m) = 1..m
         /\ \A i \in 1..m : i \in 1..Len(q) /\ SubSeq(q, 1, m)[i] = q[i]
  OBVIOUS

LEMMA SeqMonotone ==
  ASSUME NEW T, NEW U, T \subseteq U, NEW q \in Seq(T)
  PROVE  q \in Seq(U)
<1>1. Len(q) \in Nat /\ q \in [1..Len(q) -> T]
  OBVIOUS
<1>2. q \in [1..Len(q) -> U]
  BY <1>1
<1> QED
  BY <1>1, <1>2

(***************************************************************************)
(* alloc keeps the free list exact, writes no slot in use, and gives the   *)
(* k-th proc of the batch the k-th id.                                     *)
(***************************************************************************)
LEMMA AllocInductive ==
  ASSUME IInv, NEW realm \in Realm, NEW batch \in Batch, Alloc(realm, batch)
  PROVE  /\ IInv'
         /\ \A id \in DOMAIN slots :
              id \in DOMAIN slots' /\ (InUse(id) => slots'[id] = slots[id])
         /\ \A k \in 1..Len(batch) :
              /\ NthId(k) \in DOMAIN slots'
              /\ slots'[NthId(k)].realm = realm /\ slots'[NthId(k)].proc # NoProc
              /\ slots'[NthId(k)].proc = batch[k]
<1> DEFINE n == Len(batch)
           f == Len(free)
           s == Len(slots)
           taken == IF n <= f THEN n ELSE f
           size == s + (n - taken)
           Given(id) == \E k \in 1..n : NthId(k) = id
           slot(id) == [realm |-> realm, proc |-> batch[CHOOSE k \in 1..n : NthId(k) = id]]
<1>1. /\ slots \in Seq(ProcSlot) /\ s \in Nat /\ DOMAIN slots = 1..s
      /\ free \in Seq(DOMAIN slots) /\ f \in Nat /\ DOMAIN free = 1..f
      /\ \A i \in 1..f : free[i] \in 1..s
  BY DEF IInv, TableTypeOK
<1>2. n \in Nat /\ n > 0 /\ \A k \in 1..n : batch[k] \in Proc
  <2>1. PICK m \in 1..MaxSlots : batch \in [1..m -> Proc]
    BY DEF Batch
  <2>2. m \in Nat /\ m > 0 /\ batch \in Seq(Proc) /\ Len(batch) = m
    BY <2>1, ProcTableAssumption
  <2> QED
    BY <2>1, <2>2
<1>3. /\ taken \in Nat /\ taken <= n /\ taken <= f /\ (taken < n => taken = f)
      /\ size \in Nat /\ s <= size /\ f - taken \in 0..f
  BY <1>1, <1>2
<1>4. /\ size <= MaxSlots
      /\ slots' = [id \in 1..size |-> IF Given(id) THEN slot(id) ELSE slots[id]]
      /\ free' = SubSeq(free, 1, f - taken)
  BY DEF Alloc, PopFree
<1>5. /\ DOMAIN slots' = 1..size
      /\ \A id \in 1..size : slots'[id] = IF Given(id) THEN slot(id) ELSE slots[id]
  BY <1>4
<1>6. /\ DOMAIN free' = 1..(f - taken)
      /\ \A i \in 1..(f - taken) : i \in 1..f /\ free'[i] = free[i]
      /\ free' \in Seq(1..size)
  <2> DEFINE m == f - taken
  <2>1. m \in 0..Len(free)
    BY <1>1, <1>3
  <2>2. free \in Seq(1..s) /\ 1..s \subseteq 1..size
    <3> HIDE DEF s, size
    <3> QED
      BY <1>1, <1>3
  <2>3. free' = SubSeq(free, 1, m)
    BY <1>4
  <2> HIDE DEF m
  <2>4. /\ DOMAIN free' = 1..m /\ free' \in Seq(1..s)
        /\ \A i \in 1..m : i \in 1..f /\ free'[i] = free[i]
    BY <2>1, <2>2, <2>3, Prefix
  <2>5. free' \in Seq(1..size)
    BY <2>2, <2>4, SeqMonotone
  <2> QED
    BY <2>4, <2>5 DEF m
<1>7. ASSUME NEW id \in 1..size, Given(id)
      PROVE  slot(id) \in ProcSlot /\ slot(id).proc # NoProc /\ slot(id).realm = realm
  <2>1. batch[CHOOSE k \in 1..n : NthId(k) = id] \in Proc
    BY <1>2, <1>7
  <2> HIDE DEF n
  <2> QED
    BY <2>1, ProcTableAssumption DEF ProcSlot
<1>8. ASSUME NEW id \in 1..size, ~(id \in 1..s)
      PROVE  Given(id)
  <2> DEFINE k == f + (id - s)
  <2>1. k \in 1..n /\ ~(k <= f) /\ s + (k - f) = id
    BY <1>1, <1>2, <1>3, <1>8
  <2> QED
    BY <2>1 DEF NthId
<1>9. ASSUME NEW id \in 1..s
      PROVE  Given(id) <=> \E i \in 1..f : ~(i \in 1..(f - taken)) /\ free[i] = id
  <2>1. ASSUME NEW k \in 1..n, NthId(k) = id
        PROVE  \E i \in 1..f : ~(i \in 1..(f - taken)) /\ free[i] = id
    <3>1. k <= f
      BY <1>1, <1>2, <1>9, <2>1 DEF NthId
    <3>2. /\ f - k + 1 \in 1..f /\ ~(f - k + 1 \in 1..(f - taken))
          /\ free[f - k + 1] = id
      BY <1>1, <1>2, <1>3, <2>1, <3>1 DEF NthId
    <3> QED
      BY <3>2
  <2>2. ASSUME NEW i \in 1..f, ~(i \in 1..(f - taken)), free[i] = id
        PROVE  Given(id)
    <3> DEFINE k == f - i + 1
    <3>1. k \in 1..n /\ k <= f /\ f - k + 1 = i
      BY <1>1, <1>2, <1>3, <2>2
    <3> QED
      BY <2>2, <3>1 DEF NthId
  <2> QED
    BY <2>1, <2>2
<1>10. ASSUME NEW k \in 1..n
       PROVE  NthId(k) \in 1..size /\ Given(NthId(k))
  <2> DEFINE id == NthId(k)
  <2>1. k <= f => id = free[f - k + 1] /\ f - k + 1 \in 1..f
    BY <1>1, <1>2 DEF NthId
  <2>2. ~(k <= f) => id = s + (k - f) /\ taken = f
    BY <1>1, <1>2, <1>3 DEF NthId
  <2>3. Given(id)
    OBVIOUS
  <2> SUFFICES id \in 1..size
    BY <2>3
  <2> HIDE DEF id, Given
  <2>4. CASE k <= f
    <3>1. id \in 1..s
      BY <1>1, <2>1, <2>4
    <3> QED
      BY <1>1, <1>3, <3>1
  <2>5. CASE ~(k <= f)
    <3>1. id = s + (k - f) /\ size = s + (n - f)
      BY <2>2, <2>5
    <3>2. n \in Nat /\ f \in Nat /\ s \in Nat /\ k \in 1..n
      BY <1>1, <1>2
    <3> HIDE DEF n, f, s, size, taken
    <3> QED
      BY <2>5, <3>1, <3>2
  <2> QED
    BY <2>4, <2>5
<1>11. /\ \A i, j \in 1..f : free[i] = free[j] => i = j
       /\ \A id \in 1..s : slots[id].proc = NoProc <=> \E i \in 1..f : free[i] = id
  BY <1>1 DEF IInv, FreeListIsExact
<1>12. ASSUME NEW k \in 1..n, NEW l \in 1..n, NthId(k) = NthId(l)
       PROVE  k = l
  <2>1. \A i \in 1..n : /\ i <= f => /\ f - i + 1 \in 1..f /\ NthId(i) = free[f - i + 1]
                                     /\ NthId(i) <= s
                        /\ ~(i <= f) => NthId(i) = s + (i - f) /\ NthId(i) > s
    <3> SUFFICES ASSUME NEW i \in 1..n
                 PROVE  /\ i <= f => /\ f - i + 1 \in 1..f /\ NthId(i) = free[f - i + 1]
                                     /\ NthId(i) <= s
                        /\ ~(i <= f) => NthId(i) = s + (i - f) /\ NthId(i) > s
      OBVIOUS
    <3>1. i \in Nat /\ i > 0
      BY <1>2
    <3>2. ASSUME i <= f
          PROVE  /\ f - i + 1 \in 1..f /\ NthId(i) = free[f - i + 1]
                 /\ NthId(i) <= s
      <4>1. f - i + 1 \in 1..f
        BY <1>1, <3>1, <3>2
      <4> QED
        BY <1>1, <3>2, <4>1 DEF NthId
    <3>3. ASSUME ~(i <= f)
          PROVE  NthId(i) = s + (i - f) /\ NthId(i) > s
      BY <1>1, <3>1, <3>3 DEF NthId
    <3> QED
      BY <3>2, <3>3
  <2>2. k \in Nat /\ l \in Nat
    BY <1>2
  <2> HIDE DEF n, f, s
  <2>3. ASSUME k <= f
        PROVE  k = l
    <3>1. l <= f
      BY <1>1, <1>12, <2>1, <2>2, <2>3
    <3>2. f - k + 1 = f - l + 1
      BY <1>11, <1>12, <2>1, <2>3, <3>1
    <3> QED
      BY <1>1, <2>2, <3>2
  <2>4. ASSUME ~(k <= f)
        PROVE  k = l
    <3>1. ~(l <= f)
      BY <1>1, <1>12, <2>1, <2>2, <2>4
    <3>2. s + (k - f) = s + (l - f)
      BY <1>12, <2>1, <2>4, <3>1
    <3> QED
      BY <1>1, <2>2, <3>2
  <2> QED
    BY <2>3, <2>4
<1>13. ASSUME NEW k \in 1..n
       PROVE  slot(NthId(k)).proc = batch[k]
  <2> DEFINE l == CHOOSE i \in 1..n : NthId(i) = NthId(k)
  <2>1. l \in 1..n /\ NthId(l) = NthId(k)
    OBVIOUS
  <2>2. l = k
    BY <1>12, <2>1
  <2> QED
    BY <2>2
<1> HIDE DEF n, f, s, taken, size, Given, slot
<1>14. TableTypeOK'
  <2>1. \A id \in 1..size : slots'[id] \in ProcSlot
    BY <1>1, <1>5, <1>7, <1>8
  <2>2. slots' \in Seq(ProcSlot) /\ Len(slots') = size
    <3>1. slots' \in [1..size -> ProcSlot]
      BY <1>4, <1>5, <2>1
    <3> QED
      BY <1>3, <3>1
  <2> QED
    BY <1>4, <1>5, <1>6, <2>2 DEF TableTypeOK
<1>15. \A i, j \in DOMAIN free' : free'[i] = free'[j] => i = j
  BY <1>6, <1>11
<1>16. ASSUME NEW id \in 1..size
       PROVE  slots'[id].proc = NoProc <=> \E i \in 1..(f - taken) : free'[i] = id
  <2>1. CASE Given(id)
    <3>1. slots'[id].proc # NoProc
      BY <1>5, <1>7, <2>1
    <3>2. ASSUME NEW i \in 1..(f - taken), free'[i] = id
          PROVE  FALSE
      BY <1>1, <1>6, <1>9, <1>11, <2>1, <3>2
    <3> QED
      BY <3>1, <3>2
  <2>2. CASE ~Given(id)
    <3>1. id \in 1..s /\ slots'[id] = slots[id]
      BY <1>5, <1>8, <2>2
    <3> QED
      BY <1>6, <1>9, <1>11, <2>2, <3>1
  <2> QED
    BY <2>1, <2>2
<1>17. IInv'
  BY <1>5, <1>6, <1>14, <1>15, <1>16 DEF IInv, FreeListIsExact
<1>18. ASSUME NEW id \in 1..s
       PROVE  id \in 1..size /\ (slots[id].proc # NoProc => slots'[id] = slots[id])
  <2>1. id \in 1..size
    BY <1>1, <1>3
  <2> QED
    BY <1>5, <1>9, <1>11, <2>1
<1>19. ASSUME NEW k \in 1..n
       PROVE  /\ NthId(k) \in DOMAIN slots'
              /\ slots'[NthId(k)].realm = realm /\ slots'[NthId(k)].proc # NoProc
              /\ slots'[NthId(k)].proc = batch[k]
  BY <1>5, <1>7, <1>10, <1>13
<1> QED
  BY <1>1, <1>5, <1>17, <1>18, <1>19 DEF n

(***************************************************************************)
(* Where the elements of a concatenation come from.                        *)
(***************************************************************************)
LEMMA ConcatElements ==
  ASSUME NEW T, NEW f \in Seq(T), NEW g \in Seq(T)
  PROVE  /\ f \o g \in Seq(T)
         /\ \A i \in DOMAIN (f \o g) :
              \/ i \in DOMAIN f /\ (f \o g)[i] = f[i]
              \/ \E k \in 1 .. Len(g) : i = Len(f) + k /\ (f \o g)[i] = g[k]
         /\ \A i \in DOMAIN f : i \in DOMAIN (f \o g) /\ (f \o g)[i] = f[i]
         /\ \A k \in 1 .. Len(g) :
              Len(f) + k \in DOMAIN (f \o g) /\ (f \o g)[Len(f) + k] = g[k]
<1>1. Len(f) \in Nat /\ Len(g) \in Nat /\ DOMAIN f = 1 .. Len(f)
  OBVIOUS
<1>2. /\ f \o g \in Seq(T)
      /\ DOMAIN (f \o g) = 1 .. (Len(f) + Len(g))
      /\ \A i \in 1 .. (Len(f) + Len(g)) :
           (f \o g)[i] = IF i <= Len(f) THEN f[i] ELSE g[i - Len(f)]
  OBVIOUS
<1> DEFINE m == Len(f)
           n == Len(g)
           h == f \o g
<1>3. \A i \in 1 .. (m + n) : i \in 1 .. m \/ (i > m /\ i - m \in 1 .. n /\ i = m + (i - m))
  BY <1>1
<1>4. \A k \in 1 .. n : m + k \in 1 .. (m + n) /\ ~(m + k <= m) /\ (m + k) - m = k
  BY <1>1
<1>5. \A i \in 1 .. m : i \in 1 .. (m + n) /\ i <= m
  BY <1>1
<1>6. \A i \in 1 .. (m + n) : i > m => ~(i <= m)
  BY <1>1
<1> QED
  BY <1>1, <1>2, <1>3, <1>4, <1>5, <1>6

(***************************************************************************)
(* release adds exactly the slots it empties to the free list.             *)
(***************************************************************************)
LEMMA ReleaseInductive ==
  ASSUME IInv, NEW realm \in Realm, Release(realm)
  PROVE  /\ IInv'
         /\ DOMAIN slots' = DOMAIN slots
         /\ \A id \in DOMAIN slots :
              slots'[id] = IF slots[id].realm = realm
                           THEN [slots[id] EXCEPT !.proc = NoProc] ELSE slots[id]
<1>1. PICK s \in Ascending(LiveOf(realm)) : free' = free \o s
  BY DEF Release
<1> DEFINE S == LiveOf(realm)
           n == Cardinality(S)
<1>2. /\ slots \in Seq(ProcSlot) /\ Len(slots) <= MaxSlots
      /\ free \in Seq(DOMAIN slots)
  BY DEF IInv, TableTypeOK
<1>3. n \in Nat
  <2>1. S \subseteq 1 .. Len(slots)
    BY <1>2 DEF LiveOf
  <2>2. IsFiniteSet(1 .. Len(slots))
    BY <1>2, FS_Interval
  <2> QED
    BY <2>1, <2>2, FS_Subset, FS_CardinalityType
<1>4. /\ s \in [1 .. n -> S]
      /\ \A i, j \in 1 .. n : i < j => s[i] < s[j]
      /\ \A x \in S : \E i \in 1 .. n : s[i] = x
  BY DEF Ascending
<1>5. S \subseteq DOMAIN slots /\ \A id \in S : InUse(id)
  BY DEF LiveOf
<1>6. s \in Seq(DOMAIN slots) /\ Len(s) = n
  BY <1>3, <1>4, <1>5
<1>7. /\ free' \in Seq(DOMAIN slots)
      /\ \A i \in DOMAIN free' :
           \/ i \in DOMAIN free /\ free'[i] = free[i]
           \/ \E k \in 1 .. n : i = Len(free) + k /\ free'[i] = s[k]
      /\ \A i \in DOMAIN free : i \in DOMAIN free' /\ free'[i] = free[i]
      /\ \A k \in 1 .. n : Len(free) + k \in DOMAIN free' /\ free'[Len(free) + k] = s[k]
  BY <1>1, <1>2, <1>6, ConcatElements
<1>8. /\ DOMAIN slots' = DOMAIN slots
      /\ \A id \in DOMAIN slots :
           slots'[id] = IF slots[id].realm = realm
                        THEN [slots[id] EXCEPT !.proc = NoProc] ELSE slots[id]
  BY DEF Release
<1>9. \A id \in DOMAIN slots : slots[id] \in ProcSlot /\ slots'[id] \in ProcSlot
  <2>1. \A slot \in ProcSlot : [slot EXCEPT !.proc = NoProc] \in ProcSlot
    BY DEF ProcSlot
  <2>2. \A id \in DOMAIN slots : slots[id] \in ProcSlot
    BY <1>2
  <2> QED
    BY <1>8, <2>1, <2>2
<1>10. slots' \in Seq(ProcSlot) /\ Len(slots') = Len(slots)
  <2>1. slots' = [id \in DOMAIN slots |-> slots'[id]]
    BY <1>8 DEF Release
  <2>2. slots' \in [1 .. Len(slots) -> ProcSlot] /\ Len(slots) \in Nat
    BY <1>2, <1>9, <2>1
  <2> QED
    BY <2>2
<1>11. TableTypeOK'
  BY <1>2, <1>7, <1>8, <1>10 DEF TableTypeOK
<1>12. ASSUME NEW i \in DOMAIN free', NEW j \in DOMAIN free', free'[i] = free'[j]
       PROVE  i = j
  <2>1. \A k \in DOMAIN free : slots[free[k]].proc = NoProc
    BY <1>2 DEF IInv, FreeListIsExact, InUse
  <2>2. \A k \in 1 .. n : slots[s[k]].proc # NoProc
    BY <1>4, <1>5 DEF InUse
  <2>3. CASE i \in DOMAIN free /\ free'[i] = free[i]
    <3>1. j \in DOMAIN free /\ free'[j] = free[j]
      <4>1. CASE \E k \in 1 .. n : j = Len(free) + k /\ free'[j] = s[k]
        <5>1. PICK k \in 1 .. n : free'[j] = s[k]
          BY <4>1
        <5>2. free[i] = s[k]
          BY <1>12, <2>3, <5>1
        <5> HIDE DEF n
        <5> QED
          BY <2>1, <2>2, <2>3, <5>1, <5>2
      <4> QED
        BY <1>7, <1>12, <4>1
    <3> QED
      BY <1>12, <2>3, <3>1 DEF IInv, FreeListIsExact
  <2>4. ASSUME NEW k \in 1 .. n, i = Len(free) + k, free'[i] = s[k]
        PROVE  i = j
    <3>1. PICK l \in 1 .. n : j = Len(free) + l /\ free'[j] = s[l]
      BY <1>7, <1>12, <2>1, <2>2, <2>4
    <3>2. s[k] \in Nat /\ s[k] = s[l]
      BY <1>2, <1>4, <1>5, <1>12, <2>4, <3>1
    <3>3. k = l
      BY <1>3, <1>4, <3>2
    <3> QED
      BY <2>4, <3>1, <3>3
  <2> QED
    BY <1>7, <2>3, <2>4
<1>13. ASSUME NEW id \in DOMAIN slots'
       PROVE  slots'[id].proc = NoProc <=> \E i \in DOMAIN free' : free'[i] = id
  <2>1. slots'[id].proc = NoProc <=> slots[id].proc = NoProc \/ id \in S
    BY <1>8, <1>9 DEF LiveOf, ProcSlot
  <2>2. slots[id].proc = NoProc <=> \E i \in DOMAIN free : free[i] = id
    BY <1>8 DEF IInv, FreeListIsExact
  <2>3. id \in S <=> \E i \in 1 .. n : s[i] = id
    BY <1>4
  <2>4. (\E i \in DOMAIN free' : free'[i] = id)
          <=> (\E i \in DOMAIN free : free[i] = id) \/ (\E i \in 1 .. n : s[i] = id)
    BY <1>7
  <2> QED
    BY <2>1, <2>2, <2>3, <2>4
<1>14. IInv'
  BY <1>11, <1>12, <1>13 DEF IInv, FreeListIsExact
<1> QED
  BY <1>8, <1>14

-----------------------------------------------------------------------------
(* The type invariant and the exact free list are inductive together. *)
THEOREM Invariance == TableSpec => []IInv
<1>1. ASSUME IInv, [TableNext]_table
      PROVE  IInv'
  <2>1. CASE TableNext
    BY <1>1, <2>1, AllocInductive, ReleaseInductive, ClearInductive DEF TableNext
  <2>2. CASE UNCHANGED table
    BY <1>1, <2>2 DEF IInv, TableTypeOK, FreeListIsExact, table
  <2> QED
    BY <1>1, <2>1, <2>2
<1> QED
  BY InitInductive, <1>1, PTL DEF TableSpec

(* The table, its procs and its free list are well typed. *)
THEOREM TypeCorrect == TableSpec => []TableTypeOK
<1>1. IInv => TableTypeOK
  BY DEF IInv
<1> QED
  BY Invariance, <1>1, PTL

(***************************************************************************)
(* However attaches and releases alternate, the free list names every      *)
(* released slot once and no slot in use.                                  *)
(***************************************************************************)
THEOREM NothingIsFreedTwice == TableSpec => []FreeListIsExact
<1>1. IInv => FreeListIsExact
  BY DEF IInv
<1> QED
  BY Invariance, <1>1, PTL

(***************************************************************************)
(* A function in use keeps its proc until its own realm is released.       *)
(***************************************************************************)
THEOREM AttachedProcsStay == TableSpec => SlotsInUseAreStable
<1> DEFINE Stable == \A id \in DOMAIN slots :
         InUse(id) /\ id \in DOMAIN slots' /\ slots'[id] # slots[id] =>
             slots'[id].proc = NoProc /\ \A other \in DOMAIN slots :
                 slots[other].realm = slots[id].realm => slots'[other].proc = NoProc
<1>1. ASSUME IInv, [TableNext]_table
      PROVE  [Stable]_table
  <2>1. ASSUME NEW realm \in Realm, NEW batch \in Batch, Alloc(realm, batch)
        PROVE  Stable
    BY <1>1, <2>1, AllocInductive
  <2>2. ASSUME NEW realm \in Realm, Release(realm)
        PROVE  Stable
    <3>1. \A id \in DOMAIN slots : slots[id] \in ProcSlot
      BY <1>1 DEF IInv, TableTypeOK
    <3> QED
      BY <1>1, <2>2, <3>1, ReleaseInductive DEF ProcSlot
  <2>3. CASE Clear
    BY <2>3 DEF Clear
  <2> QED
    BY <1>1, <2>1, <2>2, <2>3 DEF TableNext
<1> QED
  BY Invariance, <1>1, PTL DEF TableSpec, SlotsInUseAreStable
=============================================================================
