--------------------------- MODULE StacksProofs ---------------------------
(***************************************************************************)
(* The limit and the scan start fit the stack of every operation, for any  *)
(* number of native threads, fibers and isolates, any sizes and any place  *)
(* where fibers are mapped; for the limit, of every operation whose fiber  *)
(* was not mapped across a stack that some thread remembers.               *)
(***************************************************************************)
EXTENDS Stacks, SequenceTheorems, TLAPS

Apart(r, s) == Within(r, s) \/ Disjoint(r, s)

(* A cached region may be long unmapped.  It is still part of a stack or   *)
(* off it, for every native stack and every fiber mapped since with care:  *)
(* what it holds of such a stack has the bottom of that stack below it.    *)
CachesAreApart ==
    \A n \in Native : region[n] # Unknown =>
        /\ \A m \in Native : Apart(region[n], NativeStack[m])
        /\ \A f \in Fiber \ shifted : fibers[f] # Unknown => Apart(region[n], fibers[f])

CachesHoldStacks ==
    /\ \A n \in Native : bounds[n] = Unknown \/ bounds[n] = NativeStack[n]
    /\ \A f, g \in Fiber :
         f # g /\ fibers[f] # Unknown /\ fibers[g] # Unknown => Disjoint(fibers[f], fibers[g])
    /\ CachesAreApart

(* An operation in progress keeps its stack, and its frames are on it.     *)
FramesAreOnTheirStack(i) ==
    /\ op[i].exec \in Fiber => fibers[op[i].exec] # Unknown
    /\ op[i].sps # <<>>
    /\ Bottom(i) < Entry(i) /\ Entry(i) < Top(i)
    /\ \A k \in DOMAIN op[i].sps : op[i].sps[k] <= Entry(i)

(* What the two properties say of one isolate.                             *)
Fits(i) ==
    /\ op[i].anchor # "none" /\ op[i].exec \notin shifted /\ Room(i) =>
         Bottom(i) <= limit[i] /\ limit[i] < Entry(i)
    /\ field[i] \/ op[i].exec \in Native => Entry(i) < scanStart[i] /\ scanStart[i] <= Top(i)

Good(i) == (Active(i) => FramesAreOnTheirStack(i)) /\ (Running(i) => Fits(i))

IInv == TypeOK /\ CachesHoldStacks /\ \A i \in Isolate : Good(i)

-----------------------------------------------------------------------------
LEMMA KindsDiffer ==
  /\ Idle.kind \notin Kind /\ Gone.kind \notin Kind /\ Unborn.kind \notin Kind
  /\ Idle.kind # "run" /\ Gone.kind # "run" /\ Unborn.kind # "run"
  BY DEF Idle, Gone, Unborn, Kind

(* An operation in progress is a record of Op. *)
LEMMA ActiveIsOp ==
  ASSUME TypeOK, NEW i \in Isolate, Active(i)
  PROVE  op[i] \in Op
  BY KindsDiffer DEF TypeOK, Active

LEMMA StackIsBounds ==
  ASSUME StacksAssumption, NEW n \in Native
  PROVE  NativeStack[n] \in Bounds /\ NativeStack[n] # Unknown /\ NativeStack[n].lo >= Guess
  BY DEF StacksAssumption, Bounds, Unknown

THEOREM Start == Init => IInv
<1> SUFFICES ASSUME Init PROVE IInv
  OBVIOUS
<1>1. TypeOK
  BY StacksAssumption DEF Init, TypeOK, Bounds, Unknown
<1>2. \A i \in Isolate : ~Active(i) /\ ~Running(i)
  BY KindsDiffer DEF Init, Active, Running
<1> QED
  BY <1>1, <1>2 DEF Init, IInv, CachesHoldStacks, CachesAreApart, Good

-----------------------------------------------------------------------------
(***************************************************************************)
(* A step that leaves an isolate's operation and the stack it is on alone  *)
(* keeps what is true of it.                                               *)
(***************************************************************************)
LEMMA Untouched ==
  ASSUME NEW i \in Isolate, Good(i),
         op'[i] = op[i], limit'[i] = limit[i], scanStart'[i] = scanStart[i],
         field'[i] = field[i],
         Active(i) => op[i].exec \in Native \/ fibers'[op[i].exec] = fibers[op[i].exec],
         Active(i) => (op[i].exec \in shifted' <=> op[i].exec \in shifted)
  PROVE  Good(i)'
<1>0. Running(i) => Active(i)
  BY DEF Running, Active, Kind
<1>1. Active(i) => Stack(op[i].exec)' = Stack(op[i].exec)
  BY DEF Stack
<1>2. /\ Active(i)' <=> Active(i)
      /\ Running(i)' <=> Running(i)
      /\ Entry(i)' = Entry(i)
  BY DEF Active, Running, Entry
<1>3. Active(i) => Bottom(i)' = Bottom(i) /\ Top(i)' = Top(i)
  BY <1>1 DEF Bottom, Top, Stack
<1>4. Active(i) => (Room(i)' <=> Room(i))
  BY <1>2, <1>3 DEF Room
<1>5. Active(i) => FramesAreOnTheirStack(i)'
  BY <1>2, <1>3, StacksAssumption DEF Good, FramesAreOnTheirStack
<1>6. Running(i) => Fits(i)'
  BY <1>0, <1>2, <1>3, <1>4 DEF Good, Fits
<1> QED
  BY <1>2, <1>5, <1>6 DEF Good

LEMMA MapInductive ==
  ASSUME IInv, NEW f \in Fiber, NEW r \in Region, MapFiber(f, r)
  PROVE  IInv'
<1>1. TypeOK'
  BY DEF IInv, TypeOK, MapFiber, Op
<1>2. /\ fibers[f] = Unknown /\ fibers'[f] = r
      /\ \A g \in Fiber \ {f} : fibers'[g] = fibers[g]
      /\ \A g \in Fiber : fibers[g] # Unknown => Disjoint(r, fibers[g])
      /\ shifted' = IF Misremembered(r) THEN shifted \cup {f} ELSE shifted
      /\ bounds' = bounds /\ region' = region
  BY DEF MapFiber, IInv, TypeOK
<1>3. CachesAreApart'
  <2>1. ASSUME NEW n \in Native, region[n] # Unknown, NEW g \in Fiber \ shifted',
               fibers'[g] # Unknown
        PROVE  Apart(region[n], fibers'[g])
    <3>1. ASSUME g = f PROVE Apart(region[n], r)
      BY <1>2, <2>1, <3>1 DEF Misremembered, Apart
    <3>2. ASSUME g # f PROVE Apart(region[n], fibers[g])
      BY <1>2, <2>1, <3>2 DEF IInv, CachesHoldStacks, CachesAreApart
    <3> QED
      BY <1>2, <3>1, <3>2
  <2> QED
    BY <1>2, <2>1 DEF IInv, CachesHoldStacks, CachesAreApart
<1>4. ASSUME NEW g \in Fiber, NEW h \in Fiber, g # h, fibers'[g] # Unknown, fibers'[h] # Unknown
      PROVE  Disjoint(fibers'[g], fibers'[h])
  BY <1>2, <1>4 DEF IInv, CachesHoldStacks, Disjoint
<1>5. CachesHoldStacks'
  BY <1>2, <1>3, <1>4 DEF IInv, CachesHoldStacks, CachesAreApart
<1>6. ASSUME NEW i \in Isolate PROVE Good(i)'
  <2>1. Active(i) => op[i].exec \in Native \/ op[i].exec \in Fiber \ {f}
    BY <1>2, ActiveIsOp DEF IInv, Good, FramesAreOnTheirStack, Op
  <2>2. Active(i) => op[i].exec # f
    BY <2>1, StacksAssumption
  <2> QED
    BY <1>2, <2>1, <2>2, Untouched DEF IInv, MapFiber
<1> QED
  BY <1>1, <1>5, <1>6 DEF IInv

LEMMA UnmapInductive ==
  ASSUME IInv, NEW f \in Fiber, UnmapFiber(f)
  PROVE  IInv'
<1>1. TypeOK'
  BY DEF IInv, TypeOK, UnmapFiber, Op
<1>2. /\ fibers'[f] = Unknown /\ \A g \in Fiber \ {f} : fibers'[g] = fibers[g]
      /\ shifted' = shifted \ {f} /\ bounds' = bounds /\ region' = region
  BY DEF UnmapFiber, IInv, TypeOK
<1>3. CachesHoldStacks'
  BY <1>2 DEF IInv, CachesHoldStacks, CachesAreApart
<1>4. ASSUME NEW i \in Isolate PROVE Good(i)'
  <2>1. Active(i) => op[i].exec # f
    BY DEF UnmapFiber
  <2>2. Active(i) => op[i].exec \in Native \/ fibers'[op[i].exec] = fibers[op[i].exec]
    BY <1>2, <2>1, ActiveIsOp DEF IInv, Op
  <2> QED
    BY <1>2, <2>1, <2>2, Untouched DEF IInv, UnmapFiber
<1> QED
  BY <1>1, <1>3, <1>4 DEF IInv

-----------------------------------------------------------------------------
(***************************************************************************)
(* The steps of an isolate: what they write is right for that isolate, and *)
(* the others are untouched.                                               *)
(***************************************************************************)
LEMMA OthersGood ==
  ASSUME IInv, NEW i \in Isolate, UNCHANGED <<fibers, shifted>>,
         \A j \in Isolate \ {i} :
            /\ op'[j] = op[j] /\ limit'[j] = limit[j]
            /\ scanStart'[j] = scanStart[j] /\ field'[j] = field[j],
         NEW j \in Isolate \ {i}
  PROVE  Good(j)'
  BY Untouched DEF IInv

(* What is left of a sequence of frames without its last one. *)
LEMMA FrontKeepsFrames ==
  ASSUME NEW s \in Seq(Nat), s # <<>>, Len(s) # 1
  PROVE  /\ Front(s) \in Seq(Nat) /\ Front(s) # <<>> /\ Front(s)[1] = s[1]
         /\ \A k \in DOMAIN Front(s) : k \in DOMAIN s /\ Front(s)[k] = s[k]
<1> DEFINE rest == Front(s)
<1>0. Len(s) \in Nat \ {0}
  BY EmptySeq, Zenon
<1>1. Len(s) \in Nat /\ Len(s) > 1 /\ DOMAIN s = 1 .. Len(s)
  <2>1. DOMAIN s = 1 .. Len(s)
    BY LenProperties, Zenon
  <2> QED
    BY <1>0, <2>1
<1>2. \A k \in 1 .. (Len(s) - 1) : s[k] \in Nat
  BY <1>1
<1>3. /\ rest \in Seq(Nat) /\ Len(rest) = Len(s) - 1
      /\ \A k \in 1 .. (Len(s) - 1) : rest[k] = s[k]
  BY <1>1, <1>2, SubSeqProperties DEF Front
<1>4. DOMAIN rest = 1 .. (Len(s) - 1)
  BY <1>3, LenProperties
<1>5. rest # <<>>
  BY <1>1, <1>3
<1> QED
  BY <1>1, <1>3, <1>4, <1>5

LEMMA NestInductive ==
  ASSUME IInv, NEW i \in Isolate, NEW sp \in Address, Nest(i, sp)
  PROVE  IInv'
<1>1. op[i].kind = "run" /\ Active(i) /\ Running(i) /\ op[i] \in Op
  BY ActiveIsOp DEF Nest, Active, Running, Kind, IInv
<1>2. sp \in Nat
  BY StacksAssumption DEF Address, Bounds
<1>3. /\ op[i].sps \in Seq(Nat) /\ op[i].sps # <<>>
      /\ \A k \in DOMAIN op[i].sps : op[i].sps[k] <= Entry(i)
  BY <1>1 DEF IInv, Good, FramesAreOnTheirStack, Op
<1>4. op' = [op EXCEPT ![i] = [op[i] EXCEPT !.sps = Append(op[i].sps, sp)]]
  BY DEF Nest
<1>5. /\ op'[i] \in Op
      /\ op'[i].sps = Append(op[i].sps, sp)
      /\ op'[i].exec = op[i].exec /\ op'[i].kind = "run"
      /\ op'[i].anchor = op[i].anchor /\ op'[i].native = op[i].native
  <2>1. op'[i] = [op[i] EXCEPT !.sps = Append(op[i].sps, sp)]
    BY <1>4 DEF IInv, TypeOK
  <2>2. Append(op[i].sps, sp) \in Seq(Nat)
    BY <1>2, <1>3
  <2> QED
    BY <1>1, <2>1, <2>2 DEF Op
<1>6. TypeOK'
  BY <1>4, <1>5 DEF IInv, TypeOK, Nest, machine
<1>7. CachesHoldStacks'
  BY DEF IInv, CachesHoldStacks, CachesAreApart, Nest, machine
<1>8. sp < Entry(i)
  <2>1. sp < Innermost(i)
    BY <1>1 DEF Nest, At
  <2>2. Len(op[i].sps) \in DOMAIN op[i].sps /\ op[i].sps[Len(op[i].sps)] \in Nat
        /\ Entry(i) \in Nat
    BY <1>3 DEF Entry
  <2> QED
    BY <1>2, <1>3, <2>1, <2>2 DEF Innermost
<1>9. /\ Entry(i)' = Entry(i) /\ op'[i].sps # <<>>
      /\ \A k \in DOMAIN op'[i].sps : op'[i].sps[k] <= Entry(i)
  BY <1>2, <1>3, <1>5, <1>8 DEF Entry
<1>10. /\ Bottom(i)' = Bottom(i) /\ Top(i)' = Top(i)
       /\ limit' = limit /\ scanStart' = scanStart /\ field' = field /\ fibers' = fibers /\ shifted' = shifted
  BY <1>5 DEF Nest, machine, Bottom, Top, Stack
<1>11. Room(i)' <=> Room(i)
  BY <1>5, <1>9, <1>10 DEF Room
<1>12. FramesAreOnTheirStack(i)'
  BY <1>1, <1>5, <1>9, <1>10 DEF IInv, Good, FramesAreOnTheirStack
<1>13. Fits(i)'
  BY <1>1, <1>5, <1>9, <1>10, <1>11 DEF IInv, Good, Fits
<1>14. \A j \in Isolate \ {i} : Good(j)'
  BY <1>4, <1>10, OthersGood DEF IInv, TypeOK
<1> QED
  BY <1>6, <1>7, <1>12, <1>13, <1>14 DEF IInv, Good

LEMMA ReturnInductive ==
  ASSUME IInv, NEW i \in Isolate, Return(i)
  PROVE  IInv'
<1>1. op[i].kind = "run" /\ Active(i) /\ Running(i) /\ op[i] \in Op
  BY ActiveIsOp DEF Return, Active, Running, Kind, IInv
<1>2. /\ op[i].sps \in Seq(Nat) /\ op[i].sps # <<>>
      /\ \A k \in DOMAIN op[i].sps : op[i].sps[k] <= Entry(i)
  BY <1>1 DEF IInv, Good, FramesAreOnTheirStack, Op
<1>3. UNCHANGED <<fibers, shifted, bounds, region, field, limit, scanStart>>
  BY DEF Return, machine
<1>4. CachesHoldStacks'
  BY <1>3 DEF IInv, CachesHoldStacks, CachesAreApart
<1>5. CASE Len(op[i].sps) = 1
  <2>1. op' = [op EXCEPT ![i] = Idle]
    BY <1>5 DEF Return
  <2>2. TypeOK'
    BY <1>3, <2>1 DEF IInv, TypeOK
  <2>3. Good(i)'
    BY <2>1, KindsDiffer DEF IInv, TypeOK, Good, Active, Running
  <2>4. \A j \in Isolate \ {i} : Good(j)'
    BY <1>3, <2>1, OthersGood DEF IInv, TypeOK
  <2> QED
    BY <1>4, <2>2, <2>3, <2>4 DEF IInv
<1>6. CASE Len(op[i].sps) # 1
  <2> DEFINE rest == Front(op[i].sps)
  <2>1. op' = [op EXCEPT ![i] = [op[i] EXCEPT !.sps = rest]]
    BY <1>6 DEF Return
  <2>2. op'[i] = [op[i] EXCEPT !.sps = rest]
    BY <2>1 DEF IInv, TypeOK
  <2>3. /\ rest \in Seq(Nat) /\ rest # <<>> /\ rest[1] = op[i].sps[1]
        /\ \A k \in DOMAIN rest : k \in DOMAIN op[i].sps /\ rest[k] = op[i].sps[k]
    BY <1>2, <1>6, FrontKeepsFrames
  <2>4. /\ op'[i] \in Op /\ op'[i].sps = rest
        /\ op'[i].exec = op[i].exec /\ op'[i].kind = "run"
        /\ op'[i].anchor = op[i].anchor /\ op'[i].native = op[i].native
    BY <1>1, <2>2, <2>3 DEF Op
  <2>5. TypeOK'
    BY <1>3, <2>1, <2>4 DEF IInv, TypeOK
  <2>6. /\ Entry(i)' = Entry(i) /\ Bottom(i)' = Bottom(i) /\ Top(i)' = Top(i)
        /\ \A k \in DOMAIN op'[i].sps : op'[i].sps[k] <= Entry(i)
    BY <1>2, <1>3, <2>3, <2>4 DEF Entry, Bottom, Top, Stack
  <2>7. Room(i)' <=> Room(i)
    BY <2>4, <2>6 DEF Room
  <2>8. FramesAreOnTheirStack(i)'
    BY <1>1, <1>3, <2>3, <2>4, <2>6 DEF IInv, Good, FramesAreOnTheirStack
  <2>9. Fits(i)'
    BY <1>1, <1>3, <2>4, <2>6, <2>7 DEF IInv, Good, Fits
  <2>10. \A j \in Isolate \ {i} : Good(j)'
    BY <1>3, <2>1, OthersGood DEF IInv, TypeOK
  <2> QED
    BY <1>4, <2>5, <2>8, <2>9, <2>10 DEF IInv, Good
<1> QED
  BY <1>5, <1>6

LEMMA BootedInductive ==
  ASSUME IInv, NEW i \in Isolate, NEW found \in BOOLEAN, Booted(i, found)
  PROVE  IInv'
<1>1. /\ op' = [op EXCEPT ![i] = Idle] /\ field' = [field EXCEPT ![i] = found]
      /\ UNCHANGED <<fibers, shifted, bounds, region, limit, scanStart>>
  BY DEF Booted, machine
<1>2. TypeOK'
  BY <1>1 DEF IInv, TypeOK
<1>3. CachesHoldStacks'
  BY <1>1 DEF IInv, CachesHoldStacks, CachesAreApart
<1>4. Good(i)'
  BY <1>1, KindsDiffer DEF IInv, TypeOK, Good, Active, Running
<1>5. \A j \in Isolate \ {i} : Good(j)'
  BY <1>1, OthersGood DEF IInv, TypeOK
<1> QED
  BY <1>2, <1>3, <1>4, <1>5 DEF IInv

LEMMA TornDownInductive ==
  ASSUME IInv, NEW i \in Isolate, TornDown(i)
  PROVE  IInv'
<1>1. op' = [op EXCEPT ![i] = Gone]
      /\ UNCHANGED <<fibers, shifted, bounds, region, field, limit, scanStart>>
  BY DEF TornDown, machine
<1>2. TypeOK'
  BY <1>1 DEF IInv, TypeOK
<1>3. CachesHoldStacks'
  BY <1>1 DEF IInv, CachesHoldStacks, CachesAreApart
<1>4. Good(i)'
  BY <1>1, KindsDiffer DEF IInv, TypeOK, Good, Active, Running
<1>5. \A j \in Isolate \ {i} : Good(j)'
  BY <1>1, OthersGood DEF IInv, TypeOK
<1> QED
  BY <1>2, <1>3, <1>4, <1>5 DEF IInv

(***************************************************************************)
(* An operation that begins is placed on its stack.                        *)
(***************************************************************************)
LEMMA BeginPlaces ==
  ASSUME TypeOK, NEW i \in Isolate, NEW kind \in Kind, NEW e \in Native \cup Fiber,
         NEW n \in Native, NEW sp \in Nat, NEW anchor \in {"native", "region", "none"},
         At(e, n, sp), Begin(i, kind, e, n, sp, anchor), UNCHANGED fibers
  PROVE  /\ op' \in [Isolate -> Op \cup {Idle, Gone, Unborn}]
         /\ \A j \in Isolate \ {i} : op'[j] = op[j]
         /\ op'[i].kind = kind /\ op'[i].exec = e /\ op'[i].anchor = anchor
         /\ Entry(i)' = sp
         /\ Bottom(i)' = Stack(e).lo /\ Top(i)' = Stack(e).hi
         /\ FramesAreOnTheirStack(i)'
<1> DEFINE new == [kind |-> kind, exec |-> e, native |-> n, sps |-> <<sp>>, anchor |-> anchor]
<1>1. op' = [op EXCEPT ![i] = new]
  BY DEF Begin
<1>2. new \in Op
  BY DEF Op
<1>3. op'[i] = new /\ \A j \in Isolate \ {i} : op'[j] = op[j]
  BY <1>1 DEF TypeOK
<1>4. op' \in [Isolate -> Op \cup {Idle, Gone, Unborn}]
  BY <1>1, <1>2 DEF TypeOK
<1>5. Entry(i)' = sp /\ Bottom(i)' = Stack(e).lo /\ Top(i)' = Stack(e).hi
  BY <1>3 DEF Entry, Bottom, Top, Stack
<1>6. FramesAreOnTheirStack(i)'
  BY <1>3, <1>5 DEF FramesAreOnTheirStack, At
<1> QED
  BY <1>3, <1>4, <1>5, <1>6

LEMMA AddressIsNat == Address \subseteq Nat
  BY StacksAssumption DEF Address, Bounds

LEMMA BootInductive ==
  ASSUME IInv, NEW i \in Isolate, NEW e \in Native \cup Fiber, NEW n \in Native,
         NEW sp \in Address, Boot(i, e, n, sp)
  PROVE  IInv'
<1>1. /\ At(e, n, sp) /\ Begin(i, "boot", e, n, sp, "none") /\ sp \in Nat
      /\ scanStart' = [scanStart EXCEPT ![i] = NativeStack[n].hi]
      /\ limit' = [limit EXCEPT ![i] = SaturatingSub(sp, DefaultSize)]
      /\ UNCHANGED <<fibers, shifted, bounds, region, field>>
  BY AddressIsNat DEF Boot, EnterScan, machine
<1>2. /\ op' \in [Isolate -> Op \cup {Idle, Gone, Unborn}]
      /\ \A j \in Isolate \ {i} : op'[j] = op[j]
      /\ op'[i].kind = "boot"
      /\ FramesAreOnTheirStack(i)'
  BY <1>1, BeginPlaces DEF IInv, Kind
<1>3. SaturatingSub(sp, DefaultSize) \in Nat /\ NativeStack[n].hi \in Nat
  BY <1>1, StacksAssumption DEF SaturatingSub, Bounds
<1>4. TypeOK'
  BY <1>1, <1>2, <1>3 DEF IInv, TypeOK
<1>5. CachesHoldStacks'
  BY <1>1 DEF IInv, CachesHoldStacks, CachesAreApart
<1>6. Good(i)'
  BY <1>2 DEF Good, Running
<1>7. \A j \in Isolate \ {i} : Good(j)'
  BY <1>1, <1>2, OthersGood DEF IInv, TypeOK
<1> QED
  BY <1>4, <1>5, <1>6, <1>7 DEF IInv

LEMMA TeardownInductive ==
  ASSUME IInv, NEW i \in Isolate, NEW e \in Native \cup Fiber, NEW n \in Native,
         NEW sp \in Address, Teardown(i, e, n, sp)
  PROVE  IInv'
<1>1. /\ At(e, n, sp) /\ Begin(i, "teardown", e, n, sp, "none") /\ sp \in Nat
      /\ scanStart' = [scanStart EXCEPT ![i] = NativeStack[n].hi]
      /\ UNCHANGED <<fibers, shifted, bounds, region, field, limit>>
  BY AddressIsNat DEF Teardown, EnterScan, machine
<1>2. /\ op' \in [Isolate -> Op \cup {Idle, Gone, Unborn}]
      /\ \A j \in Isolate \ {i} : op'[j] = op[j]
      /\ op'[i].kind = "teardown"
      /\ FramesAreOnTheirStack(i)'
  BY <1>1, BeginPlaces DEF IInv, Kind
<1>3. NativeStack[n].hi \in Nat
  BY StacksAssumption DEF Bounds
<1>4. TypeOK'
  BY <1>1, <1>2, <1>3 DEF IInv, TypeOK
<1>5. CachesHoldStacks'
  BY <1>1 DEF IInv, CachesHoldStacks, CachesAreApart
<1>6. Good(i)'
  BY <1>2 DEF Good, Running
<1>7. \A j \in Isolate \ {i} : Good(j)'
  BY <1>1, <1>2, OthersGood DEF IInv, TypeOK
<1> QED
  BY <1>4, <1>5, <1>6, <1>7 DEF IInv

-----------------------------------------------------------------------------
(***************************************************************************)
(* The heart of it.  A stack pointer within the native bounds is on the    *)
(* native stack, and a cached region that holds the stack pointer of an    *)
(* operation is part of the stack the operation is on.                     *)
(***************************************************************************)
LEMMA StackOfExec ==
  ASSUME TypeOK, NEW e \in Native \cup Fiber, NEW n \in Native, NEW sp \in Nat, At(e, n, sp)
  PROVE  /\ Stack(e) \in Region \/ (e = n /\ Stack(e) = NativeStack[n])
         /\ Stack(e) \in Bounds
         /\ Stack(e).lo >= Guess /\ Stack(e) # Unknown
         /\ Stack(e).lo < sp /\ sp < Stack(e).hi
<1>1. Stack(e) \in Region \/ (e = n /\ Stack(e) = NativeStack[n])
  <2>1. CASE e \in Native
    BY <2>1 DEF At, Stack
  <2>2. CASE e \notin Native
    <3>1. e \in Fiber /\ Stack(e) = fibers[e] /\ fibers[e] # Unknown
      BY <2>2 DEF At, Stack
    <3> QED
      BY <3>1 DEF TypeOK
  <2> QED
    BY <2>1, <2>2
<1>2. Stack(e) \in Bounds /\ Stack(e).lo >= Guess
  BY <1>1, StacksAssumption
<1> QED
  BY <1>1, <1>2 DEF At, Bounds, Unknown

LEMMA CacheIsTrue ==
  ASSUME IInv, NEW e \in (Native \cup Fiber) \ shifted, NEW n \in Native, NEW sp \in Nat,
         At(e, n, sp), Cached(n, sp)
  PROVE  Within(region[n], Stack(e))
<1>1. Stack(e) \in Bounds /\ Stack(e).lo < sp /\ sp < Stack(e).hi
  BY StackOfExec DEF IInv
<1>2. region[n] \in Bounds /\ region[n] # Unknown
  BY DEF IInv, TypeOK, Cached, Unknown
<1>3. region[n].lo <= sp /\ sp < region[n].hi
  BY DEF Cached
<1>4. Apart(region[n], Stack(e))
  BY <1>2 DEF IInv, CachesHoldStacks, CachesAreApart, At, Stack
<1>5. ~Disjoint(region[n], Stack(e))
  BY <1>1, <1>2, <1>3 DEF Disjoint, Bounds
<1> QED
  BY <1>4, <1>5 DEF Apart

LEMMA NativeIsNative ==
  ASSUME TypeOK, NEW e \in Native \cup Fiber, NEW n \in Native, NEW sp \in Nat,
         At(e, n, sp), OnNative(NativeStack[n], sp)
  PROVE  e = n /\ Stack(e) = NativeStack[n]
<1>1. Stack(e) \in Bounds /\ Stack(e).lo < sp /\ sp < Stack(e).hi
  BY StackOfExec
<1>2. NativeStack[n] \in Bounds /\ NativeStack[n].lo < sp /\ sp <= NativeStack[n].hi
  BY StacksAssumption DEF OnNative
<1>3. ~Disjoint(NativeStack[n], Stack(e))
  BY <1>1, <1>2 DEF Disjoint, Bounds
<1>4. Stack(e) \notin Region
  BY <1>3, StacksAssumption
<1> QED
  BY <1>4, StackOfExec

(* An entry read for an operation is part of its stack. *)
LEMMA EntriesAreWithin ==
  ASSUME NEW e, NEW sp, Stack(e) \in Bounds, Stack(e).lo # 0, NEW r \in Entries(e, sp)
  PROVE  r \in Bounds /\ Within(r, Stack(e)) /\ r.lo # 0
<1> DEFINE stack == Stack(e)
<1>1. ASSUME r = stack
      PROVE  r \in Bounds /\ Within(r, stack) /\ r.lo # 0
  BY <1>1 DEF Bounds, Within
<1>2. ASSUME NEW c \in Split, stack.lo < c, r = [stack EXCEPT !.lo = c]
      PROVE  r \in Bounds /\ Within(r, stack) /\ r.lo # 0
  BY <1>2, StacksAssumption DEF Bounds, Within
<1>3. ASSUME NEW c \in Split, c < stack.hi, r = [stack EXCEPT !.hi = c]
      PROVE  r \in Bounds /\ Within(r, stack) /\ r.lo # 0
  BY <1>3, StacksAssumption DEF Bounds, Within
<1> QED
  BY <1>1, <1>2, <1>3, Zenon DEF Entries

(* What is part of a mapped stack is apart from every other. *)
LEMMA PartsAreApart ==
  ASSUME IInv, NEW e \in Native \cup Fiber, NEW n \in Native, NEW sp \in Nat, At(e, n, sp),
         NEW r \in Bounds, Within(r, Stack(e))
  PROVE  /\ \A m \in Native : Apart(r, NativeStack[m])
         /\ \A f \in Fiber \ shifted : fibers[f] # Unknown => Apart(r, fibers[f])
<1>1. Stack(e) \in Bounds
  BY StackOfExec DEF IInv
<1>2. ASSUME NEW s \in Bounds, s = Stack(e) \/ Disjoint(Stack(e), s) \/ Disjoint(s, Stack(e))
      PROVE  Apart(r, s)
  BY <1>1, <1>2 DEF Apart, Within, Disjoint, Bounds
<1>3. ASSUME NEW m \in Native PROVE Apart(r, NativeStack[m])
  <2>1. NativeStack[m] = Stack(e) \/ Disjoint(NativeStack[m], Stack(e))
    BY StackOfExec, StacksAssumption DEF IInv
  <2> QED
    BY <1>2, <2>1, StacksAssumption
<1>4. ASSUME NEW f \in Fiber, fibers[f] # Unknown PROVE Apart(r, fibers[f])
  <2>1. fibers[f] \in Region /\ fibers[f] \in Bounds
    BY <1>4, StacksAssumption DEF IInv, TypeOK
  <2>2. CASE e \in Native
    <3>1. Disjoint(Stack(e), fibers[f])
      BY <2>1, <2>2, StacksAssumption DEF Stack
    <3> QED
      BY <1>2, <2>1, <3>1
  <2>3. CASE e \notin Native
    <3>1. Stack(e) = fibers[e] /\ fibers[e] # Unknown /\ e \in Fiber
      BY <2>3 DEF Stack, At
    <3>2. f = e \/ Disjoint(fibers[f], fibers[e])
      BY <1>4, <3>1 DEF IInv, CachesHoldStacks
    <3> QED
      BY <1>2, <2>1, <3>1, <3>2
  <2> QED
    BY <2>2, <2>3
<1> QED
  BY <1>3, <1>4

LEMMA RunInductive ==
  ASSUME IInv, NEW i \in Isolate, NEW e \in Native \cup Fiber, NEW n \in Native,
         NEW sp \in Address, Run(i, e, n, sp)
  PROVE  IInv'
<1>1. At(e, n, sp) /\ sp \in Nat /\ UNCHANGED <<fibers, shifted, field>>
  BY AddressIsNat DEF Run
<1>2. PICK answers \in BOOLEAN, entry \in CachedRegion(n, e, sp) :
        LET b == CachedBounds(n, answers)
            native == OnNative(b, sp)
            r == IF native THEN Unknown ELSE entry
            new == IF native THEN b.lo + NativeGuard
                   ELSE IF r # Unknown THEN FiberLimit(r, sp)
                   ELSE SaturatingSub(sp, Guess)
            anchor == IF native THEN "native" ELSE IF r # Unknown THEN "region" ELSE "none"
        IN /\ bounds' = [bounds EXCEPT ![n] = b]
           /\ region' = IF r # Unknown THEN [region EXCEPT ![n] = r] ELSE region
           /\ limit' = [limit EXCEPT ![i] = IF new = 0 THEN @ ELSE new]
           /\ scanStart' = [scanStart EXCEPT ![i] =
                IF ~native /\ new # 0 /\ field[i] THEN sp + 1 ELSE NativeStack[n].hi]
           /\ Begin(i, "run", e, n, sp, anchor)
  BY DEF Run
<1> DEFINE b == CachedBounds(n, answers)
           native == OnNative(b, sp)
           r == IF native THEN Unknown ELSE entry
           new == IF native THEN b.lo + NativeGuard
                  ELSE IF r # Unknown THEN FiberLimit(r, sp)
                  ELSE SaturatingSub(sp, Guess)
           anchor == IF native THEN "native" ELSE IF r # Unknown THEN "region" ELSE "none"
           start == IF ~native /\ new # 0 /\ field[i] THEN sp + 1 ELSE NativeStack[n].hi
<1>3. /\ bounds' = [bounds EXCEPT ![n] = b]
      /\ region' = IF r # Unknown THEN [region EXCEPT ![n] = r] ELSE region
      /\ limit' = [limit EXCEPT ![i] = IF new = 0 THEN limit[i] ELSE new]
      /\ scanStart' = [scanStart EXCEPT ![i] = start]
      /\ Begin(i, "run", e, n, sp, anchor)
  BY <1>2
<1>4. b = Unknown \/ b = NativeStack[n]
  BY DEF CachedBounds, IInv, CachesHoldStacks
<1>5. b \in Bounds /\ NativeStack[n] \in Bounds
  BY <1>4, StacksAssumption DEF Bounds, Unknown
<1>6. native => e = n /\ b = NativeStack[n] /\ Stack(e) = b
  <2>1. native => b = NativeStack[n]
    BY <1>4 DEF OnNative, Unknown
  <2> QED
    BY <1>1, <2>1, NativeIsNative DEF IInv
<1>7. /\ Stack(e) \in Bounds
      /\ Stack(e).lo >= Guess /\ Stack(e) # Unknown
      /\ Stack(e).lo < sp /\ sp < Stack(e).hi
  BY <1>1, StackOfExec DEF IInv
<1>8. r # Unknown =>
        /\ r \in Bounds /\ r.lo # 0
        /\ (Cached(n, sp) /\ r = region[n]) \/ Within(r, Stack(e))
        /\ e \notin shifted => Within(r, Stack(e))
  <2>1. ASSUME r # Unknown, Cached(n, sp)
        PROVE  /\ r = region[n] /\ r \in Bounds /\ r.lo # 0
               /\ e \notin shifted => Within(r, Stack(e))
    BY <1>1, <2>1, CacheIsTrue DEF CachedRegion, Cached, IInv, TypeOK
  <2>2. ASSUME r # Unknown, ~Cached(n, sp)
        PROVE  r \in Bounds /\ Within(r, Stack(e)) /\ r.lo # 0
    <3>1. r \in Entries(e, sp)
      BY <2>2 DEF CachedRegion
    <3>2. Stack(e).lo # 0
      BY <1>7, StacksAssumption DEF Bounds
    <3> QED
      BY <1>7, <3>1, <3>2, EntriesAreWithin
  <2> QED
    BY <2>1, <2>2
<1>9. /\ SaturatingSub(sp, Guess) \in Nat \ {0}
      /\ r # Unknown => FiberLimit(r, sp) \in Nat \ {0} /\ FiberLimit(r, sp) < sp
  <2>1. sp > Guess /\ sp > Clamp
    BY <1>1, <1>7, StacksAssumption DEF Bounds
  <2>2. SaturatingSub(sp, Guess) \in Nat \ {0}
    BY <1>1, <2>1, StacksAssumption DEF SaturatingSub
  <2>3. SaturatingSub(sp, Clamp) \in Nat \ {0} /\ SaturatingSub(sp, Clamp) < sp
    BY <1>1, <2>1, StacksAssumption DEF SaturatingSub
  <2>4. ASSUME r # Unknown PROVE FiberLimit(r, sp) \in Nat \ {0} /\ FiberLimit(r, sp) < sp
    <3>1. r.lo + FiberReserve \in Nat \ {0}
      BY <1>8, <2>4, StacksAssumption DEF Bounds
    <3> QED
      BY <1>1, <2>3, <3>1 DEF FiberLimit, Min
  <2> QED
    BY <2>2, <2>4
<1>10. new \in Nat
  BY <1>5, <1>9, StacksAssumption DEF Bounds
<1>11. /\ op' \in [Isolate -> Op \cup {Idle, Gone, Unborn}]
       /\ \A j \in Isolate \ {i} : op'[j] = op[j]
       /\ op'[i].kind = "run" /\ op'[i].exec = e /\ op'[i].anchor = anchor
       /\ Entry(i)' = sp
       /\ Bottom(i)' = Stack(e).lo /\ Top(i)' = Stack(e).hi
       /\ FramesAreOnTheirStack(i)'
  BY <1>1, <1>3, BeginPlaces DEF IInv, Kind
<1>12. TypeOK'
  <2>1. start \in Nat
    BY <1>1, <1>5 DEF Bounds
  <2>2. limit' \in [Isolate -> Nat] /\ scanStart' \in [Isolate -> Nat]
    BY <1>3, <1>10, <2>1 DEF IInv, TypeOK
  <2>3. bounds' \in [Native -> Bounds] /\ region' \in [Native -> Bounds]
    BY <1>3, <1>5, <1>8 DEF IInv, TypeOK
  <2> QED
    BY <1>1, <1>11, <2>2, <2>3 DEF IInv, TypeOK
<1>13. CachesHoldStacks'
  <2>1. \A m \in Native : bounds'[m] = Unknown \/ bounds'[m] = NativeStack[m]
    BY <1>3, <1>4 DEF IInv, TypeOK, CachesHoldStacks
  <2>2. \A m \in Native : region'[m] # region[m] => region'[m] = r /\ r # Unknown /\ m = n
    BY <1>3 DEF IInv, TypeOK
  <2>3. r # Unknown /\ r # region[n] =>
          /\ \A m \in Native : Apart(r, NativeStack[m])
          /\ \A f \in Fiber \ shifted : fibers[f] # Unknown => Apart(r, fibers[f])
    BY <1>1, <1>8, PartsAreApart
  <2>4. CachesAreApart'
    BY <1>1, <2>2, <2>3 DEF IInv, CachesHoldStacks, CachesAreApart
  <2> QED
    BY <1>1, <2>1, <2>4 DEF IInv, CachesHoldStacks
<1>14. ASSUME anchor # "none", e \notin shifted, Room(i)'
       PROVE  Bottom(i)' <= limit'[i] /\ limit'[i] < Entry(i)'
  <2>1. limit'[i] = IF new = 0 THEN limit[i] ELSE new
    BY <1>3 DEF IInv, TypeOK
  <2>2. IF e \in Native THEN sp > Stack(e).lo + NativeGuard ELSE sp >= Stack(e).lo + Clamp
    BY <1>11, <1>14 DEF Room
  <2>3. sp >= Stack(e).lo + Clamp
    BY <1>1, <1>7, <2>2, StacksAssumption DEF Bounds
  <2>4. CASE native
    <3>1. new = Stack(e).lo + NativeGuard /\ e \in Native
      BY <1>6, <2>4
    <3>2. new # 0 /\ Stack(e).lo <= new /\ new < sp
      BY <1>1, <1>7, <2>2, <3>1, StacksAssumption DEF Bounds
    <3> QED
      BY <1>11, <2>1, <3>2
  <2>5. CASE ~native
    <3>1. new = FiberLimit(r, sp) /\ r \in Bounds /\ Within(r, Stack(e))
      BY <1>8, <1>14, <2>5
    <3>2. Stack(e).lo <= r.lo + FiberReserve
      BY <1>7, <3>1, StacksAssumption DEF Within, Bounds
    <3>3. Stack(e).lo <= SaturatingSub(sp, Clamp)
      BY <1>1, <1>7, <2>3, StacksAssumption DEF SaturatingSub, Bounds
    <3>4. new # 0 /\ Stack(e).lo <= new /\ new < sp
      BY <1>9, <1>14, <2>5, <3>1, <3>2, <3>3 DEF FiberLimit, Min
    <3> QED
      BY <1>11, <2>1, <3>4
  <2> QED
    BY <2>4, <2>5
<1>15. ASSUME field'[i] \/ e \in Native
       PROVE  Entry(i)' < scanStart'[i] /\ scanStart'[i] <= Top(i)'
  <2>1. scanStart'[i] = start
    BY <1>3 DEF IInv, TypeOK
  <2>2. sp + 1 <= Stack(e).hi
    BY <1>1, <1>7 DEF Bounds
  <2>3. e \in Native => e = n /\ Stack(e) = NativeStack[n]
    BY <1>1 DEF At, Stack
  <2>4. CASE e \in Native
    BY <1>1, <1>7, <1>11, <2>1, <2>2, <2>3, <2>4 DEF Bounds
  <2>5. CASE e \notin Native
    <3>1. ~native /\ field[i]
      BY <1>1, <1>6, <1>15, <2>5
    <3>2. new # 0
      BY <1>9, <3>1
    <3> QED
      BY <1>1, <1>11, <2>1, <2>2, <3>1, <3>2
  <2> QED
    BY <2>4, <2>5
<1>16. Good(i)'
  BY <1>1, <1>11, <1>14, <1>15 DEF Good, Fits
<1>17. \A j \in Isolate \ {i} : Good(j)'
  BY <1>1, <1>3, <1>11, OthersGood DEF IInv, TypeOK
<1> QED
  BY <1>12, <1>13, <1>16, <1>17 DEF IInv

-----------------------------------------------------------------------------
LEMMA Stutter ==
  ASSUME IInv, UNCHANGED vars
  PROVE  IInv'
  BY DEF IInv, TypeOK, CachesHoldStacks, CachesAreApart, Good, FramesAreOnTheirStack, Fits, Room, Active,
     Running, Bottom, Top, Entry, Stack, vars, machine

LEMMA Step ==
  ASSUME IInv, [Next]_vars
  PROVE  IInv'
  BY MapInductive, UnmapInductive, NestInductive, ReturnInductive, BootInductive,
     BootedInductive, TeardownInductive, TornDownInductive, RunInductive, Stutter DEF Next

(***************************************************************************)
(* The inductive invariant holds: what the caches remember is apart from   *)
(* the stacks there are, and each operation is where its records say.      *)
(***************************************************************************)
THEOREM Invariance == Spec => []IInv
  BY Start, Step, PTL DEF Spec

(***************************************************************************)
(* The state of stack.rs stays well typed; addresses never underflow.      *)
(***************************************************************************)
THEOREM TypeCorrect == Spec => []TypeOK
<1>1. IInv => TypeOK
  BY DEF IInv
<1> QED
  BY <1>1, Invariance, PTL

(***************************************************************************)
(* Every operation that has room, on whichever stack and native thread,    *)
(* runs with a limit between its entry and the bottom of its own stack,    *)
(* unless its fiber is mapped across a stack that is gone but remembered.  *)
(***************************************************************************)
THEOREM LimitsFit == Spec => []LimitFitsItsStack
<1>1. IInv => LimitFitsItsStack
  BY DEF IInv, Good, Fits, LimitFitsItsStack
<1> QED
  BY <1>1, Invariance, PTL

(***************************************************************************)
(* A collection during an operation never scans beyond the top of the      *)
(* stack the operation is on.                                              *)
(***************************************************************************)
THEOREM ScansStayMapped == Spec => []ScanStaysMapped
<1>1. ASSUME IInv, NEW i \in Isolate, Running(i) PROVE Innermost(i) <= Entry(i)
  <2>1. Active(i) /\ op[i] \in Op
    BY <1>1, ActiveIsOp DEF Running, Active, Kind, IInv
  <2>2. /\ op[i].sps \in Seq(Nat) /\ op[i].sps # <<>>
        /\ \A k \in DOMAIN op[i].sps : op[i].sps[k] <= Entry(i)
    BY <1>1, <2>1 DEF IInv, Good, FramesAreOnTheirStack, Op
  <2>3. Len(op[i].sps) \in DOMAIN op[i].sps
    BY <2>2
  <2> QED
    BY <2>2, <2>3 DEF Innermost
<1>2. IInv => ScanStaysMapped
  BY <1>1 DEF IInv, Good, Fits, ScanStaysMapped
<1> QED
  BY <1>2, Invariance, PTL
=============================================================================
