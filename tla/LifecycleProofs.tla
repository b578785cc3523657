-------------------------- MODULE LifecycleProofs --------------------------
(***************************************************************************)
(* What keeps isolates, operations, watchdogs and threads apart, for any   *)
(* number of threads and isolates, and with interrupts that leave an       *)
(* operation before its depth is counted down; and that to their users     *)
(* isolates are what Isolates.tla says.                                    *)
(***************************************************************************)
EXTENDS Lifecycle, FiniteSetTheorems, SequenceTheorems, TLAPS

(* The operations of isolate i on a stack. *)
Of(s, i) == {k \in DOMAIN s : s[k].iso = i}

(* An operation is of an isolate that somebody holds, on its owner's stack. *)
FramesBelong ==
    \A t \in Thread : \A k \in DOMAIN frames[t] :
        LET i == frames[t][k].iso IN i \in held /\ owner[i] = t /\ i \in registry

(* Interrupts leave depth too high, nothing leaves it too low. *)
DepthCovers ==
    \A t \in Thread, i \in Isolate : Cardinality(Of(frames[t], i)) <= depth[i]

(* One teardown at a time, of an isolate that is still registered. *)
TeardownsAreExclusive ==
    \A t \in Thread : teardown[t] # None =>
        /\ teardown[t].iso \in disposed /\ teardown[t].iso \in registry
        /\ \A u \in Thread : teardown[u] # None => u = t
        /\ \A u \in Thread : \A k \in DOMAIN frames[u] : frames[u][k].iso # teardown[t].iso

(* A thread whose isolate is held is the one that created it. *)
OwnersLive == \A i \in held : birth[i] = life[owner[i]]

LInv ==
    /\ TypeOK
    /\ FramesBelong
    /\ DepthCovers
    /\ TeardownsAreExclusive
    /\ OwnersLive
    /\ WatchdogGoesFirst
    /\ LeaksAreCounted

-----------------------------------------------------------------------------
(* Stacks *)

LEMMA OfIsFinite ==
  ASSUME NEW s \in Seq(Frame), NEW i
  PROVE  IsFiniteSet(Of(s, i)) /\ Cardinality(Of(s, i)) \in Nat
<1>1. Len(s) \in Nat /\ DOMAIN s = 1..Len(s)
  OBVIOUS
<1>2. IsFiniteSet(1..Len(s))
  BY <1>1, FS_Interval
<1>3. Of(s, i) \in SUBSET (1..Len(s))
  BY <1>1 DEF Of
<1> QED
  BY <1>2, <1>3, FS_Subset, FS_CardinalityType

LEMMA Pushed ==
  ASSUME NEW s \in Seq(Frame), NEW f \in Frame
  PROVE  /\ Append(s, f) \in Seq(Frame)
         /\ DOMAIN Append(s, f) = DOMAIN s \cup {Len(s) + 1}
         /\ Len(s) + 1 \notin DOMAIN s
         /\ \A k \in DOMAIN s : Append(s, f)[k] = s[k]
         /\ Append(s, f)[Len(s) + 1] = f
         /\ \A i : Cardinality(Of(Append(s, f), i)) <=
                       Cardinality(Of(s, i)) + (IF f.iso = i THEN 1 ELSE 0)
<1> DEFINE r == Append(s, f)
<1>1. /\ r \in Seq(Frame)
      /\ Len(r) = Len(s) + 1 /\ Len(s) \in Nat
      /\ \A k \in 1..Len(s) : r[k] = s[k]
      /\ r[Len(s) + 1] = f
  OBVIOUS
<1>2. DOMAIN s = 1..Len(s) /\ DOMAIN r = 1..(Len(s) + 1)
  BY <1>1
<1> HIDE DEF r
<1>3. DOMAIN r = DOMAIN s \cup {Len(s) + 1} /\ Len(s) + 1 \notin DOMAIN s
  BY <1>1, <1>2
<1>4. ASSUME NEW i
      PROVE  Cardinality(Of(r, i)) <= Cardinality(Of(s, i)) + (IF f.iso = i THEN 1 ELSE 0)
  <2>1. CASE f.iso = i
    <3>1. Of(r, i) = Of(s, i) \cup {Len(s) + 1}
      BY <2>1, <1>1, <1>2, <1>3 DEF Of
    <3>2. Len(s) + 1 \notin Of(s, i)
      BY <1>3 DEF Of
    <3>3. Cardinality(Of(r, i)) = Cardinality(Of(s, i)) + 1
      BY <3>1, <3>2, OfIsFinite, FS_AddElement
    <3> QED
      BY <2>1, <3>3, OfIsFinite
  <2>2. CASE f.iso # i
    <3>1. Of(r, i) = Of(s, i)
      BY <2>2, <1>1, <1>2, <1>3 DEF Of
    <3> QED
      BY <2>2, <3>1, OfIsFinite
  <2> QED
    BY <2>1, <2>2
<1> QED
  BY <1>1, <1>2, <1>3, <1>4 DEF r

LEMMA Shortened ==
  ASSUME NEW T, NEW s \in Seq(T), NEW m \in 0..Len(s)
  PROVE  /\ SubSeq(s, 1, m) \in Seq(T)
         /\ DOMAIN SubSeq(s, 1, m) = 1..m
         /\ \A k \in 1..m : SubSeq(s, 1, m)[k] = s[k]
  OBVIOUS

LEMMA Popped ==
  ASSUME NEW s \in Seq(Frame), s # <<>>
  PROVE  /\ Front(s) \in Seq(Frame)
         /\ Last(s) \in Frame /\ Len(s) \in DOMAIN s
         /\ DOMAIN Front(s) \subseteq DOMAIN s
         /\ \A k \in DOMAIN Front(s) : Front(s)[k] = s[k]
         /\ \A i : Cardinality(Of(Front(s), i)) <= Cardinality(Of(s, i))
         /\ Cardinality(Of(s, Last(s).iso)) =
                Cardinality(Of(Front(s), Last(s).iso)) + 1
<1> DEFINE r == Front(s)
<1>1. Len(s) \in Nat /\ Len(s) > 0 /\ Len(s) - 1 \in 0..Len(s) /\ DOMAIN s = 1..Len(s)
  OBVIOUS
<1>2. /\ r \in Seq(Frame)
      /\ DOMAIN r = 1..(Len(s) - 1)
      /\ \A k \in 1..(Len(s) - 1) : r[k] = s[k]
  BY <1>1, Shortened DEF Front
<1> HIDE DEF r
<1>3. Len(s) \in DOMAIN s /\ DOMAIN s = DOMAIN r \cup {Len(s)} /\ Len(s) \notin DOMAIN r
  BY <1>1, <1>2
<1>4. Last(s) \in Frame
  BY <1>3 DEF Last
<1>5. ASSUME NEW i
      PROVE  Cardinality(Of(r, i)) <= Cardinality(Of(s, i))
  <2>1. Of(r, i) \in SUBSET Of(s, i)
    BY <1>1, <1>2, <1>3 DEF Of
  <2> QED
    BY <2>1, OfIsFinite, FS_Subset
<1>6. Cardinality(Of(s, Last(s).iso)) = Cardinality(Of(r, Last(s).iso)) + 1
  <2>1. Of(s, Last(s).iso) = Of(r, Last(s).iso) \cup {Len(s)}
    BY <1>1, <1>2, <1>3 DEF Of, Last
  <2>2. Len(s) \notin Of(r, Last(s).iso)
    BY <1>3 DEF Of
  <2> QED
    BY <2>1, <2>2, <1>2, OfIsFinite, FS_AddElement
<1> QED
  BY <1>1, <1>2, <1>3, <1>4, <1>5, <1>6 DEF r

(* r is s with the mark of its top frame set to b. *)
MarksTop(s, b, r) == s # <<>> /\ r = [s EXCEPT ![Len(s)].inRuby = b]

LEMMA Marked ==
  ASSUME NEW s \in Seq(Frame), NEW b \in BOOLEAN, NEW r, MarksTop(s, b, r)
  PROVE  /\ r \in Seq(Frame)
         /\ DOMAIN r = DOMAIN s
         /\ \A k \in DOMAIN s : r[k].iso = s[k].iso /\ r[k].enters = s[k].enters
         /\ \A i : Of(r, i) = Of(s, i)
<1> s # <<>> /\ r = [s EXCEPT ![Len(s)].inRuby = b]
  BY DEF MarksTop
<1>1. Len(s) \in DOMAIN s /\ Len(s) \in Nat /\ DOMAIN s = 1..Len(s)
  OBVIOUS
<1>2. DOMAIN r = DOMAIN s
  BY <1>1
<1>3. \A k \in DOMAIN s : /\ r[k] \in Frame
                         /\ r[k].iso = s[k].iso /\ r[k].enters = s[k].enters
  <2> DEFINE top == [s[Len(s)] EXCEPT !.inRuby = b]
  <2>1. top \in Frame /\ top.iso = s[Len(s)].iso /\ top.enters = s[Len(s)].enters
    <3>1. s[Len(s)] \in Frame
      BY <1>1
    <3> QED
      BY <3>1 DEF Frame
  <2>2. r = [s EXCEPT ![Len(s)] = top]
    BY Zenon
  <2> HIDE DEF top
  <2> QED
    BY <2>1, <2>2, <1>1
<1>4. r \in Seq(Frame)
  <2>1. r = [k \in 1..Len(s) |-> r[k]]
    BY <1>1, <1>2
  <2> QED
    BY <2>1, <1>1, <1>3
<1> QED
  BY <1>2, <1>3, <1>4 DEF Of

LEMMA EntriesPop ==
  ASSUME NEW s \in Seq(Isolate)
  PROVE  Front(s) \in Seq(Isolate)
<1>1. CASE s = <<>>
  BY <1>1 DEF Front
<1>2. CASE s # <<>>
  <2>1. Len(s) - 1 \in 0..Len(s)
    BY <1>2
  <2> QED
    BY <2>1, Shortened DEF Front
<1> QED
  BY <1>1, <1>2

-----------------------------------------------------------------------------
LEMMA InitLInv == Init => LInv
<1> SUFFICES ASSUME Init PROVE LInv
  OBVIOUS
<1>1. TypeOK
  <2>1. IsFiniteSet(Isolate) /\ Cardinality(Isolate) \in Nat
    BY LifecycleAssumption, FS_CardinalityType
  <2> QED
    BY <2>1, LifecycleAssumption DEF Init, TypeOK
<1>2. FramesBelong /\ TeardownsAreExclusive /\ OwnersLive
  BY DEF Init, FramesBelong, TeardownsAreExclusive, OwnersLive
<1>3. DepthCovers
  <2>1. \A t \in Thread, i \in Isolate : Of(frames[t], i) = {} /\ depth[i] = 0
    BY DEF Init, Of
  <2>2. Cardinality({}) = 0
    BY FS_EmptySet
  <2> QED
    BY <2>1, <2>2 DEF DepthCovers
<1>4. WatchdogGoesFirst
  <2>1. \A i \in Isolate : [iso |-> i, phase |-> "drop"] \in Teardown
    BY DEF Teardown
  <2> QED
    BY <2>1, LifecycleAssumption DEF Init, WatchdogGoesFirst
<1>5. LeaksAreCounted
  <2>1. {i \in Isolate : owner[i] # None /\ i \notin held /\ i \notin disposed} = {}
    BY DEF Init
  <2> QED
    BY <2>1, FS_EmptySet DEF Init, LeaksAreCounted, Lost
<1> QED
  BY <1>1, <1>2, <1>3, <1>4, <1>5 DEF LInv

-----------------------------------------------------------------------------
(* Each action keeps the invariant *)

LEMMA LostIsFinite ==
  ASSUME NEW S, S \subseteq Isolate
  PROVE  IsFiniteSet(S) /\ Cardinality(S) \in Nat /\ Cardinality(S) <= Cardinality(Isolate)
         /\ Cardinality(Isolate) \in Nat
  BY LifecycleAssumption, FS_Subset, FS_CardinalityType

(* What every frame says of its isolate. *)
LEMMA FrameFacts ==
  ASSUME LInv, NEW t \in Thread, NEW k \in DOMAIN frames[t]
  PROVE  /\ frames[t][k].iso \in Isolate /\ frames[t][k].iso \in held
         /\ owner[frames[t][k].iso] = t /\ frames[t][k].iso \in registry
         /\ depth[frames[t][k].iso] > 0
<1> DEFINE i == frames[t][k].iso
<1>1. frames[t] \in Seq(Frame)
  BY DEF LInv, TypeOK
<1>2. frames[t][k] \in Frame
  BY <1>1
<1>3. i \in Isolate
  BY <1>2 DEF Frame
<1>4. Of(frames[t], i) # {}
  BY DEF Of
<1>5. Cardinality(Of(frames[t], i)) \in Nat /\ Cardinality(Of(frames[t], i)) # 0
  BY <1>1, <1>4, OfIsFinite, FS_EmptySet
<1>6. depth[i] \in Nat /\ Cardinality(Of(frames[t], i)) <= depth[i]
  BY <1>3, LifecycleAssumption DEF LInv, TypeOK, DepthCovers
<1> QED
  BY <1>3, <1>5, <1>6 DEF LInv, FramesBelong

LEMMA ReuseAddressInductive ==
  ASSUME LInv, NEW t \in Thread, ReuseAddress(t)
  PROVE  LInv'
<1>1. TypeOK'
  <2>1. life' \in [Thread -> 1..MaxLives]
    BY LifecycleAssumption DEF LInv, TypeOK, ReuseAddress
  <2> QED
    BY <2>1 DEF LInv, TypeOK, ReuseAddress
<1>2. OwnersLive'
  <2>1. \A i \in held : owner[i] # t /\ owner[i] \in Thread
    BY DEF LInv, TypeOK, ReuseAddress, RootedThreads
  <2> QED
    BY <2>1 DEF LInv, TypeOK, ReuseAddress, OwnersLive
<1>3. FramesBelong' /\ DepthCovers' /\ TeardownsAreExclusive'
  BY DEF LInv, ReuseAddress, FramesBelong, DepthCovers, TeardownsAreExclusive
<1>4. WatchdogGoesFirst' /\ LeaksAreCounted'
  BY DEF LInv, ReuseAddress, WatchdogGoesFirst, LeaksAreCounted, Lost
<1> QED
  BY <1>1, <1>2, <1>3, <1>4 DEF LInv

LEMMA NewInductive ==
  ASSUME LInv, NEW t \in Thread, NEW i \in Isolate, New(t, i)
  PROVE  LInv'
<1>1. TypeOK'
  BY LifecycleAssumption DEF LInv, TypeOK, New, threads
<1>2. /\ i \notin held /\ i \notin registry /\ i \notin disposed
      /\ \A u \in Thread : teardown[u] = None
      /\ \A j \in Isolate : j # i => owner'[j] = owner[j] /\ birth'[j] = birth[j]
      /\ owner'[i] = t /\ birth'[i] = life[t] /\ t # None
  BY LifecycleAssumption DEF LInv, TypeOK, New, RunsRuby, GvlIsFree
<1>3. FramesBelong'
  <2>1. \A u \in Thread : \A k \in DOMAIN frames[u] :
          frames[u][k].iso # i /\ frames[u][k].iso \in Isolate
    BY <1>2, FrameFacts
  <2> QED
    BY <1>2, <2>1 DEF LInv, New, threads, FramesBelong
<1>4. DepthCovers' /\ TeardownsAreExclusive'
  BY <1>2 DEF LInv, New, threads, DepthCovers, TeardownsAreExclusive
<1>5. OwnersLive'
  BY <1>2 DEF LInv, TypeOK, New, threads, OwnersLive
<1>6. WatchdogGoesFirst'
  <2>1. \A j \in Isolate : j # i => watchdog'[j] = watchdog[j]
    BY DEF LInv, TypeOK, New
  <2>2. i \in registry' /\ registry' = registry \cup {i} /\ teardown' = teardown
    BY DEF New
  <2>3. \A j \in Isolate, u \in Thread : teardown'[u] # [iso |-> j, phase |-> "drop"]
    <3>1. \A j \in Isolate : [iso |-> j, phase |-> "drop"] # None
      BY LifecycleAssumption DEF Teardown
    <3> QED
      BY <3>1, <2>2, <1>2
  <2> QED
    BY <1>2, <2>1, <2>2, <2>3 DEF LInv, WatchdogGoesFirst
<1>7. LeaksAreCounted'
  <2>1. Lost' = Lost
    BY <1>2 DEF LInv, TypeOK, New, Lost
  <2>2. leaked = Cardinality(Lost) /\ leaked' = leaked
    BY DEF LInv, New, LeaksAreCounted, Lost
  <2>3. \A j \in Isolate : owner'[j] # None /\ j \notin disposed' => j \in registry'
    BY <1>2 DEF LInv, New, LeaksAreCounted
  <2> QED
    BY <2>1, <2>2, <2>3 DEF LeaksAreCounted, Lost
<1> QED
  BY <1>1, <1>3, <1>4, <1>5, <1>6, <1>7 DEF LInv

-----------------------------------------------------------------------------
(* Operations *)

LEMMA BeginOperationInductive ==
  ASSUME LInv, NEW t \in Thread, NEW i \in Isolate, BeginOperation(t, i)
  PROVE  LInv'
<1> DEFINE f == [iso |-> i, enters |-> depth[i] = 0, inRuby |-> FALSE]
           s == frames[t]
<1>1. /\ s \in Seq(Frame) /\ f \in Frame /\ f.iso = i
      /\ frames' = [frames EXCEPT ![t] = Append(s, f)]
      /\ depth' = [depth EXCEPT ![i] = @ + 1]
      /\ depth[i] \in Nat /\ depth[i] < MaxDepth
      /\ \A u \in Thread : teardown[u] = None
      /\ i \in held /\ owner[i] = t /\ i \notin disposed
  BY LifecycleAssumption
     DEF LInv, TypeOK, BeginOperation, OwnerAndLive, RunsRuby, GvlIsFree, Frame
<1>2. UNCHANGED <<owner, birth, life, registry, disposed, held, watchdog, leaked, teardown>>
  BY DEF BeginOperation
<1> HIDE DEF f
<1>3. /\ frames'[t] = Append(s, f)
      /\ \A u \in Thread : u # t => frames'[u] = frames[u]
  BY <1>1 DEF LInv, TypeOK
<1>4. i \in registry
  BY <1>1, LifecycleAssumption DEF LInv, LeaksAreCounted
<1>5. TypeOK'
  <2>1. frames' \in [Thread -> Seq(Frame)]
    BY <1>1, Pushed DEF LInv, TypeOK
  <2>2. depth' \in [Isolate -> 0..MaxDepth]
    BY <1>1, LifecycleAssumption DEF LInv, TypeOK
  <2>3. entered' \in [Thread -> Seq(Isolate)]
    BY DEF LInv, TypeOK, BeginOperation
  <2> QED
    BY <1>2, <2>1, <2>2, <2>3 DEF LInv, TypeOK
<1>6. FramesBelong'
  <2>1. ASSUME NEW u \in Thread, NEW k \in DOMAIN frames'[u]
        PROVE  /\ frames'[u][k].iso \in held /\ owner[frames'[u][k].iso] = u
               /\ frames'[u][k].iso \in registry
    <3>1. CASE u = t /\ k = Len(s) + 1
      BY <3>1, <1>1, <1>3, <1>4, Pushed
    <3>2. CASE k \in DOMAIN frames[u] /\ frames'[u][k] = frames[u][k]
      BY <3>2, FrameFacts
    <3> QED
      BY <3>1, <3>2, <1>1, <1>3, Pushed
  <2> QED
    BY <2>1, <1>2 DEF FramesBelong
<1>7. DepthCovers'
  <2>1. ASSUME NEW u \in Thread, NEW j \in Isolate
        PROVE  Cardinality(Of(frames'[u], j)) <= depth'[j]
    <3>1. /\ Cardinality(Of(frames[u], j)) \in Nat /\ depth[j] \in Nat
          /\ Cardinality(Of(frames[u], j)) <= depth[j]
      BY OfIsFinite, LifecycleAssumption DEF LInv, TypeOK, DepthCovers
    <3>2. depth'[j] = depth[j] + (IF i = j THEN 1 ELSE 0)
      BY <1>1, <3>1 DEF LInv, TypeOK
    <3>3. CASE u = t
      <4>1. Cardinality(Of(frames'[t], j)) <= Cardinality(Of(s, j)) + (IF i = j THEN 1 ELSE 0)
        BY <1>1, <1>3, Pushed
      <4>2. Cardinality(Of(frames'[t], j)) \in Nat
        BY <1>1, <1>3, Pushed, OfIsFinite
      <4> QED
        BY <3>1, <3>2, <3>3, <4>1, <4>2
    <3>4. CASE u # t
      BY <3>1, <3>2, <3>4, <1>3
    <3> QED
      BY <3>3, <3>4
  <2> QED
    BY <2>1 DEF DepthCovers
<1>8. TeardownsAreExclusive'
  BY <1>1, <1>2 DEF TeardownsAreExclusive
<1>9. OwnersLive' /\ WatchdogGoesFirst' /\ LeaksAreCounted'
  BY <1>2 DEF LInv, OwnersLive, WatchdogGoesFirst, LeaksAreCounted, Lost
<1> QED
  BY <1>5, <1>6, <1>7, <1>8, <1>9 DEF LInv

(* The top frame goes between Ruby and V8, and nothing else moves. *)
LEMMA MarkInductive ==
  ASSUME LInv, NEW t \in Thread, NEW b \in BOOLEAN, NEW r, MarksTop(frames[t], b, r),
         frames' = [frames EXCEPT ![t] = r],
         UNCHANGED <<owner, birth, life, registry, disposed, depth, held, watchdog,
                     leaked, entered, teardown>>
  PROVE  LInv'
<1> DEFINE s == frames[t]
<1>1. s \in Seq(Frame)
  BY DEF LInv, TypeOK
<1>2. frames' = [frames EXCEPT ![t] = r]
  OBVIOUS
<1>3. /\ r \in Seq(Frame)
      /\ DOMAIN r = DOMAIN s
      /\ \A k \in DOMAIN s : r[k].iso = s[k].iso
      /\ \A i : Of(r, i) = Of(s, i)
  BY <1>1, Marked
<1>4. /\ frames' \in [Thread -> Seq(Frame)]
      /\ frames'[t] = r
      /\ \A u \in Thread : u # t => frames'[u] = frames[u]
  BY <1>2, <1>3 DEF LInv, TypeOK
<1>5. \A u \in Thread :
        /\ DOMAIN frames'[u] = DOMAIN frames[u]
        /\ \A k \in DOMAIN frames[u] : frames'[u][k].iso = frames[u][k].iso
        /\ \A i : Of(frames'[u], i) = Of(frames[u], i)
  BY <1>3, <1>4
<1>6. TypeOK'
  BY <1>4 DEF LInv, TypeOK
<1>7. FramesBelong' /\ DepthCovers' /\ TeardownsAreExclusive'
  <2>1. FramesBelong'
    BY <1>5 DEF LInv, FramesBelong
  <2>2. DepthCovers'
    BY <1>5 DEF LInv, DepthCovers
  <2>3. TeardownsAreExclusive'
    BY <1>5 DEF LInv, TeardownsAreExclusive
  <2> QED
    BY <2>1, <2>2, <2>3
<1>8. OwnersLive' /\ WatchdogGoesFirst' /\ LeaksAreCounted'
  BY DEF LInv, OwnersLive, WatchdogGoesFirst, LeaksAreCounted, Lost
<1> QED
  BY <1>6, <1>7, <1>8 DEF LInv

LEMMA CallsInductive ==
  ASSUME LInv, NEW t \in Thread, CallRuby(t) \/ RubyReturns(t)
  PROVE  LInv'
<1>1. CASE CallRuby(t)
  <2> DEFINE r == [frames[t] EXCEPT ![Len(frames[t])].inRuby = TRUE]
  <2>1. frames' = [frames EXCEPT ![t] = r]
    BY <1>1, Zenon DEF CallRuby
  <2>2. MarksTop(frames[t], TRUE, r)
    BY <1>1 DEF MarksTop, CallRuby, RunsOperation
  <2> HIDE DEF r
  <2> QED
    BY <1>1, <2>1, <2>2, MarkInductive DEF CallRuby
<1>2. CASE RubyReturns(t)
  <2> DEFINE r == [frames[t] EXCEPT ![Len(frames[t])].inRuby = FALSE]
  <2>1. frames' = [frames EXCEPT ![t] = r]
    BY <1>2, Zenon DEF RubyReturns
  <2>2. MarksTop(frames[t], FALSE, r)
    BY <1>2 DEF MarksTop, RubyReturns, RunsOperation
  <2> HIDE DEF r
  <2> QED
    BY <1>2, <2>1, <2>2, MarkInductive DEF RubyReturns
<1> QED
  BY <1>1, <1>2

(***************************************************************************)
(* However an operation ends: returned, panicked or interrupted.  Its      *)
(* frame is gone, and its depth may be counted down or left as it was.     *)
(***************************************************************************)
LEMMA LeaveInductive ==
  ASSUME LInv, NEW t \in Thread, Leave(t),
         \/ depth' = depth
         \/ depth' = [depth EXCEPT ![Last(frames[t]).iso] = @ - 1],
         \/ disposed' = disposed
         \/ disposed' = disposed \cup {Last(frames[t]).iso},
         UNCHANGED <<owner, birth, life, registry, held, watchdog, leaked, teardown>>
  PROVE  LInv'
<1> DEFINE s == frames[t]
           i == Last(s).iso
<1>1. /\ s \in Seq(Frame) /\ s # <<>>
      /\ frames' = [frames EXCEPT ![t] = Front(s)]
      /\ \A u \in Thread : teardown[u] = None
  BY DEF LInv, TypeOK, Leave, RunsOperation, GvlIsFree
<1>2. /\ frames'[t] = Front(s)
      /\ \A u \in Thread : u # t => frames'[u] = frames[u]
  BY <1>1 DEF LInv, TypeOK
<1>3. /\ i \in Isolate /\ i \in held /\ i \in registry /\ owner[i] = t
      /\ depth[i] > 0
  BY <1>1, Popped, FrameFacts DEF Last
<1>4. \A u \in Thread :
        /\ DOMAIN frames'[u] \subseteq DOMAIN frames[u]
        /\ \A k \in DOMAIN frames'[u] : frames'[u][k] = frames[u][k]
  BY <1>1, <1>2, Popped
<1>5. TypeOK'
  <2>1. frames' \in [Thread -> Seq(Frame)]
    BY <1>1, Popped DEF LInv, TypeOK
  <2>2. depth' \in [Isolate -> 0..MaxDepth]
    BY <1>3, LifecycleAssumption DEF LInv, TypeOK
  <2>3. entered' \in [Thread -> Seq(Isolate)]
    BY EntriesPop DEF LInv, TypeOK, Leave
  <2>4. owner[i] # None
    BY <1>3, LifecycleAssumption
  <2>5. disposed' \subseteq {j \in Isolate : owner[j] # None}
    BY <1>3, <2>4 DEF LInv, TypeOK
  <2> QED
    BY <2>1, <2>2, <2>3, <2>5 DEF LInv, TypeOK
<1>6. FramesBelong'
  BY <1>4 DEF LInv, FramesBelong
<1>7. DepthCovers'
  <2>1. ASSUME NEW u \in Thread, NEW j \in Isolate
        PROVE  Cardinality(Of(frames'[u], j)) <= depth'[j]
    <3>1. /\ Cardinality(Of(frames[u], j)) \in Nat /\ depth[j] \in Nat
          /\ Cardinality(Of(frames[u], j)) <= depth[j]
      BY OfIsFinite, LifecycleAssumption DEF LInv, TypeOK, DepthCovers
    <3>2. /\ j # i => depth'[j] = depth[j]
          /\ depth'[j] = depth[j] \/ depth'[j] = depth[j] - 1
      BY <1>3, <3>1 DEF LInv, TypeOK
    <3>3. CASE u = t
      <4>1. Cardinality(Of(frames'[t], j)) \in Nat
        BY <1>1, <1>2, Popped, OfIsFinite
      <4>2. Cardinality(Of(frames'[t], j)) <= Cardinality(Of(frames[t], j))
        BY <1>1, <1>2, Popped
      <4>3. j = i => Cardinality(Of(frames[t], j)) = Cardinality(Of(frames'[t], j)) + 1
        BY <1>1, <1>2, Popped
      <4> QED
        BY <3>1, <3>2, <3>3, <4>1, <4>2, <4>3
    <3>4. CASE u # t
      <4>1. CASE j = i
        <5>1. Of(frames[u], j) = {}
          <6>1. \A k \in DOMAIN frames[u] : frames[u][k].iso # j
            BY <3>4, <4>1, <1>3, FrameFacts
          <6> QED
            BY <6>1 DEF Of
        <5>2. Cardinality(Of(frames'[u], j)) = 0
          BY <5>1, <3>4, <1>2, FS_EmptySet
        <5>3. depth[j] > 0
          BY <4>1, <1>3
        <5> QED
          BY <5>2, <5>3, <3>1, <3>2
      <4>2. CASE j # i
        BY <3>1, <3>2, <3>4, <4>2, <1>2
      <4> QED
        BY <4>1, <4>2
    <3> QED
      BY <3>3, <3>4
  <2> QED
    BY <2>1 DEF DepthCovers
<1>8. TeardownsAreExclusive'
  BY <1>1 DEF TeardownsAreExclusive
<1>9. OwnersLive' /\ WatchdogGoesFirst'
  BY DEF LInv, OwnersLive, WatchdogGoesFirst
<1>10. LeaksAreCounted'
  <2>1. Lost' = Lost
    BY <1>3 DEF Lost
  <2>2. leaked = Cardinality(Lost)
    BY DEF LInv, LeaksAreCounted, Lost
  <2>3. \A j \in Isolate : owner'[j] # None /\ j \notin disposed' => j \in registry'
    BY DEF LInv, LeaksAreCounted
  <2> QED
    BY <2>1, <2>2, <2>3 DEF LeaksAreCounted, Lost
<1> QED
  BY <1>5, <1>6, <1>7, <1>8, <1>9, <1>10 DEF LInv

LEMMA EndsInductive ==
  ASSUME LInv, NEW t \in Thread,
         OperationReturns(t) \/ OperationPanics(t) \/ OperationInterrupted(t)
  PROVE  LInv'
<1>1. CASE OperationReturns(t)
  BY <1>1, LeaveInductive DEF OperationReturns
<1>2. CASE OperationPanics(t)
  BY <1>2, LeaveInductive DEF OperationPanics
<1>3. CASE OperationInterrupted(t)
  BY <1>3, LeaveInductive DEF OperationInterrupted
<1> QED
  BY <1>1, <1>2, <1>3

-----------------------------------------------------------------------------
(* Dispose and drop *)

(* A teardown begins: the isolate is disposed of, or its last wrapper goes. *)
LEMMA BeginTeardownInductive ==
  ASSUME LInv, NEW t \in Thread, NEW i \in Isolate, GvlIsFree, BeginTeardown(t, i),
         i \in held, i \notin disposed,
         \A u \in Thread : \A k \in DOMAIN frames[u] : frames[u][k].iso # i,
         held' = held \/ held' = held \ {i},
         UNCHANGED <<owner, birth, registry, depth, leaked, threads>>
  PROVE  LInv'
<1>1. /\ \A u \in Thread : teardown[u] = None
      /\ teardown' = [teardown EXCEPT ![t] = [iso |-> i, phase |-> "join"]]
      /\ disposed' = disposed \cup {i}
      /\ owner[i] # None
  BY DEF LInv, TypeOK, GvlIsFree, BeginTeardown
<1>2. i \in registry
  BY <1>1 DEF LInv, LeaksAreCounted
<1>3. UNCHANGED <<owner, birth, registry, depth, leaked, frames, entered, life>>
  BY DEF threads
<1>4. /\ teardown'[t] = [iso |-> i, phase |-> "join"]
      /\ \A u \in Thread : u # t => teardown'[u] = None
  BY <1>1 DEF LInv, TypeOK
<1>5. TypeOK'
  <2>1. [iso |-> i, phase |-> "join"] \in Teardown
    BY DEF Teardown
  <2>2. teardown' \in [Thread -> Teardown \cup {None}]
    BY <1>1, <2>1 DEF LInv, TypeOK
  <2>3. watchdog' \in [Isolate -> {None, "running", "told", "stopped"}]
    BY DEF LInv, TypeOK, BeginTeardown
  <2> QED
    BY <1>1, <1>3, <2>2, <2>3 DEF LInv, TypeOK
<1>6. FramesBelong'
  BY <1>3, FrameFacts DEF FramesBelong
<1>7. DepthCovers'
  BY <1>3 DEF LInv, DepthCovers
<1>8. TeardownsAreExclusive'
  BY <1>1, <1>2, <1>3, <1>4 DEF TeardownsAreExclusive
<1>9. OwnersLive'
  BY <1>3 DEF LInv, OwnersLive
<1>10. WatchdogGoesFirst'
  <2>1. \A j \in Isolate : watchdog[j] = "stopped" => watchdog'[j] = "stopped"
    BY DEF LInv, TypeOK, BeginTeardown
  <2>2. \A j \in Isolate, u \in Thread : teardown'[u] # [iso |-> j, phase |-> "drop"]
    <3>1. \A j \in Isolate : [iso |-> j, phase |-> "drop"] # None
      BY LifecycleAssumption DEF Teardown
    <3>2. \A j \in Isolate : [iso |-> j, phase |-> "drop"] # [iso |-> i, phase |-> "join"]
      OBVIOUS
    <3> QED
      BY <3>1, <3>2, <1>4
  <2> QED
    BY <2>1, <2>2, <1>3 DEF LInv, WatchdogGoesFirst
<1>11. LeaksAreCounted'
  <2>1. Lost' = Lost
    BY <1>1, <1>3 DEF Lost
  <2>2. leaked = Cardinality(Lost)
    BY DEF LInv, LeaksAreCounted, Lost
  <2>3. \A j \in Isolate : owner'[j] # None /\ j \notin disposed' => j \in registry'
    BY <1>1, <1>3 DEF LInv, LeaksAreCounted
  <2> QED
    BY <2>1, <2>2, <2>3, <1>3 DEF LeaksAreCounted, Lost
<1> QED
  BY <1>5, <1>6, <1>7, <1>8, <1>9, <1>10, <1>11 DEF LInv

LEMMA DisposeInductive ==
  ASSUME LInv, NEW t \in Thread, NEW i \in Isolate, Dispose(t, i)
  PROVE  LInv'
<1>1. \A u \in Thread : \A k \in DOMAIN frames[u] : frames[u][k].iso # i
  BY FrameFacts DEF Dispose, Refused
<1> QED
  BY <1>1, BeginTeardownInductive DEF Dispose, RunsRuby, OwnerAndLive

LEMMA JoinInductive ==
  ASSUME LInv, NEW t \in Thread, Join(t)
  PROVE  LInv'
<1> DEFINE i == teardown[t].iso
<1>1. /\ teardown[t] # None /\ teardown[t].phase = "join"
      /\ teardown[t] \in Teardown
      /\ watchdog[i] = "stopped"
  BY DEF LInv, TypeOK, Join, Joined
<1>2. i \in Isolate
  BY <1>1 DEF Teardown
<1>3. UNCHANGED <<owner, birth, life, registry, disposed, depth, held, watchdog, leaked, frames>>
  BY DEF Join
<1>4. /\ teardown'[t] = [iso |-> i, phase |-> "drop"]
      /\ \A u \in Thread : u # t => teardown'[u] = teardown[u] /\ teardown[u] = None
  <2>1. [teardown[t] EXCEPT !.phase = "drop"] = [iso |-> i, phase |-> "drop"]
    BY <1>1 DEF Teardown
  <2>2. teardown' = [teardown EXCEPT ![t] = [teardown[t] EXCEPT !.phase = "drop"]]
    BY Zenon DEF Join
  <2>3. \A u \in Thread : u # t => teardown[u] = None
    BY <1>1 DEF LInv, TeardownsAreExclusive
  <2> QED
    BY <2>1, <2>2, <2>3 DEF LInv, TypeOK
<1>5. [iso |-> i, phase |-> "drop"] \in Teardown
  BY <1>2 DEF Teardown
<1>6. TypeOK'
  <2>1. teardown' \in [Thread -> Teardown \cup {None}]
    <3>1. \A u \in Thread : teardown'[u] \in Teardown \cup {None}
      BY <1>4, <1>5
    <3>2. teardown' = [u \in Thread |-> teardown'[u]]
      BY DEF LInv, TypeOK, Join
    <3> QED
      BY <3>1, <3>2
  <2>2. entered' \in [Thread -> Seq(Isolate)]
    BY <1>2 DEF LInv, TypeOK, Join
  <2> QED
    BY <1>3, <2>1, <2>2 DEF LInv, TypeOK
<1>7. FramesBelong' /\ DepthCovers'
  BY <1>3 DEF LInv, FramesBelong, DepthCovers
<1>8. TeardownsAreExclusive'
  <2>1. /\ i \in disposed /\ i \in registry
        /\ \A u \in Thread : \A k \in DOMAIN frames[u] : frames[u][k].iso # i
    BY <1>1 DEF LInv, TeardownsAreExclusive
  <2>2. teardown'[t].iso = i
    BY <1>4
  <2> QED
    BY <2>1, <2>2, <1>3, <1>4 DEF TeardownsAreExclusive
<1>9. OwnersLive' /\ LeaksAreCounted'
  BY <1>3 DEF LInv, OwnersLive, LeaksAreCounted, Lost
<1>10. WatchdogGoesFirst'
  <2>1. \A j \in Isolate : [iso |-> j, phase |-> "drop"] # None
    BY LifecycleAssumption DEF Teardown
  <2>2. \A j \in Isolate, u \in Thread :
          teardown'[u] = [iso |-> j, phase |-> "drop"] => j = i
    <3>1. \A j \in Isolate :
            [iso |-> i, phase |-> "drop"] = [iso |-> j, phase |-> "drop"] => j = i
      OBVIOUS
    <3> QED
      BY <3>1, <2>1, <1>4
  <2> QED
    BY <2>2, <1>1, <1>3 DEF LInv, WatchdogGoesFirst
<1> QED
  BY <1>6, <1>7, <1>8, <1>9, <1>10 DEF LInv

LEMMA DropIsolateInductive ==
  ASSUME LInv, NEW t \in Thread, DropIsolate(t)
  PROVE  LInv'
<1> DEFINE i == teardown[t].iso
<1>1. /\ teardown[t] # None /\ teardown[t].phase = "drop"
      /\ teardown[t] \in Teardown
  BY DEF LInv, TypeOK, DropIsolate
<1>2. i \in Isolate /\ teardown[t] = [iso |-> i, phase |-> "drop"]
  BY <1>1 DEF Teardown
<1>3. /\ UNCHANGED <<owner, birth, life, disposed, depth, held, watchdog, leaked, frames>>
      /\ registry' = registry \ {i}
  BY DEF DropIsolate
<1>4. /\ i \in disposed
      /\ \A u \in Thread : \A k \in DOMAIN frames[u] : frames[u][k].iso # i
      /\ \A u \in Thread : u # t => teardown[u] = None
  BY <1>1 DEF LInv, TeardownsAreExclusive
<1>5. \A u \in Thread : teardown'[u] = None
  BY <1>4 DEF LInv, TypeOK, DropIsolate
<1>6. TypeOK'
  <2>1. entered' \in [Thread -> Seq(Isolate)]
    BY EntriesPop DEF LInv, TypeOK, DropIsolate
  <2>2. teardown' \in [Thread -> Teardown \cup {None}]
    BY DEF LInv, TypeOK, DropIsolate
  <2> QED
    BY <1>3, <2>1, <2>2 DEF LInv, TypeOK
<1>7. FramesBelong'
  BY <1>3, <1>4 DEF LInv, FramesBelong
<1>8. DepthCovers' /\ OwnersLive'
  BY <1>3 DEF LInv, DepthCovers, OwnersLive
<1>9. TeardownsAreExclusive'
  BY <1>5 DEF TeardownsAreExclusive
<1>10. WatchdogGoesFirst'
  <2>1. watchdog[i] = "stopped"
    BY <1>2 DEF LInv, WatchdogGoesFirst
  <2>2. \A j \in Isolate : [iso |-> j, phase |-> "drop"] # None
    BY LifecycleAssumption DEF Teardown
  <2> QED
    BY <2>1, <2>2, <1>3, <1>5 DEF LInv, WatchdogGoesFirst
<1>11. LeaksAreCounted'
  BY <1>3, <1>4 DEF LInv, LeaksAreCounted, Lost
<1> QED
  BY <1>6, <1>7, <1>8, <1>9, <1>10, <1>11 DEF LInv

(* A wrapper goes without a teardown: nothing to tear down, or not here. *)
LEMMA UnheldInductive ==
  ASSUME LInv, NEW t \in Thread, NEW i \in Isolate, GvlIsFree,
         i \in held, ~InUse(i), held' = held \ {i},
         CollectDisposed(t, i) \/ CollectElsewhere(t, i),
         UNCHANGED <<owner, birth, registry, depth, threads>>
  PROVE  LInv'
<1>1. UNCHANGED <<owner, birth, registry, depth, frames, entered, life, disposed, teardown>>
  BY DEF threads, CollectDisposed, CollectElsewhere
<1>2. /\ owner[i] # None
      /\ \A u \in Thread : teardown[u] = None
      /\ \A u \in Thread : \A k \in DOMAIN frames[u] : frames[u][k].iso # i
  BY DEF LInv, TypeOK, GvlIsFree, InUse
<1>3. /\ i \in disposed => Lost' = Lost /\ leaked' = leaked
      /\ i \notin disposed => Lost' = Lost \cup {i} /\ i \notin Lost /\ leaked' = leaked + 1
  BY <1>1, <1>2 DEF Lost, CollectDisposed, CollectElsewhere
<1>4. leaked' = Cardinality(Lost')
  <2>1. leaked = Cardinality(Lost)
    BY DEF LInv, LeaksAreCounted, Lost
  <2>2. IsFiniteSet(Lost)
    BY LostIsFinite DEF Lost
  <2> QED
    BY <2>1, <2>2, <1>3, FS_AddElement
<1>5. leaked' \in 0..Cardinality(Isolate)
  <2>1. Lost' \subseteq Isolate
    BY DEF Lost
  <2> QED
    BY <2>1, <1>4, LostIsFinite
<1>6. TypeOK'
  <2>1. watchdog' \in [Isolate -> {None, "running", "told", "stopped"}]
    BY DEF LInv, TypeOK, CollectDisposed, CollectElsewhere
  <2> QED
    BY <2>1, <1>1, <1>5 DEF LInv, TypeOK
<1>7. FramesBelong'
  BY <1>1, <1>2 DEF LInv, FramesBelong
<1>8. DepthCovers' /\ OwnersLive' /\ TeardownsAreExclusive'
  BY <1>1, <1>2 DEF LInv, DepthCovers, OwnersLive, TeardownsAreExclusive
<1>9. WatchdogGoesFirst'
  <2>1. \A j \in Isolate : j # i => watchdog'[j] = watchdog[j]
    BY DEF LInv, TypeOK, CollectDisposed, CollectElsewhere
  <2>2. i \in registry \/ watchdog'[i] = watchdog[i]
    BY <1>2 DEF LInv, LeaksAreCounted, CollectDisposed, CollectElsewhere
  <2>3. \A j \in Isolate : [iso |-> j, phase |-> "drop"] # None
    BY LifecycleAssumption DEF Teardown
  <2> QED
    BY <2>1, <2>2, <2>3, <1>1, <1>2 DEF LInv, WatchdogGoesFirst
<1>10. LeaksAreCounted'
  <2>1. \A j \in Isolate : owner'[j] # None /\ j \notin disposed' => j \in registry'
    BY <1>1 DEF LInv, LeaksAreCounted
  <2> QED
    BY <2>1, <1>4 DEF LeaksAreCounted, Lost
<1> QED
  BY <1>6, <1>7, <1>8, <1>9, <1>10 DEF LInv

LEMMA CollectInductive ==
  ASSUME LInv, NEW t \in Thread, NEW i \in Isolate, Collect(t, i)
  PROVE  LInv'
<1>1. /\ GvlIsFree /\ i \in held /\ ~InUse(i) /\ held' = held \ {i}
      /\ UNCHANGED <<owner, birth, registry, depth, threads>>
  BY DEF Collect, RunsRuby
<1>2. CASE CollectDisposed(t, i) \/ CollectElsewhere(t, i)
  BY <1>1, <1>2, UnheldInductive
<1>3. CASE CollectByOwner(t, i)
  BY <1>1, <1>3, BeginTeardownInductive DEF CollectByOwner, InUse
<1> QED
  BY <1>2, <1>3 DEF Collect

LEMMA WatchdogStopsInductive ==
  ASSUME LInv, NEW i \in Isolate, WatchdogStops(i)
  PROVE  LInv'
<1>1. UNCHANGED <<owner, birth, registry, disposed, depth, held, leaked, frames, entered,
                  life, teardown>>
  BY DEF WatchdogStops, threads
<1>2. /\ watchdog' \in [Isolate -> {None, "running", "told", "stopped"}]
      /\ \A j \in Isolate : watchdog[j] = "stopped" => watchdog'[j] = "stopped"
  BY DEF LInv, TypeOK, WatchdogStops
<1>3. TypeOK'
  BY <1>1, <1>2 DEF LInv, TypeOK
<1>4. FramesBelong' /\ DepthCovers' /\ OwnersLive'
  BY <1>1 DEF LInv, FramesBelong, DepthCovers, OwnersLive
<1>5. TeardownsAreExclusive' /\ LeaksAreCounted'
  BY <1>1 DEF LInv, TeardownsAreExclusive, LeaksAreCounted, Lost
<1>6. WatchdogGoesFirst'
  BY <1>1, <1>2 DEF LInv, WatchdogGoesFirst
<1> QED
  BY <1>3, <1>4, <1>5, <1>6 DEF LInv

-----------------------------------------------------------------------------
LEMMA StepLInv ==
  ASSUME LInv, [Next]_vars
  PROVE  LInv'
<1>1. ASSUME NEW t \in Thread,
             \/ ReuseAddress(t)
             \/ CallRuby(t) \/ RubyReturns(t)
             \/ OperationReturns(t) \/ OperationPanics(t) \/ OperationInterrupted(t)
             \/ Join(t) \/ DropIsolate(t)
      PROVE  LInv'
  BY <1>1, ReuseAddressInductive, CallsInductive, EndsInductive, JoinInductive,
     DropIsolateInductive
<1>2. ASSUME NEW t \in Thread, NEW i \in Isolate,
             New(t, i) \/ BeginOperation(t, i) \/ Dispose(t, i) \/ Collect(t, i)
      PROVE  LInv'
  BY <1>2, NewInductive, BeginOperationInductive, DisposeInductive, CollectInductive
<1>3. ASSUME NEW i \in Isolate, WatchdogStops(i)
      PROVE  LInv'
  BY <1>3, WatchdogStopsInductive
<1>4. CASE UNCHANGED vars
  BY <1>4 DEF vars, threads, LInv, TypeOK, FramesBelong, DepthCovers,
     TeardownsAreExclusive, OwnersLive, WatchdogGoesFirst, LeaksAreCounted, Lost
<1> QED
  BY <1>1, <1>2, <1>3, <1>4 DEF Next

(***************************************************************************)
(* The invariant from which the rest follows.                              *)
(***************************************************************************)
THEOREM LifecycleInvariance == Spec => []LInv
<1>1. Init => LInv
  BY InitLInv
<1>2. LInv /\ [Next]_vars => LInv'
  BY StepLInv
<1> QED
  BY <1>1, <1>2, PTL DEF Spec

(***************************************************************************)
(* Every variable keeps its type: no depth below zero, no more leaks than  *)
(* isolates, and an entry stack that only ever holds isolates.             *)
(***************************************************************************)
THEOREM LifecycleTypeCorrect == Spec => []TypeOK
<1>1. LInv => TypeOK
  BY DEF LInv
<1> QED
  BY <1>1, LifecycleInvariance, PTL

(***************************************************************************)
(* Neither dispose nor the collector frees an isolate, or begins to, while *)
(* an operation of it is on some thread's stack.                           *)
(***************************************************************************)
THEOREM NothingFreedInUse == Spec => []RunningIsolatesExist
<1>1. LInv => RunningIsolatesExist
  BY DEF LInv, FramesBelong, TeardownsAreExclusive, RunningIsolatesExist
<1> QED
  BY <1>1, LifecycleInvariance, PTL

(***************************************************************************)
(* An operation is on the stack of the thread that created its isolate,    *)
(* never of a later one at the same address.                               *)
(***************************************************************************)
THEOREM OwnersRunOperations == Spec => []OperationsStayOnTheirThread
<1>1. LInv => OperationsStayOnTheirThread
  BY DEF LInv, FramesBelong, OwnersLive, OperationsStayOnTheirThread
<1> QED
  BY <1>1, LifecycleInvariance, PTL

(***************************************************************************)
(* An isolate's watchdog has stopped before its globals are cleared, and   *)
(* so before it is freed.                                                  *)
(***************************************************************************)
THEOREM WatchdogsGoFirst == Spec => []WatchdogGoesFirst
<1>1. LInv => WatchdogGoesFirst
  BY DEF LInv
<1> QED
  BY <1>1, LifecycleInvariance, PTL

(***************************************************************************)
(* leaked_isolate_count counts each isolate lost on another thread once,   *)
(* and no isolate that is not disposed of leaves the registry.             *)
(***************************************************************************)
THEOREM LeaksCounted == Spec => []LeaksAreCounted
<1>1. LInv => LeaksAreCounted
  BY DEF LInv
<1> QED
  BY <1>1, LifecycleInvariance, PTL

-----------------------------------------------------------------------------
(* The entry stack follows the operations *)

LEMMA EnteringFacts ==
  ASSUME NEW s \in Seq(Frame)
  PROVE  /\ IsFiniteSet(Entering(s)) /\ Cardinality(Entering(s)) \in Nat
         /\ \A k \in Entering(s) : /\ Position(s, k) \in 1..Cardinality(Entering(s))
                                   /\ k \in 1..Len(s) /\ s[k] \in Frame
<1>1. Len(s) \in Nat /\ DOMAIN s = 1..Len(s)
  OBVIOUS
<1>2. Entering(s) \in SUBSET (1..Len(s))
  BY <1>1 DEF Entering
<1>3. IsFiniteSet(Entering(s)) /\ Cardinality(Entering(s)) \in Nat
  <2>1. IsFiniteSet(1..Len(s))
    BY <1>1, FS_Interval
  <2>2. IsFiniteSet(Entering(s))
    BY <1>2, <2>1, FS_Subset
  <2> QED
    BY <2>2, FS_CardinalityType
<1>4. ASSUME NEW k \in Entering(s)
      PROVE  Position(s, k) \in 1..Cardinality(Entering(s))
  <2> DEFINE upTo == {j \in Entering(s) : j <= k}
  <2>1. upTo \in SUBSET Entering(s) /\ k \in upTo
    BY <1>2
  <2>2. IsFiniteSet(upTo) /\ Cardinality(upTo) <= Cardinality(Entering(s))
    BY <1>3, <2>1, FS_Subset
  <2>3. Cardinality(upTo) \in Nat /\ Cardinality(upTo) # 0
    BY <2>1, <2>2, FS_CardinalityType, FS_EmptySet
  <2> QED
    BY <1>3, <2>2, <2>3 DEF Position
<1> QED
  BY <1>1, <1>2, <1>3, <1>4

(* The operations of r are those of s with f on top. *)
OnTop(f, s, r) ==
    /\ \A k \in Entering(s) : Position(r, k) = Position(s, k) /\ r[k] = s[k]
    /\ ~f.enters => Entering(r) = Entering(s)
    /\ f.enters =>
         /\ Entering(r) = Entering(s) \cup {Len(s) + 1}
         /\ Cardinality(Entering(r)) = Cardinality(Entering(s)) + 1
         /\ Position(r, Len(s) + 1) = Cardinality(Entering(s)) + 1
         /\ r[Len(s) + 1] = f

LEMMA EnteringPushed ==
  ASSUME NEW s \in Seq(Frame), NEW f \in Frame, NEW r \in Seq(Frame), r = Append(s, f)
  PROVE  OnTop(f, s, r)
<1>1. /\ Len(s) \in Nat /\ DOMAIN s = 1..Len(s)
      /\ DOMAIN r = DOMAIN s \cup {Len(s) + 1} /\ Len(s) + 1 \notin DOMAIN s
      /\ \A k \in DOMAIN s : r[k] = s[k]
      /\ r[Len(s) + 1] = f
  BY Pushed
<1>2. ~f.enters => Entering(r) = Entering(s)
  BY <1>1 DEF Entering
<1>3. f.enters => Entering(r) = Entering(s) \cup {Len(s) + 1}
  BY <1>1 DEF Entering
<1>4. Entering(s) \subseteq 1..Len(s)
  BY <1>1 DEF Entering
<1>5. ASSUME NEW k \in Entering(s)
      PROVE  Position(r, k) = Position(s, k) /\ r[k] = s[k]
  <2>1. k \in 1..Len(s) /\ ~(Len(s) + 1 <= k)
    BY <1>1, <1>4
  <2>2. \A j : j \in Entering(r) /\ j <= k <=> j \in Entering(s) /\ j <= k
    BY <1>1, <1>2, <1>3, <2>1
  <2>3. {j \in Entering(r) : j <= k} = {j \in Entering(s) : j <= k}
    BY <2>2
  <2> QED
    BY <1>1, <1>4, <2>3 DEF Position
<1>6. ASSUME f.enters
      PROVE  /\ Cardinality(Entering(r)) = Cardinality(Entering(s)) + 1
             /\ Position(r, Len(s) + 1) = Cardinality(Entering(s)) + 1
  <2>1. {j \in Entering(r) : j <= Len(s) + 1} = Entering(r)
    BY <1>1, <1>3, <1>4, <1>6
  <2>2. Len(s) + 1 \notin Entering(s)
    BY <1>1 DEF Entering
  <2>3. IsFiniteSet(Entering(s))
    BY EnteringFacts
  <2>4. Cardinality(Entering(s) \cup {Len(s) + 1}) = Cardinality(Entering(s)) + 1
    BY <2>2, <2>3, FS_AddElement
  <2> QED
    BY <1>3, <1>6, <2>1, <2>4 DEF Position
<1> QED
  BY <1>1, <1>2, <1>3, <1>5, <1>6 DEF OnTop

LEMMA EntriesPushed ==
  ASSUME NEW s \in Seq(Isolate), NEW i \in Isolate, NEW r, r = Append(s, i)
  PROVE  /\ r \in Seq(Isolate) /\ Len(s) \in Nat /\ Len(r) = Len(s) + 1
         /\ \A k \in 1..Len(s) : r[k] = s[k]
         /\ r[Len(s) + 1] = i
  OBVIOUS

LEMMA EntriesPopped ==
  ASSUME NEW s \in Seq(Isolate), s # <<>>, NEW r, r = Front(s)
  PROVE  /\ Len(s) \in Nat /\ r \in Seq(Isolate) /\ Len(r) = Len(s) - 1
         /\ \A k \in 1..(Len(s) - 1) : r[k] = s[k]
<1>1. Len(s) \in Nat /\ Len(s) - 1 \in 0..Len(s)
  OBVIOUS
<1>2. r \in Seq(Isolate) /\ DOMAIN r = 1..(Len(s) - 1) /\ \A k \in 1..(Len(s) - 1) : r[k] = s[k]
  BY <1>1, Shortened DEF Front
<1> QED
  BY <1>1, <1>2

(* What EntriesNest says of one thread: operations, entries, and the isolate *)
(* that is being dropped, if any.                                            *)
Matches(ops, entries, drops, iso) ==
    /\ Len(entries) = Cardinality(Entering(ops)) + (IF drops THEN 1 ELSE 0)
    /\ \A k \in Entering(ops) : entries[Position(ops, k)] = ops[k].iso
    /\ drops => Last(entries) = iso

LEMMA MatchesIs == EntriesNest <=>
    \A t \in Thread : Matches(frames[t], entered[t], Dropping(t), teardown[t].iso)
BY DEF EntriesNest, Matches

(* ... and of one that drops none. *)
Level(ops, entries) ==
    /\ Len(entries) = Cardinality(Entering(ops))
    /\ \A k \in Entering(ops) : entries[Position(ops, k)] = ops[k].iso

LEMMA LevelIs ==
  ASSUME NEW s \in Seq(Frame), NEW e, NEW i
  PROVE  Matches(s, e, FALSE, i) <=> Level(s, e)
<1>1. Cardinality(Entering(s)) + 0 = Cardinality(Entering(s))
  BY EnteringFacts
<1> QED
  BY <1>1 DEF Matches, Level

LEMMA OperationEnters ==
  ASSUME NEW s \in Seq(Frame), NEW f \in Frame, NEW r \in Seq(Frame), OnTop(f, s, r),
         NEW e \in Seq(Isolate), Level(s, e),
         NEW g \in Seq(Isolate), f.enters => g = Append(e, f.iso), ~f.enters => g = e
  PROVE  Level(r, g)
<1>1. /\ \A k \in Entering(s) : Position(r, k) = Position(s, k) /\ r[k] = s[k]
      /\ ~f.enters => Entering(r) = Entering(s)
      /\ f.enters =>
           /\ Entering(r) = Entering(s) \cup {Len(s) + 1}
           /\ Cardinality(Entering(r)) = Cardinality(Entering(s)) + 1
           /\ Position(r, Len(s) + 1) = Cardinality(Entering(s)) + 1
           /\ r[Len(s) + 1] = f
  BY DEF OnTop
<1>2. /\ Cardinality(Entering(s)) \in Nat /\ Len(e) = Cardinality(Entering(s))
      /\ \A k \in Entering(s) :
           /\ Position(s, k) \in 1..Len(e)
           /\ e[Position(s, k)] = s[k].iso
  BY EnteringFacts DEF Level
<1>3. CASE f.enters
  <2>1. Len(g) = Len(e) + 1 /\ g[Len(e) + 1] = f.iso /\ \A k \in 1..Len(e) : g[k] = e[k]
    <3>1. f.iso \in Isolate
      BY DEF Frame
    <3> QED
      BY <1>3, <3>1, EntriesPushed
  <2>2. ASSUME NEW k \in Entering(s) PROVE g[Position(r, k)] = r[k].iso
    <3>1. Position(r, k) = Position(s, k) /\ r[k] = s[k]
      BY <1>1
    <3>2. Position(s, k) \in 1..Len(e) /\ e[Position(s, k)] = s[k].iso
      BY <1>2
    <3> QED
      BY <2>1, <3>1, <3>2
  <2>3. g[Position(r, Len(s) + 1)] = r[Len(s) + 1].iso
    BY <1>1, <1>2, <1>3, <2>1
  <2>4. \A k \in Entering(r) : g[Position(r, k)] = r[k].iso
    BY <1>1, <1>3, <2>2, <2>3
  <2>5. Len(g) = Cardinality(Entering(r))
    BY <1>1, <1>2, <1>3, <2>1
  <2> QED
    BY <2>4, <2>5 DEF Level
<1>4. CASE ~f.enters
  BY <1>1, <1>2, <1>4 DEF Level
<1> QED
  BY <1>3, <1>4

LEMMA OperationExits ==
  ASSUME NEW r \in Seq(Frame), NEW f \in Frame, NEW s \in Seq(Frame), OnTop(f, r, s),
         NEW e \in Seq(Isolate), Level(s, e),
         NEW g \in Seq(Isolate), f.enters => g = Front(e), ~f.enters => g = e
  PROVE  Level(r, g)
<1>2. /\ \A k \in Entering(r) : Position(s, k) = Position(r, k) /\ s[k] = r[k]
      /\ ~f.enters => Entering(s) = Entering(r)
      /\ f.enters =>
           /\ Entering(s) = Entering(r) \cup {Len(r) + 1}
           /\ Cardinality(Entering(s)) = Cardinality(Entering(r)) + 1
  BY DEF OnTop
<1>3. /\ Cardinality(Entering(r)) \in Nat /\ Len(e) = Cardinality(Entering(s))
      /\ \A k \in Entering(s) : e[Position(s, k)] = s[k].iso
      /\ \A k \in Entering(r) : Position(r, k) \in 1..Cardinality(Entering(r))
  <2>2. /\ Cardinality(Entering(r)) \in Nat
        /\ \A k \in Entering(r) : Position(r, k) \in 1..Cardinality(Entering(r))
    BY EnteringFacts
  <2>3. \A k \in Entering(s) : e[Position(s, k)] = s[k].iso
    BY DEF Level
  <2>4. Len(e) = Cardinality(Entering(s))
    BY DEF Level
  <2> QED
    BY <2>2, <2>3, <2>4
<1>4. CASE f.enters
  <2>1. e # <<>>
    BY <1>2, <1>3, <1>4
  <2>2. Len(g) = Len(e) - 1 /\ \A k \in 1..(Len(e) - 1) : g[k] = e[k]
    BY <1>4, <2>1, EntriesPopped
  <2>3. Len(e) - 1 = Cardinality(Entering(r))
    BY <1>2, <1>3, <1>4
  <2>4. ASSUME NEW k \in Entering(r) PROVE g[Position(r, k)] = r[k].iso
    <3>1. k \in Entering(s) /\ Position(s, k) = Position(r, k) /\ s[k] = r[k]
      BY <1>2, <1>4
    <3>2. Position(r, k) \in 1..(Len(e) - 1)
      BY <1>3, <2>3
    <3> QED
      BY <1>3, <2>2, <3>1, <3>2
  <2> QED
    BY <1>4, <2>2, <2>3, <2>4 DEF Level
<1>5. CASE ~f.enters
  BY <1>2, <1>3, <1>5 DEF Level
<1> QED
  BY <1>4, <1>5

LEMMA InitEntries == Init => EntriesNest
<1> SUFFICES ASSUME Init PROVE EntriesNest
  OBVIOUS
<1>1. \A t \in Thread : Entering(frames[t]) = {} /\ Len(entered[t]) = 0 /\ ~Dropping(t)
  BY DEF Init, Entering, Dropping
<1>2. \A t \in Thread : Cardinality(Entering(frames[t])) = 0
  BY <1>1, FS_EmptySet
<1> QED
  BY <1>1, <1>2 DEF EntriesNest

(* A thread whose operations, entries and teardown stay still matches. *)
LEMMA OthersMatch ==
  ASSUME LInv, EntriesNest, NEW t \in Thread,
         \A u \in Thread : u # t => /\ frames'[u] = frames[u] /\ entered'[u] = entered[u]
                                    /\ teardown'[u] = teardown[u],
         Matches(frames'[t], entered'[t], Dropping(t)', teardown'[t].iso)
  PROVE  EntriesNest'
<1>1. ASSUME NEW u \in Thread
      PROVE  Matches(frames'[u], entered'[u], Dropping(u)', teardown'[u].iso)
  <2>1. CASE u = t
    BY <2>1 DEF Dropping
  <2>2. CASE u # t
    BY <2>2, MatchesIs DEF Dropping
  <2> QED
    BY <2>1, <2>2
<1> QED
  BY <1>1 DEF EntriesNest, Matches, Entering, Position, Dropping, Last

LEMMA StepEntries ==
  ASSUME LInv, EntriesNest, [Next]_vars
  PROVE  EntriesNest'
<1>1. ASSUME NEW t \in Thread, NEW i \in Isolate, BeginOperation(t, i)
      PROVE  EntriesNest'
  <2>1. \E f \in Frame : /\ f.iso = i /\ (f.enters <=> depth[i] = 0)
                        /\ frames' = [frames EXCEPT ![t] = Append(@, f)]
    <3> DEFINE g == [iso |-> i, enters |-> depth[i] = 0, inRuby |-> FALSE]
    <3>1. g \in Frame /\ g.iso = i /\ (g.enters <=> depth[i] = 0)
      BY DEF Frame
    <3>2. frames' = [frames EXCEPT ![t] = Append(@, g)]
      BY <1>1 DEF BeginOperation
    <3> HIDE DEF g
    <3> QED
      BY <3>1, <3>2
  <2> PICK f \in Frame : /\ f.iso = i /\ (f.enters <=> depth[i] = 0)
                        /\ frames' = [frames EXCEPT ![t] = Append(@, f)]
    BY <2>1
  <2>2. /\ frames \in [Thread -> Seq(Frame)] /\ entered \in [Thread -> Seq(Isolate)]
        /\ teardown' = teardown /\ Dropping(t) = FALSE /\ Dropping(t)' = FALSE
    BY <1>1 DEF LInv, TypeOK, BeginOperation, RunsRuby, GvlIsFree, Dropping
  <2>3. frames' = [frames EXCEPT ![t] = Append(@, f)]
    OBVIOUS
  <2>4. /\ f.enters => entered' = [entered EXCEPT ![t] = Append(@, f.iso)]
        /\ ~f.enters => entered' = entered
    BY <1>1 DEF BeginOperation
  <2>5. /\ frames'[t] = Append(frames[t], f)
        /\ f.enters => entered'[t] = Append(entered[t], f.iso)
        /\ ~f.enters => entered'[t] = entered[t]
        /\ \A u \in Thread : u # t => frames'[u] = frames[u] /\ entered'[u] = entered[u]
    BY <2>2, <2>3, <2>4
  <2>6. Level(frames[t], entered[t])
    BY <2>2, MatchesIs, LevelIs
  <2>7. Level(frames'[t], entered'[t])
    <3>1. /\ frames[t] \in Seq(Frame) /\ frames'[t] \in Seq(Frame)
          /\ entered[t] \in Seq(Isolate) /\ entered'[t] \in Seq(Isolate)
      <4>1. frames[t] \in Seq(Frame) /\ entered[t] \in Seq(Isolate)
        BY <2>2
      <4>2. frames'[t] \in Seq(Frame)
        BY <2>1, <2>5, <4>1, Pushed
      <4>3. entered'[t] \in Seq(Isolate)
        <5>1. CASE f.enters
          BY <2>5, <4>1, <5>1, EntriesPushed DEF Frame
        <5>2. CASE ~f.enters
          BY <2>5, <4>1, <5>2
        <5> QED
          BY <5>1, <5>2
      <4> QED
        BY <4>1, <4>2, <4>3
    <3>2. OnTop(f, frames[t], frames'[t])
      BY <2>1, <2>5, <3>1, EnteringPushed
    <3> QED
      BY <2>5, <2>6, <3>1, <3>2, OperationEnters
  <2> QED
    <3>1. frames'[t] \in Seq(Frame)
      BY <2>1, <2>2, <2>5, Pushed
    <3>2. Matches(frames'[t], entered'[t], Dropping(t)', teardown'[t].iso)
      BY <2>2, <2>7, <3>1, LevelIs
    <3> QED
      BY <2>2, <2>5, <3>2, OthersMatch
<1>2. ASSUME NEW t \in Thread,
             OperationReturns(t) \/ OperationPanics(t) \/ OperationInterrupted(t)
      PROVE  EntriesNest'
  <2>1. /\ frames \in [Thread -> Seq(Frame)] /\ entered \in [Thread -> Seq(Isolate)]
        /\ teardown' = teardown /\ Dropping(t) = FALSE /\ Dropping(t)' = FALSE /\ Leave(t)
    BY <1>2 DEF LInv, TypeOK, OperationReturns, OperationPanics, OperationInterrupted,
                Leave, GvlIsFree, Dropping
  <2>2. frames[t] \in Seq(Frame) /\ frames[t] # <<>>
    BY <2>1 DEF Leave, RunsOperation
  <2> PICK s \in Seq(Frame), r \in Seq(Frame), f \in Frame :
         s = frames[t] /\ s # <<>> /\ r = Front(s) /\ f = Last(s)
    BY <2>2, Popped
  <2>3. s = Append(r, f)
    BY DEF Front, Last
  <2>4. /\ frames'[t] = r
        /\ f.enters => entered'[t] = Front(entered[t])
        /\ ~f.enters => entered'[t] = entered[t]
        /\ \A u \in Thread : u # t => frames'[u] = frames[u] /\ entered'[u] = entered[u]
    BY <2>1 DEF Leave
  <2>5. Level(s, entered[t])
    BY <2>1, MatchesIs, LevelIs
  <2>6. Level(r, entered'[t])
    <3>1. entered[t] \in Seq(Isolate) /\ entered'[t] \in Seq(Isolate)
      BY <2>1, <2>4, EntriesPop
    <3>2. OnTop(f, r, s)
      BY <2>3, EnteringPushed
    <3> QED
      BY <2>4, <2>5, <3>1, <3>2, OperationExits
  <2> QED
    <3>1. Matches(frames'[t], entered'[t], Dropping(t)', teardown'[t].iso)
      BY <2>1, <2>4, <2>6, LevelIs
    <3> QED
      BY <2>1, <2>4, <3>1, OthersMatch
<1>3. ASSUME NEW t \in Thread, Join(t)
      PROVE  EntriesNest'
  <2>1. /\ teardown[t] \in Teardown /\ teardown[t].phase = "join"
        /\ entered[t] \in Seq(Isolate) /\ UNCHANGED frames
        /\ entered' = [entered EXCEPT ![t] = Append(@, teardown[t].iso)]
        /\ entered \in [Thread -> Seq(Isolate)] /\ teardown \in [Thread -> Teardown \cup {None}]
    BY <1>3 DEF LInv, TypeOK, Join
  <2>2. /\ teardown'[t] = [teardown[t] EXCEPT !.phase = "drop"]
        /\ \A u \in Thread : u # t => teardown'[u] = teardown[u]
    BY <1>3, <2>1 DEF Join
  <2>3. /\ teardown'[t].iso = teardown[t].iso /\ teardown[t].iso \in Isolate
        /\ Dropping(t)' = TRUE /\ Dropping(t) = FALSE
    BY <2>1, <2>2, LifecycleAssumption DEF Teardown, Dropping
  <2>4. Matches(frames[t], entered[t], FALSE, teardown[t].iso)
    BY <2>3, MatchesIs DEF Matches
  <2>5. /\ entered'[t] = Append(entered[t], teardown[t].iso)
        /\ \A u \in Thread : u # t => entered'[u] = entered[u]
    BY <2>1
  <2>6. /\ Len(entered[t]) \in Nat /\ Len(entered'[t]) = Len(entered[t]) + 1
        /\ \A k \in 1..Len(entered[t]) : entered'[t][k] = entered[t][k]
        /\ entered'[t][Len(entered[t]) + 1] = teardown[t].iso
    BY <2>1, <2>3, <2>5, EntriesPushed
  <2>7. frames[t] \in Seq(Frame)
    BY DEF LInv, TypeOK
  <2>8. /\ Cardinality(Entering(frames[t])) = Len(entered[t])
        /\ \A k \in Entering(frames[t]) : /\ Position(frames[t], k) \in 1..Len(entered[t])
                                          /\ entered[t][Position(frames[t], k)] = frames[t][k].iso
    <3>1. /\ Cardinality(Entering(frames[t])) \in Nat
          /\ Len(entered[t]) = Cardinality(Entering(frames[t])) + 0
      BY <2>4, <2>7, EnteringFacts DEF Matches
    <3> QED
      BY <2>4, <2>7, <3>1, EnteringFacts DEF Matches
  <2>9. Matches(frames'[t], entered'[t], TRUE, teardown'[t].iso)
    BY <2>1, <2>3, <2>6, <2>8 DEF Matches, Last
  <2> QED
    BY <2>1, <2>2, <2>3, <2>5, <2>9, OthersMatch DEF Matches
<1>4. ASSUME NEW t \in Thread, DropIsolate(t)
      PROVE  EntriesNest'
  <2>1. /\ Dropping(t) = TRUE /\ frames[t] \in Seq(Frame) /\ UNCHANGED frames
        /\ entered' = [entered EXCEPT ![t] = Front(@)]
        /\ teardown' = [teardown EXCEPT ![t] = None]
        /\ entered \in [Thread -> Seq(Isolate)] /\ teardown \in [Thread -> Teardown \cup {None}]
    BY <1>4 DEF LInv, TypeOK, DropIsolate, Dropping
  <2>2. Matches(frames[t], entered[t], TRUE, teardown[t].iso)
    BY <2>1, MatchesIs DEF Matches
  <2>3. /\ Cardinality(Entering(frames[t])) \in Nat
        /\ Len(entered[t]) = Cardinality(Entering(frames[t])) + 1
    BY <2>1, <2>2, EnteringFacts DEF Matches
  <2>4. /\ entered'[t] = Front(entered[t]) /\ Dropping(t)' = FALSE
        /\ \A u \in Thread : u # t => entered'[u] = entered[u] /\ teardown'[u] = teardown[u]
    BY <2>1 DEF Dropping
  <2>5. entered[t] # <<>>
    BY <2>3
  <2>6. /\ Len(entered'[t]) = Len(entered[t]) - 1
        /\ \A k \in 1..(Len(entered[t]) - 1) : entered'[t][k] = entered[t][k]
    BY <2>1, <2>4, <2>5, EntriesPopped
  <2>7. \A k \in Entering(frames[t]) : entered'[t][Position(frames[t], k)] = frames[t][k].iso
    <3>1. Len(entered[t]) - 1 = Cardinality(Entering(frames[t]))
      BY <2>3
    <3> QED
      BY <2>1, <2>2, <2>6, <3>1, EnteringFacts DEF Matches
  <2>8. Len(entered'[t]) = Cardinality(Entering(frames[t])) + 0
    BY <2>3, <2>6
  <2>9. Matches(frames'[t], entered'[t], FALSE, teardown'[t].iso)
    BY <2>1, <2>7, <2>8 DEF Matches
  <2> QED
    BY <2>1, <2>4, <2>9, OthersMatch DEF Matches
<1>5. ASSUME UNCHANGED <<entered, teardown>>,
             \A t \in Thread : /\ DOMAIN frames'[t] = DOMAIN frames[t]
                               /\ \A k \in DOMAIN frames[t] :
                                    /\ frames'[t][k].iso = frames[t][k].iso
                                    /\ frames'[t][k].enters = frames[t][k].enters
      PROVE  EntriesNest'
  <2>1. ASSUME NEW t \in Thread
        PROVE  Matches(frames'[t], entered'[t], Dropping(t)', teardown'[t].iso)
    <3>1. Entering(frames'[t]) = Entering(frames[t])
      BY <1>5 DEF Entering
    <3>2. \A k : Position(frames'[t], k) = Position(frames[t], k)
      BY <3>1 DEF Position
    <3>3. Matches(frames[t], entered[t], Dropping(t), teardown[t].iso)
      BY MatchesIs
    <3>4. Dropping(t)' <=> Dropping(t)
      BY <1>5 DEF Dropping
    <3>5. \A k \in Entering(frames[t]) : frames'[t][k].iso = frames[t][k].iso
      BY <1>5 DEF Entering
    <3> QED
      BY <1>5, <3>1, <3>2, <3>3, <3>4, <3>5 DEF Matches
  <2> QED
    BY <2>1 DEF EntriesNest, Matches, Entering, Position, Dropping, Last
<1>6. ASSUME NEW t \in Thread, CallRuby(t) \/ RubyReturns(t)
      PROVE  EntriesNest'
  <2>1. /\ frames \in [Thread -> Seq(Frame)] /\ frames[t] # <<>>
        /\ UNCHANGED <<entered, teardown>>
    BY <1>6 DEF LInv, TypeOK, CallRuby, RubyReturns, RunsOperation
  <2>2. PICK b \in BOOLEAN :
          frames' = [frames EXCEPT ![t] = [frames[t] EXCEPT ![Len(frames[t])].inRuby = b]]
    BY <1>6, Zenon DEF CallRuby, RubyReturns
  <2>3. /\ MarksTop(frames[t], b, frames'[t])
        /\ \A u \in Thread : u # t => frames'[u] = frames[u]
    BY <2>1, <2>2 DEF MarksTop
  <2>4. /\ DOMAIN frames'[t] = DOMAIN frames[t]
        /\ \A k \in DOMAIN frames[t] : /\ frames'[t][k].iso = frames[t][k].iso
                                        /\ frames'[t][k].enters = frames[t][k].enters
    BY <2>1, <2>3, Marked
  <2> QED
    BY <1>5, <2>1, <2>3, <2>4
<1>7. CASE UNCHANGED <<entered, frames, teardown>>
  BY <1>5, <1>7
<1>8. ASSUME NEW t \in Thread, NEW i \in Isolate, Dispose(t, i) \/ Collect(t, i)
      PROVE  EntriesNest'
  <2>1. /\ UNCHANGED <<entered, frames>> /\ \A u \in Thread : ~Dropping(u)
        /\ teardown \in [Thread -> Teardown \cup {None}]
    BY <1>8 DEF LInv, TypeOK, Dispose, Collect, RunsRuby, GvlIsFree, Dropping, threads
  <2>2. \/ teardown' = teardown
        \/ teardown' = [teardown EXCEPT ![t] = [iso |-> i, phase |-> "join"]]
    BY <1>8 DEF Dispose, Collect, CollectDisposed, CollectByOwner, CollectElsewhere,
                BeginTeardown
  <2>3. \A u \in Thread : ~Dropping(u)'
    BY <2>1, <2>2 DEF Dropping
  <2>4. ASSUME NEW u \in Thread
        PROVE  Matches(frames'[u], entered'[u], Dropping(u)', teardown'[u].iso)
    <3>1. Matches(frames[u], entered[u], Dropping(u), teardown[u].iso)
      BY MatchesIs
    <3> QED
      BY <2>1, <2>3, <3>1 DEF Matches
  <2> QED
    BY <2>4 DEF EntriesNest, Matches, Entering, Position, Dropping, Last
<1>9. ASSUME NEW t \in Thread, ReuseAddress(t) \/ \E i \in Isolate : New(t, i)
      PROVE  EntriesNest'
  BY <1>7, <1>9 DEF ReuseAddress, New, threads
<1>10. ASSUME NEW i \in Isolate, WatchdogStops(i)
       PROVE  EntriesNest'
  BY <1>7, <1>10 DEF WatchdogStops, threads
<1> QED
  BY <1>1, <1>2, <1>3, <1>4, <1>6, <1>7, <1>8, <1>9, <1>10 DEF Next, vars, threads

(***************************************************************************)
(* However operations, drops and interrupts interleave on the threads, who *)
(* exits an isolate exits the one it entered.                              *)
(***************************************************************************)
THEOREM EntriesAreNested == Spec => []EntriesNest
<1>1. LInv /\ EntriesNest /\ [Next]_vars => EntriesNest'
  BY StepEntries
<1> QED
  BY <1>1, InitEntries, LifecycleInvariance, PTL DEF Spec

-----------------------------------------------------------------------------
(* What an isolate is to those who use one *)

LEMMA CallsAre ==
  ASSUME LInv, NEW t \in Thread
  PROVE  /\ Calls[t] \in Seq(Isolate) /\ Len(Calls[t]) = Len(frames[t])
         /\ DOMAIN Calls[t] = DOMAIN frames[t]
         /\ \A k \in DOMAIN frames[t] : Calls[t][k] = frames[t][k].iso
         /\ Calls[t] = <<>> <=> frames[t] = <<>>
<1>1. frames[t] \in Seq(Frame) /\ Len(frames[t]) \in Nat /\ DOMAIN frames[t] = 1..Len(frames[t])
  BY DEF LInv, TypeOK
<1>2. \A k \in DOMAIN frames[t] : frames[t][k].iso \in Isolate
  BY FrameFacts
<1>3. Calls[t] = [k \in 1..Len(frames[t]) |-> frames[t][k].iso]
  BY <1>1 DEF Calls
<1>4. Calls[t] \in Seq(Isolate) /\ Len(Calls[t]) = Len(frames[t])
  BY <1>1, <1>2, <1>3
<1> QED
  BY <1>1, <1>3, <1>4

LEMMA CallsUnchanged ==
  ASSUME UNCHANGED frames
  PROVE  Calls' = Calls
BY DEF Calls

LEMMA MakersUnchanged ==
  ASSUME UNCHANGED <<owner, birth>>
  PROVE  Makers' = Makers
BY DEF Makers

LEMMA BusyInUse ==
  ASSUME LInv, NEW i
  PROVE  Contract!Busy(i) <=> InUse(i)
BY CallsAre DEF Contract!Busy, InUse

(* Who holds an isolate holds one that has its maker at the owner's address. *)
LEMMA MakerOfHeld ==
  ASSUME LInv, NEW i \in held
  PROVE  /\ i \in Isolate /\ owner[i] \in Thread /\ owner[i] # None
         /\ \A t \in Thread : Contract!Made(t, i) <=> owner[i] = t
<1>1. i \in Isolate /\ owner[i] \in Thread /\ owner[i] # None /\ birth[i] = life[owner[i]]
  BY DEF LInv, TypeOK, OwnersLive
<1>2. Makers[i] = <<owner[i], life[owner[i]]>>
  BY <1>1 DEF Makers
<1> QED
  BY <1>1, <1>2 DEF Contract!Made

LEMMA GvlMeansUndisturbed ==
  ASSUME GvlIsFree
  PROVE  Closing = {}
BY DEF GvlIsFree, Closing

LEMMA ReuseSucceeds ==
  ASSUME LInv, NEW t \in Thread, ReuseAddress(t)
  PROVE  Contract!Succeed(t)
<1>1. /\ GvlIsFree /\ frames[t] = <<>> /\ t \notin RootedThreads
      /\ life' = [life EXCEPT ![t] = @ + 1]
      /\ UNCHANGED <<owner, birth, registry, disposed, held, frames, teardown>>
  BY DEF ReuseAddress
<1>2. \A i \in held \ disposed : ~Contract!Made(t, i)
  BY <1>1, MakerOfHeld DEF RootedThreads
<1>3. Calls[t] = <<>> /\ Closing = {}
  BY <1>1, CallsAre, GvlMeansUndisturbed
<1>4. UNCHANGED <<Makers, held \ disposed, Closing, Freed, Lost, Calls>>
  BY <1>1, CallsUnchanged, MakersUnchanged DEF Closing, Freed, Lost
<1> QED
  BY <1>1, <1>2, <1>3, <1>4 DEF Contract!Succeed, Contract!Undisturbed

LEMMA NewMakes ==
  ASSUME LInv, NEW t \in Thread, NEW i \in Isolate, New(t, i)
  PROVE  Contract!Make(t, i)
<1>1. /\ GvlIsFree /\ owner[i] = None
      /\ owner' = [owner EXCEPT ![i] = t] /\ birth' = [birth EXCEPT ![i] = life[t]]
      /\ registry' = registry \cup {i} /\ held' = held \cup {i}
      /\ UNCHANGED <<disposed, frames, life, teardown>>
  BY DEF New, RunsRuby, threads
<1>2. /\ owner \in [Isolate -> Thread \cup {None}] /\ birth \in [Isolate -> 0..MaxLives]
      /\ i \notin held /\ i \notin registry /\ i \notin disposed /\ t # None
  BY <1>1, LifecycleAssumption DEF LInv, TypeOK
<1>3. Makers[i] = None /\ Makers' = [Makers EXCEPT ![i] = <<t, life[t]>>]
  BY <1>1, <1>2 DEF Makers
<1>4. (held \ disposed)' = (held \ disposed) \cup {i}
  BY <1>1, <1>2
<1>5. UNCHANGED <<Closing, Freed, Lost, Calls>>
  BY <1>1, <1>2, CallsUnchanged DEF Closing, Freed, Lost
<1> QED
  BY <1>1, <1>3, <1>4, <1>5, GvlMeansUndisturbed DEF Contract!Make, Contract!Undisturbed

LEMMA BeginCalls ==
  ASSUME LInv, NEW t \in Thread, NEW i \in Isolate, BeginOperation(t, i)
  PROVE  Contract!Call(t, i)
<1>1. /\ GvlIsFree /\ i \in held /\ owner[i] = t /\ i \notin disposed
      /\ UNCHANGED <<owner, birth, registry, held, disposed, life, teardown>>
  BY DEF BeginOperation, RunsRuby, OwnerAndLive
<1>2. PICK f : f = [iso |-> i, enters |-> depth[i] = 0, inRuby |-> FALSE]
  OBVIOUS
<1>3. /\ f \in Frame /\ f.iso = i
      /\ frames' = [frames EXCEPT ![t] = Append(frames[t], f)]
      /\ frames \in [Thread -> Seq(Frame)]
  BY <1>2 DEF BeginOperation, Frame, LInv, TypeOK
<1>4. Calls' = [Calls EXCEPT ![t] = Append(Calls[t], i)]
  <2>1. frames'[t] = Append(frames[t], f) /\ \A u \in Thread : u # t => frames'[u] = frames[u]
    BY <1>3
  <2>2. [k \in DOMAIN frames'[t] |-> frames'[t][k].iso] = Append(Calls[t], i)
    <3>1. PICK s, c : s = frames[t] /\ c = Calls[t]
      OBVIOUS
    <3>2. /\ s \in Seq(Frame) /\ c \in Seq(Isolate) /\ Len(c) = Len(s)
          /\ DOMAIN s = 1..Len(s) /\ Len(s) \in Nat
          /\ \A k \in DOMAIN s : c[k] = s[k].iso
      BY <1>3, <3>1, CallsAre
    <3>3. /\ Append(c, i) \in Seq(Isolate) /\ Len(Append(c, i)) = Len(s) + 1
          /\ \A k \in 1..Len(s) : Append(c, i)[k] = c[k]
          /\ Append(c, i)[Len(s) + 1] = i
      BY <3>2
    <3>4. /\ DOMAIN Append(s, f) = 1..(Len(s) + 1)
          /\ \A k \in 1..Len(s) : Append(s, f)[k] = s[k]
          /\ Append(s, f)[Len(s) + 1] = f
      BY <1>3, <3>2
    <3>5. /\ DOMAIN Append(c, i) = 1..(Len(s) + 1)
          /\ \A k \in 1..(Len(s) + 1) : Append(c, i)[k] = Append(s, f)[k].iso
      BY <1>3, <3>2, <3>3, <3>4
    <3>6. PICK r, d : r = Append(s, f) /\ d = Append(c, i)
      OBVIOUS
    <3>7. d = [k \in DOMAIN d |-> d[k]]
      <4>1. d \in Seq(Isolate)
        BY <3>3, <3>6
      <4> QED
        BY <4>1
    <3>8. d = [k \in DOMAIN r |-> r[k].iso]
      BY <3>4, <3>5, <3>6, <3>7
    <3> QED
      BY <2>1, <3>1, <3>6, <3>8
  <2>3. \A u \in Thread : u # t => Calls'[u] = Calls[u]
    BY <2>1 DEF Calls
  <2>4. Calls'[t] = Append(Calls[t], i)
    BY <2>2 DEF Calls
  <2> QED
    BY <2>3, <2>4 DEF Calls
<1>5. UNCHANGED <<Makers, held \ disposed, Closing, Freed, Lost>>
  BY <1>1, MakersUnchanged DEF Closing, Freed, Lost
<1> QED
  BY <1>1, <1>4, <1>5, GvlMeansUndisturbed, MakerOfHeld
     DEF Contract!Call, Contract!Undisturbed

(* Returned, panicked or interrupted: the callers see an operation end. *)
LEMMA LeaveReturns ==
  ASSUME LInv, NEW t \in Thread,
         OperationReturns(t) \/ OperationPanics(t) \/ OperationInterrupted(t)
  PROVE  Contract!Return(t)
<1>1. /\ Leave(t)
      /\ \/ disposed' = disposed
         \/ disposed' = disposed \cup {Last(frames[t]).iso}
      /\ UNCHANGED <<owner, birth, life, registry, held, teardown>>
  BY DEF OperationReturns, OperationPanics, OperationInterrupted
<1>2. /\ GvlIsFree /\ frames[t] # <<>> /\ frames \in [Thread -> Seq(Frame)]
      /\ frames' = [frames EXCEPT ![t] = Front(frames[t])]
  BY <1>1 DEF Leave, RunsOperation, LInv, TypeOK
<1>3. PICK s, c, i : s = frames[t] /\ c = Calls[t] /\ i = Last(frames[t]).iso
  OBVIOUS
<1>4. /\ s \in Seq(Frame) /\ c \in Seq(Isolate) /\ s # <<>> /\ c # <<>> /\ Len(c) = Len(s)
      /\ \A k \in DOMAIN s : c[k] = s[k].iso
  BY <1>2, <1>3, CallsAre
<1>5. /\ Len(s) \in Nat /\ DOMAIN s = 1..Len(s) /\ Len(s) # 0 /\ Len(s) - 1 \in 0..Len(s)
      /\ Len(s) \in DOMAIN s
  BY <1>4
<1>6. c[Len(c)] = i /\ i \in held
  <2>1. i = s[Len(s)].iso
    BY <1>3 DEF Last
  <2> QED
    BY <1>3, <1>4, <1>5, <2>1, FrameFacts
<1>7. Calls' = [Calls EXCEPT ![t] = SubSeq(c, 1, Len(c) - 1)]
  <2>1. frames'[t] = SubSeq(s, 1, Len(s) - 1) /\ \A u \in Thread : u # t => frames'[u] = frames[u]
    BY <1>2, <1>3 DEF Front
  <2>2. /\ DOMAIN SubSeq(s, 1, Len(s) - 1) = 1..(Len(s) - 1)
        /\ \A k \in 1..(Len(s) - 1) : SubSeq(s, 1, Len(s) - 1)[k] = s[k]
    BY <1>4, <1>5, Shortened
  <2>3. /\ SubSeq(c, 1, Len(s) - 1) \in Seq(Isolate)
        /\ DOMAIN SubSeq(c, 1, Len(s) - 1) = 1..(Len(s) - 1)
        /\ \A k \in 1..(Len(s) - 1) : SubSeq(c, 1, Len(s) - 1)[k] = c[k]
    BY <1>4, <1>5, Shortened
  <2>4. PICK r, d : r = SubSeq(s, 1, Len(s) - 1) /\ d = SubSeq(c, 1, Len(c) - 1)
    OBVIOUS
  <2>5. /\ DOMAIN r = DOMAIN d /\ d \in Seq(Isolate)
        /\ \A k \in DOMAIN r : d[k] = r[k].iso
    BY <1>4, <1>5, <2>2, <2>3, <2>4
  <2>6. d = [k \in DOMAIN r |-> r[k].iso]
    <3>1. d = [k \in DOMAIN d |-> d[k]]
      BY <2>5
    <3> QED
      BY <2>5, <3>1
  <2>7. Calls'[t] = d
    BY <2>1, <2>4, <2>6 DEF Calls
  <2>8. \A u \in Thread : u # t => Calls'[u] = Calls[u]
    BY <2>1 DEF Calls
  <2> QED
    BY <2>4, <2>7, <2>8 DEF Calls
<1>8. (held \ disposed)' \in {held \ disposed, (held \ disposed) \ {i}}
  BY <1>1, <1>3
<1>9. UNCHANGED <<Makers, Closing, Freed, Lost>>
  <2>1. Lost' = Lost
    BY <1>1, <1>3, <1>6 DEF Lost
  <2> QED
    BY <1>1, <2>1, MakersUnchanged DEF Closing, Freed
<1>10. Closing = {}
  BY <1>2, GvlMeansUndisturbed
<1> QED
  BY <1>1, <1>3, <1>4, <1>6, <1>7, <1>8, <1>9, <1>10 DEF Contract!Return, Contract!Undisturbed

LEMMA TeardownCloses ==
  ASSUME LInv, NEW t \in Thread, NEW i \in held, GvlIsFree, BeginTeardown(t, i),
         owner[i] = t, i \notin disposed, ~InUse(i),
         held' = held \/ held' = held \ {i},
         UNCHANGED <<owner, birth, life, registry, frames>>
  PROVE  Contract!Close(t, i)
<1>1. /\ disposed' = disposed \cup {i}
      /\ teardown' = [teardown EXCEPT ![t] = [iso |-> i, phase |-> "join"]]
      /\ teardown \in [Thread -> Teardown \cup {None}] /\ i \in Isolate
  BY MakerOfHeld DEF BeginTeardown, LInv, TypeOK
<1>2. Closing' = {i}
  <2>1. teardown'[t].iso = i /\ [iso |-> i, phase |-> "join"] \in Teardown
    BY <1>1 DEF Teardown
  <2>2. teardown'[t] # None /\ \A u \in Thread : u # t => teardown'[u] = None
    BY <1>1, <2>1, LifecycleAssumption DEF GvlIsFree
  <2> QED
    BY <1>1, <2>1, <2>2 DEF Closing
<1>3. (held \ disposed)' = (held \ disposed) \ {i}
  BY <1>1
<1>4. UNCHANGED <<Makers, Freed, Lost, Calls>>
  BY <1>1, MakersUnchanged, CallsUnchanged DEF Freed, Lost
<1>5. Contract!Made(t, i) /\ ~Contract!Busy(i) /\ Closing = {}
  BY MakerOfHeld, BusyInUse, GvlMeansUndisturbed
<1> QED
  BY <1>2, <1>3, <1>4, <1>5 DEF Contract!Close, Contract!Undisturbed

LEMMA CollectLoses ==
  ASSUME LInv, NEW t \in Thread, NEW i \in held, GvlIsFree, CollectElsewhere(t, i), ~InUse(i),
         held' = held \ {i}, UNCHANGED <<owner, birth, life, registry, frames>>
  PROVE  Contract!Lose(t, i)
<1>1. i \notin disposed /\ owner[i] # t /\ UNCHANGED <<disposed, teardown>>
  BY DEF CollectElsewhere
<1>2. i \in Isolate /\ owner[i] # None /\ ~Contract!Made(t, i) /\ ~Contract!Busy(i)
  BY <1>1, MakerOfHeld, BusyInUse
<1>3. Lost' = Lost \cup {i}
  BY <1>1, <1>2 DEF Lost
<1>4. (held \ disposed)' = (held \ disposed) \ {i}
  BY <1>1
<1>5. UNCHANGED <<Makers, Closing, Freed, Calls>> /\ Closing = {}
  BY <1>1, MakersUnchanged, CallsUnchanged, GvlMeansUndisturbed DEF Closing, Freed
<1> QED
  BY <1>1, <1>2, <1>3, <1>4, <1>5 DEF Contract!Lose, Contract!Undisturbed

LEMMA DropFrees ==
  ASSUME LInv, NEW t \in Thread, DropIsolate(t)
  PROVE  \E i \in Isolate : Contract!Free(i)
<1>1. PICK i : i = teardown[t].iso
  OBVIOUS
<1>2. /\ teardown[t] # None /\ i \in Isolate /\ owner[i] # None
      /\ teardown \in [Thread -> Teardown \cup {None}] /\ i \in registry
      /\ \A u \in Thread : teardown[u] # None => u = t
  BY <1>1 DEF DropIsolate, LInv, TypeOK, TeardownsAreExclusive, Teardown
<1>3. /\ registry' = registry \ {i} /\ teardown' = [teardown EXCEPT ![t] = None]
      /\ UNCHANGED <<owner, birth, life, held, disposed, frames>>
  BY <1>1 DEF DropIsolate
<1>4. Closing' = {} /\ i \in Closing
  BY <1>1, <1>2, <1>3 DEF Closing
<1>5. Freed' = Freed \cup {i}
  BY <1>2, <1>3 DEF Freed
<1>6. UNCHANGED <<life, Makers, held \ disposed, Lost, Calls>>
  BY <1>3, MakersUnchanged, CallsUnchanged DEF Lost
<1> QED
  BY <1>2, <1>4, <1>5, <1>6 DEF Contract!Free

(* Host calls, the watchdog and the steps of a teardown are not seen. *)
LEMMA MarksKeepCalls ==
  ASSUME LInv, NEW t \in Thread, CallRuby(t) \/ RubyReturns(t)
  PROVE  UNCHANGED <<owner, birth, life, registry, held, disposed, teardown>> /\ Calls' = Calls
<1>1. PICK b, r : /\ b \in BOOLEAN /\ MarksTop(frames[t], b, r)
                  /\ frames' = [frames EXCEPT ![t] = r]
  <2>1. ASSUME CallRuby(t)
        PROVE  /\ MarksTop(frames[t], TRUE, [frames[t] EXCEPT ![Len(frames[t])].inRuby = TRUE])
               /\ frames' = [frames EXCEPT ![t] = [frames[t] EXCEPT ![Len(frames[t])].inRuby = TRUE]]
    BY <2>1, Zenon DEF CallRuby, MarksTop, RunsOperation
  <2>2. ASSUME RubyReturns(t)
        PROVE  /\ MarksTop(frames[t], FALSE, [frames[t] EXCEPT ![Len(frames[t])].inRuby = FALSE])
               /\ frames' = [frames EXCEPT ![t] = [frames[t] EXCEPT ![Len(frames[t])].inRuby = FALSE]]
    BY <2>2, Zenon DEF RubyReturns, MarksTop
  <2> QED
    BY <2>1, <2>2
<1>2. frames \in [Thread -> Seq(Frame)]
  BY DEF LInv, TypeOK
<1>3. DOMAIN r = DOMAIN frames[t] /\ \A k \in DOMAIN r : r[k].iso = frames[t][k].iso
  BY <1>1, <1>2, Marked
<1>4. frames'[t] = r /\ \A u \in Thread : u # t => frames'[u] = frames[u]
  BY <1>1, <1>2
<1>5. \A u \in Thread : Calls'[u] = Calls[u]
  BY <1>3, <1>4 DEF Calls
<1>6. Calls' = Calls
  BY <1>5 DEF Calls
<1> QED
  BY <1>6 DEF CallRuby, RubyReturns

LEMMA Unseen ==
  ASSUME UNCHANGED <<owner, birth, life, registry, teardown>>, Calls' = Calls,
         (held \ disposed)' = held \ disposed, Lost' = Lost
  PROVE  UNCHANGED Contract!vars
BY MakersUnchanged DEF Contract!vars, Closing, Freed

LEMMA StepIsPromised ==
  ASSUME LInv, [Next]_vars
  PROVE  Contract!Next \/ UNCHANGED Contract!vars
<1>1. ASSUME NEW t \in Thread,
             \/ ReuseAddress(t)
             \/ OperationReturns(t) \/ OperationPanics(t) \/ OperationInterrupted(t)
             \/ DropIsolate(t)
      PROVE  Contract!Next
  BY <1>1, ReuseSucceeds, LeaveReturns, DropFrees DEF Contract!Next
<1>2. ASSUME NEW t \in Thread, NEW i \in Isolate, New(t, i) \/ BeginOperation(t, i)
      PROVE  Contract!Next
  BY <1>2, NewMakes, BeginCalls DEF Contract!Next
<1>3. ASSUME NEW t \in Thread, NEW i \in Isolate, Dispose(t, i)
      PROVE  Contract!Next
  <2>1. /\ GvlIsFree /\ i \in held /\ owner[i] = t /\ i \notin disposed
        /\ BeginTeardown(t, i) /\ UNCHANGED <<owner, birth, life, registry, held, frames>>
    BY <1>3 DEF Dispose, RunsRuby, OwnerAndLive, threads
  <2>2. ~InUse(i)
    BY <1>3, FrameFacts DEF Dispose, Refused, InUse
  <2> QED
    BY <2>1, <2>2, TeardownCloses DEF Contract!Next
<1>4. ASSUME NEW t \in Thread, NEW i \in Isolate, Collect(t, i)
      PROVE  Contract!Next \/ UNCHANGED Contract!vars
  <2>1. /\ GvlIsFree /\ i \in held /\ ~InUse(i) /\ held' = held \ {i}
        /\ UNCHANGED <<owner, birth, life, registry, frames>>
    BY <1>4 DEF Collect, RunsRuby, threads
  <2>2. CASE CollectDisposed(t, i)
    <3>1. i \in disposed /\ UNCHANGED <<disposed, teardown>>
      BY <2>2 DEF CollectDisposed
    <3>2. (held \ disposed)' = held \ disposed /\ Lost' = Lost
      BY <2>1, <3>1 DEF Lost
    <3> QED
      BY <2>1, <3>1, <3>2, CallsUnchanged, Unseen
  <2>3. CASE CollectByOwner(t, i)
    BY <2>1, <2>3, TeardownCloses DEF CollectByOwner, Contract!Next
  <2>4. CASE CollectElsewhere(t, i)
    BY <2>1, <2>4, CollectLoses DEF Contract!Next
  <2> QED
    BY <1>4, <2>2, <2>3, <2>4 DEF Collect
<1>5. ASSUME NEW t \in Thread, CallRuby(t) \/ RubyReturns(t)
      PROVE  UNCHANGED Contract!vars
  BY <1>5, MarksKeepCalls, Unseen DEF Lost
<1>6. ASSUME NEW t \in Thread, Join(t)
      PROVE  UNCHANGED Contract!vars
  <2>1. /\ UNCHANGED <<owner, birth, life, registry, held, disposed, frames>>
        /\ teardown[t] # None /\ teardown' = [teardown EXCEPT ![t].phase = "drop"]
        /\ teardown \in [Thread -> Teardown \cup {None}]
    BY <1>6 DEF Join, LInv, TypeOK
  <2>2. teardown'[t] \in Teardown /\ teardown'[t].iso = teardown[t].iso
    BY <2>1 DEF Teardown
  <2>3. \A u \in Thread : (teardown'[u] # None <=> teardown[u] # None)
                          /\ (u # t => teardown'[u] = teardown[u])
    BY <2>1, <2>2, LifecycleAssumption
  <2>4. Closing' = Closing
    BY <2>2, <2>3 DEF Closing
  <2> QED
    BY <2>1, <2>4, CallsUnchanged, MakersUnchanged DEF Contract!vars, Freed, Lost
<1>7. ASSUME NEW i \in Isolate, WatchdogStops(i)
      PROVE  UNCHANGED Contract!vars
  BY <1>7, CallsUnchanged, Unseen DEF WatchdogStops, threads, Lost
<1>8. ASSUME UNCHANGED vars
      PROVE  UNCHANGED Contract!vars
  BY <1>8, CallsUnchanged, Unseen DEF vars, threads, Lost
<1> QED
  BY <1>1, <1>2, <1>3, <1>4, <1>5, <1>6, <1>7, <1>8 DEF Next

LEMMA InitIsPromised ==
  ASSUME Init
  PROVE  Contract!Init
<1>1. Closing = {} /\ Freed = {} /\ Lost = {} /\ Calls = [t \in Thread |-> <<>>]
      /\ Makers = [i \in Isolate |-> None] /\ held \ disposed = {}
  BY DEF Init, Closing, Freed, Lost, Calls, Makers
<1> QED
  BY <1>1 DEF Init, Contract!Init

(***************************************************************************)
(* Core::run, dispose and the drop of the last wrapper keep every isolate  *)
(* to the thread that made it, on which it is torn down at most once and   *)
(* while no operation of it is in progress; lost ones are left alone.      *)
(***************************************************************************)
THEOREM RefinesIsolates == Spec => ImplementsIsolates
<1>1. LInv /\ [Next]_vars => [Contract!Next]_(Contract!vars)
  BY StepIsPromised
<1> QED
  BY <1>1, InitIsPromised, LifecycleInvariance, PTL
     DEF Spec, ImplementsIsolates, Contract!Spec
=============================================================================
