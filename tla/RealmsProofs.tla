---------------------------- MODULE RealmsProofs ----------------------------
(***************************************************************************)
(* No reset and no dispose takes the context from under a suspended        *)
(* request, and a function of a live realm calls the proc it was attached  *)
(* with: for any number of realms, contexts and procs and any depth.       *)
(***************************************************************************)
EXTENDS Realms, ProcTableProofs, SequenceTheorems

(* The slot of the realm holds the proc: p is a function that attach has    *)
(* installed, or has still to install.                                      *)
Held(p, realm) ==
    /\ p.slot \in DOMAIN slots /\ slots[p.slot].realm = realm
    /\ InUse(p.slot) /\ slots[p.slot].proc = p.proc

(* What is true of an activation for as long as it is on the stack. *)
Grounded(a) ==
    /\ a.kind \in JsKind => a.ctx \in DOMAIN stamp /\ stamp[a.ctx] = a.realm
    /\ a.kind = "request" =>
         /\ current[a.realm] = a.ctx
         /\ \A k \in DOMAIN a.pending : Held(a.pending[k], a.realm)
    /\ a.kind \in {"call", "microtask"} => a.pending = <<>>

(* c counts the requests: each has its realm in act, in the same order. *)
CountedBy(c, stk, act) ==
    /\ c[Len(stk)] <= Len(act)
    /\ \A i, j \in 0..Len(stk) : i <= j => c[i] <= c[j]
    /\ \A i \in 1..Len(stk) : stk[i].kind = "request" =>
         c[i - 1] < c[i] /\ act[c[i]] = stk[i].realm
Counted(stk, act) == \E c \in [0..Len(stk) -> Nat] : CountedBy(c, stk, act)

(* A realm has a context of its own, once it was created. *)
Born ==
    /\ current[MainRealm] # None
    /\ \A r \in Realm : current[r] # None => r < nextContextId /\ stamp[current[r]] = r

(* A function of a live context has its slot, of that context's realm. *)
Reaches(f) ==
    /\ f.ctx \in DOMAIN stamp
    /\ Live(f.ctx) => Held(f, stamp[f.ctx])

RInv ==
    /\ TypeOK
    /\ FreeListIsExact
    /\ Born
    /\ Counted(stack, activeRealms)
    /\ \A i \in DOMAIN stack : Grounded(stack[i])
    /\ \A f \in functions : Reaches(f)

-----------------------------------------------------------------------------
(* Requests and active realms *)

LEMMA SameRequests ==
  ASSUME NEW stk \in Seq(Activation), NEW other \in Seq(Activation), NEW act \in Seq(Realm),
         Len(other) = Len(stk), Counted(stk, act),
         \A i \in 1..Len(stk) : other[i].kind = "request" =>
            stk[i].kind = "request" /\ other[i].realm = stk[i].realm
  PROVE  Counted(other, act)
  BY Zenon DEF Counted, CountedBy

LEMMA AppendElements ==
  ASSUME NEW T, NEW q \in Seq(T), NEW e \in T
  PROVE  /\ Append(q, e) \in Seq(T)
         /\ Len(Append(q, e)) = Len(q) + 1
         /\ \A i \in 1..Len(q) : Append(q, e)[i] = q[i]
         /\ Append(q, e)[Len(q) + 1] = e
  OBVIOUS

(* An activation on top: the count goes on. *)
LEMMA PushCounts ==
  ASSUME NEW stk \in Seq(Activation), NEW act \in Seq(Realm), Counted(stk, act),
         NEW a \in Activation, NEW next \in Seq(Realm),
         \/ a.kind # "request" /\ next = act
         \/ a.kind = "request" /\ next = Append(act, a.realm) /\ a.realm \in Realm
  PROVE  Counted(Append(stk, a), next)
<1> DEFINE d == Len(stk)
           new == Append(stk, a)
<1>0. d \in Nat /\ Len(act) \in Nat /\ Len(next) \in Nat
  OBVIOUS
<1>1. PICK c \in [0..d -> Nat] : CountedBy(c, stk, act)
  BY DEF Counted
<1>2. Len(new) = d + 1 /\ new[d + 1] = a /\ \A i \in 1..d : new[i] = stk[i]
  BY AppendElements
<1> DEFINE e == [i \in 0..(d + 1) |-> IF i <= d THEN c[i] ELSE Len(next)]
<1>3. e \in [0..Len(new) -> Nat]
  BY <1>0, <1>2
<1>4. c[d] <= Len(act) /\ Len(act) <= Len(next)
  BY <1>0, <1>1, AppendElements DEF CountedBy
<1>5. \A i, j \in 0..(d + 1) : i <= j => e[i] <= e[j]
  <2> SUFFICES ASSUME NEW i \in 0..(d + 1), NEW j \in 0..(d + 1), i <= j
               PROVE  e[i] <= e[j]
    OBVIOUS
  <2>1. CASE j <= d
    BY <2>1, <1>0, <1>1 DEF CountedBy
  <2>2. CASE j > d /\ i <= d
    <3>1. i \in 0..d /\ d \in 0..d
      BY <2>2, <1>0
    <3>2. c[i] <= c[d]
      BY <3>1, <1>1 DEF CountedBy
    <3>3. c[i] \in Nat /\ c[d] \in Nat
      BY <3>1
    <3> QED
      BY <2>2, <3>1, <3>2, <3>3, <1>0, <1>4
  <2>3. CASE i > d
    BY <2>3, <1>0
  <2> QED
    BY <2>1, <2>2, <2>3, <1>0
<1>6. ASSUME NEW i \in 1..(d + 1), new[i].kind = "request"
      PROVE  e[i - 1] < e[i] /\ next[e[i]] = new[i].realm
  <2>1. CASE i <= d
    <3>1. i \in 1..d /\ i - 1 \in 0..d /\ i \in 0..d
      BY <2>1, <1>0
    <3>2. c[i - 1] < c[i] /\ act[c[i]] = stk[i].realm
      BY <3>1, <1>1, <1>2, <1>6 DEF CountedBy
    <3>3. e[i] = c[i] /\ e[i - 1] = c[i - 1]
      BY <3>1, <1>0
    <3>4. c[i] <= c[d] /\ c[i] \in Nat /\ c[i - 1] \in Nat /\ c[d] \in Nat
      <4>1. i <= d /\ d \in 0..d
        BY <3>1, <1>0
      <4>2. c[i] <= c[d]
        BY <3>1, <4>1, <1>1 DEF CountedBy
      <4> QED
        BY <3>1, <4>1, <4>2
    <3>5. c[i] \in 1..Len(act)
      BY <3>2, <3>4, <1>0, <1>4
    <3>6. next[c[i]] = act[c[i]]
      BY <3>5, AppendElements
    <3> QED
      BY <3>1, <3>2, <3>3, <3>6, <1>2
  <2>2. CASE i = d + 1
    <3>1. a.kind = "request" /\ next = Append(act, a.realm) /\ a.realm \in Realm
      BY <2>2, <1>2, <1>6
    <3>2. Len(next) = Len(act) + 1 /\ next[Len(next)] = a.realm
      BY <3>1, AppendElements
    <3>3. e[i] = Len(next) /\ e[i - 1] = c[d] /\ c[d] \in Nat
      BY <2>2, <1>0
    <3> QED
      BY <2>2, <3>2, <3>3, <1>0, <1>2, <1>4
  <2> QED
    BY <2>1, <2>2, <1>0
<1>7. CountedBy(e, new, next)
  <2>1. e[d + 1] = Len(next)
    BY <1>0
  <2> HIDE DEF e
  <2> QED
    BY <2>1, <1>0, <1>2, <1>5, <1>6 DEF CountedBy
<1> QED
  BY <1>3, <1>7 DEF Counted

(* The top is gone: its realm with it, if it was a request. *)
LEMMA PopCounts ==
  ASSUME NEW stk \in Seq(Activation), NEW act \in Seq(Realm), Counted(stk, act),
         stk # <<>>, NEW next \in Seq(Realm),
         \/ stk[Len(stk)].kind # "request" /\ next = act
         \/ stk[Len(stk)].kind = "request" /\ next = SubSeq(act, 1, Len(act) - 1)
  PROVE  Counted(SubSeq(stk, 1, Len(stk) - 1), next)
<1> DEFINE d == Len(stk)
           new == SubSeq(stk, 1, d - 1)
<1>0. d \in Nat /\ d > 0 /\ Len(act) \in Nat /\ d - 1 \in 0..d /\ d \in 0..d
  OBVIOUS
<1>1. PICK c \in [0..d -> Nat] : CountedBy(c, stk, act)
  BY DEF Counted
<1>2. Len(new) = d - 1 /\ \A i \in 1..(d - 1) : new[i] = stk[i]
  BY <1>0
<1> DEFINE e == [i \in 0..(d - 1) |-> c[i]]
<1>3. e \in [0..Len(new) -> Nat]
  BY <1>0, <1>2
<1> HIDE DEF e, new
<1>4. c[d - 1] \in Nat /\ c[d] \in Nat /\ c[d - 1] <= c[d] /\ c[d] <= Len(act)
  <2>1. c[d - 1] \in Nat /\ c[d] \in Nat /\ d - 1 <= d
    BY <1>0
  <2>2. c[d] <= Len(act)
    BY <1>1 DEF CountedBy
  <2>3. c[d - 1] <= c[d]
    BY <2>1, <1>0, <1>1 DEF CountedBy
  <2> QED
    BY <2>1, <2>2, <2>3
<1> USE DEF e, new
<1>5. c[d - 1] <= Len(next) /\ Len(next) \in Nat /\ \A k \in 1..Len(next) : next[k] = act[k]
  <2>1. CASE stk[d].kind # "request" /\ next = act
    BY <2>1, <1>0, <1>4
  <2>2. CASE stk[d].kind = "request" /\ next = SubSeq(act, 1, Len(act) - 1)
    <3>1. c[d - 1] < c[d]
      BY <2>2, <1>0, <1>1 DEF CountedBy
    <3>2. Len(act) - 1 \in 0..Len(act)
      BY <3>1, <1>0, <1>4
    <3>3. DOMAIN next = 1..(Len(act) - 1) /\ \A k \in 1..(Len(act) - 1) : next[k] = act[k]
      BY <2>2, <3>2, Prefix
    <3>4. Len(next) = Len(act) - 1
      BY <3>2, <3>3, <1>0
    <3> QED
      BY <3>1, <3>3, <3>4, <1>0, <1>4
  <2> QED
    BY <2>1, <2>2
<1>6. \A i, j \in 0..(d - 1) : i <= j => e[i] <= e[j]
  BY <1>0, <1>1 DEF CountedBy
<1>7. ASSUME NEW i \in 1..(d - 1), new[i].kind = "request"
      PROVE  e[i - 1] < e[i] /\ next[e[i]] = new[i].realm
  <2>1. i \in 1..d /\ i - 1 \in 0..(d - 1) /\ i \in 0..(d - 1) /\ i <= d - 1 /\ i \in 0..d
    BY <1>0
  <2>2. c[i - 1] < c[i] /\ act[c[i]] = stk[i].realm
    BY <2>1, <1>1, <1>2, <1>7 DEF CountedBy
  <2>3. c[i] <= c[d - 1] /\ c[i] \in Nat /\ c[i - 1] \in Nat
    <3>1. i - 1 \in 0..d
      BY <2>1, <1>0
    <3>2. c[i] <= c[d - 1]
      BY <2>1, <1>0, <1>1 DEF CountedBy
    <3> QED
      BY <2>1, <3>1, <3>2
  <2>4. c[i] \in 1..Len(next)
    BY <2>2, <2>3, <1>4, <1>5
  <2> QED
    BY <2>1, <2>2, <2>4, <1>2, <1>5
<1>8. CountedBy(e, new, next)
  <2>1. e[d - 1] = c[d - 1]
    BY <1>0
  <2> HIDE DEF e
  <2> QED
    BY <2>1, <1>0, <1>2, <1>5, <1>6, <1>7 DEF CountedBy
<1> QED
  BY <1>3, <1>8 DEF Counted

(* The realm of a request on the stack is active. *)
LEMMA RequestsAreActive ==
  ASSUME stack \in Seq(Activation), activeRealms \in Seq(Realm), Counted(stack, activeRealms),
         NEW i \in DOMAIN stack, stack[i].kind = "request"
  PROVE  Active(stack[i].realm)
<1>1. PICK c \in [0..Len(stack) -> Nat] : CountedBy(c, stack, activeRealms)
  BY DEF Counted
<1>2. Len(stack) \in Nat /\ i \in 1..Len(stack) /\ Len(activeRealms) \in Nat
  OBVIOUS
<1>3. i - 1 \in 0..Len(stack) /\ i \in 0..Len(stack) /\ Len(stack) \in 0..Len(stack) /\ i <= Len(stack)
  BY <1>2
<1>4. c[i - 1] < c[i] /\ c[i] <= c[Len(stack)] /\ activeRealms[c[i]] = stack[i].realm
  BY <1>1, <1>2, <1>3 DEF CountedBy
<1>5. c[i] \in 1..Len(activeRealms)
  BY <1>1, <1>2, <1>3, <1>4 DEF CountedBy
<1> QED
  BY <1>4, <1>5 DEF Active

-----------------------------------------------------------------------------
(* Steps that change no realm and no slot *)

LEMMA FrameKinds ==
  ASSUME NEW a \in Activation, a.kind \in JsKind
  PROVE  a \in ScriptFrame
  BY DEF Activation, JsKind

LEMMA Positions ==
  ASSUME TypeOK
  PROVE  /\ Len(stack) \in Nat /\ DOMAIN stack = 1..Len(stack)
         /\ \A i \in 1..Len(stack) : stack[i] \in Activation
         /\ stack # <<>> => Len(stack) \in 1..Len(stack)
  BY DEF TypeOK

LEMMA ScriptStep ==
  ASSUME RInv,
         UNCHANGED <<current, nextContextId, stamp, table, attached, disposed>>,
         functions' \subseteq HostFunction, \A f \in functions' : Reaches(f),
         stack' \in Seq(Activation), Len(stack') <= MaxDepth,
         activeRealms' \in Seq(Realm), draining' \in BOOLEAN,
         queued' \subseteq DOMAIN stamp,
         handler' \in [ctx : {None} \cup DOMAIN stamp, tag : Realm],
         Counted(stack', activeRealms'),
         \A i \in DOMAIN stack' : Grounded(stack'[i])
  PROVE  RInv'
<1>1. TypeOK'
  BY DEF RInv, TypeOK, TableTypeOK, ProcSlot, table
<1>2. FreeListIsExact' /\ Born'
  BY DEF RInv, FreeListIsExact, Born, InUse, table
<1>3. \A i \in DOMAIN stack' : Grounded(stack[i])'
  BY DEF Grounded, Held, InUse, table
<1>4. \A f \in functions' : Reaches(f)'
  BY DEF RInv, Reaches, Held, Live, InUse, table
<1> QED
  BY <1>1, <1>2, <1>3, <1>4 DEF RInv

LEMMA StackStep ==
  ASSUME RInv,
         UNCHANGED <<current, nextContextId, stamp, table, attached, functions, disposed>>,
         stack' \in Seq(Activation), Len(stack') <= MaxDepth,
         activeRealms' \in Seq(Realm), draining' \in BOOLEAN,
         queued' \subseteq DOMAIN stamp,
         handler' \in [ctx : {None} \cup DOMAIN stamp, tag : Realm],
         Counted(stack', activeRealms'),
         \A i \in DOMAIN stack' : Grounded(stack'[i])
  PROVE  RInv'
<1>1. functions' \subseteq HostFunction /\ \A f \in functions' : Reaches(f)
  BY DEF RInv, TypeOK
<1> QED
  BY <1>1, ScriptStep

LEMMA PushStep ==
  ASSUME RInv, NEW a \in Activation, Grounded(a), Push(a),
         \/ a.kind # "request" /\ UNCHANGED activeRealms
         \/ a.kind = "request" /\ activeRealms' = Append(activeRealms, a.realm),
         UNCHANGED <<realms, procs, disposed>>,
         draining' \in BOOLEAN, queued' \subseteq DOMAIN stamp
  PROVE  RInv'
<1>1. stack \in Seq(Activation) /\ activeRealms \in Seq(Realm) /\ Len(stack) \in Nat
  BY DEF RInv, TypeOK
<1>2. a.kind = "request" => a.realm \in Realm
  BY FrameKinds DEF JsKind, ScriptFrame
<1>3. /\ stack' = Append(stack, a) /\ Len(stack) < MaxDepth
      /\ stack' \in Seq(Activation) /\ Len(stack') = Len(stack) + 1
      /\ \A i \in 1..Len(stack) : stack'[i] = stack[i]
      /\ stack'[Len(stack) + 1] = a
  BY <1>1, AppendElements DEF Push, Depth
<1>4. activeRealms' \in Seq(Realm)
  BY <1>1, <1>2
<1>5. Counted(stack', activeRealms')
  BY <1>1, <1>2, <1>3, <1>4, PushCounts DEF RInv
<1>6. \A i \in DOMAIN stack' : Grounded(stack'[i])
  BY <1>1, <1>3 DEF RInv
<1>7. Len(stack') <= MaxDepth
  BY <1>1, <1>3, RealmsAssumption
<1>8. handler' \in [ctx : {None} \cup DOMAIN stamp, tag : Realm]
  BY DEF RInv, TypeOK, realms
<1> QED
  BY <1>3, <1>4, <1>5, <1>6, <1>7, <1>8, StackStep DEF realms, procs

LEMMA PopStep ==
  ASSUME RInv, stack # <<>>, Pop,
         \/ Top.kind # "request" /\ UNCHANGED activeRealms
         \/ Top.kind = "request" /\ PopRealm,
         UNCHANGED <<realms, procs, disposed>>,
         draining' \in BOOLEAN, queued' \subseteq DOMAIN stamp
  PROVE  RInv'
<1>1. stack \in Seq(Activation) /\ activeRealms \in Seq(Realm) /\ Len(stack) \in Nat
      /\ Len(stack) <= MaxDepth /\ Len(stack) - 1 \in 0..Len(stack)
  BY DEF RInv, TypeOK
<1>2. /\ stack' = SubSeq(stack, 1, Len(stack) - 1)
      /\ stack' \in Seq(Activation) /\ DOMAIN stack' = 1..(Len(stack) - 1)
      /\ \A i \in 1..(Len(stack) - 1) : i \in 1..Len(stack) /\ stack'[i] = stack[i]
  BY <1>1, Prefix DEF Pop, Depth
<1>3. activeRealms' \in Seq(Realm)
  <2>1. SubSeq(activeRealms, 1, Len(activeRealms) - 1) \in Seq(Realm)
    BY <1>1
  <2> QED
    BY <2>1, <1>1 DEF PopRealm
<1>4. Counted(stack', activeRealms')
  BY <1>1, <1>2, <1>3, PopCounts DEF RInv, Top, Depth, PopRealm
<1>5. \A i \in DOMAIN stack' : Grounded(stack'[i])
  BY <1>1, <1>2 DEF RInv
<1>6. Len(stack') <= MaxDepth
  BY <1>1, <1>2, RealmsAssumption
<1>7. handler' \in [ctx : {None} \cup DOMAIN stamp, tag : Realm]
  BY DEF RInv, TypeOK, realms
<1> QED
  BY <1>2, <1>3, <1>4, <1>5, <1>6, <1>7, StackStep DEF realms, procs

(* What is on top of an isolate that runs a script. *)
LEMMA TopIsFrame ==
  ASSUME RInv, InScript
  PROVE  /\ Top \in ScriptFrame /\ Depth \in 1..Len(stack) /\ Grounded(Top)
         /\ Top.ctx \in DOMAIN stamp
<1>1. stack # <<>> /\ Top.kind \in JsKind
  BY DEF InScript, TopIs, Idle
<1>2. Depth \in 1..Len(stack) /\ Top \in Activation
  BY <1>1, Positions DEF RInv, Depth, Top
<1> QED
  BY <1>1, <1>2, FrameKinds DEF RInv, Top, Grounded

(* The context of a realm is a context, stamped with the realm. *)
LEMMA CurrentIsBorn ==
  ASSUME RInv, NEW r \in Realm, current[r] # None
  PROVE  current[r] \in DOMAIN stamp /\ current[r] \in Context /\ stamp[current[r]] = r
<1>1. current[r] \in DOMAIN stamp /\ stamp \in Seq(Realm) /\ Len(stamp) <= MaxContexts
  BY DEF RInv, TypeOK
<1>2. Len(stamp) \in Nat
  BY <1>1
<1> QED
  BY <1>1, <1>2, RealmsAssumption DEF RInv, Born, Context

LEMMA StampsAreRealms ==
  ASSUME RInv, NEW ctx \in DOMAIN stamp
  PROVE  ctx \in Context /\ stamp[ctx] \in Realm
<1>1. stamp \in Seq(Realm) /\ Len(stamp) <= MaxContexts /\ Len(stamp) \in Nat
  BY DEF RInv, TypeOK
<1> QED
  BY <1>1, RealmsAssumption DEF Context

-----------------------------------------------------------------------------
(* The actions of a script, and of the checkpoints *)

LEMMA StartRInv == Init => RInv
<1> SUFFICES ASSUME Init PROVE RInv
  OBVIOUS
<1>1. /\ stack = <<>> /\ Len(stack) = 0 /\ DOMAIN stack = {} /\ activeRealms = <<>>
      /\ Len(activeRealms) = 0 /\ functions = {}
      /\ stamp = <<MainRealm>> /\ Len(stamp) = 1 /\ DOMAIN stamp = {1} /\ stamp[1] = MainRealm
      /\ MainRealm \in Realm /\ MainRealm = 0 /\ None = 0
  BY RealmsAssumption DEF Init, MainRealm, None
<1>2. TableTypeOK /\ FreeListIsExact
  BY InitInductive DEF Init, IInv
<1>3. TypeOK
  <2>1. stack \in Seq(Activation) /\ activeRealms \in Seq(Realm)
    BY <1>1
  <2>2. stamp \in Seq(Realm) /\ Len(stamp) <= MaxContexts
    BY <1>1, RealmsAssumption
  <2>3. current \in [Realm -> {None} \cup DOMAIN stamp]
    BY <1>1 DEF Init
  <2>4. handler \in [ctx : {None} \cup DOMAIN stamp, tag : Realm]
    BY <1>1 DEF Init, NoHandler
  <2> QED
    BY <2>1, <2>2, <2>3, <2>4, <1>1, <1>2, RealmsAssumption DEF Init, TypeOK
<1>4. Born
  BY <1>1, RealmsAssumption DEF Init, Born
<1>5. Counted(stack, activeRealms)
  <2>1. [i \in 0..0 |-> 0] \in [0..Len(stack) -> Nat]
    BY <1>1
  <2>2. CountedBy([i \in 0..0 |-> 0], stack, activeRealms)
    BY <1>1 DEF CountedBy
  <2> QED
    BY <2>1, <2>2 DEF Counted
<1> QED
  BY <1>1, <1>2, <1>3, <1>4, <1>5 DEF RInv

LEMMA BeginRequestInductive ==
  ASSUME RInv, NEW w \in Wrapper, BeginRequest(w)
  PROVE  RInv'
<1> DEFINE a == Script("request", w.realm, current[w.realm], <<>>)
<1>1. w.realm \in Realm /\ current[w.realm] # None
  BY DEF BeginRequest, Wrapper
<1>2. /\ Push(a) /\ activeRealms' = Append(activeRealms, w.realm)
      /\ UNCHANGED <<draining, realms, queued, procs, disposed>>
  BY <1>1 DEF BeginRequest, Enter
<1>3. a \in ScriptFrame /\ a.kind = "request" /\ a.realm = w.realm
      /\ a.ctx = current[w.realm] /\ a.pending = <<>>
  BY <1>1, CurrentIsBorn DEF Script, ScriptFrame, JsKind
<1>4. Grounded(a)
  BY <1>1, <1>3, CurrentIsBorn DEF Grounded
<1>5. a \in Activation
  BY <1>3 DEF Activation
<1>6. draining' \in BOOLEAN /\ queued' \subseteq DOMAIN stamp
  BY <1>2 DEF RInv, TypeOK
<1> HIDE DEF a
<1> QED
  BY <1>2, <1>3, <1>4, <1>5, <1>6, PushStep

LEMMA CallRealmInductive ==
  ASSUME RInv, NEW realm \in Realm, CallRealm(realm)
  PROVE  RInv'
<1> DEFINE a == Script("call", realm, current[realm], <<>>)
<1>1. current[realm] # None /\ Push(a)
      /\ UNCHANGED <<activeRealms, draining, realms, queued, procs, disposed>>
  BY DEF CallRealm
<1>2. a \in ScriptFrame /\ a.kind = "call" /\ a.realm = realm
      /\ a.ctx = current[realm] /\ a.pending = <<>>
  BY <1>1, CurrentIsBorn DEF Script, ScriptFrame, JsKind
<1>3. Grounded(a) /\ a \in Activation
  BY <1>1, <1>2, CurrentIsBorn DEF Grounded, Activation
<1>4. draining' \in BOOLEAN /\ queued' \subseteq DOMAIN stamp
  BY <1>1 DEF RInv, TypeOK
<1> HIDE DEF a
<1> QED
  BY <1>1, <1>2, <1>3, <1>4, PushStep

LEMMA MicrotaskInductive ==
  ASSUME RInv, NEW ctx \in queued, Microtask(ctx)
  PROVE  RInv'
<1> DEFINE a == Script("microtask", stamp[ctx], ctx, <<>>)
<1>1. Push(a) /\ queued' = queued \ {ctx}
      /\ UNCHANGED <<activeRealms, draining, realms, procs, disposed>>
  BY DEF Microtask
<1>2. queued \subseteq DOMAIN stamp /\ draining \in BOOLEAN
  BY DEF RInv, TypeOK
<1>3. ctx \in DOMAIN stamp /\ ctx \in Context /\ stamp[ctx] \in Realm
  BY <1>2, StampsAreRealms
<1>4. a \in ScriptFrame /\ a.kind = "microtask" /\ a.realm = stamp[ctx]
      /\ a.ctx = ctx /\ a.pending = <<>>
  BY <1>3 DEF Script, ScriptFrame, JsKind
<1>5. Grounded(a) /\ a \in Activation
  BY <1>3, <1>4 DEF Grounded, Activation
<1>6. draining' \in BOOLEAN /\ queued' \subseteq DOMAIN stamp
  BY <1>1, <1>2
<1> HIDE DEF a
<1> QED
  BY <1>1, <1>4, <1>5, <1>6, PushStep

LEMMA CallHostInductive ==
  ASSUME RInv, NEW f \in functions, CallHost(f)
  PROVE  RInv'
<1> DEFINE a == [kind |-> "host"]
<1>1. Push(a) /\ UNCHANGED <<activeRealms, draining, realms, queued, procs, disposed>>
  BY DEF CallHost
<1>2. a \in Activation /\ a.kind = "host"
  BY DEF Activation
<1>3. Grounded(a)
  BY <1>2 DEF Grounded, JsKind
<1>4. draining' \in BOOLEAN /\ queued' \subseteq DOMAIN stamp
  BY <1>1 DEF RInv, TypeOK
<1> HIDE DEF a
<1> QED
  BY <1>1, <1>2, <1>3, <1>4, PushStep

LEMMA ScriptDrainsInductive ==
  ASSUME RInv, ScriptDrains
  PROVE  RInv'
<1> DEFINE a == Checkpoint(FALSE)
<1>1. Push(a) /\ UNCHANGED <<activeRealms, draining, realms, queued, procs, disposed>>
  BY DEF ScriptDrains
<1>2. draining \in BOOLEAN
  BY DEF RInv, TypeOK
<1>3. a \in Activation /\ a.kind = "checkpoint"
  BY <1>2 DEF Activation, Checkpoint
<1>4. Grounded(a)
  BY <1>3 DEF Grounded, JsKind
<1>5. draining' \in BOOLEAN /\ queued' \subseteq DOMAIN stamp
  BY <1>1 DEF RInv, TypeOK
<1> HIDE DEF a
<1> QED
  BY <1>1, <1>3, <1>4, <1>5, PushStep

LEMMA EnqueueInductive ==
  ASSUME RInv, Enqueue
  PROVE  RInv'
<1>1. Top.ctx \in DOMAIN stamp
  BY TopIsFrame DEF Enqueue
<1> QED
  BY <1>1, StackStep DEF Enqueue, realms, procs, RInv, TypeOK

LEMMA RegisterHandlerInductive ==
  ASSUME RInv, RegisterHandler
  PROVE  RInv'
<1>1. Top.ctx \in DOMAIN stamp /\ stamp[Top.ctx] \in Realm /\ MainRealm \in Realm
  BY TopIsFrame, StampsAreRealms, RealmsAssumption DEF RegisterHandler, MainRealm
<1>2. handler' \in [ctx : {None} \cup DOMAIN stamp, tag : Realm]
  BY <1>1 DEF RegisterHandler
<1> QED
  BY <1>2, StackStep DEF RegisterHandler, procs, RInv, TypeOK

(* A frame on top whose realm and context stay, and what is rooted in it. *)
LEMMA TopChanges ==
  ASSUME RInv, InScript, NEW a \in ScriptFrame,
         a.kind = Top.kind, a.realm = Top.realm, Grounded(a)
  PROVE  LET mid == [stack EXCEPT ![Depth] = a]
         IN  /\ mid \in Seq(Activation) /\ Len(mid) = Len(stack)
             /\ Counted(mid, activeRealms)
             /\ \A i \in DOMAIN mid : Grounded(mid[i])
<1> DEFINE mid == [stack EXCEPT ![Depth] = a]
<1>1. /\ stack \in Seq(Activation) /\ activeRealms \in Seq(Realm) /\ Len(stack) \in Nat
      /\ Depth \in 1..Len(stack) /\ a \in Activation
  BY TopIsFrame DEF RInv, TypeOK, Activation
<1>2. /\ mid \in Seq(Activation) /\ Len(mid) = Len(stack) /\ DOMAIN mid = 1..Len(stack)
      /\ \A i \in 1..Len(stack) : mid[i] = IF i = Depth THEN a ELSE stack[i]
  BY <1>1
<1> HIDE DEF mid
<1>3. \A i \in 1..Len(stack) : mid[i].kind = stack[i].kind /\
                               (mid[i].kind = "request" => mid[i].realm = stack[i].realm)
  BY <1>1, <1>2 DEF Top
<1>4. Counted(mid, activeRealms)
  BY <1>1, <1>2, <1>3, SameRequests DEF RInv
<1>5. \A i \in DOMAIN mid : Grounded(mid[i])
  BY <1>1, <1>2 DEF RInv
<1> QED
  BY <1>2, <1>4, <1>5 DEF mid

LEMMA TailElements ==
  ASSUME NEW T, NEW q \in Seq(T), q # <<>>
  PROVE  Tail(q) \in Seq(T) /\ \A k \in DOMAIN Tail(q) : k + 1 \in DOMAIN q /\ Tail(q)[k] = q[k + 1]
<1>1. /\ Tail(q) \in Seq(T) /\ Len(Tail(q)) = Len(q) - 1
      /\ \A i \in 1..Len(Tail(q)) : Tail(q)[i] = q[i + 1]
  BY HeadTailProperties
<1>2. Len(q) \in Nat
  OBVIOUS
<1> QED
  BY <1>1, <1>2

LEMMA InstallInductive ==
  ASSUME RInv, Install
  PROVE  RInv'
<1>1. /\ InScript /\ Top.pending # <<>>
      /\ UNCHANGED <<activeRealms, draining, realms, queued, table, attached, disposed>>
  BY DEF Install
<1>2. /\ Top \in ScriptFrame /\ Depth \in 1..Len(stack) /\ Grounded(Top)
      /\ Top.ctx \in DOMAIN stamp /\ Top.pending \in Seq(Pending)
  BY <1>1, TopIsFrame DEF ScriptFrame
<1>3. Top.kind = "request" /\ stamp[Top.ctx] = Top.realm
  BY <1>1, <1>2 DEF Grounded, ScriptFrame, JsKind
<1>4. /\ \A k \in DOMAIN Top.pending : Held(Top.pending[k], Top.realm)
      /\ 1 \in DOMAIN Top.pending
  BY <1>1, <1>2, <1>3 DEF Grounded
<1>5. ASSUME NEW rest \in Seq(Pending),
             \A k \in DOMAIN rest : Held(rest[k], Top.realm),
             stack' = [stack EXCEPT ![Depth].pending = rest],
             functions' \subseteq HostFunction, \A f \in functions' : Reaches(f)
      PROVE  RInv'
  <2> DEFINE a == [Top EXCEPT !.pending = rest]
  <2>1. a \in ScriptFrame /\ a.kind = Top.kind /\ a.realm = Top.realm
        /\ a.ctx = Top.ctx /\ a.pending = rest
    BY <1>2, <1>5 DEF ScriptFrame
  <2>2. Grounded(a)
    BY <1>2, <1>3, <1>5, <2>1 DEF Grounded, JsKind
  <2>3. stack' = [stack EXCEPT ![Depth] = a]
    BY <1>5 DEF Top
  <2> HIDE DEF a
  <2>4. /\ stack' \in Seq(Activation) /\ Len(stack') = Len(stack)
        /\ Counted(stack', activeRealms)
        /\ \A i \in DOMAIN stack' : Grounded(stack'[i])
    BY <1>1, <2>1, <2>2, <2>3, TopChanges
  <2> QED
    BY <1>1, <1>5, <2>4, ScriptStep DEF RInv, TypeOK, realms
<1>6. CASE stack' = [stack EXCEPT ![Depth].pending = <<>>] /\ UNCHANGED functions
  <2>1. functions' \subseteq HostFunction /\ \A f \in functions' : Reaches(f)
    BY <1>6 DEF RInv, TypeOK
  <2>2. <<>> \in Seq(Pending) /\ DOMAIN <<>> = {}
    OBVIOUS
  <2> QED
    BY <1>5, <1>6, <2>1, <2>2
<1>7. CASE /\ stack' = [stack EXCEPT ![Depth].pending = Tail(@)]
           /\ LET next == Head(Top.pending)
              IN functions' = functions \cup
                    {[ctx |-> Top.ctx, slot |-> next.slot, proc |-> next.proc]}
  <2> DEFINE next == Head(Top.pending)
             f == [ctx |-> Top.ctx, slot |-> next.slot, proc |-> next.proc]
             rest == Tail(Top.pending)
  <2>1. next = Top.pending[1] /\ Held(next, Top.realm) /\ next \in Pending
    <3>1. next = Top.pending[1]
      BY <1>1, <1>2
    <3>2. Top.pending[1] \in Pending
      <4>1. Top.pending \in Seq(Pending) /\ 1 \in 1..Len(Top.pending)
        BY <1>2, <1>4
      <4> QED
        BY <4>1, ElementOfSeq
    <3> QED
      BY <1>4, <3>1, <3>2
  <2> HIDE DEF next
  <2>2. f.slot = next.slot /\ f.proc = next.proc /\ f.ctx = Top.ctx
    OBVIOUS
  <2>3. f \in HostFunction /\ Reaches(f)
    <3>1. f \in HostFunction
      BY <1>2, <2>1, StampsAreRealms DEF HostFunction, Pending
    <3>2. Held(f, Top.realm)
      BY <2>1, <2>2 DEF Held
    <3> QED
      BY <1>2, <1>3, <2>2, <3>1, <3>2 DEF Reaches
  <2>4. rest \in Seq(Pending) /\ \A k \in DOMAIN rest : Held(rest[k], Top.realm)
    <3>1. rest \in Seq(Pending) /\ \A k \in DOMAIN rest :
             k + 1 \in DOMAIN Top.pending /\ rest[k] = Top.pending[k + 1]
      BY <1>1, <1>2, TailElements
    <3> QED
      BY <1>4, <3>1
  <2>5. functions' = functions \cup {f} /\ stack' = [stack EXCEPT ![Depth].pending = rest]
    BY <1>7 DEF Top, next
  <2>6. functions' \subseteq HostFunction /\ \A g \in functions' : Reaches(g)
    BY <2>3, <2>5 DEF RInv, TypeOK
  <2> HIDE DEF f, rest
  <2> QED
    BY <1>5, <2>4, <2>5, <2>6
<1> QED
  BY <1>6, <1>7 DEF Install

LEMMA AutoDrainInductive ==
  ASSUME RInv, AutoDrain
  PROVE  RInv'
<1> DEFINE a == [Top EXCEPT !.drained = TRUE]
           mid == [stack EXCEPT ![Depth] = a]
           c == Checkpoint(TRUE)
<1>1. /\ InScript /\ Top.kind = "request" /\ Depth + 1 <= MaxDepth
      /\ stack' = Append([stack EXCEPT ![Depth].drained = TRUE], c)
      /\ draining' = TRUE
      /\ UNCHANGED <<activeRealms, realms, queued, procs, disposed>>
  BY DEF AutoDrain, InScript, TopIs, JsKind, Mark
<1>2. Top \in ScriptFrame /\ Grounded(Top)
  BY <1>1, TopIsFrame
<1>3. /\ a \in ScriptFrame /\ a.kind = Top.kind /\ a.realm = Top.realm
      /\ a.ctx = Top.ctx /\ a.pending = Top.pending
  BY <1>2 DEF ScriptFrame
<1>4. Grounded(a)
  BY <1>2, <1>3 DEF Grounded
<1>5. stack' = Append(mid, c)
  BY <1>1 DEF Top
<1> HIDE DEF a
<1>6. /\ mid \in Seq(Activation) /\ Len(mid) = Len(stack)
      /\ Counted(mid, activeRealms)
      /\ \A i \in DOMAIN mid : Grounded(mid[i])
  BY <1>1, <1>3, <1>4, TopChanges
<1>7. c \in Activation /\ c.kind = "checkpoint" /\ Grounded(c)
  BY DEF Activation, Checkpoint, Grounded, JsKind, RInv, TypeOK
<1> HIDE DEF mid, c
<1>8. /\ stack' \in Seq(Activation) /\ Len(stack') = Len(mid) + 1 /\ Len(mid) \in Nat
      /\ \A i \in 1..Len(mid) : stack'[i] = mid[i]
      /\ stack'[Len(mid) + 1] = c
  BY <1>5, <1>6, <1>7, AppendElements
<1>9. Counted(stack', activeRealms)
  BY <1>5, <1>6, <1>7, PushCounts DEF RInv, TypeOK
<1>10. \A i \in DOMAIN stack' : Grounded(stack'[i])
  BY <1>6, <1>7, <1>8
<1> QED
  BY <1>1, <1>6, <1>8, <1>9, <1>10, StackStep DEF RInv, TypeOK, realms, procs, Depth

LEMMA DrainMicrotasksInductive ==
  ASSUME RInv, DrainMicrotasks
  PROVE  RInv'
<1> DEFINE r == [Script("request", MainRealm, current[MainRealm], <<>>) EXCEPT !.drained = TRUE]
           c == Checkpoint(TRUE)
           mid == Append(stack, r)
           act == Append(activeRealms, MainRealm)
<1>1. /\ Depth + 2 <= MaxDepth /\ stack' = Append(mid, c) /\ activeRealms' = act
      /\ draining' = TRUE /\ UNCHANGED <<realms, queued, procs, disposed>>
  BY DEF DrainMicrotasks, Mark
<1>2. MainRealm \in Realm /\ current[MainRealm] # None
  BY RealmsAssumption DEF MainRealm, RInv, Born
<1>3. /\ r \in ScriptFrame /\ r.kind = "request" /\ r.realm = MainRealm
      /\ r.ctx = current[MainRealm] /\ r.pending = <<>>
  <2> DEFINE b == Script("request", MainRealm, current[MainRealm], <<>>)
  <2>1. /\ b \in ScriptFrame /\ b.kind = "request" /\ b.realm = MainRealm
        /\ b.ctx = current[MainRealm] /\ b.pending = <<>>
    BY <1>2, CurrentIsBorn DEF Script, ScriptFrame, JsKind
  <2> HIDE DEF b
  <2>2. [b EXCEPT !.drained = TRUE] \in ScriptFrame
    BY <2>1 DEF ScriptFrame
  <2>3. LET e == [b EXCEPT !.drained = TRUE]
        IN  e.kind = b.kind /\ e.realm = b.realm /\ e.ctx = b.ctx /\ e.pending = b.pending
    BY <2>1 DEF ScriptFrame
  <2> QED
    BY <2>1, <2>2, <2>3 DEF b
<1>4. r \in Activation /\ Grounded(r)
  BY <1>2, <1>3, CurrentIsBorn DEF Grounded, Activation
<1>5. c \in Activation /\ c.kind = "checkpoint" /\ Grounded(c)
  BY DEF Activation, Checkpoint, Grounded, JsKind, RInv, TypeOK
<1>6. stack \in Seq(Activation) /\ Len(stack) \in Nat /\ activeRealms \in Seq(Realm)
      /\ Counted(stack, activeRealms) /\ \A i \in 1..Len(stack) : Grounded(stack[i])
  BY DEF RInv, TypeOK
<1> HIDE DEF r, c
<1>7. /\ mid \in Seq(Activation) /\ Len(mid) = Len(stack) + 1
      /\ \A i \in 1..Len(stack) : mid[i] = stack[i]
      /\ mid[Len(stack) + 1] = r
  BY <1>4, <1>6, AppendElements
<1>8. Counted(mid, act) /\ act \in Seq(Realm)
  <2>1. act \in Seq(Realm)
    BY <1>2, <1>6
  <2> QED
    BY <1>2, <1>3, <1>4, <1>6, <2>1, PushCounts
<1>9. \A i \in 1..Len(mid) : Grounded(mid[i])
  BY <1>4, <1>6, <1>7
<1> HIDE DEF mid, act
<1>10. /\ stack' \in Seq(Activation) /\ Len(stack') = Len(mid) + 1
       /\ \A i \in 1..Len(mid) : stack'[i] = mid[i]
       /\ stack'[Len(mid) + 1] = c
  BY <1>1, <1>5, <1>7, AppendElements
<1>11. Counted(stack', act)
  BY <1>1, <1>5, <1>7, <1>8, PushCounts
<1>12. \A i \in DOMAIN stack' : Grounded(stack'[i])
  BY <1>5, <1>6, <1>7, <1>9, <1>10
<1>13. Len(stack') <= MaxDepth
  BY <1>1, <1>6, <1>7, <1>10 DEF Depth
<1> QED
  BY <1>1, <1>8, <1>10, <1>11, <1>12, <1>13, StackStep DEF RInv, TypeOK, realms, procs

LEMMA CheckpointEndsInductive ==
  ASSUME RInv, CheckpointEnds
  PROVE  RInv'
<1>1. /\ stack # <<>> /\ Top.kind = "checkpoint" /\ Pop
      /\ UNCHANGED <<activeRealms, realms, procs, disposed>>
  BY DEF CheckpointEnds, TopIs, Idle
<1>2. Top \in [kind : {"checkpoint"}, marked : BOOLEAN, saved : BOOLEAN]
  BY <1>1, Positions DEF RInv, Top, Depth, Activation, ScriptFrame, JsKind
<1>3. draining' \in BOOLEAN
  BY <1>2 DEF CheckpointEnds, RestoreDraining, RInv, TypeOK
<1>4. queued' \subseteq DOMAIN stamp
  BY DEF CheckpointEnds, RInv, TypeOK
<1> QED
  BY <1>1, <1>3, <1>4, PopStep

LEMMA ReturnsInductive ==
  ASSUME RInv, RequestReturns \/ OtherReturns
  PROVE  RInv'
<1>1. stack # <<>> /\ Pop /\ UNCHANGED <<draining, realms, queued, procs, disposed>>
  BY DEF RequestReturns, OtherReturns, TopIs, Idle
<1>2. \/ Top.kind # "request" /\ UNCHANGED activeRealms
      \/ Top.kind = "request" /\ PopRealm
  BY DEF RequestReturns, OtherReturns, TopIs
<1>3. draining' \in BOOLEAN /\ queued' \subseteq DOMAIN stamp
  BY <1>1 DEF RInv, TypeOK
<1> QED
  BY <1>1, <1>2, <1>3, PopStep

-----------------------------------------------------------------------------
(* Steps that write the table or a realm's context *)

(* What the next attach of n procs has to install. *)
Given(n) == [k \in 1..n |-> [slot |-> NthId(k), proc |-> attached + k]]

(* What is held and reached survives an attach. *)
LEMMA TakeSlotsInductive ==
  ASSUME RInv, NEW realm \in Realm, NEW n \in 1..MaxProcs, attached + n <= MaxProcs,
         TakeSlots(realm, n), UNCHANGED <<current, stamp, functions>>
  PROVE  /\ TableTypeOK' /\ FreeListIsExact' /\ attached' \in 0..MaxProcs
         /\ \A p, r : Held(p, r) => Held(p, r)'
         /\ \A f \in functions : Reaches(f)'
         /\ Given(n) \in Seq(Pending) /\ DOMAIN Given(n) = 1..n
         /\ \A p : (\E k \in 1..n : p = Given(n)[k]) => Held(p, realm)'
<1> DEFINE batch == [k \in 1..n |-> attached + k]
<1>1. attached \in 0..MaxProcs /\ MaxProcs \in Nat /\ MaxSlots = MaxProcs /\ Proc = 1..MaxProcs
  BY RealmsAssumption DEF RInv, TypeOK
<1>2. batch \in Batch /\ Len(batch) = n
  <2>1. batch \in [1..n -> Proc] /\ n \in 1..MaxSlots
    BY <1>1
  <2> QED
    BY <2>1, <1>1 DEF Batch
<1>3. Alloc(realm, batch) /\ attached' = attached + n
  BY DEF TakeSlots
<1>4. IInv
  BY DEF IInv, RInv, TypeOK
<1> HIDE DEF batch
<1>5. /\ IInv'
      /\ \A id \in DOMAIN slots :
           id \in DOMAIN slots' /\ (InUse(id) => slots'[id] = slots[id])
      /\ \A k \in 1..n :
           /\ NthId(k) \in DOMAIN slots'
           /\ slots'[NthId(k)].realm = realm /\ slots'[NthId(k)].proc # NoProc
           /\ slots'[NthId(k)].proc = batch[k]
  BY <1>2, <1>3, <1>4, AllocInductive
<1>6. \A p, r : Held(p, r) => Held(p, r)'
  BY <1>5 DEF Held, InUse
<1>7. \A f \in functions : Reaches(f)'
  BY <1>5, <1>6 DEF RInv, Reaches, Live
<1>8. ASSUME NEW k \in 1..n
      PROVE  /\ Given(n)[k].slot = NthId(k) /\ Given(n)[k].proc = attached + k
             /\ batch[k] = attached + k
  BY DEF Given, batch
<1>9. ASSUME NEW p, NEW k \in 1..n, p = Given(n)[k]
      PROVE  Held(p, realm)'
  <2>1. p.slot = NthId(k) /\ p.proc = batch[k]
    BY <1>8, <1>9
  <2> QED
    BY <1>5, <2>1 DEF Held, InUse
<1>10. Given(n) \in Seq(Pending) /\ DOMAIN Given(n) = 1..n
  <2>1. Len(slots') \in 0..MaxProcs /\ DOMAIN slots' = 1..Len(slots')
    BY <1>1, <1>5 DEF IInv, TableTypeOK
  <2>2. \A k \in 1..n : NthId(k) \in 1..MaxProcs /\ attached + k \in 1..MaxProcs
    BY <2>1, <1>1, <1>5
  <2>3. Given(n) \in [1..n -> Pending] /\ n \in Nat
    BY <2>2, <1>1 DEF Given, Pending
  <2> QED
    BY <2>3
<1>11. attached' \in 0..MaxProcs
  BY <1>1, <1>3
<1> QED
  BY <1>5, <1>6, <1>7, <1>9, <1>10, <1>11 DEF IInv

LEMMA ForeignAttachInductive ==
  ASSUME RInv, NEW w \in Wrapper, NEW n \in 1..MaxProcs, ForeignAttach(w, n)
  PROVE  RInv'
<1>1. /\ w.realm \in Realm /\ attached + n <= MaxProcs /\ TakeSlots(w.realm, n)
      /\ UNCHANGED <<stack, activeRealms, draining, realms, queued, functions, disposed>>
  BY DEF ForeignAttach, Wrapper
<1>2. /\ TableTypeOK' /\ FreeListIsExact' /\ attached' \in 0..MaxProcs
      /\ \A p, r : Held(p, r) => Held(p, r)'
      /\ \A f \in functions : Reaches(f)'
  BY <1>1, TakeSlotsInductive DEF realms
<1>3. TypeOK'
  BY <1>1, <1>2 DEF RInv, TypeOK, realms
<1>4. \A i \in DOMAIN stack : Grounded(stack[i])'
  BY <1>1, <1>2 DEF RInv, Grounded, realms
<1> QED
  BY <1>1, <1>2, <1>3, <1>4 DEF RInv, Born, Counted, CountedBy, realms

LEMMA AttachInductive ==
  ASSUME RInv, NEW w \in Wrapper, NEW n \in 1..MaxProcs, Attach(w, n)
  PROVE  RInv'
<1> PICK new : new = Given(n)
  OBVIOUS
<1> PICK a : a = Script("request", w.realm, current[w.realm], new)
  OBVIOUS
<1>1. /\ w.realm \in Realm /\ attached + n <= MaxProcs /\ TakeSlots(w.realm, n)
      /\ Enter(w.realm, new)
      /\ UNCHANGED <<draining, realms, queued, functions, disposed>>
  BY DEF Attach, Wrapper, Given
<1>2. /\ TableTypeOK' /\ FreeListIsExact' /\ attached' \in 0..MaxProcs
      /\ \A p, r : Held(p, r) => Held(p, r)'
      /\ \A f \in functions : Reaches(f)'
      /\ new \in Seq(Pending) /\ DOMAIN new = 1..n
      /\ \A k \in 1..n : Held(new[k], w.realm)'
  BY <1>1, TakeSlotsInductive DEF realms
<1>3. /\ stack \in Seq(Activation) /\ Len(stack) \in Nat /\ activeRealms \in Seq(Realm)
      /\ Len(stack) <= MaxDepth /\ Counted(stack, activeRealms)
      /\ \A i \in 1..Len(stack) : Grounded(stack[i])
  BY DEF RInv, TypeOK
<1>4. \A x : Grounded(x) => Grounded(x)'
  BY <1>1, <1>2 DEF Grounded, realms
<1>5. /\ stack' \in Seq(Activation) /\ Len(stack') <= MaxDepth /\ activeRealms' \in Seq(Realm)
      /\ Counted(stack', activeRealms')
      /\ \A i \in DOMAIN stack' : \A x : x = stack'[i] => Grounded(x)'
  <2>1. CASE current[w.realm] = None
    BY <2>1, <1>1, <1>3, <1>4 DEF Enter
  <2>2. CASE current[w.realm] # None
    <3>1. /\ stack' = Append(stack, a) /\ Len(stack) < MaxDepth
          /\ activeRealms' = Append(activeRealms, w.realm)
      BY <2>2, <1>1 DEF Enter, Push, Depth
    <3>2. current[w.realm] \in DOMAIN stamp /\ current[w.realm] \in Context
          /\ stamp[current[w.realm]] = w.realm
      BY <2>2, <1>1, CurrentIsBorn
    <3>3. /\ a \in ScriptFrame /\ a.kind = "request" /\ a.realm = w.realm
          /\ a.ctx = current[w.realm] /\ a.pending = new
      BY <3>2, <1>1, <1>2 DEF Script, ScriptFrame, JsKind
    <3>4. Grounded(a)'
      BY <3>2, <3>3, <1>1, <1>2 DEF Grounded, realms
    <3>5. a \in Activation
      BY <3>3 DEF Activation
    <3>6. /\ stack' \in Seq(Activation) /\ Len(stack') = Len(stack) + 1
          /\ \A i \in 1..Len(stack) : stack'[i] = stack[i]
          /\ stack'[Len(stack) + 1] = a
      BY <3>1, <3>5, <1>3, AppendElements
    <3>7. activeRealms' \in Seq(Realm)
      BY <3>1, <1>1, <1>3
    <3>8. Counted(stack', activeRealms')
      BY <3>1, <3>3, <3>5, <3>7, <1>1, <1>3, PushCounts
    <3>9. \A i \in DOMAIN stack' : i \in 1..Len(stack) \/ i = Len(stack) + 1
      BY <3>6, <1>3
    <3>10. ASSUME NEW i \in DOMAIN stack', NEW x, x = stack'[i]
           PROVE  Grounded(x)'
      BY <3>4, <3>6, <3>9, <3>10, <1>3, <1>4
    <3>11. Len(stack') <= MaxDepth
      BY <3>1, <3>6, <1>3, RealmsAssumption
    <3> QED
      BY <3>6, <3>7, <3>8, <3>10, <3>11
  <2> QED
    BY <2>1, <2>2
<1>6. TypeOK'
  BY <1>1, <1>2, <1>5 DEF RInv, TypeOK, realms
<1>7. \A i \in DOMAIN stack' : Grounded(stack[i])'
  BY <1>5
<1>8. Born' /\ \A f \in functions' : Reaches(f)'
  BY <1>1, <1>2 DEF RInv, Born, realms
<1> QED
  BY <1>2, <1>5, <1>6, <1>7, <1>8 DEF RInv

(***************************************************************************)
(* A realm that no request is in gets another context, or loses its own:   *)
(* no frame's and no live function's changes.                              *)
(***************************************************************************)
LEMMA RealmStep ==
  ASSUME RInv, NEW realm \in Realm, NEW new,
         \A i \in DOMAIN stack : stack[i].kind = "request" => stack[i].realm # realm,
         current' = [current EXCEPT ![realm] = new],
         \/ new = None /\ UNCHANGED stamp /\ realm # MainRealm
         \/ new = Len(stamp) + 1 /\ stamp' = Append(stamp, realm) /\ Len(stamp) < MaxContexts,
         nextContextId' \in 1..(MaxRealms + 1), nextContextId <= nextContextId',
         new # None => realm < nextContextId',
         TableTypeOK', FreeListIsExact',
         \A p, r : r # realm /\ Held(p, r) => Held(p, r)',
         handler' \in [ctx : {None} \cup DOMAIN stamp, tag : Realm],
         UNCHANGED <<stack, activeRealms, draining, queued, attached, functions>>,
         disposed' \subseteq Wrapper
  PROVE  RInv'
<1>1. /\ stamp \in Seq(Realm) /\ Len(stamp) \in Nat /\ DOMAIN stamp = 1..Len(stamp)
      /\ Len(stamp) <= MaxContexts /\ MaxContexts \in Nat
      /\ current \in [Realm -> {None} \cup DOMAIN stamp]
  BY RealmsAssumption DEF RInv, TypeOK
<1>2. /\ stamp' \in Seq(Realm) /\ Len(stamp') <= MaxContexts /\ DOMAIN stamp' = 1..Len(stamp')
      /\ DOMAIN stamp \subseteq DOMAIN stamp'
      /\ \A ctx \in DOMAIN stamp : stamp'[ctx] = stamp[ctx]
      /\ new # None => new \in DOMAIN stamp' /\ new \notin DOMAIN stamp /\ stamp'[new] = realm
  <2>1. CASE new = None /\ UNCHANGED stamp
    BY <2>1, <1>1
  <2>2. CASE new = Len(stamp) + 1 /\ stamp' = Append(stamp, realm) /\ Len(stamp) < MaxContexts
    <3>1. /\ stamp' \in Seq(Realm) /\ Len(stamp') = Len(stamp) + 1
          /\ \A i \in 1..Len(stamp) : stamp'[i] = stamp[i]
          /\ stamp'[Len(stamp) + 1] = realm
      <4>1. LET next == Append(stamp, realm)
            IN  /\ next \in Seq(Realm) /\ Len(next) = Len(stamp) + 1
                /\ \A i \in 1..Len(stamp) : next[i] = stamp[i]
                /\ next[Len(stamp) + 1] = realm
        BY <1>1, AppendElements
      <4> QED
        BY <2>2, <4>1
    <3>2. DOMAIN stamp' = 1..(Len(stamp) + 1) /\ DOMAIN stamp' = 1..Len(stamp')
      BY <3>1
    <3>0. new = Len(stamp) + 1 /\ Len(stamp) + 1 <= MaxContexts /\ Len(stamp) \in Nat
      <4>1. Len(stamp) \in Nat /\ MaxContexts \in Nat /\ Len(stamp) < MaxContexts
        BY <2>2, <1>1
      <4> QED
        BY <2>2, <4>1
    <3>3. Len(stamp') <= MaxContexts
      BY <3>0, <3>1
    <3>4. DOMAIN stamp \subseteq DOMAIN stamp' /\ \A ctx \in DOMAIN stamp : stamp'[ctx] = stamp[ctx]
      BY <3>1, <3>2, <1>1
    <3>5. new \in DOMAIN stamp' /\ new \notin DOMAIN stamp /\ stamp'[new] = realm
      <4>1. DOMAIN stamp = 1..Len(stamp)
        BY <1>1
      <4> QED
        BY <3>0, <3>1, <3>2, <4>1
    <3> QED
      BY <3>1, <3>2, <3>3, <3>4, <3>5
  <2> QED
    BY <2>1, <2>2
<1>3. /\ current' \in [Realm -> {None} \cup DOMAIN stamp']
      /\ current'[realm] = new
      /\ \A r \in Realm : r # realm => current'[r] = current[r]
  BY <1>1, <1>2
<1>4. new = None \/ new \notin DOMAIN stamp
  BY <1>2
<1>5. TypeOK'
  <2>1. handler' \in [ctx : {None} \cup DOMAIN stamp', tag : Realm]
    BY <1>2
  <2>2. queued' \subseteq DOMAIN stamp'
    BY <1>2 DEF RInv, TypeOK
  <2> QED
    BY <2>1, <2>2, <1>2, <1>3 DEF RInv, TypeOK
<1>6. Born'
  <2>1. MainRealm \in Realm /\ nextContextId \in Int /\ nextContextId' \in Int
    BY RealmsAssumption DEF MainRealm, RInv, TypeOK
  <2>2. current'[MainRealm] # None
    BY <2>1, <1>1, <1>3 DEF RInv, Born, None
  <2>3. ASSUME NEW r \in Realm, current'[r] # None
        PROVE  r < nextContextId' /\ stamp'[current'[r]] = r
    <3>1. CASE r = realm
      BY <3>1, <2>3, <1>2, <1>3
    <3>2. CASE r # realm
      <4>1. current'[r] = current[r] /\ current[r] \in DOMAIN stamp
        BY <3>2, <2>3, <1>1, <1>3
      <4>2. r < nextContextId /\ stamp[current[r]] = r /\ r \in Int
        BY <4>1, <2>3, RealmsAssumption DEF RInv, Born
      <4>3. r < nextContextId'
        BY <4>2, <2>1
      <4>4. stamp'[current'[r]] = r
        BY <4>1, <4>2, <1>2
      <4> QED
        BY <4>3, <4>4
    <3> QED
      BY <3>1, <3>2
  <2> QED
    BY <2>2, <2>3 DEF Born, MainRealm, None
<1>7. ASSUME NEW i \in DOMAIN stack
      PROVE  Grounded(stack[i])'
  <2>1. Grounded(stack[i]) /\ stack[i] \in Activation
    BY <1>7, Positions DEF RInv
  <2>2. stack[i].kind = "request" => stack[i].realm \in Realm /\ stack[i].realm # realm
    BY <2>1, <1>7, FrameKinds DEF ScriptFrame, JsKind
  <2>3. stack[i].kind \in JsKind => stack[i].ctx \in DOMAIN stamp' /\ stamp'[stack[i].ctx] = stack[i].realm
    BY <2>1, <1>2 DEF Grounded
  <2>4. stack[i].kind = "request" => current'[stack[i].realm] = stack[i].ctx
    BY <2>1, <2>2, <1>3 DEF Grounded
  <2>5. stack[i].kind = "request" =>
          \A k \in DOMAIN stack[i].pending : Held(stack[i].pending[k], stack[i].realm)'
    <3>1. \A p, r : r # realm /\ Held(p, r) =>
             p.slot \in DOMAIN slots' /\ slots'[p.slot].proc # NoProc
             /\ slots'[p.slot].realm = r /\ slots'[p.slot].proc = p.proc
      BY DEF Held, InUse
    <3> QED
      BY <3>1, <2>1, <2>2 DEF Grounded, Held, InUse
  <2> QED
    BY <2>1, <2>3, <2>4, <2>5 DEF Grounded
<1>8. ASSUME NEW f \in functions
      PROVE  Reaches(f)'
  <2>1. Reaches(f) /\ f.ctx \in DOMAIN stamp /\ stamp[f.ctx] \in Realm
    BY <1>1, <1>8, StampsAreRealms DEF RInv, Reaches
  <2>2. f.ctx \in DOMAIN stamp' /\ stamp'[f.ctx] = stamp[f.ctx] /\ f.ctx # None
    <3>1. f.ctx # None
      BY <2>1, <1>1 DEF None
    <3> QED
      BY <3>1, <2>1, <1>2
  <2>3. Live(f.ctx)' => stamp[f.ctx] # realm /\ Live(f.ctx)
    BY <2>1, <2>2, <1>3, <1>4 DEF Live
  <2>4. \A p, r : r # realm /\ Held(p, r) => Held(p, r)'
    OBVIOUS
  <2>5. Live(f.ctx)' => Held(f, stamp[f.ctx])'
    BY <2>1, <2>2, <2>3, <2>4 DEF Reaches
  <2> QED
    BY <2>2, <2>5 DEF Reaches, Held
<1> QED
  BY <1>5, <1>6, <1>7, <1>8 DEF RInv, Counted, CountedBy

(* What other realms hold survives a release. *)
LEMMA ReleaseKeepsOthers ==
  ASSUME RInv, NEW realm \in Realm, Release(realm)
  PROVE  /\ TableTypeOK' /\ FreeListIsExact'
         /\ \A p, r : r # realm /\ Held(p, r) => Held(p, r)'
<1>1. IInv
  BY DEF RInv, TypeOK, IInv
<1>2. /\ IInv' /\ DOMAIN slots' = DOMAIN slots
      /\ \A id \in DOMAIN slots :
           slots'[id] = IF slots[id].realm = realm
                        THEN [slots[id] EXCEPT !.proc = NoProc] ELSE slots[id]
  BY <1>1, ReleaseInductive
<1> QED
  BY <1>2 DEF IInv, Held, InUse

LEMMA HandlerTyped ==
  ASSUME RInv, NEW realm \in Realm, DropArtifacts(realm)
  PROVE  handler' \in [ctx : {None} \cup DOMAIN stamp, tag : Realm]
<1>1. MainRealm \in Realm
  BY RealmsAssumption DEF MainRealm
<1> QED
  BY <1>1 DEF DropArtifacts, NoHandler, RInv, TypeOK

LEMMA ResetInductive ==
  ASSUME RInv, NEW w \in Wrapper, Reset(w)
  PROVE  RInv'
<1>1. /\ w.realm \in Realm /\ current[w.realm] # None /\ ~Active(w.realm)
      /\ NewContext(w.realm) /\ DropArtifacts(w.realm) /\ Release(w.realm)
      /\ UNCHANGED <<stack, activeRealms, draining, nextContextId, queued, attached, functions, disposed>>
  BY DEF Reset, Wrapper
<1>2. \A i \in DOMAIN stack : stack[i].kind = "request" => stack[i].realm # w.realm
  BY <1>1, RequestsAreActive DEF RInv, TypeOK
<1>3. w.realm < nextContextId /\ nextContextId \in 1..(MaxRealms + 1)
  BY <1>1 DEF RInv, Born, TypeOK
<1>4. nextContextId' \in 1..(MaxRealms + 1) /\ nextContextId <= nextContextId' /\ w.realm < nextContextId'
  BY <1>1, <1>3
<1>5. disposed' \subseteq Wrapper
  BY <1>1 DEF RInv, TypeOK
<1> QED
  BY <1>1, <1>2, <1>4, <1>5, ReleaseKeepsOthers, HandlerTyped, RealmStep DEF NewContext

LEMMA CreateContextInductive ==
  ASSUME RInv, CreateContext
  PROVE  RInv'
<1> DEFINE realm == nextContextId
<1>1. /\ realm <= MaxRealms /\ nextContextId' = realm + 1 /\ NewContext(realm)
      /\ UNCHANGED <<stack, activeRealms, draining, handler, queued, procs, disposed>>
  BY DEF CreateContext
<1>2. realm \in 1..(MaxRealms + 1) /\ realm \in Realm
  BY <1>1, RealmsAssumption DEF RInv, TypeOK
<1>3. current[realm] = None
  BY <1>2 DEF RInv, Born
<1>4. \A i \in DOMAIN stack : stack[i].kind = "request" => stack[i].realm # realm
  <2>1. \A i \in DOMAIN stack : stack[i].kind = "request" =>
           current[stack[i].realm] = stack[i].ctx /\ stack[i].ctx \in DOMAIN stamp
    BY DEF RInv, Grounded, JsKind
  <2>2. None \notin DOMAIN stamp
    BY DEF RInv, TypeOK, None
  <2> QED
    BY <2>1, <2>2, <1>3
<1>5. /\ TableTypeOK' /\ FreeListIsExact'
      /\ \A p, r : r # realm /\ Held(p, r) => Held(p, r)'
  BY <1>1 DEF RInv, TypeOK, TableTypeOK, FreeListIsExact, Held, InUse, procs, table
<1>6. nextContextId' \in 1..(MaxRealms + 1) /\ nextContextId <= nextContextId' /\ realm < nextContextId'
  BY <1>1, <1>2, RealmsAssumption
<1>7. handler' \in [ctx : {None} \cup DOMAIN stamp, tag : Realm] /\ disposed' \subseteq Wrapper
  BY <1>1 DEF RInv, TypeOK
<1>8. UNCHANGED <<stack, activeRealms, draining, queued, attached, functions>>
  BY <1>1 DEF procs
<1>9. /\ current' = [current EXCEPT ![realm] = Len(stamp) + 1]
      /\ stamp' = Append(stamp, realm) /\ Len(stamp) < MaxContexts
  BY <1>1 DEF NewContext
<1> QED
  BY <1>2, <1>4, <1>5, <1>6, <1>7, <1>8, <1>9, RealmStep

(* Only the wrapper's flag. *)
LEMMA OnlyDisposed ==
  ASSUME RInv, disposed' \subseteq Wrapper,
         UNCHANGED <<stack, activeRealms, draining, realms, queued, procs>>
  PROVE  RInv'
<1>1. TypeOK'
  BY DEF RInv, TypeOK, realms, procs, table, TableTypeOK, ProcSlot
<1>2. FreeListIsExact' /\ Born' /\ Counted(stack, activeRealms)'
  BY DEF RInv, FreeListIsExact, Born, Counted, CountedBy, InUse, realms, procs, table
<1>3. \A i \in DOMAIN stack' : Grounded(stack[i])'
  BY DEF RInv, Grounded, Held, InUse, realms, procs, table
<1>4. \A f \in functions' : Reaches(f)'
  BY DEF RInv, Reaches, Held, Live, InUse, realms, procs, table
<1> QED
  BY <1>1, <1>2, <1>3, <1>4 DEF RInv

LEMMA DisposeInductive ==
  ASSUME RInv, NEW w \in Wrapper, Dispose(w)
  PROVE  RInv'
<1>1. /\ w.realm \in Realm /\ w.realm # MainRealm /\ DisposeContext(w.realm)
      /\ disposed' = disposed \cup {w}
      /\ UNCHANGED <<stack, activeRealms, draining, nextContextId, stamp, queued, attached, functions>>
  BY DEF Dispose, Wrapper
<1>2. disposed' \subseteq Wrapper
  BY <1>1 DEF RInv, TypeOK
<1>3. CASE draining \/ Active(w.realm)
  BY <1>1, <1>2, <1>3, OnlyDisposed DEF DisposeContext, realms, procs
<1>4. CASE ~(draining \/ Active(w.realm))
  <2>1. /\ current' = [current EXCEPT ![w.realm] = None]
        /\ DropArtifacts(w.realm) /\ Release(w.realm)
    BY <1>1, <1>4 DEF DisposeContext
  <2>2. \A i \in DOMAIN stack : stack[i].kind = "request" => stack[i].realm # w.realm
    BY <1>4, RequestsAreActive DEF RInv, TypeOK
  <2>3. nextContextId' \in 1..(MaxRealms + 1) /\ nextContextId <= nextContextId'
    BY <1>1 DEF RInv, TypeOK
  <2> QED
    BY <1>1, <1>2, <2>1, <2>2, <2>3, ReleaseKeepsOthers, HandlerTyped, RealmStep
<1> QED
  BY <1>3, <1>4

-----------------------------------------------------------------------------
(***************************************************************************)
(* The invariant holds of every behaviour.                                 *)
(***************************************************************************)
LEMMA StepRInv == RInv /\ [Next]_vars => RInv'
<1> SUFFICES ASSUME RInv, [Next]_vars PROVE RInv'
  OBVIOUS
<1>1. ASSUME NEW w \in Wrapper, BeginRequest(w) \/ Reset(w) \/ Dispose(w)
      PROVE  RInv'
  BY <1>1, BeginRequestInductive, ResetInductive, DisposeInductive
<1>2. ASSUME NEW w \in Wrapper, NEW n \in 1..MaxProcs, Attach(w, n) \/ ForeignAttach(w, n)
      PROVE  RInv'
  BY <1>2, AttachInductive, ForeignAttachInductive
<1>3. ASSUME NEW w \in Wrapper, ForeignDispose(w)
      PROVE  RInv'
  BY <1>3, OnlyDisposed DEF ForeignDispose, RInv, TypeOK
<1>4. CASE CreateContext \/ DrainMicrotasks \/ AutoDrain
  BY <1>4, CreateContextInductive, DrainMicrotasksInductive, AutoDrainInductive
<1>5. CASE Install \/ Enqueue \/ RegisterHandler \/ ScriptDrains
  BY <1>5, InstallInductive, EnqueueInductive, RegisterHandlerInductive, ScriptDrainsInductive
<1>6. ASSUME NEW realm \in Realm, CallRealm(realm) PROVE RInv'
  BY <1>6, CallRealmInductive
<1>7. ASSUME NEW f \in functions, CallHost(f) PROVE RInv'
  BY <1>7, CallHostInductive
<1>8. ASSUME NEW ctx \in queued, Microtask(ctx) PROVE RInv'
  BY <1>8, MicrotaskInductive
<1>9. CASE CheckpointEnds \/ RequestReturns \/ OtherReturns
  BY <1>9, CheckpointEndsInductive, ReturnsInductive
<1>10. CASE UNCHANGED vars
  BY <1>10, OnlyDisposed DEF vars, RInv, TypeOK
<1> QED
  BY <1>1, <1>2, <1>3, <1>4, <1>5, <1>6, <1>7, <1>8, <1>9, <1>10 DEF Next

(***************************************************************************)
(* RInv holds in every state: requests are counted off in active_realms,   *)
(* frames and functions are what their contexts and slots make of them.    *)
(***************************************************************************)
THEOREM RealmsInvariance == Spec => []RInv
  BY StartRInv, StepRInv, PTL DEF Spec

(* Activations, realms, contexts and the table are well typed. *)
THEOREM RealmsTypeCorrect == Spec => []TypeOK
<1>1. RInv => TypeOK
  BY DEF RInv
<1> QED
  BY <1>1, RealmsInvariance, PTL

(***************************************************************************)
(* Attach takes slots before its request and reset and dispose release     *)
(* them after theirs: the free list stays exact all the same.              *)
(***************************************************************************)
THEOREM SlotsAreNotLost == Spec => []FreeListIsExact
<1>1. RInv => FreeListIsExact
  BY DEF RInv
<1> QED
  BY <1>1, RealmsInvariance, PTL

(***************************************************************************)
(* Op_reset's and op_dispose_context's look at active_realms is enough:    *)
(* the context of a suspended request is still its realm's.                *)
(***************************************************************************)
THEOREM NoRealmIsPulledAway == Spec => []RequestsKeepTheirRealm
<1>1. RInv => RequestsKeepTheirRealm
  BY DEF RInv, RequestsKeepTheirRealm, Grounded
<1> QED
  BY <1>1, RealmsInvariance, PTL

(***************************************************************************)
(* A function of a live realm calls the proc it was attached with, however *)
(* its slot was recycled before.                                           *)
(***************************************************************************)
THEOREM FunctionsReachTheirProc == Spec => []LiveFunctionsReachTheirProc
<1>1. RInv => LiveFunctionsReachTheirProc
  BY DEF RInv, Reaches, Held, LiveFunctionsReachTheirProc
<1> QED
  BY <1>1, RealmsInvariance, PTL

-----------------------------------------------------------------------------
(* What a checkpoint on the stack, and a registered handler, keep *)

IsMark(a) == a.kind = "checkpoint" /\ a.marked = TRUE

(* Draining is set as long as a marked checkpoint is on the stack: what a   *)
(* nested one restores is TRUE.                                             *)
Marks(stk, flag) ==
    /\ \A i \in DOMAIN stk : IsMark(stk[i]) => flag = TRUE
    /\ \A i, j \in DOMAIN stk : j < i /\ IsMark(stk[i]) /\ IsMark(stk[j]) => stk[i].saved = TRUE

(* The handler of a live context bears the context's realm. *)
Tagged == handler.ctx # None /\ Live(handler.ctx) => handler.tag = stamp[handler.ctx]

KInv == RInv /\ Marks(stack, draining) /\ Tagged

LEMMA PushMarks ==
  ASSUME NEW stk \in Seq(Activation), NEW flag \in BOOLEAN, Marks(stk, flag),
         NEW a \in Activation, NEW next \in BOOLEAN,
         \/ ~IsMark(a) /\ next = flag
         \/ a.saved = flag /\ next = TRUE
  PROVE  Marks(Append(stk, a), next)
<1> DEFINE new == Append(stk, a)
<1>1. /\ new \in Seq(Activation) /\ Len(new) = Len(stk) + 1 /\ Len(stk) \in Nat
      /\ \A i \in 1..Len(stk) : new[i] = stk[i]
      /\ new[Len(stk) + 1] = a
  BY AppendElements
<1> HIDE DEF new
<1>2. DOMAIN new = 1..(Len(stk) + 1) /\ DOMAIN stk = 1..Len(stk)
  BY <1>1
<1>3. ASSUME NEW i \in DOMAIN new
      PROVE  \/ i \in DOMAIN stk /\ new[i] = stk[i]
             \/ i = Len(stk) + 1 /\ new[i] = a
  <2>1. i \in 1..Len(stk) \/ i = Len(stk) + 1
    BY <1>1, <1>2
  <2> QED
    BY <2>1, <1>1, <1>2
<1>4. ASSUME NEW i \in DOMAIN new, IsMark(new[i]) PROVE next = TRUE
  BY <1>3, <1>4 DEF Marks
<1>5. ASSUME NEW i \in DOMAIN new, NEW j \in DOMAIN new, j < i, IsMark(new[i]), IsMark(new[j])
      PROVE  new[i].saved = TRUE
  <2>1. j \in DOMAIN stk /\ new[j] = stk[j]
    BY <1>1, <1>2, <1>3, <1>5
  <2> QED
    BY <2>1, <1>3, <1>5 DEF Marks
<1> QED
  BY <1>4, <1>5 DEF Marks, new

LEMMA PopMarks ==
  ASSUME NEW stk \in Seq(Activation), NEW flag \in BOOLEAN, Marks(stk, flag), stk # <<>>,
         NEW next,
         \/ ~IsMark(stk[Len(stk)]) /\ next = flag
         \/ IsMark(stk[Len(stk)]) /\ next = stk[Len(stk)].saved
  PROVE  Marks(SubSeq(stk, 1, Len(stk) - 1), next)
<1> DEFINE new == SubSeq(stk, 1, Len(stk) - 1)
<1>1. /\ Len(stk) - 1 \in 0..Len(stk) /\ Len(stk) \in DOMAIN stk /\ Len(stk) \in Nat
      /\ DOMAIN stk = 1..Len(stk)
  OBVIOUS
<1>2. DOMAIN new = 1..(Len(stk) - 1) /\ \A i \in 1..(Len(stk) - 1) : new[i] = stk[i]
  BY <1>1, Prefix
<1> HIDE DEF new
<1>3. \A i \in DOMAIN new : i \in DOMAIN stk /\ new[i] = stk[i]
  <2>1. \A i \in 1..(Len(stk) - 1) : i \in 1..Len(stk)
    BY <1>1
  <2> QED
    BY <1>1, <1>2, <2>1
<1>6. ASSUME NEW i \in DOMAIN new PROVE i < Len(stk)
  <2>1. i \in 1..(Len(stk) - 1) /\ Len(stk) \in Nat
    BY <1>1, <1>2
  <2> QED
    BY <2>1
<1>4. ASSUME NEW i \in DOMAIN new, IsMark(new[i]) PROVE next = TRUE
  BY <1>1, <1>3, <1>4, <1>6 DEF Marks
<1>5. ASSUME NEW i \in DOMAIN new, NEW j \in DOMAIN new, j < i, IsMark(new[i]), IsMark(new[j])
      PROVE  new[i].saved = TRUE
  BY <1>3, <1>5 DEF Marks
<1> QED
  BY <1>4, <1>5 DEF Marks, new

(* The top is a script's frame before and after. *)
LEMMA TopMarks ==
  ASSUME NEW stk \in Seq(Activation), NEW flag, Marks(stk, flag),
         NEW d \in DOMAIN stk, NEW a, ~IsMark(a)
  PROVE  Marks([stk EXCEPT ![d] = a], flag)
<1> DEFINE new == [stk EXCEPT ![d] = a]
<1>1. DOMAIN new = DOMAIN stk /\ \A i \in DOMAIN stk : new[i] = IF i = d THEN a ELSE stk[i]
  OBVIOUS
<1> HIDE DEF new
<1>2. \A i \in DOMAIN new : IsMark(new[i]) => i \in DOMAIN stk /\ new[i] = stk[i]
  BY <1>1
<1>3. Marks(new, flag)
  BY <1>1, <1>2 DEF Marks
<1> QED
  BY <1>3 DEF new

LEMMA MarksInductive ==
  ASSUME RInv, Marks(stack, draining), [Next]_vars
  PROVE  Marks(stack', draining')
<1>1. /\ stack \in Seq(Activation) /\ draining \in BOOLEAN /\ Len(stack) \in Nat
      /\ (stack # <<>> => Depth \in DOMAIN stack /\ Top = stack[Len(stack)])
  BY Positions DEF RInv, TypeOK, Depth, Top
<1>2. ASSUME UNCHANGED <<stack, draining>> PROVE Marks(stack', draining')
  BY <1>2
<1>3. ASSUME NEW a \in Activation, ~IsMark(a), stack' = Append(stack, a), UNCHANGED draining
      PROVE  Marks(stack', draining')
  BY <1>1, <1>3, PushMarks
<1>4. ASSUME NEW kind \in JsKind, NEW realm, NEW ctx, NEW pending,
             Script(kind, realm, ctx, pending) \in Activation,
             stack' = Append(stack, Script(kind, realm, ctx, pending)), UNCHANGED draining
      PROVE  Marks(stack', draining')
  <2>1. ~IsMark(Script(kind, realm, ctx, pending))
    BY <1>4 DEF Script, IsMark, JsKind
  <2> QED
    BY <2>1, <1>3, <1>4
<1>5. ASSUME NEW realm \in Realm, NEW pending \in Seq(Pending), Enter(realm, pending),
             UNCHANGED draining
      PROVE  Marks(stack', draining')
  <2>1. CASE current[realm] = None
    BY <2>1, <1>2, <1>5 DEF Enter
  <2>2. CASE current[realm] # None
    <3>1. Script("request", realm, current[realm], pending) \in Activation
      BY <2>2, <1>5, CurrentIsBorn DEF Script, Activation, ScriptFrame, JsKind
    <3> QED
      BY <2>2, <3>1, <1>4, <1>5 DEF Enter, Push, JsKind
  <2> QED
    BY <2>1, <2>2
<1>6. ASSUME NEW w \in Wrapper, NEW n \in 1..MaxProcs, Attach(w, n)
      PROVE  Marks(stack', draining')
  <2>1. Given(n) \in Seq(Pending)
    BY <1>6, TakeSlotsInductive DEF Attach, Wrapper, realms
  <2> QED
    BY <2>1, <1>5, <1>6 DEF Attach, Wrapper, Given
<1>7. ASSUME NEW w \in Wrapper, BeginRequest(w) PROVE Marks(stack', draining')
  <2>1. <<>> \in Seq(Pending)
    OBVIOUS
  <2> QED
    BY <2>1, <1>5, <1>7 DEF BeginRequest, Wrapper
<1>8. ASSUME NEW realm \in Realm, CallRealm(realm) PROVE Marks(stack', draining')
  <2>1. Script("call", realm, current[realm], <<>>) \in Activation
    BY <1>8, CurrentIsBorn DEF CallRealm, Script, Activation, ScriptFrame, JsKind
  <2> QED
    BY <2>1, <1>4, <1>8 DEF CallRealm, Push, JsKind
<1>9. ASSUME NEW ctx \in queued, Microtask(ctx) PROVE Marks(stack', draining')
  <2>1. ctx \in Context /\ stamp[ctx] \in Realm
    BY StampsAreRealms DEF RInv, TypeOK
  <2>2. Script("microtask", stamp[ctx], ctx, <<>>) \in Activation
    BY <2>1 DEF Script, Activation, ScriptFrame, JsKind
  <2> QED
    BY <2>2, <1>4, <1>9 DEF Microtask, Push, JsKind
<1>10. ASSUME NEW f \in functions, CallHost(f) PROVE Marks(stack', draining')
  <2>1. [kind |-> "host"] \in Activation /\ ~IsMark([kind |-> "host"])
    BY DEF Activation, IsMark
  <2> QED
    BY <2>1, <1>3, <1>10 DEF CallHost, Push
<1>11. CASE ScriptDrains
  <2>1. Checkpoint(FALSE) \in Activation /\ ~IsMark(Checkpoint(FALSE))
    BY <1>1 DEF Activation, IsMark, Checkpoint
  <2> QED
    BY <2>1, <1>3, <1>11 DEF ScriptDrains, Push
<1>12. Checkpoint(TRUE) \in Activation /\ Checkpoint(TRUE).saved = draining
  BY <1>1 DEF Activation, Checkpoint
<1>13. InScript => Depth \in DOMAIN stack /\ Top \in ScriptFrame
  BY <1>1, TopIsFrame
<1>14. CASE Install
  <2>1. InScript /\ UNCHANGED draining /\ \E rest : stack' = [stack EXCEPT ![Depth].pending = rest]
    BY <1>14 DEF Install
  <2>2. PICK rest : stack' = [stack EXCEPT ![Depth].pending = rest]
    BY <2>1
  <2>3. stack' = [stack EXCEPT ![Depth] = [Top EXCEPT !.pending = rest]]
    BY <2>2 DEF Top
  <2>4. ~IsMark([Top EXCEPT !.pending = rest])
    BY <2>1, <1>13 DEF IsMark, ScriptFrame, JsKind
  <2> QED
    BY <2>1, <2>3, <2>4, <1>1, <1>13, TopMarks
<1>15. CASE AutoDrain
  <2> DEFINE a == [Top EXCEPT !.drained = TRUE]
             mid == [stack EXCEPT ![Depth] = a]
  <2>1. InScript /\ draining' = TRUE /\ stack' = Append(mid, Checkpoint(TRUE))
    BY <1>15 DEF AutoDrain, InScript, TopIs, JsKind, Mark, Top
  <2>2. a \in Activation /\ ~IsMark(a)
    BY <2>1, <1>13 DEF Activation, IsMark, ScriptFrame, JsKind
  <2> HIDE DEF a
  <2>3. mid \in Seq(Activation) /\ Marks(mid, draining)
    <3>0. Depth \in DOMAIN stack
      BY <2>1, <1>13
    <3>1. mid \in Seq(Activation)
      BY <2>2, <3>0, <1>1
    <3>2. Marks(mid, draining)
      BY <2>2, <3>0, <1>1, TopMarks
    <3> QED
      BY <3>1, <3>2
  <2> HIDE DEF mid
  <2> QED
    BY <2>1, <2>3, <1>1, <1>12, PushMarks
<1>16. CASE DrainMicrotasks
  <2> DEFINE r == [Script("request", MainRealm, current[MainRealm], <<>>) EXCEPT !.drained = TRUE]
             mid == Append(stack, r)
  <2>1. draining' = TRUE /\ stack' = Append(mid, Checkpoint(TRUE))
    BY <1>16 DEF DrainMicrotasks, Mark
  <2>2. r \in Activation /\ ~IsMark(r)
    <3>1. MainRealm \in Realm /\ current[MainRealm] \in Context
      BY RealmsAssumption, CurrentIsBorn DEF MainRealm, RInv, Born
    <3> DEFINE b == Script("request", MainRealm, current[MainRealm], <<>>)
    <3>2. b \in ScriptFrame
      BY <3>1 DEF Script, ScriptFrame, JsKind
    <3> HIDE DEF b
    <3>3. [b EXCEPT !.drained = TRUE] \in ScriptFrame
      BY <3>2 DEF ScriptFrame
    <3>4. r \in ScriptFrame
      BY <3>3 DEF b
    <3> HIDE DEF r
    <3> QED
      BY <3>4 DEF Activation, IsMark, ScriptFrame, JsKind
  <2> HIDE DEF r
  <2>3. mid \in Seq(Activation) /\ Marks(mid, draining)
    <3>1. mid \in Seq(Activation)
      BY <2>2, <1>1
    <3>2. Marks(mid, draining)
      BY <2>2, <1>1, PushMarks
    <3> QED
      BY <3>1, <3>2
  <2> HIDE DEF mid
  <2> QED
    BY <2>1, <2>3, <1>1, <1>12, PushMarks
<1>17. CASE CheckpointEnds
  <2>1. stack # <<>> /\ stack' = SubSeq(stack, 1, Len(stack) - 1) /\ Top.kind = "checkpoint"
        /\ draining' = IF Top.marked THEN Top.saved ELSE draining
    BY <1>17 DEF CheckpointEnds, TopIs, Idle, Pop, Depth, RestoreDraining
  <2>2. Top.marked \in BOOLEAN
    BY <2>1, <1>1, Positions DEF RInv, Activation, ScriptFrame, JsKind
  <2>3. \/ ~IsMark(Top) /\ draining' = draining
        \/ IsMark(Top) /\ draining' = Top.saved
    BY <2>1, <2>2 DEF IsMark
  <2> QED
    BY <2>1, <2>3, <1>1, PopMarks
<1>18. CASE RequestReturns \/ OtherReturns
  <2>1. stack # <<>> /\ stack' = SubSeq(stack, 1, Len(stack) - 1) /\ Top.kind # "checkpoint"
        /\ UNCHANGED draining
    BY <1>18 DEF RequestReturns, OtherReturns, TopIs, Idle, Pop, Depth
  <2> QED
    BY <2>1, <1>1, PopMarks DEF IsMark
<1>19. CASE CreateContext \/ Enqueue \/ RegisterHandler \/ UNCHANGED vars
  BY <1>2, <1>19 DEF CreateContext, Enqueue, RegisterHandler, vars
<1>20. ASSUME NEW w \in Wrapper,
              Reset(w) \/ Dispose(w) \/ ForeignDispose(w) \/ \E n \in 1..MaxProcs : ForeignAttach(w, n)
       PROVE  Marks(stack', draining')
  BY <1>2, <1>20 DEF Reset, Dispose, ForeignDispose, ForeignAttach
<1> QED
  BY <1>6, <1>7, <1>8, <1>9, <1>10, <1>11, <1>14, <1>15, <1>16, <1>17, <1>18, <1>19, <1>20 DEF Next

(* The steps that change what contexts the realms have. *)
LEMMA Replacements ==
  ASSUME RInv, [Next]_vars
  PROVE  \/ UNCHANGED <<current, stamp>>
         \/ /\ UNCHANGED handler /\ current[nextContextId] = None
            /\ nextContextId \in Realm /\ NewContext(nextContextId)
         \/ \E realm \in Realm :
              /\ draining = FALSE /\ DropArtifacts(realm)
              /\ \/ NewContext(realm)
                 \/ current' = [current EXCEPT ![realm] = None] /\ UNCHANGED stamp
<1>1. draining \in BOOLEAN
  BY DEF RInv, TypeOK
<1>2. ASSUME NEW w \in Wrapper, Reset(w) PROVE
        \E realm \in Realm : draining = FALSE /\ DropArtifacts(realm) /\ NewContext(realm)
  BY <1>1, <1>2 DEF Reset, Wrapper
<1>3. ASSUME NEW w \in Wrapper, Dispose(w) PROVE
        \/ UNCHANGED <<current, stamp>>
        \/ \E realm \in Realm :
             /\ draining = FALSE /\ DropArtifacts(realm)
             /\ current' = [current EXCEPT ![realm] = None] /\ UNCHANGED stamp
  BY <1>1, <1>3 DEF Dispose, DisposeContext, Wrapper
<1>4. CASE CreateContext
  <2>1. nextContextId <= MaxRealms /\ nextContextId \in 1..(MaxRealms + 1) /\ MaxRealms \in Nat
    BY <1>4, RealmsAssumption DEF CreateContext, RInv, TypeOK
  <2>2. nextContextId \in Realm
    BY <2>1, RealmsAssumption
  <2>3. current[nextContextId] = None
    BY <2>1, <2>2 DEF RInv, Born
  <2> QED
    BY <1>4, <2>2, <2>3 DEF CreateContext
<1>5. ASSUME NEW w \in Wrapper,
             \/ BeginRequest(w) \/ ForeignDispose(w)
             \/ \E n \in 1..MaxProcs : Attach(w, n) \/ ForeignAttach(w, n)
      PROVE  UNCHANGED <<current, stamp>>
  BY <1>5 DEF BeginRequest, ForeignDispose, Attach, ForeignAttach, realms
<1>6. CASE \/ DrainMicrotasks \/ AutoDrain \/ Install \/ Enqueue \/ RegisterHandler \/ ScriptDrains
           \/ CheckpointEnds \/ RequestReturns \/ OtherReturns \/ UNCHANGED vars
  BY <1>6 DEF DrainMicrotasks, AutoDrain, Install, Enqueue, RegisterHandler, ScriptDrains,
              CheckpointEnds, RequestReturns, OtherReturns, vars, realms
<1>7. ASSUME \/ \E realm \in Realm : CallRealm(realm)
             \/ \E f \in functions : CallHost(f)
             \/ \E ctx \in queued : Microtask(ctx)
      PROVE  UNCHANGED <<current, stamp>>
  BY <1>7 DEF CallRealm, CallHost, Microtask, realms
<1> QED
  BY <1>2, <1>3, <1>4, <1>5, <1>6, <1>7 DEF Next

(* Contexts are never stamped again, and never come back. *)
LEMMA NoContextReturns ==
  ASSUME RInv, [Next]_vars, NEW ctx \in DOMAIN stamp
  PROVE  stamp'[ctx] = stamp[ctx] /\ (Live(ctx)' => Live(ctx))
<1>1. /\ stamp \in Seq(Realm) /\ Len(stamp) \in Nat /\ ctx \in 1..Len(stamp) /\ stamp[ctx] \in Realm
      /\ current \in [Realm -> {None} \cup DOMAIN stamp]
  BY StampsAreRealms DEF RInv, TypeOK
<1>2. ASSUME NEW realm \in Realm, NewContext(realm)
      PROVE  stamp'[ctx] = stamp[ctx] /\ (Live(ctx)' => Live(ctx))
  <2>1. stamp' = Append(stamp, realm) /\ current' = [current EXCEPT ![realm] = Len(stamp) + 1]
    BY <1>2 DEF NewContext
  <2>2. stamp'[ctx] = stamp[ctx]
    BY <1>1, <2>1, AppendElements
  <2>3. current'[stamp[ctx]] = ctx => current[stamp[ctx]] = ctx
    BY <1>1, <2>1
  <2> QED
    BY <2>2, <2>3 DEF Live
<1>3. ASSUME NEW realm \in Realm, current' = [current EXCEPT ![realm] = None], UNCHANGED stamp
      PROVE  stamp'[ctx] = stamp[ctx] /\ (Live(ctx)' => Live(ctx))
  <2>1. ctx # None
    BY <1>1 DEF None
  <2> QED
    BY <1>1, <1>3, <2>1 DEF Live
<1>4. CASE UNCHANGED <<current, stamp>>
  BY <1>4 DEF Live
<1> QED
  BY <1>2, <1>3, <1>4, Replacements

(* A context dies in a step that drops its realm's artifacts, and outside   *)
(* of any checkpoint.                                                       *)
LEMMA Deaths ==
  ASSUME RInv, [Next]_vars, NEW ctx \in DOMAIN stamp, Live(ctx), ~Live(ctx)'
  PROVE  draining = FALSE /\ DropArtifacts(stamp[ctx])
<1>1. /\ stamp \in Seq(Realm) /\ Len(stamp) \in Nat /\ ctx \in 1..Len(stamp) /\ stamp[ctx] \in Realm
      /\ current \in [Realm -> {None} \cup DOMAIN stamp] /\ ctx # None
  BY StampsAreRealms DEF RInv, TypeOK, None
<1>2. stamp'[ctx] = stamp[ctx] /\ current[stamp[ctx]] = ctx /\ current'[stamp[ctx]] # ctx
  BY NoContextReturns DEF Live
<1>3. ~UNCHANGED <<current, stamp>>
  BY <1>2
<1>4. ASSUME NEW realm \in Realm, NEW new, current' = [current EXCEPT ![realm] = new]
      PROVE  stamp[ctx] = realm
  BY <1>1, <1>2, <1>4
<1> QED
  BY <1>1, <1>2, <1>3, <1>4, Replacements DEF NewContext

LEMMA TaggedInductive ==
  ASSUME RInv, Tagged, [Next]_vars
  PROVE  Tagged'
<1>1. handler.ctx \in {None} \cup DOMAIN stamp
  BY DEF RInv, TypeOK
<1>2. CASE UNCHANGED handler
  BY <1>1, <1>2, NoContextReturns DEF Tagged
<1>3. CASE handler' = NoHandler
  BY <1>3 DEF Tagged, NoHandler
<1>4. CASE RegisterHandler
  BY <1>4 DEF RegisterHandler, Tagged, Live
<1>5. ASSUME NEW w \in Wrapper, Reset(w) \/ Dispose(w)
      PROVE  UNCHANGED handler \/ handler' = NoHandler
  BY <1>5 DEF Reset, Dispose, DisposeContext, DropArtifacts
<1>6. ASSUME NEW w \in Wrapper,
             \/ BeginRequest(w) \/ ForeignDispose(w)
             \/ \E n \in 1..MaxProcs : Attach(w, n) \/ ForeignAttach(w, n)
      PROVE  UNCHANGED handler
  BY <1>6 DEF BeginRequest, ForeignDispose, Attach, ForeignAttach, realms
<1>7. CASE \/ DrainMicrotasks \/ AutoDrain \/ Install \/ Enqueue \/ ScriptDrains \/ CreateContext
           \/ CheckpointEnds \/ RequestReturns \/ OtherReturns \/ UNCHANGED vars
  <2>1. UNCHANGED handler
    BY <1>7 DEF DrainMicrotasks, AutoDrain, Install, Enqueue, ScriptDrains, CreateContext,
                CheckpointEnds, RequestReturns, OtherReturns, vars, realms
  <2> QED
    BY <2>1, <1>2
<1>8. ASSUME \/ \E realm \in Realm : CallRealm(realm)
             \/ \E f \in functions : CallHost(f)
             \/ \E ctx \in queued : Microtask(ctx)
      PROVE  UNCHANGED handler
  BY <1>8 DEF CallRealm, CallHost, Microtask, realms
<1> QED
  BY <1>2, <1>3, <1>4, <1>5, <1>6, <1>7, <1>8 DEF Next

(***************************************************************************)
(* KInv holds in every state: on top of RInv, draining says whether a      *)
(* checkpoint of the binding is on the stack (checkpoint_draining), and    *)
(* the handler is tagged with a context some realm still has.              *)
(***************************************************************************)
THEOREM KeepsInvariance == Spec => []KInv
<1>1. Init => KInv
  <2> SUFFICES ASSUME Init PROVE Marks(stack, draining) /\ Tagged
    BY StartRInv DEF KInv
  <2>1. DOMAIN stack = {} /\ handler = NoHandler
    BY DEF Init
  <2> QED
    BY <2>1 DEF Marks, Tagged, NoHandler
<1>2. KInv /\ [Next]_vars => KInv'
  <2> SUFFICES ASSUME KInv, [Next]_vars PROVE KInv'
    OBVIOUS
  <2>1. RInv'
    BY StepRInv DEF KInv
  <2>2. Marks(stack', draining')
    BY MarksInductive DEF KInv
  <2>3. Marks(stack, draining)'
    BY <2>2 DEF Marks, IsMark
  <2>4. Tagged'
    BY TaggedInductive DEF KInv
  <2> QED
    BY <2>1, <2>3, <2>4 DEF KInv
<1> QED
  BY <1>1, <1>2, PTL DEF Spec

(***************************************************************************)
(* While a checkpoint of the binding is on the stack, draining is set, so  *)
(* reset and dispose are refused: whatever nested checkpoints restored.    *)
(***************************************************************************)
THEOREM NoRealmDiesInACheckpoint == Spec => CheckpointsKeepRealms
<1> DEFINE Keeps == (\E i \in DOMAIN stack : stack[i].kind = "checkpoint" /\ stack[i].marked) =>
                       \A ctx \in DOMAIN stamp : Live(ctx) => Live(ctx)'
<1>1. ASSUME KInv, [Next]_vars
      PROVE  [Keeps]_vars
  <2> SUFFICES ASSUME NEW i \in DOMAIN stack, stack[i].kind = "checkpoint", stack[i].marked,
                      NEW ctx \in DOMAIN stamp, Live(ctx), ~Live(ctx)'
               PROVE  FALSE
    OBVIOUS
  <2>1. stack[i] \in Activation
    BY <1>1, Positions DEF KInv, RInv
  <2>2. stack[i].marked \in BOOLEAN
    BY <2>1 DEF Activation, ScriptFrame, JsKind
  <2>3. draining = TRUE
    BY <1>1, <2>2 DEF KInv, Marks, IsMark
  <2> QED
    BY <1>1, <2>3, Deaths DEF KInv
<1> QED
  BY <1>1, KeepsInvariance, PTL DEF Spec, CheckpointsKeepRealms

(***************************************************************************)
(* A step that takes a live context from its realm drops the handler       *)
(* registered in it, for its tag is that realm.                            *)
(***************************************************************************)
THEOREM HandlersDie == Spec => HandlerDiesWithItsRealm
<1> DEFINE Dies == \A ctx \in DOMAIN stamp :
                     handler.ctx = ctx /\ Live(ctx) /\ ~Live(ctx)' => handler' = NoHandler
<1>1. ASSUME KInv, [Next]_vars
      PROVE  [Dies]_vars
  <2> SUFFICES ASSUME NEW ctx \in DOMAIN stamp, handler.ctx = ctx, Live(ctx), ~Live(ctx)'
               PROVE  handler' = NoHandler
    OBVIOUS
  <2>1. DropArtifacts(stamp[ctx])
    BY <1>1, Deaths DEF KInv
  <2>2. ctx # None
    BY <1>1 DEF KInv, RInv, TypeOK, None
  <2>3. handler.tag = stamp[ctx]
    BY <1>1, <2>2 DEF KInv, Tagged
  <2> QED
    BY <2>1, <2>3 DEF DropArtifacts
<1> QED
  BY <1>1, KeepsInvariance, PTL DEF Spec, HandlerDiesWithItsRealm
=============================================================================
