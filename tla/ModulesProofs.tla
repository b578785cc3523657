---------------------------- MODULE ModulesProofs ----------------------------
(***************************************************************************)
(* One link at a time, each asking its own resolver and staying in its     *)
(* context, and an evaluate's verdict: for any number of realms, contexts, *)
(* modules and any depth, whatever the resolvers do.                       *)
(***************************************************************************)
EXTENDS Modules, SequenceTheorems, TLAPS

(* The activations that push their realm and pop it. *)
Opens(a) == a.kind = "request" \/ (a.kind \in {"link", "evaluate"} /\ a.by = "request")

(* c[i]: how many of the i outermost activations have a realm in act. *)
CountedBy(c, stk, act, st) ==
    /\ c[Len(stk)] = Len(act)
    /\ \A i \in 0..Len(stk) : c[i] <= i
    /\ \A i, j \in 0..Len(stk) : i <= j => c[i] <= c[j]
    /\ \A i \in 1..Len(stk) :
         /\ Opens(stk[i]) =>
              c[i] = c[i - 1] + 1 /\ stk[i].ctx \in DOMAIN st /\ act[c[i]] = st[stk[i].ctx]
         /\ ~Opens(stk[i]) => c[i] = c[i - 1]
Counted(stk, act, st) == \E c \in [0..Len(stk) -> Nat] : CountedBy(c, stk, act, st)

(* Contexts have their realm's stamp; what is registered is of a live one. *)
Born ==
    /\ Len(modules) <= MaxCompiled
    /\ \A r \in Realm : current[r] # None => stamp[current[r]] = r
    /\ \A m \in DOMAIN modules :
         modules[m].ctx \in DOMAIN stamp /\ stamp[modules[m].ctx] = modules[m].realm
    /\ \A m \in registered : current[modules[m].realm] = modules[m].ctx

IsLink(a) == a.kind = "link"
IsEdge(a) == a.kind = "ruby" /\ a.for = "edge"
IsDone(a) == a.kind = "evaluate" /\ a.phase = "done"

(* What is true of a link, whatever its resolver does. *)
LinkHolds(a) ==
    /\ a.saved = None /\ a.walk # <<>>
    /\ \A m \in Walked(a) : m \in DOMAIN modules
    /\ a.by = "request" => \A m \in Walked(a) : modules[m].ctx = a.ctx

(* A resolver is asked by the link right below it, about its realm. *)
EdgeHolds(i) ==
    /\ i > 1 /\ IsLink(stack[i - 1])
    /\ stack[i].static = (stack[i - 1].by = "request")
    /\ stack[i - 1].by = "request" => stack[i].here = IdOf(stack[i - 1].ctx)

Good(i) ==
    LET a == stack[i]
    IN  /\ a.kind # "ruby" => a.ctx \in DOMAIN stamp
        /\ a.kind = "ruby" /\ a.for = "import" => a.ctx \in DOMAIN stamp
        /\ IsLink(a) => LinkHolds(a)
        /\ IsEdge(a) => EdgeHolds(i)
        /\ a.kind = "evaluate" => a.root \in DOMAIN modules /\ a.graph \subseteq DOMAIN modules
        /\ a.kind = "evaluate" /\ a.phase # "run" => Opens(a)
        /\ i = 1 => Opens(a)
        /\ IsDone(a) => i = Len(stack)

(* The flag and the pair parked belong to the one link under way. *)
LinkState ==
    /\ OneLinkAtATime
    /\ \A i \in DOMAIN stack : IsLink(stack[i]) =>
         instantiating /\ parked = IF stack[i].by = "request" THEN i ELSE None
    /\ (\A i \in DOMAIN stack : ~IsLink(stack[i])) => parked = None /\ ~instantiating

MInv ==
    /\ TypeOK
    /\ Born
    /\ Counted(stack, activeRealms, stamp)
    /\ \A i \in DOMAIN stack : Good(i)
    /\ LinkState
    /\ VerdictIsFresh

-----------------------------------------------------------------------------
(* Sequences *)

LEMMA AppendElements ==
  ASSUME NEW T, NEW q \in Seq(T), NEW e \in T
  PROVE  /\ Append(q, e) \in Seq(T)
         /\ Len(Append(q, e)) = Len(q) + 1
         /\ \A i \in 1..Len(q) : Append(q, e)[i] = q[i]
         /\ Append(q, e)[Len(q) + 1] = e
  OBVIOUS

LEMMA CutElements ==
  ASSUME NEW T, NEW q \in Seq(T), NEW k \in 0..Len(q)
  PROVE  /\ SubSeq(q, 1, k) \in Seq(T)
         /\ Len(SubSeq(q, 1, k)) = k
         /\ \A i \in 1..k : SubSeq(q, 1, k)[i] = q[i]
  OBVIOUS

LEMMA TopElement ==
  ASSUME NEW T, NEW q \in Seq(T), q # <<>>
  PROVE  Len(q) \in Nat /\ Len(q) > 0 /\ Len(q) \in DOMAIN q /\ q[Len(q)] \in T
         /\ Len(q) - 1 \in 0..Len(q) /\ DOMAIN q = 1..Len(q)
  OBVIOUS

(* An activation more on top: the count goes on. *)
LEMMA PushCounts ==
  ASSUME NEW stk \in Seq(Activation), NEW act \in Seq(Realm), NEW st \in Seq(Realm),
         Counted(stk, act, st),
         NEW a \in Activation, NEW next \in Seq(Realm),
         Opens(a) => a.ctx \in DOMAIN st /\ next = Append(act, st[a.ctx]),
         ~Opens(a) => next = act
  PROVE  Counted(Append(stk, a), next, st)
<1> DEFINE d == Len(stk)
           new == Append(stk, a)
<1>0. d \in Nat /\ Len(act) \in Nat /\ Len(next) \in Nat
  OBVIOUS
<1>1. PICK c \in [0..d -> Nat] : CountedBy(c, stk, act, st)
  BY DEF Counted
<1>2. Len(new) = d + 1 /\ new[d + 1] = a /\ \A i \in 1..d : new[i] = stk[i]
  BY AppendElements
<1> DEFINE e == [i \in 0..(d + 1) |-> IF i <= d THEN c[i] ELSE Len(next)]
<1>3. /\ e \in [0..Len(new) -> Nat]
      /\ \A k \in 0..d : e[k] = c[k]
      /\ e[d + 1] = Len(next)
  BY <1>0, <1>2
<1> HIDE DEF e, new
<1>4. /\ c[d] = Len(act) /\ c[d] <= d
      /\ Opens(a) => Len(next) = Len(act) + 1
      /\ ~Opens(a) => Len(next) = Len(act)
      /\ \A k \in 1..Len(act) : next[k] = act[k]
  <2>1. c[d] = Len(act) /\ c[d] <= d
    BY <1>0, <1>1 DEF CountedBy
  <2>2. CASE Opens(a)
    BY <2>1, <2>2, <1>0, AppendElements
  <2>3. CASE ~Opens(a)
    BY <2>1, <2>3, <1>0
  <2> QED
    BY <2>2, <2>3
<1>5. \A i, j \in 0..(d + 1) : i <= j => e[i] <= e[j]
  <2> SUFFICES ASSUME NEW i \in 0..(d + 1), NEW j \in 0..(d + 1), i <= j
               PROVE  e[i] <= e[j]
    OBVIOUS
  <2>1. CASE j <= d
    BY <2>1, <1>0, <1>1, <1>3 DEF CountedBy
  <2>2. CASE j > d /\ i <= d
    <3>1. i \in 0..d /\ d \in 0..d
      BY <2>2, <1>0
    <3>2. c[i] <= c[d]
      BY <3>1, <1>1 DEF CountedBy
    <3>3. c[i] \in Nat /\ c[d] \in Nat
      BY <3>1
    <3> QED
      BY <2>2, <3>1, <3>2, <3>3, <1>0, <1>3, <1>4
  <2>3. CASE i > d
    BY <2>3, <1>0, <1>3
  <2> QED
    BY <2>1, <2>2, <2>3, <1>0
<1>6. \A i \in 0..(d + 1) : e[i] <= i
  <2>1. \A i \in 0..d : e[i] <= i
    BY <1>1, <1>3 DEF CountedBy
  <2>2. e[d + 1] <= d + 1
    BY <1>0, <1>3, <1>4
  <2> QED
    BY <2>1, <2>2, <1>0
<1>7. ASSUME NEW i \in 1..(d + 1)
      PROVE  /\ Opens(new[i]) =>
                   e[i] = e[i - 1] + 1 /\ new[i].ctx \in DOMAIN st /\ next[e[i]] = st[new[i].ctx]
             /\ ~Opens(new[i]) => e[i] = e[i - 1]
  <2>1. CASE i <= d
    <3>1. i \in 1..d /\ i - 1 \in 0..d /\ i \in 0..d /\ d \in 0..d
      BY <2>1, <1>0
    <3>2. e[i] = c[i] /\ e[i - 1] = c[i - 1] /\ new[i] = stk[i]
      BY <3>1, <1>0, <1>2, <1>3
    <3>3. c[i] <= c[d] /\ c[i] \in Nat /\ c[i - 1] \in Nat
      <4>1. c[i] <= c[d]
        BY <3>1, <1>1 DEF CountedBy
      <4> QED
        BY <3>1, <4>1
    <3>4. CASE Opens(stk[i])
      <4>1. c[i] = c[i - 1] + 1 /\ stk[i].ctx \in DOMAIN st /\ act[c[i]] = st[stk[i].ctx]
        BY <3>1, <3>4, <1>1 DEF CountedBy
      <4>2. c[i] \in 1..Len(act)
        BY <4>1, <3>3, <1>0, <1>4
      <4> QED
        BY <3>2, <3>4, <4>1, <4>2, <1>4
    <3>5. CASE ~Opens(stk[i])
      BY <3>1, <3>2, <3>5, <1>1 DEF CountedBy
    <3> QED
      BY <3>4, <3>5
  <2>2. CASE i = d + 1
    <3>1. e[i] = Len(next) /\ e[i - 1] = c[d] /\ new[i] = a
      <4> HIDE DEF d
      <4>1. i - 1 = d /\ d \in 0..d
        BY <2>2, <1>0
      <4>2. e[i] = Len(next) /\ e[d] = c[d] /\ new[i] = a
        BY <4>1, <2>2, <1>2, <1>3
      <4> QED
        BY <4>1, <4>2
    <3>2. CASE Opens(a)
      <4>1. next[Len(next)] = st[a.ctx]
        BY <3>2, AppendElements
      <4> QED
        BY <3>1, <3>2, <4>1, <1>4
    <3>3. CASE ~Opens(a)
      BY <3>1, <3>3, <1>0, <1>4
    <3> QED
      BY <3>2, <3>3
  <2> QED
    BY <2>1, <2>2, <1>0
<1>8. CountedBy(e, new, next, st)
  <2>1. e[d + 1] = Len(next)
    BY <1>0, <1>3
  <2> QED
    BY <2>1, <1>0, <1>2, <1>5, <1>6, <1>7 DEF CountedBy
<1> QED
  BY <1>3, <1>8 DEF Counted, new

(* The top is gone, and its realm with it if it pushed one. *)
LEMMA PopCounts ==
  ASSUME NEW stk \in Seq(Activation), NEW act \in Seq(Realm), NEW st \in Seq(Realm),
         Counted(stk, act, st), stk # <<>>, NEW next \in Seq(Realm),
         Opens(stk[Len(stk)]) => next = SubSeq(act, 1, Len(act) - 1),
         ~Opens(stk[Len(stk)]) => next = act
  PROVE  Counted(SubSeq(stk, 1, Len(stk) - 1), next, st)
<1> DEFINE d == Len(stk)
           new == SubSeq(stk, 1, d - 1)
<1>0. d \in Nat /\ d > 0 /\ Len(act) \in Nat /\ d - 1 \in 0..d /\ d \in 0..d /\ d \in 1..d
  OBVIOUS
<1>1. PICK c \in [0..d -> Nat] : CountedBy(c, stk, act, st)
  BY DEF Counted
<1>2. Len(new) = d - 1 /\ \A i \in 1..(d - 1) : new[i] = stk[i]
  BY <1>0, CutElements
<1> DEFINE e == [i \in 0..(d - 1) |-> c[i]]
<1>3. /\ e \in [0..Len(new) -> Nat]
      /\ \A k \in 0..(d - 1) : e[k] = c[k]
  BY <1>0, <1>2
<1> HIDE DEF e, new
<1>4. /\ c[d - 1] \in Nat /\ c[d] = Len(act)
      /\ Opens(stk[d]) => c[d] = c[d - 1] + 1
      /\ ~Opens(stk[d]) => c[d] = c[d - 1]
  <2>1. c[d] = Len(act)
    BY <1>1 DEF CountedBy
  <2>2. (Opens(stk[d]) => c[d] = c[d - 1] + 1) /\ (~Opens(stk[d]) => c[d] = c[d - 1])
    BY <1>0, <1>1 DEF CountedBy
  <2> QED
    BY <2>1, <2>2, <1>0
<1>5. c[d - 1] = Len(next) /\ \A k \in 1..Len(next) : next[k] = act[k]
  <2>1. CASE Opens(stk[d])
    <3>1. Len(act) - 1 \in 0..Len(act)
      BY <2>1, <1>0, <1>4
    <3>2. Len(next) = Len(act) - 1 /\ \A k \in 1..(Len(act) - 1) : next[k] = act[k]
      BY <2>1, <3>1, CutElements
    <3> QED
      BY <2>1, <3>1, <3>2, <1>4
  <2>2. CASE ~Opens(stk[d])
    BY <2>2, <1>4
  <2> QED
    BY <2>1, <2>2
<1>6. \A i, j \in 0..(d - 1) : i <= j => e[i] <= e[j]
  BY <1>0, <1>1, <1>3 DEF CountedBy
<1>7. \A i \in 0..(d - 1) : e[i] <= i
  BY <1>0, <1>1, <1>3 DEF CountedBy
<1>8. ASSUME NEW i \in 1..(d - 1)
      PROVE  /\ Opens(new[i]) =>
                   e[i] = e[i - 1] + 1 /\ new[i].ctx \in DOMAIN st /\ next[e[i]] = st[new[i].ctx]
             /\ ~Opens(new[i]) => e[i] = e[i - 1]
  <2>1. i \in 1..d /\ i - 1 \in 0..(d - 1) /\ i \in 0..(d - 1) /\ i <= d - 1 /\ i \in 0..d
    BY <1>0
  <2>2. e[i] = c[i] /\ e[i - 1] = c[i - 1] /\ new[i] = stk[i]
    BY <2>1, <1>0, <1>2, <1>3
  <2>3. c[i] <= c[d - 1] /\ c[i] \in Nat /\ c[i - 1] \in Nat
    <3>1. c[i] <= c[d - 1]
      BY <2>1, <1>0, <1>1 DEF CountedBy
    <3>2. i - 1 \in 0..d
      BY <2>1, <1>0
    <3> QED
      BY <2>1, <3>1, <3>2
  <2>4. CASE Opens(stk[i])
    <3>1. c[i] = c[i - 1] + 1 /\ stk[i].ctx \in DOMAIN st /\ act[c[i]] = st[stk[i].ctx]
      BY <2>1, <2>4, <1>1 DEF CountedBy
    <3>2. c[i] \in 1..Len(next)
      BY <3>1, <2>3, <1>4, <1>5
    <3> QED
      BY <2>2, <2>4, <3>1, <3>2, <1>5
  <2>5. CASE ~Opens(stk[i])
    BY <2>1, <2>2, <2>5, <1>1 DEF CountedBy
  <2> QED
    BY <2>4, <2>5
<1>9. CountedBy(e, new, next, st)
  <2>1. e[d - 1] = Len(next)
    <3>1. d - 1 \in 0..(d - 1)
      BY <1>0
    <3>2. e[d - 1] = c[d - 1]
      BY <3>1, <1>3
    <3> QED
      BY <3>2, <1>5
  <2> QED
    BY <2>1, <1>0, <1>2, <1>6, <1>7, <1>8 DEF CountedBy
<1> QED
  BY <1>3, <1>9 DEF Counted, new

(* The same activations as far as realms are concerned. *)
LEMMA SameCounts ==
  ASSUME NEW stk \in Seq(Activation), NEW act \in Seq(Realm), NEW st \in Seq(Realm),
         Counted(stk, act, st), NEW other \in Seq(Activation), Len(other) = Len(stk),
         NEW st2 \in Seq(Realm), \A x \in DOMAIN st : x \in DOMAIN st2 /\ st2[x] = st[x],
         \A i \in 1..Len(stk) :
            /\ Opens(other[i]) <=> Opens(stk[i])
            /\ Opens(stk[i]) => other[i].ctx = stk[i].ctx
  PROVE  Counted(other, act, st2)
<1>1. PICK c \in [0..Len(stk) -> Nat] : CountedBy(c, stk, act, st)
  BY DEF Counted
<1>2. CountedBy(c, other, act, st2)
  BY <1>1 DEF CountedBy
<1> QED
  BY <1>1, <1>2 DEF Counted

(* There are no more realms than activations, and those are active. *)
LEMMA CountBounds ==
  ASSUME stack \in Seq(Activation), activeRealms \in Seq(Realm),
         Counted(stack, activeRealms, stamp)
  PROVE  /\ Len(activeRealms) <= Len(stack)
         /\ \A i \in DOMAIN stack : Opens(stack[i]) => Active(stamp[stack[i].ctx])
<1>1. PICK c \in [0..Len(stack) -> Nat] : CountedBy(c, stack, activeRealms, stamp)
  BY DEF Counted
<1>2. Len(stack) \in Nat /\ Len(stack) \in 0..Len(stack) /\ Len(activeRealms) \in Nat
  OBVIOUS
<1>3. Len(activeRealms) <= Len(stack)
  BY <1>1, <1>2 DEF CountedBy
<1>4. ASSUME NEW i \in DOMAIN stack, Opens(stack[i])
      PROVE  Active(stamp[stack[i].ctx])
  <2>1. i \in 1..Len(stack) /\ i - 1 \in 0..Len(stack) /\ i \in 0..Len(stack) /\ i <= Len(stack)
    BY <1>2
  <2>2. c[i] = c[i - 1] + 1 /\ activeRealms[c[i]] = stamp[stack[i].ctx]
    BY <2>1, <1>1, <1>4 DEF CountedBy
  <2>3. c[i] <= c[Len(stack)] /\ c[Len(stack)] = Len(activeRealms)
    BY <2>1, <1>1, <1>2 DEF CountedBy
  <2>4. c[i] \in Nat /\ c[i - 1] \in Nat
    BY <2>1
  <2>5. c[i] \in 1..Len(activeRealms)
    BY <2>2, <2>3, <2>4, <1>2
  <2> QED
    BY <2>2, <2>5 DEF Active
<1> QED
  BY <1>3, <1>4

-----------------------------------------------------------------------------
LEMMA InitMInv == Init => MInv
<1> SUFFICES ASSUME Init PROVE MInv
  OBVIOUS
<1>1. /\ MaxRealms \in Nat /\ MaxContexts \in Nat /\ MaxContexts > MaxRealms
      /\ MaxDepth \in Nat /\ MaxCompiled \in Nat
  BY ModulesAssumption
<1>2. /\ stamp = [c \in 1..(MaxRealms + 1) |-> c - 1]
      /\ current = [r \in Realm |-> r + 1]
      /\ stack = <<>> /\ activeRealms = <<>> /\ modules = <<>> /\ registered = {}
      /\ draining = FALSE /\ instantiating = FALSE /\ parked = None
  BY DEF Init
<1>3. /\ stamp \in Seq(Realm) /\ DOMAIN stamp = 1..(MaxRealms + 1)
      /\ Len(stamp) <= MaxContexts
  <2>1. \A c \in 1..(MaxRealms + 1) : c - 1 \in Realm
    BY <1>1 DEF Realm
  <2>2. stamp \in Seq(Realm) /\ Len(stamp) = MaxRealms + 1
    BY <2>1, <1>1, <1>2
  <2> QED
    BY <2>2, <1>1, <1>2
<1>4. current \in [Realm -> {None} \cup DOMAIN stamp]
  BY <1>1, <1>2, <1>3 DEF Realm
<1>5. TypeOK
  <2>1. /\ stack \in Seq(Activation) /\ Len(stack) = 0
        /\ activeRealms \in Seq(Realm) /\ Len(activeRealms) = 0
        /\ modules \in Seq(Module) /\ Len(modules) = 0
    BY <1>2
  <2>2. parked \in 0..MaxDepth /\ registered \subseteq DOMAIN modules
    BY <1>1, <1>2 DEF None
  <2>3. draining \in BOOLEAN /\ instantiating \in BOOLEAN
    BY <1>2
  <2> QED
    BY <2>1, <2>2, <2>3, <1>1, <1>3, <1>4 DEF TypeOK
<1>6. Born
  <2>1. \A r \in Realm : stamp[current[r]] = r
    BY <1>1, <1>2 DEF Realm
  <2>2. Len(modules) <= MaxCompiled /\ DOMAIN modules = {} /\ registered = {}
    BY <1>1, <1>2
  <2> QED
    BY <2>1, <2>2 DEF Born
<1>7. Counted(stack, activeRealms, stamp)
  <2>1. [i \in 0..0 |-> 0] \in [0..Len(stack) -> Nat]
    BY <1>2
  <2>2. CountedBy([i \in 0..0 |-> 0], stack, activeRealms, stamp)
    BY <1>2 DEF CountedBy
  <2> QED
    BY <2>1, <2>2 DEF Counted
<1>8. LinkState /\ VerdictIsFresh /\ \A i \in DOMAIN stack : Good(i)
  BY <1>2 DEF LinkState, OneLinkAtATime, VerdictIsFresh, TopIs, Idle
<1> QED
  BY <1>5, <1>6, <1>7, <1>8 DEF MInv

-----------------------------------------------------------------------------
(* What an activation of a kind is made of *)

RequestFrame == [kind : {"request"}, ctx : Context, phase : {"run", "drain", "last"}]
CallFrame == [kind : {"call"}, ctx : Context]
LinkFrame ==
    [kind : {"link"}, by : Source, ctx : Context, walk : Seq(ModuleId), saved : 0..MaxDepth]
EvaluateFrame ==
    [kind : {"evaluate"}, by : Source, ctx : Context, root : ModuleId,
     graph : SUBSET ModuleId, phase : {"run", "drain", "done"}, ok : BOOLEAN]
RubyFrame == [kind : {"ruby"}, for : {"host", "import"}, ctx : Context]
EdgeFrame ==
    [kind : {"ruby"}, for : {"edge"}, from : ModuleId, static : BOOLEAN,
     here : Realm \cup {MaxRealms + 1}]

LEMMA Kinds ==
  /\ RequestFrame \subseteq Activation /\ CallFrame \subseteq Activation
  /\ LinkFrame \subseteq Activation /\ EvaluateFrame \subseteq Activation
  /\ RubyFrame \subseteq Activation /\ EdgeFrame \subseteq Activation
  /\ \A a \in Activation :
       /\ a.kind \in {"request", "call", "link", "evaluate", "ruby"}
       /\ a.kind = "request" => a \in RequestFrame
       /\ a.kind = "call" => a \in CallFrame
       /\ a.kind = "link" => a \in LinkFrame
       /\ a.kind = "evaluate" => a \in EvaluateFrame
       /\ a.kind = "ruby" /\ a.for # "edge" => a \in RubyFrame
       /\ a.kind = "ruby" /\ a.for = "edge" => a \in EdgeFrame
<1>1. Activation = RequestFrame \cup CallFrame \cup LinkFrame \cup EvaluateFrame
                     \cup RubyFrame \cup EdgeFrame
  BY DEF Activation, RequestFrame, CallFrame, LinkFrame, EvaluateFrame, RubyFrame, EdgeFrame
<1>2. /\ \A a \in RequestFrame : a.kind = "request"
      /\ \A a \in CallFrame : a.kind = "call"
      /\ \A a \in LinkFrame : a.kind = "link"
      /\ \A a \in EvaluateFrame : a.kind = "evaluate"
      /\ \A a \in RubyFrame : a.kind = "ruby" /\ a.for # "edge"
      /\ \A a \in EdgeFrame : a.kind = "ruby" /\ a.for = "edge"
  BY DEF RequestFrame, CallFrame, LinkFrame, EvaluateFrame, RubyFrame, EdgeFrame
<1> QED
  BY <1>1, <1>2

LEMMA Positions ==
  ASSUME TypeOK
  PROVE  /\ Len(stack) \in Nat /\ DOMAIN stack = 1..Len(stack)
         /\ \A i \in 1..Len(stack) : stack[i] \in Activation
         /\ ~Idle => Len(stack) \in 1..Len(stack) /\ Len(stack) - 1 \in 0..Len(stack)
         /\ Idle <=> Len(stack) = 0
  BY DEF TypeOK, Idle

-----------------------------------------------------------------------------
(* Steps of the stack: what is up to keep stays, what is above is new. *)

(* The compiled modules keep realm and context, whatever their status. *)
Kept(table) ==
    /\ table \in Seq(Module) /\ DOMAIN table = DOMAIN modules
    /\ \A m \in DOMAIN modules :
         table[m].realm = modules[m].realm /\ table[m].ctx = modules[m].ctx

LEMMA StackStep ==
  ASSUME MInv, NEW keep \in 0..Len(stack),
         UNCHANGED <<current, stamp, registered>>, Kept(modules'),
         stack' \in Seq(Activation), Len(stack') <= MaxDepth, keep <= Len(stack'),
         \A i \in 1..keep : stack'[i] = stack[i],
         \/ keep < Len(stack)
         \/ keep < Len(stack') /\ (Idle \/ ~IsDone(Top)),
         \A i \in DOMAIN stack' : i > keep =>
            Good(i)' /\ (IsDone(stack'[i]) /\ stack'[i].graph # {} /\ stack'[i].ok
                            => modules'[stack'[i].root].status # "errored"),
         draining' \in BOOLEAN, instantiating' \in BOOLEAN, parked' \in 0..MaxDepth,
         activeRealms' \in Seq(Realm), Counted(stack', activeRealms', stamp'),
         LinkState'
  PROVE  MInv'
<1>1. /\ Len(stack) \in Nat /\ DOMAIN stack = 1..Len(stack)
      /\ Len(stack') \in Nat /\ DOMAIN stack' = 1..Len(stack')
  BY DEF MInv, TypeOK
<1>2. \A i \in 1..keep : i \in DOMAIN stack /\ i \in DOMAIN stack' /\ stack'[i] = stack[i] /\ Good(i)
  BY <1>1 DEF MInv
<1>3. TypeOK'
  <2>1. Len(activeRealms') <= Len(stack')
    <3>1. \E c \in [0..Len(stack') -> Nat] : CountedBy(c, stack', activeRealms', stamp')
      BY DEF Counted
    <3> QED
      BY <3>1, <1>1 DEF CountedBy
  <2> QED
    BY <2>1 DEF MInv, TypeOK, Kept
<1>4. Born'
  <2>1. Len(modules') = Len(modules)
    BY DEF MInv, TypeOK, Kept
  <2> QED
    BY <2>1 DEF MInv, TypeOK, Born, Kept
<1>5. ASSUME NEW i \in 1..keep
      PROVE  Good(i)' /\ (IsDone(stack'[i]) => i # Len(stack'))
  <2>1. /\ i \in DOMAIN stack /\ stack'[i] = stack[i] /\ Good(i)
        /\ i > 1 => stack'[i - 1] = stack[i - 1]
    BY <1>1, <1>2
  <2>2. ~IsDone(stack[i])
    <3> SUFFICES ASSUME IsDone(stack[i]) PROVE FALSE
      OBVIOUS
    <3>1. i = Len(stack)
      BY <2>1 DEF Good
    <3>2. ~(keep < Len(stack))
      BY <3>1, <1>1
    <3>3. stack # <<>> /\ ~IsDone(Top)
      BY <2>1, <3>2 DEF Idle
    <3> QED
      BY <3>1, <3>3 DEF Top, Depth
  <2>3. IsEdge(stack[i]) => EdgeHolds(i)'
    BY <2>1 DEF Good, EdgeHolds, IdOf, IsLink
  <2>4. IsLink(stack[i]) => LinkHolds(stack[i])'
    <3>1. IsLink(stack[i]) => LinkHolds(stack[i])
      BY <2>1 DEF Good
    <3>2. Walked(stack[i])' = Walked(stack[i])
      BY <2>1 DEF Walked
    <3>3. (\A m \in Walked(stack[i]) : m \in DOMAIN modules) =>
            \A m \in Walked(stack[i])' : m \in DOMAIN modules' /\ modules'[m].ctx = modules[m].ctx
      BY <3>2 DEF Kept
    <3> QED
      BY <2>1, <3>1, <3>2, <3>3 DEF LinkHolds
  <2> QED
    <3>1. /\ (stack'[i].kind = "evaluate" /\ stack'[i].phase # "run") => Opens(stack'[i])
          /\ i = 1 => Opens(stack'[i])
      BY <2>1 DEF Good, Opens
    <3> QED
      BY <2>1, <2>2, <2>3, <2>4, <3>1 DEF Good, Opens, IsEdge, IsLink, IsDone, Kept
<1>6. ASSUME NEW i \in DOMAIN stack'
      PROVE  Good(i)'
  <2>1. CASE i > keep
    BY <2>1, Zenon
  <2>2. CASE ~(i > keep)
    <3>1. i \in 1..keep
      BY <2>2, <1>1
    <3> QED
      BY <3>1, <1>5, Zenon
  <2> QED
    BY <2>1, <2>2
<1>7. VerdictIsFresh'
  <2> SUFFICES ASSUME stack' # <<>>, NEW i \in DOMAIN stack', i = Len(stack'), IsDone(stack'[i]),
                      stack'[i].graph # {}, stack'[i].ok
               PROVE  modules'[stack'[i].root].status # "errored"
    BY <1>1 DEF VerdictIsFresh, TopIs, Idle, Top, Depth, IsDone
  <2> QED
    BY <1>1, <1>5
<1> QED
  BY <1>3, <1>4, <1>6, <1>7 DEF MInv

-----------------------------------------------------------------------------
(* The one link *)

LEMMA NoLink ==
  ASSUME MInv, ~instantiating
  PROVE  parked = None /\ \A i \in DOMAIN stack : ~IsLink(stack[i])
  BY DEF MInv, LinkState

LEMMA LinkStays ==
  ASSUME MInv, NEW keep \in 0..Len(stack),
         stack' \in Seq(Activation), keep <= Len(stack'),
         \A i \in 1..keep : stack'[i] = stack[i],
         \A i \in DOMAIN stack : i > keep => ~IsLink(stack[i]),
         \A i \in DOMAIN stack' : i > keep => ~IsLink(stack'[i]),
         UNCHANGED linking
  PROVE  LinkState'
<1>1. /\ Len(stack) \in Nat /\ DOMAIN stack = 1..Len(stack)
      /\ Len(stack') \in Nat /\ DOMAIN stack' = 1..Len(stack')
  BY DEF MInv, TypeOK
<1>2. /\ \A i \in DOMAIN stack' : IsLink(stack'[i]) => i \in DOMAIN stack /\ stack'[i] = stack[i]
      /\ \A i \in DOMAIN stack : IsLink(stack[i]) => i \in DOMAIN stack' /\ stack'[i] = stack[i]
  BY <1>1
<1> QED
  BY <1>2 DEF MInv, LinkState, linking, OneLinkAtATime, IsLink

LEMMA LinkStarts ==
  ASSUME MInv, ~instantiating, NEW keep \in 0..Len(stack),
         stack' \in Seq(Activation), Len(stack') = keep + 1,
         \A i \in 1..keep : stack'[i] = stack[i],
         IsLink(stack'[keep + 1]), instantiating' = TRUE,
         parked' = IF stack'[keep + 1].by = "request" THEN keep + 1 ELSE None
  PROVE  LinkState'
<1>1. /\ Len(stack) \in Nat /\ DOMAIN stack = 1..Len(stack)
      /\ DOMAIN stack' = 1..(keep + 1)
  BY DEF MInv, TypeOK
<1>2. \A i \in DOMAIN stack' : IsLink(stack'[i]) <=> i = keep + 1
  BY <1>1, NoLink
<1>3. keep + 1 \in DOMAIN stack'
  BY <1>1
<1> QED
  BY <1>2, <1>3 DEF LinkState, OneLinkAtATime, IsLink

LEMMA LinkEnds ==
  ASSUME MInv, NEW keep \in 0..Len(stack),
         keep + 1 \in DOMAIN stack, IsLink(stack[keep + 1]),
         stack' \in Seq(Activation), keep <= Len(stack'),
         \A i \in 1..keep : stack'[i] = stack[i],
         \A i \in DOMAIN stack' : i > keep => ~IsLink(stack'[i]),
         instantiating' = FALSE, parked' = None
  PROVE  LinkState'
<1>1. /\ Len(stack) \in Nat /\ DOMAIN stack = 1..Len(stack)
      /\ Len(stack') \in Nat /\ DOMAIN stack' = 1..Len(stack')
  BY DEF MInv, TypeOK
<1>2. \A i \in 1..keep : ~IsLink(stack[i])
  BY <1>1 DEF MInv, LinkState, OneLinkAtATime, IsLink
<1>3. \A i \in DOMAIN stack' : ~IsLink(stack'[i])
  BY <1>1, <1>2
<1> QED
  BY <1>3 DEF LinkState, OneLinkAtATime, IsLink

LEMMA LinkGrows ==
  ASSUME MInv, NEW keep \in 0..Len(stack),
         keep + 1 \in DOMAIN stack, IsLink(stack[keep + 1]),
         stack' \in Seq(Activation), Len(stack') = keep + 1,
         \A i \in 1..keep : stack'[i] = stack[i],
         IsLink(stack'[keep + 1]), stack'[keep + 1].by = stack[keep + 1].by,
         UNCHANGED linking
  PROVE  LinkState'
<1>1. /\ Len(stack) \in Nat /\ DOMAIN stack = 1..Len(stack)
      /\ DOMAIN stack' = 1..(keep + 1) /\ keep + 1 \in DOMAIN stack'
  BY DEF MInv, TypeOK
<1>2. \A i \in 1..keep : ~IsLink(stack[i])
  BY <1>1 DEF MInv, LinkState, OneLinkAtATime, IsLink
<1>3. \A i \in DOMAIN stack' : IsLink(stack'[i]) <=> i = keep + 1
  BY <1>1, <1>2
<1>4. instantiating' /\ parked' = IF stack'[keep + 1].by = "request" THEN keep + 1 ELSE None
  BY DEF MInv, LinkState, linking
<1> QED
  BY <1>1, <1>3, <1>4 DEF LinkState, OneLinkAtATime, IsLink

-----------------------------------------------------------------------------
(* The table of modules *)

LEMMA KeptTable ==
  ASSUME modules \in Seq(Module), NEW table,
         table = [m \in DOMAIN modules |-> table[m]],
         \A m \in DOMAIN modules :
            table[m] \in Module /\ table[m].realm = modules[m].realm
              /\ table[m].ctx = modules[m].ctx
  PROVE  Kept(table)
<1>1. DOMAIN modules = 1..Len(modules) /\ Len(modules) \in Nat
  OBVIOUS
<1>2. table \in Seq(Module) /\ DOMAIN table = DOMAIN modules
  BY <1>1
<1> QED
  BY <1>2 DEF Kept

LEMMA Restatus ==
  ASSUME NEW a \in Module, NEW status \in Status
  PROVE  LET b == [a EXCEPT !.status = status]
         IN  b \in Module /\ b.realm = a.realm /\ b.ctx = a.ctx
  BY DEF Module

LEMMA KeptSelf ==
  ASSUME modules \in Seq(Module)
  PROVE  Kept(modules)
  BY DEF Kept

LEMMA SetStatusKept ==
  ASSUME modules \in Seq(Module), NEW ids, NEW status \in Status
  PROVE  Kept(SetStatus(ids, status))
<1> DEFINE t == SetStatus(ids, status)
<1>1. t = [m \in DOMAIN modules |-> t[m]]
  BY DEF SetStatus
<1>2. \A m \in DOMAIN modules : modules[m] \in Module
  OBVIOUS
<1>3. ASSUME NEW m \in DOMAIN modules
      PROVE  t[m] \in Module /\ t[m].realm = modules[m].realm /\ t[m].ctx = modules[m].ctx
  <2>1. t[m] = IF m \in ids THEN [modules[m] EXCEPT !.status = status] ELSE modules[m]
    BY DEF SetStatus
  <2> HIDE DEF t
  <2> QED
    BY <2>1, <1>2, Restatus
<1> HIDE DEF t
<1>4. Kept(t)
  BY <1>1, <1>3, KeptTable
<1> QED
  BY <1>4 DEF t

LEMMA UnlinkedKept ==
  ASSUME modules \in Seq(Module), NEW link
  PROVE  Kept(Unlinked(link))
<1> DEFINE t == Unlinked(link)
<1>1. t = [m \in DOMAIN modules |-> t[m]]
  BY DEF Unlinked
<1>2. \A m \in DOMAIN modules : modules[m] \in Module
  OBVIOUS
<1>3. ASSUME NEW m \in DOMAIN modules
      PROVE  t[m] \in Module /\ t[m].realm = modules[m].realm /\ t[m].ctx = modules[m].ctx
  <2> DEFINE b == [modules[m] EXCEPT !.status = "uninstantiated", !.deps = {}]
  <2>1. t[m] = b \/ t[m] = modules[m]
    BY DEF Unlinked
  <2>2. b \in Module /\ b.realm = modules[m].realm /\ b.ctx = modules[m].ctx
    BY <1>2 DEF Module, Status
  <2> HIDE DEF t, b
  <2> QED
    BY <2>1, <2>2, <1>2
<1> HIDE DEF t
<1>4. Kept(t)
  BY <1>1, <1>3, KeptTable
<1> QED
  BY <1>4 DEF t

LEMMA EvaluatingKept ==
  ASSUME modules \in Seq(Module), NEW table, Kept(table), NEW m
  PROVE  Kept(Evaluating(m, table))
<1> DEFINE t == Evaluating(m, table)
<1>1. t = [x \in DOMAIN modules |-> t[x]]
  BY DEF Evaluating, Kept
<1>2. \A x \in DOMAIN modules : table[x] \in Module
  BY DEF Kept
<1>3. ASSUME NEW x \in DOMAIN modules
      PROVE  t[x] \in Module /\ t[x].realm = modules[x].realm /\ t[x].ctx = modules[x].ctx
  <2> DEFINE b == [table[x] EXCEPT !.status = "evaluating"]
  <2>1. t[x] = b \/ t[x] = table[x]
    BY DEF Evaluating, Kept
  <2>2. b \in Module /\ b.realm = table[x].realm /\ b.ctx = table[x].ctx
    BY <1>2, Restatus DEF Status
  <2> HIDE DEF t, b
  <2> QED
    BY <2>1, <2>2, <1>2 DEF Kept
<1> HIDE DEF t
<1>4. Kept(t)
  BY <1>1, <1>3, KeptTable
<1> QED
  BY <1>4 DEF t

(* One module of the table is changed in another field. *)
LEMMA UpdateKept ==
  ASSUME modules \in Seq(Module), NEW table, Kept(table), NEW x, NEW b,
         x \in DOMAIN modules =>
            b \in Module /\ b.realm = table[x].realm /\ b.ctx = table[x].ctx
  PROVE  Kept([table EXCEPT ![x] = b])
<1> DEFINE t == [table EXCEPT ![x] = b]
<1>1. t = [m \in DOMAIN modules |-> t[m]]
  BY DEF Kept
<1>2. \A m \in DOMAIN modules : table[m] \in Module
  BY DEF Kept
<1>3. ASSUME NEW m \in DOMAIN modules
      PROVE  t[m] \in Module /\ t[m].realm = modules[m].realm /\ t[m].ctx = modules[m].ctx
  <2>1. t[m] = IF m = x THEN b ELSE table[m]
    BY DEF Kept
  <2> HIDE DEF t
  <2> QED
    BY <2>1, <1>2 DEF Kept
<1> HIDE DEF t
<1>4. Kept(t)
  BY <1>1, <1>3, KeptTable
<1> QED
  BY <1>4 DEF t

LEMMA EvaluationTyped ==
  ASSUME MInv, NEW by \in Source, NEW table, Kept(table), NEW m \in DOMAIN modules
  PROVE  LET a == Evaluation(by, m, table)
         IN  /\ a \in EvaluateFrame /\ a.kind = "evaluate" /\ a.by = by /\ a.phase = "run"
             /\ a.ctx = modules[m].ctx /\ a.root = m /\ a.graph \subseteq DOMAIN modules
<1> DEFINE g == {x \in Graph(m, table) : table[x].status = "instantiated"}
<1>1. DOMAIN modules = 1..Len(modules) /\ Len(modules) \in Nat /\ Len(modules) <= MaxCompiled
  BY DEF MInv, TypeOK, Born
<1>2. DOMAIN modules \subseteq ModuleId
  BY <1>1, ModulesAssumption DEF ModuleId
<1>3. g \subseteq DOMAIN modules
  BY DEF Graph, Kept
<1>4. modules[m] \in Module
  BY DEF MInv, TypeOK
<1>5. table[m].ctx = modules[m].ctx /\ modules[m].ctx \in Context
  BY <1>4 DEF Kept, Module
<1>6. Evaluation(by, m, table) =
        [kind |-> "evaluate", by |-> by, ctx |-> table[m].ctx, root |-> m,
         graph |-> g, phase |-> "run", ok |-> TRUE]
  BY DEF Evaluation
<1> HIDE DEF g
<1> QED
  BY <1>2, <1>3, <1>5, <1>6 DEF EvaluateFrame

-----------------------------------------------------------------------------
(* Pushing, popping and replacing an activation that is no link *)

LEMMA Facts ==
  ASSUME MInv
  PROVE  /\ stack \in Seq(Activation) /\ Len(stack) \in Nat /\ DOMAIN stack = 1..Len(stack)
         /\ Len(stack) <= MaxDepth /\ MaxDepth \in Nat
         /\ activeRealms \in Seq(Realm) /\ stamp \in Seq(Realm) /\ modules \in Seq(Module)
         /\ Counted(stack, activeRealms, stamp)
         /\ draining \in BOOLEAN /\ instantiating \in BOOLEAN /\ parked \in 0..MaxDepth
         /\ DOMAIN stamp \subseteq Context
         /\ \A m \in DOMAIN modules : modules[m] \in Module
         /\ registered \subseteq DOMAIN modules
         /\ ~Idle => Len(stack) \in 1..Len(stack) /\ Top \in Activation /\ Good(Len(stack))
  BY ModulesAssumption DEF MInv, TypeOK, Context, Idle, Top, Depth

(* The contexts and modules an activation names exist. *)
Fits(a) ==
    /\ a.kind # "ruby" => a.ctx \in DOMAIN stamp
    /\ a.kind = "ruby" /\ a.for = "import" => a.ctx \in DOMAIN stamp
    /\ a.kind = "evaluate" => a.root \in DOMAIN modules /\ a.graph \subseteq DOMAIN modules
    /\ a.kind = "evaluate" /\ a.phase # "run" => Opens(a)

LEMMA PushStep ==
  ASSUME MInv, NEW a \in Activation, Push(a), ~IsLink(a), ~IsDone(a), Fits(a),
         \A i \in Nat : IsEdge(a) /\ i = Len(stack) + 1 => EdgeHolds(i)',
         Idle \/ ~IsDone(Top), Idle => Opens(a),
         UNCHANGED <<realms, registered, linking>>, Kept(modules'), draining' \in BOOLEAN,
         Opens(a) => activeRealms' = Append(activeRealms, stamp[a.ctx]),
         ~Opens(a) => activeRealms' = activeRealms
  PROVE  MInv'
<1> DEFINE d == Len(stack)
<1>1. /\ d \in Nat /\ d < MaxDepth /\ d \in 0..d
      /\ stack' = Append(stack, a) /\ stack' \in Seq(Activation) /\ Len(stack') = d + 1
      /\ \A i \in 1..d : stack'[i] = stack[i]
      /\ stack'[d + 1] = a
  BY Facts, AppendElements DEF Push, Depth
<1>2. Opens(a) => a.ctx \in DOMAIN stamp
  BY DEF Opens, Fits
<1>3. activeRealms' \in Seq(Realm)
  <2>1. a.ctx \in DOMAIN stamp => stamp[a.ctx] \in Realm
    BY Facts
  <2>2. activeRealms \in Seq(Realm)
    BY Facts
  <2>3. CASE Opens(a)
    BY <2>1, <2>2, <2>3, <1>2
  <2>4. CASE ~Opens(a)
    BY <2>2, <2>4
  <2> QED
    BY <2>3, <2>4
<1>4. Counted(stack', activeRealms', stamp)
  BY <1>1, <1>2, <1>3, Facts, PushCounts
<1>5. UNCHANGED <<current, stamp, registered, instantiating, parked>>
  BY DEF realms, linking
<1>6. LinkState'
  <2>1. \A i \in DOMAIN stack' : i > d => i = d + 1
    BY <1>1
  <2>2. \A i \in DOMAIN stack : ~(i > d)
    BY Facts
  <2> QED
    BY <2>1, <2>2, <1>1, LinkStays
<1>7. ASSUME NEW i \in DOMAIN stack', i > d
      PROVE  Good(i)' /\ ~IsDone(stack'[i])
  <2>1. i = d + 1 /\ i = Len(stack') /\ stack'[i] = a /\ i \in Nat
    BY <1>1, <1>7
  <2>2. IsEdge(a) => EdgeHolds(i)'
    BY <2>1
  <2>3. i = 1 => Opens(a)
    BY <2>1, Facts DEF Idle
  <2> QED
    BY <2>1, <2>2, <2>3, <1>5 DEF Good, Fits, Opens, Kept, IsLink, IsDone, IsEdge
<1>8. Len(stack') <= MaxDepth /\ d <= Len(stack') /\ d < Len(stack')
  BY <1>1, Facts
<1>9. instantiating' \in BOOLEAN /\ parked' \in 0..MaxDepth
  BY <1>5, Facts
<1>10. Counted(stack', activeRealms', stamp')
  BY <1>4, <1>5
<1> HIDE DEF d
<1> QED
  BY <1>1, <1>3, <1>5, <1>6, <1>7, <1>8, <1>9, <1>10, StackStep DEF d

LEMMA PopRealmTyped ==
  ASSUME activeRealms \in Seq(Realm), PopRealm
  PROVE  activeRealms' \in Seq(Realm)
<1>1. CASE activeRealms = <<>>
  BY <1>1 DEF PopRealm
<1>2. CASE activeRealms # <<>>
  <2>1. Len(activeRealms) - 1 \in 0..Len(activeRealms)
    BY <1>2
  <2> QED
    BY <2>1, CutElements DEF PopRealm
<1> QED
  BY <1>1, <1>2

LEMMA PopStep ==
  ASSUME MInv, ~Idle, ~IsLink(Top), stack' = Below,
         UNCHANGED <<realms, registered, linking>>, Kept(modules'), draining' \in BOOLEAN,
         Opens(Top) => PopRealm,
         ~Opens(Top) => activeRealms' = activeRealms
  PROVE  MInv'
<1> DEFINE d == Len(stack)
<1>1. /\ d \in Nat /\ d \in 1..d /\ d - 1 \in 0..d /\ stack # <<>>
      /\ stack' = SubSeq(stack, 1, d - 1) /\ stack' \in Seq(Activation) /\ Len(stack') = d - 1
      /\ DOMAIN stack' = 1..(d - 1)
      /\ \A i \in 1..(d - 1) : stack'[i] = stack[i]
  <2>1. d \in Nat /\ d \in 1..d /\ d - 1 \in 0..d /\ stack # <<>>
    BY Facts DEF Idle
  <2>2. stack' = SubSeq(stack, 1, d - 1)
    BY DEF Below, Depth
  <2> QED
    BY <2>1, <2>2, Facts, CutElements
<1>2. activeRealms' \in Seq(Realm)
  BY Facts, PopRealmTyped
<1>3. Counted(stack', activeRealms', stamp)
  BY <1>1, <1>2, Facts, PopCounts DEF Top, Depth, PopRealm
<1>4. UNCHANGED <<current, stamp, registered, instantiating, parked>>
  BY DEF realms, linking
<1>5. /\ \A i \in DOMAIN stack' : ~(i > d - 1)
      /\ \A i \in DOMAIN stack : i > d - 1 => i = d
  BY <1>1, Facts
<1>6. LinkState'
  BY <1>1, <1>5, LinkStays DEF Top, Depth
<1>7. Len(stack') <= MaxDepth /\ d - 1 < d
  BY <1>1, Facts
<1> QED
  BY <1>1, <1>2, <1>3, <1>4, <1>5, <1>6, <1>7, Facts, StackStep

(* The top goes on as a, with its realm if it has one. *)
LEMMA SwapStep ==
  ASSUME MInv, ~Idle, ~IsLink(Top), ~IsDone(Top),
         NEW a \in Activation, stack' = Append(Below, a), ~IsLink(a), ~IsEdge(a), Fits(a),
         Opens(a) <=> Opens(Top), Opens(a) => a.ctx = Top.ctx,
         IsDone(a) /\ a.graph # {} /\ a.ok => modules'[a.root].status # "errored",
         UNCHANGED <<realms, registered, linking, activeRealms>>, Kept(modules'),
         draining' \in BOOLEAN
  PROVE  MInv'
<1> DEFINE d == Len(stack)
           k == d - 1
<1>1. d \in Nat /\ d \in 1..d /\ k \in 0..d /\ k + 1 = d
  BY Facts
<1>2. Below \in Seq(Activation) /\ Len(Below) = k /\ \A i \in 1..k : Below[i] = stack[i]
  BY <1>1, Facts, CutElements DEF Below, Depth
<1>3. /\ stack' \in Seq(Activation) /\ Len(stack') = d
      /\ \A i \in 1..k : stack'[i] = stack[i]
      /\ stack'[d] = a
      /\ DOMAIN stack' = 1..d
  <2>1. /\ stack' \in Seq(Activation) /\ Len(stack') = k + 1
        /\ \A i \in 1..k : stack'[i] = Below[i]
        /\ stack'[k + 1] = a
    BY <1>2, AppendElements
  <2> QED
    BY <2>1, <1>1, <1>2
<1>4. Counted(stack', activeRealms', stamp)
  <2>1. \A i \in 1..d : i \in 1..k \/ i = d
    BY <1>1
  <2>2. \A i \in 1..d :
          /\ Opens(stack'[i]) <=> Opens(stack[i])
          /\ Opens(stack[i]) => stack'[i].ctx = stack[i].ctx
    BY <2>1, <1>3 DEF Top, Depth
  <2> QED
    BY <2>2, <1>3, Facts, SameCounts
<1>5. UNCHANGED <<current, stamp, registered, instantiating, parked>>
  BY DEF realms, linking
<1>6. \A i \in 1..d : i > k => i = d
  BY <1>1
<1>7. LinkState'
  <2>1. \A i \in DOMAIN stack : i > k => ~IsLink(stack[i])
    BY <1>6, Facts DEF Top, Depth
  <2>2. \A i \in DOMAIN stack' : i > k => ~IsLink(stack'[i])
    BY <1>3, <1>6
  <2>3. k <= d
    BY <1>1
  <2>4. k <= Len(stack')
    BY <2>3, <1>3
  <2> QED
    BY <2>1, <2>2, <2>4, <1>1, <1>3, LinkStays
<1>8. ASSUME NEW i \in DOMAIN stack', i > k
      PROVE  Good(i)' /\ (IsDone(stack'[i]) /\ stack'[i].graph # {} /\ stack'[i].ok
                             => modules'[stack'[i].root].status # "errored")
  <2>1. i = d /\ i = Len(stack') /\ stack'[i] = a
    BY <1>3, <1>6, <1>8
  <2>2. i = 1 => Opens(a)
    BY <2>1, Facts DEF Good, Top, Depth
  <2> QED
    BY <2>1, <2>2, <1>5 DEF Good, Fits, Opens, Kept, IsLink, IsDone, IsEdge
<1>9. Len(stack') <= MaxDepth /\ k < Len(stack') /\ k <= Len(stack') /\ k \in 0..Len(stack)
  <2>1. k < d /\ k <= d
    BY <1>1
  <2>2. Len(stack') = Len(stack)
    BY <1>3
  <2>3. Len(stack') <= MaxDepth
    BY <2>2, Facts
  <2> QED
    BY <2>1, <2>2, <2>3, <1>1
<1>10. /\ instantiating' \in BOOLEAN /\ parked' \in 0..MaxDepth
       /\ activeRealms' \in Seq(Realm) /\ Counted(stack', activeRealms', stamp')
  BY <1>4, <1>5, Facts
<1>11. k < Len(stack)
  BY <1>1
<1> HIDE DEF d, k
<1> QED
  BY <1>3, <1>5, <1>7, <1>8, <1>9, <1>10, <1>11, StackStep

-----------------------------------------------------------------------------
(* Steps that leave the stack alone *)

LEMMA WorldStep ==
  ASSUME MInv, UNCHANGED <<stack, activeRealms, draining, linking>>,
         Idle \/ ~IsDone(Top),
         TypeOK', Born',
         \A x \in DOMAIN stamp : x \in DOMAIN stamp' /\ stamp'[x] = stamp[x],
         \A m \in DOMAIN modules : m \in DOMAIN modules' /\ modules'[m].ctx = modules[m].ctx,
         \A x \in DOMAIN stamp : Active(stamp[x]) => IdOf(x)' = IdOf(x)
  PROVE  MInv'
<1>1. Counted(stack', activeRealms', stamp')
  <2>1. stamp' \in Seq(Realm)
    BY DEF TypeOK
  <2>2. Counted(stack, activeRealms, stamp')
    BY <2>1, Facts, SameCounts
  <2> QED
    BY <2>2
<1>2. ASSUME NEW i \in DOMAIN stack
      PROVE  Good(i)'
  <2>1. Good(i) /\ stack'[i] = stack[i]
    BY <1>2 DEF MInv
  <2>2. IsLink(stack[i]) => LinkHolds(stack[i])'
    BY <2>1 DEF Good, LinkHolds, Walked
  <2>3. IsEdge(stack[i]) => EdgeHolds(i)'
    <3> SUFFICES ASSUME IsEdge(stack[i]) PROVE EdgeHolds(i)'
      OBVIOUS
    <3>1. /\ i > 1 /\ IsLink(stack[i - 1])
          /\ stack[i].static = (stack[i - 1].by = "request")
          /\ stack[i - 1].by = "request" => stack[i].here = IdOf(stack[i - 1].ctx)
      BY <2>1 DEF Good, EdgeHolds
    <3>2. i - 1 \in DOMAIN stack
      BY <3>1, Facts
    <3>3. stack[i - 1].by = "request" => Active(stamp[stack[i - 1].ctx])
      BY <3>1, <3>2, Facts, CountBounds DEF Opens, IsLink
    <3>4. stack[i - 1].ctx \in DOMAIN stamp
      <4>1. Good(i - 1)
        BY <3>2 DEF MInv
      <4> QED
        BY <4>1, <3>1 DEF Good, IsLink
    <3>5. stack[i - 1].by = "request" => stack[i].here = IdOf(stack[i - 1].ctx)'
      BY <3>1, <3>3, <3>4
    <3> QED
      BY <3>1, <3>5 DEF EdgeHolds, IsLink
  <2> QED
    BY <2>1, <2>2, <2>3 DEF Good, IsLink, IsEdge, IsDone
<1>3. LinkState'
  BY DEF MInv, LinkState, linking, OneLinkAtATime
<1>4. VerdictIsFresh'
  BY DEF VerdictIsFresh, TopIs, Idle, Top, Depth, IsDone
<1> QED
  BY <1>1, <1>2, <1>3, <1>4 DEF MInv

LEMMA InRubyNotDone ==
  ASSUME InRuby \/ InScript \/ InDrain
  PROVE  Idle \/ ~IsDone(Top)
  BY DEF InRuby, InScript, InDrain, TopIs, IsDone

LEMMA CompileInductive ==
  ASSUME MInv, NEW realm \in Realm, NEW status \in Status, Compile(realm, status)
  PROVE  MInv'
<1> DEFINE n == [realm |-> realm, ctx |-> current[realm], deps |-> {}, status |-> status,
                 pending |-> FALSE]
<1>1. /\ current[realm] \in DOMAIN stamp /\ current[realm] \in Context
      /\ stamp[current[realm]] = realm
  BY Facts DEF MInv, TypeOK, Born, Compile
<1>2. n \in Module
  BY <1>1 DEF Module
<1>3. /\ modules' = Append(modules, n) /\ Len(modules) < MaxCompiled
      /\ registered' = registered \cup {Len(modules) + 1}
      /\ UNCHANGED <<stack, activeRealms, draining, linking, realms>>
  BY DEF Compile
<1>4. n.ctx = current[realm] /\ n.realm = realm
  OBVIOUS
<1> HIDE DEF n
<1>5. /\ modules' \in Seq(Module) /\ Len(modules') = Len(modules) + 1 /\ Len(modules) \in Nat
      /\ DOMAIN modules' = DOMAIN modules \cup {Len(modules) + 1}
      /\ \A m \in DOMAIN modules : modules'[m] = modules[m]
      /\ modules'[Len(modules) + 1] = n
  BY <1>2, <1>3, Facts, AppendElements
<1>6. TypeOK'
  BY <1>3, <1>5 DEF MInv, TypeOK, linking, realms
<1>7. Born'
  <2>1. Len(modules') <= MaxCompiled
    BY <1>3, <1>5, ModulesAssumption
  <2>2. current' = current /\ stamp' = stamp
    BY <1>3 DEF realms
  <2>3. \A m \in DOMAIN modules' :
          modules'[m].ctx \in DOMAIN stamp /\ stamp[modules'[m].ctx] = modules'[m].realm
    BY <1>1, <1>4, <1>5 DEF MInv, Born
  <2>4. \A m \in registered' : current[modules'[m].realm] = modules'[m].ctx
    BY <1>3, <1>4, <1>5, Facts DEF MInv, Born
  <2> QED
    BY <2>1, <2>2, <2>3, <2>4 DEF MInv, Born
<1>8. \A x \in DOMAIN stamp : IdOf(x)' = IdOf(x)
  BY <1>3 DEF IdOf, realms
<1> QED
  BY <1>3, <1>5, <1>6, <1>7, <1>8, InRubyNotDone, WorldStep DEF Compile, realms

LEMMA DisposeInductive ==
  ASSUME MInv, NEW m \in registered, Dispose(m)
  PROVE  MInv'
<1>1. /\ UNCHANGED <<stack, activeRealms, draining, linking, current, stamp, modules>>
      /\ registered' = registered \ {m}
  BY DEF Dispose, realms
<1>2. TypeOK'
  BY <1>1 DEF MInv, TypeOK, linking
<1>3. Born'
  BY <1>1 DEF MInv, Born
<1>4. \A x \in DOMAIN stamp : IdOf(x)' = IdOf(x)
  BY <1>1 DEF IdOf
<1> QED
  BY <1>1, <1>2, <1>3, <1>4, InRubyNotDone, WorldStep DEF Dispose

LEMMA SettlesInductive ==
  ASSUME MInv, NEW m \in DOMAIN modules, Settles(m)
  PROVE  MInv'
<1>1. UNCHANGED <<stack, activeRealms, draining, linking, current, stamp, registered>>
  BY DEF Settles, realms
<1>2. Kept(modules')
  <2>1. PICK status \in {"evaluated", "errored"} :
          modules' = [modules EXCEPT ![m].pending = FALSE, ![m].status = status]
    BY DEF Settles
  <2> DEFINE b == [modules[m] EXCEPT !.pending = FALSE, !.status = status]
  <2>2. modules' = [modules EXCEPT ![m] = b]
    BY <2>1
  <2>3. modules[m] \in Module
    BY Facts
  <2>4. b \in Module /\ b.realm = modules[m].realm /\ b.ctx = modules[m].ctx
    BY <2>3 DEF Module, Status
  <2> HIDE DEF b
  <2> QED
    BY <2>2, <2>4, Facts, KeptSelf, UpdateKept
<1>3. TypeOK'
  BY <1>1, <1>2 DEF MInv, TypeOK, linking, Kept
<1>4. Born'
  <2>1. Len(modules') = Len(modules)
    BY <1>2, Facts DEF Kept
  <2> QED
    BY <2>1, <1>1, <1>2 DEF MInv, TypeOK, Born, Kept
<1>5. \A x \in DOMAIN stamp : IdOf(x)' = IdOf(x)
  BY <1>1 DEF IdOf
<1> QED
  BY <1>1, <1>2, <1>3, <1>4, <1>5, InRubyNotDone, WorldStep DEF Settles, Kept

(* A reset or a dispose: the realm is nobody's, so that what links is not of it. *)
LEMMA ChangeInductive ==
  ASSUME MInv, NEW realm \in Realm, Reset(realm) \/ DisposeContext(realm)
  PROVE  MInv'
<1>1. /\ ~Active(realm) /\ InRuby
      /\ UNCHANGED <<stack, activeRealms, draining, linking, modules>>
      /\ registered' = {m \in registered : modules[m].realm # realm}
      /\ \A r \in Realm : r # realm => current'[r] = current[r]
  BY DEF Reset, DisposeContext, MayChange, DropArtifacts, MInv, TypeOK
<1>2. /\ stamp' \in Seq(Realm) /\ Len(stamp') <= MaxContexts
      /\ \A x \in DOMAIN stamp : x \in DOMAIN stamp' /\ stamp'[x] = stamp[x]
      /\ current' \in [Realm -> {None} \cup DOMAIN stamp']
      /\ current'[realm] # None => stamp'[current'[realm]] = realm
  <2>1. CASE Reset(realm)
    <3>1. /\ stamp' = Append(stamp, realm) /\ Len(stamp) < MaxContexts
          /\ current' = [current EXCEPT ![realm] = Len(stamp) + 1]
      BY <2>1 DEF Reset
    <3>2. /\ stamp' \in Seq(Realm) /\ Len(stamp') = Len(stamp) + 1 /\ Len(stamp) \in Nat
          /\ DOMAIN stamp' = DOMAIN stamp \cup {Len(stamp) + 1}
          /\ \A x \in DOMAIN stamp : stamp'[x] = stamp[x]
          /\ stamp'[Len(stamp) + 1] = realm
      BY <3>1, Facts, AppendElements
    <3>3. current' \in [Realm -> {None} \cup DOMAIN stamp'] /\ current'[realm] = Len(stamp) + 1
      BY <3>1, <3>2 DEF MInv, TypeOK
    <3> QED
      BY <3>1, <3>2, <3>3, ModulesAssumption
  <2>2. CASE DisposeContext(realm)
    <3>1. current' = [current EXCEPT ![realm] = None] /\ stamp' = stamp
      BY <2>2 DEF DisposeContext
    <3> QED
      BY <3>1 DEF MInv, TypeOK
  <2> QED
    BY <2>1, <2>2
<1>3. TypeOK'
  <2>1. stack' \in Seq(Activation)
    BY <1>1 DEF MInv, TypeOK
  <2> QED
    BY <2>1, <1>1, <1>2 DEF MInv, TypeOK, linking
<1>4. Born'
  <2>1. \A r \in Realm : current'[r] # None => stamp'[current'[r]] = r
    <3> SUFFICES ASSUME NEW r \in Realm, r # realm, current'[r] # None
                 PROVE  stamp'[current'[r]] = r
      BY <1>2
    <3>1. current'[r] = current[r] /\ current[r] \in DOMAIN stamp /\ stamp[current[r]] = r
      BY <1>1 DEF MInv, TypeOK, Born
    <3> QED
      BY <3>1, <1>2
  <2>2. \A m \in DOMAIN modules' :
          modules'[m].ctx \in DOMAIN stamp' /\ stamp'[modules'[m].ctx] = modules'[m].realm
    BY <1>1, <1>2 DEF MInv, Born
  <2>3. \A m \in registered' : current'[modules'[m].realm] = modules'[m].ctx
    <3> SUFFICES ASSUME NEW m \in registered'
                 PROVE  current'[modules[m].realm] = modules[m].ctx
      BY <1>1
    <3>1. m \in registered /\ modules[m].realm # realm
      BY <1>1
    <3>2. modules[m].realm \in Realm
      BY <3>1, Facts DEF Module
    <3> QED
      BY <3>1, <3>2, <1>1 DEF MInv, Born
  <2> QED
    BY <2>1, <2>2, <2>3, <1>1 DEF MInv, Born
<1>5. ASSUME NEW x \in DOMAIN stamp, Active(stamp[x])
      PROVE  IdOf(x)' = IdOf(x)
  <2>1. stamp[x] # realm /\ stamp[x] \in Realm /\ stamp'[x] = stamp[x]
    BY <1>1, <1>2, <1>5, Facts
  <2> QED
    BY <2>1, <1>1 DEF IdOf, NoRealm
<1> QED
  BY <1>1, <1>2, <1>3, <1>4, <1>5, InRubyNotDone, WorldStep

-----------------------------------------------------------------------------
(* Requests, calls and host functions begin *)

LEMMA BeginRequestInductive ==
  ASSUME MInv, NEW realm \in Realm, NEW drains \in BOOLEAN, BeginRequest(realm, drains)
  PROVE  MInv'
<1> DEFINE a == [kind |-> "request", ctx |-> current[realm],
                 phase |-> IF drains /\ Idle THEN "run" ELSE "last"]
<1>1. current[realm] \in DOMAIN stamp /\ stamp[current[realm]] = realm
  BY DEF MInv, TypeOK, Born, BeginRequest
<1>2. a \in RequestFrame /\ a.kind = "request" /\ a.ctx = current[realm]
  BY <1>1, Facts DEF RequestFrame
<1>3. Push(a) /\ activeRealms' = Append(activeRealms, realm)
  BY DEF BeginRequest, Activate
<1>4. UNCHANGED <<realms, registered, linking, draining, modules>>
  BY DEF BeginRequest
<1> HIDE DEF a
<1>5. a \in Activation /\ ~IsLink(a) /\ ~IsDone(a) /\ ~IsEdge(a) /\ Opens(a) /\ Fits(a)
  BY <1>1, <1>2, Kinds DEF IsLink, IsDone, IsEdge, Opens, Fits
<1>6. activeRealms' = Append(activeRealms, stamp[a.ctx])
  BY <1>1, <1>2, <1>3
<1>7. Kept(modules') /\ draining' \in BOOLEAN
  BY <1>4, Facts, KeptSelf
<1>8. Idle \/ ~IsDone(Top)
  BY InRubyNotDone DEF BeginRequest
<1> QED
  BY <1>3, <1>4, <1>5, <1>6, <1>7, <1>8, PushStep

LEMMA RequestsInductive ==
  ASSUME MInv,
         \/ \E realm \in Realm : Eval(realm)
         \/ \E m \in registered : RunScript(m) \/ Namespace(m)
  PROVE  MInv'
<1>1. \A m \in registered : modules[m].realm \in Realm
  BY Facts DEF Module
<1> QED
  BY <1>1, BeginRequestInductive DEF Eval, RunScript, Namespace

(* An activation without a realm of its own: a call, a host function or import(). *)
LEMMA CallsInductive ==
  ASSUME MInv, CallHost \/ Import \/ \E realm \in Realm : CallRealm(realm)
  PROVE  MInv'
<1>1. /\ InScript
      /\ UNCHANGED <<activeRealms, draining, linking, realms, modules, registered>>
  BY DEF CallHost, Import, CallRealm
<1>2. \E a \in Activation :
        /\ Push(a) /\ Fits(a) /\ a.kind \in {"call", "ruby"}
        /\ a.kind = "ruby" => a.for # "edge"
  <2>1. ~Idle /\ Top.kind \in {"request", "call", "evaluate"}
    BY <1>1 DEF InScript, TopIs
  <2>2. Top.ctx \in DOMAIN stamp /\ Top.ctx \in Context
    BY <2>1, Facts DEF Good, Top, Depth
  <2>3. CASE CallHost
    <3> DEFINE a == [kind |-> "ruby", for |-> "host", ctx |-> Top.ctx]
    <3>1. a \in RubyFrame /\ Fits(a) /\ Push(a)
      BY <2>2, <2>3 DEF RubyFrame, Fits, CallHost
    <3> QED
      BY <3>1, Kinds
  <2>4. CASE Import
    <3> DEFINE a == [kind |-> "ruby", for |-> "import", ctx |-> Top.ctx]
    <3>1. a \in RubyFrame /\ Fits(a) /\ Push(a)
      BY <2>2, <2>4 DEF RubyFrame, Fits, Import
    <3> QED
      BY <3>1, Kinds
  <2>5. CASE \E realm \in Realm : CallRealm(realm)
    <3>1. PICK realm \in Realm : CallRealm(realm)
      BY <2>5
    <3> DEFINE a == [kind |-> "call", ctx |-> current[realm]]
    <3>2. current[realm] \in DOMAIN stamp
      BY <3>1 DEF MInv, TypeOK, CallRealm
    <3>3. a \in CallFrame /\ Fits(a) /\ Push(a)
      BY <3>1, <3>2, Facts DEF CallFrame, Fits, CallRealm
    <3> QED
      BY <3>3, Kinds
  <2> QED
    BY <2>3, <2>4, <2>5
<1>3. PICK a \in Activation :
        /\ Push(a) /\ Fits(a) /\ a.kind \in {"call", "ruby"}
        /\ a.kind = "ruby" => a.for # "edge"
  BY <1>2
<1>4. ~IsLink(a) /\ ~IsDone(a) /\ ~IsEdge(a) /\ ~Opens(a)
  BY <1>3 DEF IsLink, IsDone, IsEdge, Opens
<1>5. Kept(modules') /\ draining' \in BOOLEAN /\ (Idle \/ ~IsDone(Top))
  BY <1>1, Facts, KeptSelf, InRubyNotDone
<1>6. ~Idle
  BY <1>1 DEF InScript, TopIs
<1> QED
  BY <1>1, <1>3, <1>4, <1>5, <1>6, PushStep

LEMMA AskResolverInductive ==
  ASSUME MInv, AskResolver
  PROVE  MInv'
<1>1. /\ ~Idle /\ IsLink(Top) /\ Top = stack[Len(stack)]
      /\ UNCHANGED <<activeRealms, draining, linking, realms, modules, registered>>
  BY DEF AskResolver, TopIs, IsLink, Top, Depth
<1>2. PICK from \in Walked(Top) \cap registered :
        Push([kind |-> "ruby", for |-> "edge", from |-> from, here |-> IdOf(Top.ctx),
              static |-> parked # None])
  BY DEF AskResolver
<1> DEFINE a == [kind |-> "ruby", for |-> "edge", from |-> from, here |-> IdOf(Top.ctx),
                 static |-> parked # None]
<1>3. /\ Len(stack) \in DOMAIN stack /\ LinkHolds(Top) /\ Top.ctx \in DOMAIN stamp
  BY <1>1, Facts DEF Good, IsLink
<1>4. IdOf(Top.ctx) \in Realm \cup {MaxRealms + 1}
  BY <1>3, Facts DEF IdOf, NoRealm
<1>5. from \in ModuleId
  BY <1>2, Facts, ModulesAssumption DEF ModuleId, MInv, Born
<1>6. a \in EdgeFrame /\ a.kind = "ruby" /\ a.for = "edge"
  BY <1>4, <1>5 DEF EdgeFrame
<1>7. a.static = (Top.by = "request") /\ a.here = IdOf(Top.ctx)
  <2>1. parked = IF Top.by = "request" THEN Len(stack) ELSE None
    BY <1>1, <1>3 DEF MInv, LinkState
  <2>2. Len(stack) # 0
    BY <1>3, Facts
  <2> QED
    BY <2>1, <2>2 DEF None
<1> HIDE DEF a
<1>8. a \in Activation /\ ~IsLink(a) /\ ~IsDone(a) /\ ~Opens(a) /\ Fits(a)
  BY <1>6, Kinds DEF IsLink, IsDone, Opens, Fits
<1>9. Push(a)
  BY <1>2 DEF a
<1>10. /\ Len(stack) \in Nat /\ stack'[Len(stack) + 1] = a /\ stack'[Len(stack)] = Top
       /\ Len(stack) \in 1..Len(stack)
  BY <1>1, <1>3, <1>8, <1>9, Facts, AppendElements DEF Push
<1>11. ASSUME NEW i \in Nat, i = Len(stack) + 1
       PROVE  EdgeHolds(i)'
  <2>1. i > 1 /\ stack'[i] = a /\ stack'[i - 1] = Top
    BY <1>10, <1>11
  <2>2. current' = current /\ stamp' = stamp
    BY <1>1 DEF realms
  <2> QED
    BY <2>1, <2>2, <1>1, <1>7 DEF EdgeHolds, IdOf
<1>12. Kept(modules') /\ draining' \in BOOLEAN /\ ~IsDone(Top)
  BY <1>1, Facts, KeptSelf DEF IsLink, IsDone
<1> QED
  BY <1>1, <1>8, <1>9, <1>11, <1>12, PushStep

LEMMA BeginEvaluateInductive ==
  ASSUME MInv, NEW m \in registered, BeginEvaluate(m)
  PROVE  MInv'
<1> DEFINE a == Evaluation("request", m, modules)
<1>1. /\ m \in DOMAIN modules /\ Kept(modules) /\ modules[m].ctx \in DOMAIN stamp
      /\ stamp[modules[m].ctx] = modules[m].realm
  BY Facts, KeptSelf DEF MInv, Born
<1>2. /\ a \in EvaluateFrame /\ a.kind = "evaluate" /\ a.by = "request" /\ a.phase = "run"
      /\ a.ctx = modules[m].ctx /\ a.root = m /\ a.graph \subseteq DOMAIN modules
  BY <1>1, EvaluationTyped DEF Source
<1>3. /\ Push(a) /\ activeRealms' = Append(activeRealms, modules[m].realm)
      /\ modules' = Evaluating(m, modules)
      /\ UNCHANGED <<draining, linking, realms, registered>>
      /\ Idle \/ ~IsDone(Top)
  BY InRubyNotDone DEF BeginEvaluate, Activate
<1> HIDE DEF a
<1>4. /\ a \in Activation /\ ~IsLink(a) /\ ~IsDone(a) /\ ~IsEdge(a) /\ Opens(a)
      /\ Fits(a)
  BY <1>1, <1>2, Kinds DEF IsLink, IsDone, IsEdge, Opens, Fits
<1>5. Kept(modules') /\ draining' \in BOOLEAN
  BY <1>1, <1>3, Facts, EvaluatingKept
<1> QED
  BY <1>1, <1>2, <1>3, <1>4, <1>5, PushStep

LEMMA EvaluateOtherInductive ==
  ASSUME MInv, NEW m \in registered, EvaluateOther(m)
  PROVE  MInv'
<1> DEFINE e == Evaluation("request", m, modules)
           a == [e EXCEPT !.phase = "drain", !.graph = {}, !.ok = modules[m].status = "evaluated"]
<1>1. /\ m \in DOMAIN modules /\ Kept(modules) /\ modules[m].ctx \in DOMAIN stamp
      /\ stamp[modules[m].ctx] = modules[m].realm
  BY Facts, KeptSelf DEF MInv, Born
<1>2. e \in EvaluateFrame /\ e.by = "request" /\ e.ctx = modules[m].ctx /\ e.root = m
  BY <1>1, EvaluationTyped DEF Source
<1>3. /\ stack' = <<a>> /\ MaxDepth > 0 /\ Idle
      /\ activeRealms' = Append(activeRealms, modules[m].realm) /\ draining' = TRUE
      /\ UNCHANGED <<linking, realms, modules, registered>>
  BY DEF EvaluateOther, Activate
<1> HIDE DEF e
<1>4. /\ a \in EvaluateFrame /\ a.kind = "evaluate" /\ a.by = "request" /\ a.phase = "drain"
      /\ a.ctx = modules[m].ctx /\ a.root = m /\ a.graph = {}
  BY <1>2 DEF EvaluateFrame
<1> HIDE DEF a
<1>5. /\ a \in Activation /\ ~IsLink(a) /\ ~IsDone(a) /\ ~IsEdge(a) /\ Opens(a)
      /\ Fits(a)
  BY <1>1, <1>4, Kinds DEF IsLink, IsDone, IsEdge, Opens, Fits
<1>6. Push(a)
  BY <1>3 DEF Push, Depth, Idle
<1>7. Kept(modules')
  BY <1>1, <1>3
<1> QED
  BY <1>1, <1>3, <1>4, <1>5, <1>6, <1>7, PushStep

-----------------------------------------------------------------------------
(* They go on and end *)

LEMMA Replaced ==
  ASSUME NEW T, NEW q \in Seq(T), q # <<>>, NEW a \in T
  PROVE  [q EXCEPT ![Len(q)] = a] = Append(SubSeq(q, 1, Len(q) - 1), a)
<1> DEFINE k == Len(q) - 1
           r == Append(SubSeq(q, 1, k), a)
<1>1. Len(q) \in Nat /\ k \in 0..Len(q) /\ k + 1 = Len(q) /\ DOMAIN q = 1..Len(q)
  BY TopElement
<1>2. /\ SubSeq(q, 1, k) \in Seq(T) /\ Len(SubSeq(q, 1, k)) = k
      /\ \A i \in 1..k : SubSeq(q, 1, k)[i] = q[i]
  BY <1>1, CutElements
<1>3. /\ r \in Seq(T) /\ Len(r) = Len(q)
      /\ \A i \in 1..k : r[i] = q[i]
      /\ r[Len(q)] = a
  <2>1. /\ r \in Seq(T) /\ Len(r) = k + 1
        /\ \A i \in 1..k : r[i] = SubSeq(q, 1, k)[i]
        /\ r[k + 1] = a
    BY <1>2, AppendElements
  <2> QED
    BY <2>1, <1>1, <1>2
<1> HIDE DEF r
<1>4. r = [i \in 1..Len(q) |-> r[i]]
  BY <1>1, <1>3
<1>5. [q EXCEPT ![Len(q)] = a] = [i \in 1..Len(q) |-> IF i = Len(q) THEN a ELSE q[i]]
  BY <1>1
<1>6. ASSUME NEW i \in 1..Len(q)
      PROVE  r[i] = IF i = Len(q) THEN a ELSE q[i]
  <2>1. i # Len(q) => i \in 1..k
    <3> HIDE DEF k
    <3>1. i \in Int /\ 1 <= i /\ i <= Len(q)
      BY <1>1
    <3> QED
      BY <3>1, <1>1
  <2> QED
    BY <2>1, <1>3
<1>7. r = [q EXCEPT ![Len(q)] = a]
  BY <1>4, <1>5, <1>6
<1> QED
  BY <1>7 DEF r

LEMMA RequestDrainsInductive ==
  ASSUME MInv, RequestDrains
  PROVE  MInv'
<1> DEFINE a == [Top EXCEPT !.phase = "drain"]
<1>1. /\ ~Idle /\ Top.kind = "request" /\ draining' = TRUE
      /\ UNCHANGED <<activeRealms, linking, realms, modules, registered>>
  BY DEF RequestDrains, TopIs
<1>2. Top \in RequestFrame /\ Top.ctx \in DOMAIN stamp
  BY <1>1, Facts, Kinds DEF Good, Top, Depth
<1>3. a \in RequestFrame /\ a.kind = "request" /\ a.ctx = Top.ctx
  BY <1>2 DEF RequestFrame
<1>4. stack' = [stack EXCEPT ![Len(stack)] = a]
  BY DEF RequestDrains, Top, Depth
<1> HIDE DEF a
<1>5. a \in Activation /\ ~IsLink(a) /\ ~IsDone(a) /\ ~IsEdge(a) /\ Opens(a) /\ Fits(a)
  BY <1>2, <1>3, Kinds DEF IsLink, IsDone, IsEdge, Opens, Fits
<1>6. stack' = Append(Below, a)
  BY <1>1, <1>4, <1>5, Facts, Replaced DEF Below, Depth, Idle
<1>7. ~IsLink(Top) /\ ~IsDone(Top) /\ Opens(Top)
  BY <1>1 DEF IsLink, IsDone, Opens
<1>8. Kept(modules')
  BY <1>1, Facts, KeptSelf
<1> QED
  BY <1>1, <1>3, <1>5, <1>6, <1>7, <1>8, SwapStep

(* What BodyEnds does to the table. *)
LEMMA BodyEndsKept ==
  ASSUME MInv, BodyEnds
  PROVE  Kept(modules')
<1>0. modules \in Seq(Module) /\ \A x \in DOMAIN modules : modules[x] \in Module
  BY Facts
<1>1. CASE \E pending \in BOOLEAN :
             modules' = [SetStatus(Top.graph, "evaluated") EXCEPT ![Top.root].pending = pending]
  <2> DEFINE t == SetStatus(Top.graph, "evaluated")
  <2>1. PICK pending \in BOOLEAN : modules' = [t EXCEPT ![Top.root].pending = pending]
    BY <1>1
  <2>2. Kept(t)
    BY <1>0, SetStatusKept DEF Status
  <2> HIDE DEF t
  <2> DEFINE b == [t[Top.root] EXCEPT !.pending = pending]
  <2>3. modules' = [t EXCEPT ![Top.root] = b]
    BY <2>1
  <2>4. Top.root \in DOMAIN modules => t[Top.root] \in Module
    BY <2>2 DEF Kept
  <2>5. Top.root \in DOMAIN modules =>
          b \in Module /\ b.realm = t[Top.root].realm /\ b.ctx = t[Top.root].ctx
    BY <2>4 DEF Module
  <2> HIDE DEF b
  <2> QED
    BY <2>2, <2>3, <2>5, <1>0, UpdateKept
<1>2. CASE \E bad \in SUBSET Top.graph :
             modules' = [x \in DOMAIN modules |->
                   IF x \in Top.graph
                   THEN [modules[x] EXCEPT !.status = IF x \in bad THEN "errored" ELSE "evaluated"]
                   ELSE modules[x]]
  <2>1. PICK bad \in SUBSET Top.graph :
             modules' = [x \in DOMAIN modules |->
                   IF x \in Top.graph
                   THEN [modules[x] EXCEPT !.status = IF x \in bad THEN "errored" ELSE "evaluated"]
                   ELSE modules[x]]
    BY <1>2
  <2>2. modules' = [x \in DOMAIN modules |-> modules'[x]]
    BY <2>1
  <2>3. ASSUME NEW x \in DOMAIN modules
        PROVE  modules'[x] \in Module /\ modules'[x].realm = modules[x].realm
                 /\ modules'[x].ctx = modules[x].ctx
    <3>1. \/ modules'[x] = [modules[x] EXCEPT !.status = "errored"]
          \/ modules'[x] = [modules[x] EXCEPT !.status = "evaluated"]
          \/ modules'[x] = modules[x]
      BY <2>1
    <3>2. modules[x] \in Module
      BY <1>0
    <3> QED
      BY <3>1, <3>2, Restatus DEF Status
  <2> QED
    BY <1>0, <2>2, <2>3, KeptTable
<1> QED
  BY <1>1, <1>2 DEF BodyEnds

LEMMA EvaluatedInductive ==
  ASSUME MInv, Evaluated
  PROVE  MInv'
<1> DEFINE a == [Top EXCEPT !.phase = "drain", !.ok = modules'[Top.root].status # "errored"]
<1>1. /\ ~Idle /\ Top.kind = "evaluate" /\ Top.phase = "run" /\ Depth = 1 /\ draining' = TRUE
      /\ UNCHANGED <<activeRealms, linking, realms, registered>>
      /\ Kept(modules')
  BY BodyEndsKept DEF Evaluated, TopIs
<1>2. Top \in EvaluateFrame /\ Fits(Top)
  BY <1>1, Facts, Kinds DEF Good, Top, Depth, Fits
<1>3. /\ a \in EvaluateFrame /\ a.kind = "evaluate" /\ a.phase = "drain" /\ a.by = Top.by
      /\ a.ctx = Top.ctx /\ a.root = Top.root /\ a.graph = Top.graph
  BY <1>2 DEF EvaluateFrame
<1>4. stack' = <<a>>
  BY DEF Evaluated
<1> HIDE DEF a
<1>8. Opens(Top)
  BY <1>1, Facts DEF Good, Top, Depth
<1>5. /\ a \in Activation /\ ~IsLink(a) /\ ~IsDone(a) /\ ~IsEdge(a) /\ Fits(a)
      /\ Opens(a) <=> Opens(Top)
  BY <1>1, <1>2, <1>3, <1>8, Kinds DEF IsLink, IsDone, IsEdge, Opens, Fits
<1>6. stack' = Append(Below, a)
  <2>1. Len(stack) = 1 /\ stack \in Seq(Activation)
    BY <1>1, Facts DEF Depth
  <2>2. Below = <<>>
    BY <2>1 DEF Below, Depth
  <2> QED
    BY <2>2, <1>4
<1>7. ~IsLink(Top) /\ ~IsDone(Top)
  BY <1>1 DEF IsLink, IsDone
<1> QED
  BY <1>1, <1>3, <1>5, <1>6, <1>7, SwapStep

LEMMA DrainEndsInductive ==
  ASSUME MInv, DrainEnds
  PROVE  MInv'
<1> DEFINE a == [Top EXCEPT !.phase = "done", !.ok = Verdict]
<1>1. /\ ~Idle /\ Top.kind = "evaluate" /\ Top.phase = "drain" /\ draining' = FALSE
      /\ UNCHANGED <<activeRealms, linking, realms, modules, registered>>
  BY DEF DrainEnds, TopIs
<1>2. Top \in EvaluateFrame /\ Fits(Top)
  BY <1>1, Facts, Kinds DEF Good, Top, Depth, Fits
<1>3. /\ a \in EvaluateFrame /\ a.kind = "evaluate" /\ a.by = Top.by
      /\ a.ctx = Top.ctx /\ a.root = Top.root /\ a.graph = Top.graph
      /\ a.ok /\ a.graph # {} => modules[a.root].status # "errored"
  BY <1>2 DEF EvaluateFrame, Verdict
<1>4. stack' = [stack EXCEPT ![Len(stack)] = a]
  BY DEF DrainEnds, Top, Depth
<1> HIDE DEF a
<1>5. /\ a \in Activation /\ ~IsLink(a) /\ ~IsEdge(a) /\ Fits(a)
      /\ Opens(a) <=> Opens(Top)
  BY <1>1, <1>2, <1>3, Kinds DEF IsLink, IsEdge, Opens, Fits
<1>6. stack' = Append(Below, a)
  BY <1>1, <1>4, <1>5, Facts, Replaced DEF Below, Depth, Idle
<1>7. ~IsLink(Top) /\ ~IsDone(Top)
  BY <1>1 DEF IsLink, IsDone
<1>8. Kept(modules') /\ modules' = modules
  BY <1>1, Facts, KeptSelf
<1> QED
  BY <1>1, <1>3, <1>5, <1>6, <1>7, <1>8, SwapStep

LEMMA ImportEvaluatesInductive ==
  ASSUME MInv, NEW m \in registered, ImportEvaluates(m)
  PROVE  MInv'
<1> DEFINE a == Evaluation("import", m, modules)
<1>1. /\ m \in DOMAIN modules /\ Kept(modules) /\ modules[m].ctx \in DOMAIN stamp
  BY Facts, KeptSelf DEF MInv, Born
<1>2. /\ a \in EvaluateFrame /\ a.kind = "evaluate" /\ a.by = "import" /\ a.phase = "run"
      /\ a.ctx = modules[m].ctx /\ a.root = m /\ a.graph \subseteq DOMAIN modules
  BY <1>1, EvaluationTyped DEF Source
<1>3. /\ ~Idle /\ Top.kind = "ruby" /\ stack' = Append(Below, a)
      /\ modules' = Evaluating(m, modules)
      /\ UNCHANGED <<activeRealms, draining, linking, realms, registered>>
  BY DEF ImportEvaluates, TopIs
<1> HIDE DEF a
<1>4. /\ a \in Activation /\ ~IsLink(a) /\ ~IsDone(a) /\ ~IsEdge(a) /\ ~Opens(a)
      /\ Fits(a)
  BY <1>1, <1>2, Kinds DEF IsLink, IsDone, IsEdge, Opens, Fits
<1>5. Kept(modules') /\ draining' \in BOOLEAN
  BY <1>1, <1>3, Facts, EvaluatingKept
<1>6. ~IsLink(Top) /\ ~IsDone(Top) /\ ~Opens(Top)
  BY <1>3 DEF IsLink, IsDone, Opens
<1> QED
  BY <1>3, <1>4, <1>5, <1>6, SwapStep

LEMMA ReturnsInductive ==
  ASSUME MInv,
         RequestReturns \/ CallOrHostReturns \/ EvaluatedInside \/ EvaluateReturns \/ ImportFails
  PROVE  MInv'
<1>1. /\ ~Idle /\ Top.kind \in {"request", "call", "ruby", "evaluate"} /\ stack' = Below
      /\ UNCHANGED <<linking, realms, registered>>
  BY DEF RequestReturns, CallOrHostReturns, EvaluatedInside, EvaluateReturns, ImportFails, TopIs
<1>2. draining' \in BOOLEAN
  BY Facts DEF RequestReturns, CallOrHostReturns, EvaluatedInside, EvaluateReturns, ImportFails
<1>3. Kept(modules')
  <2>1. modules' = modules \/ BodyEnds
    BY DEF RequestReturns, CallOrHostReturns, EvaluatedInside, EvaluateReturns, ImportFails
  <2> QED
    BY <2>1, Facts, KeptSelf, BodyEndsKept
<1>4. (Opens(Top) => PopRealm) /\ (~Opens(Top) => activeRealms' = activeRealms)
  <2>1. CASE RequestReturns
    BY <2>1 DEF RequestReturns, TopIs, Opens
  <2>2. CASE CallOrHostReturns
    BY <2>2 DEF CallOrHostReturns, TopIs, Opens
  <2>3. CASE EvaluatedInside
    BY <2>3 DEF EvaluatedInside, TopIs, Opens, KeepRealm
  <2>4. CASE EvaluateReturns
    <3>1. Top.kind = "evaluate" /\ Top.phase = "done" /\ PopRealm
      BY <2>4 DEF EvaluateReturns, TopIs
    <3>2. Opens(Top)
      BY <3>1, <1>1, Facts DEF Good, Opens, Top, Depth
    <3> QED
      BY <3>1, <3>2
  <2>5. CASE ImportFails
    BY <2>5 DEF ImportFails, TopIs, Opens
  <2> QED
    BY <2>1, <2>2, <2>3, <2>4, <2>5
<1>5. ~IsLink(Top)
  BY <1>1 DEF IsLink
<1> QED
  BY <1>1, <1>2, <1>3, <1>4, <1>5, PopStep

-----------------------------------------------------------------------------
(* Links *)

(* One starts, on top of the first keep activations. *)
LEMMA LinkStartStep ==
  ASSUME MInv, ~instantiating, NEW keep \in 0..Len(stack), NEW a \in LinkFrame,
         stack' \in Seq(Activation), Len(stack') = keep + 1, keep + 1 <= MaxDepth,
         \A i \in 1..keep : stack'[i] = stack[i], stack'[keep + 1] = a,
         keep < Len(stack) \/ Idle \/ ~IsDone(Top), keep = 0 => Opens(a),
         a.ctx \in DOMAIN stamp, a.saved = None, a.walk # <<>>,
         \A m \in Walked(a) : m \in DOMAIN modules,
         a.by = "request" => \A m \in Walked(a) : modules[m].ctx = a.ctx,
         instantiating' = TRUE, parked' = IF a.by = "request" THEN keep + 1 ELSE None,
         UNCHANGED <<realms, registered, draining>>, Kept(modules'),
         activeRealms' \in Seq(Realm), Counted(stack', activeRealms', stamp')
  PROVE  MInv'
<1>1. IsLink(a) /\ ~IsEdge(a) /\ ~IsDone(a) /\ a.kind = "link"
  BY DEF LinkFrame, IsLink, IsEdge, IsDone
<1>2. LinkState'
  BY <1>1, LinkStarts
<1>3. UNCHANGED <<current, stamp, registered>>
  BY DEF realms
<1>4. /\ DOMAIN stack' = 1..(keep + 1) /\ keep \in Nat /\ keep <= Len(stack') /\ Len(stack) \in Nat
      /\ \A i \in DOMAIN stack' : i > keep => i = keep + 1
  BY Facts
<1>5. ASSUME NEW i \in DOMAIN stack', i > keep
      PROVE  Good(i)' /\ ~IsDone(stack'[i])
  <2>1. i = keep + 1 /\ stack'[i] = a /\ (i = 1 => Opens(a))
    BY <1>4, <1>5
  <2>2. LinkHolds(a)'
    BY DEF LinkHolds, Kept
  <2> QED
    BY <2>1, <2>2, <1>1, <1>3 DEF Good, IsLink, IsEdge, IsDone, Opens
<1>6. /\ instantiating' \in BOOLEAN /\ parked' \in 0..MaxDepth /\ draining' \in BOOLEAN
      /\ Len(stack') <= MaxDepth
      /\ \/ keep < Len(stack)
         \/ keep < Len(stack') /\ (Idle \/ ~IsDone(Top))
  <2>1. keep + 1 \in 0..MaxDepth /\ 0 \in 0..MaxDepth
    BY <1>4, Facts
  <2> QED
    BY <2>1, <1>4, Facts DEF None
<1> QED
  BY <1>2, <1>3, <1>4, <1>5, <1>6, StackStep

LEMMA BeginInstantiateInductive ==
  ASSUME MInv, NEW m \in registered, BeginInstantiate(m)
  PROVE  MInv'
<1> DEFINE a == Link("request", modules[m].ctx, m)
<1>1. /\ m \in DOMAIN modules /\ modules[m].ctx \in DOMAIN stamp /\ modules[m].ctx \in Context
      /\ stamp[modules[m].ctx] = modules[m].realm /\ m \in ModuleId /\ modules[m].realm \in Realm
  BY Facts, ModulesAssumption DEF MInv, Born, Module, ModuleId
<1>2. /\ ~instantiating /\ Push(a) /\ activeRealms' = Append(activeRealms, modules[m].realm)
      /\ instantiating' = TRUE /\ parked' = Len(stack) + 1
      /\ modules' = SetStatus({m}, "instantiating")
      /\ UNCHANGED <<draining, realms, registered>> /\ InRuby
  <2>1. ContextFor(m) = modules[m].ctx
    BY DEF MInv, Born, ContextFor
  <2> QED
    BY <2>1 DEF BeginInstantiate, LinkInProgress, Activate, Depth
<1>3. parked = None /\ None \in 0..MaxDepth
  BY <1>2, NoLink, Facts DEF None
<1>4. /\ a \in LinkFrame /\ a.kind = "link" /\ a.by = "request" /\ a.ctx = modules[m].ctx
      /\ a.walk = <<m>> /\ a.saved = None /\ Walked(a) = {m}
  BY <1>1, <1>3 DEF Link, LinkFrame, Source, Walked
<1> HIDE DEF a
<1>5. a \in Activation /\ Opens(a) /\ a.walk # <<>>
  BY <1>4, Kinds DEF Opens
<1>6. /\ stack' = Append(stack, a) /\ stack' \in Seq(Activation) /\ Len(stack') = Len(stack) + 1
      /\ Len(stack) + 1 <= MaxDepth /\ Len(stack) \in 0..Len(stack)
      /\ \A i \in 1..Len(stack) : stack'[i] = stack[i]
      /\ stack'[Len(stack) + 1] = a
  BY <1>2, <1>5, Facts, AppendElements DEF Push, Depth
<1>7. activeRealms' \in Seq(Realm)
  BY <1>1, <1>2, Facts
<1>8. Counted(stack', activeRealms', stamp')
  <2>1. Counted(stack', activeRealms', stamp)
    BY <1>1, <1>2, <1>4, <1>5, <1>6, <1>7, Facts, PushCounts
  <2> QED
    BY <2>1, <1>2 DEF realms
<1>9. Kept(modules')
  BY <1>2, Facts, SetStatusKept DEF Status
<1>10. Idle \/ ~IsDone(Top)
  BY <1>2, InRubyNotDone
<1>11. /\ \A x \in Walked(a) : x \in DOMAIN modules
       /\ \A x \in Walked(a) : modules[x].ctx = a.ctx
  BY <1>1, <1>4
<1> QED
  BY <1>1, <1>2, <1>4, <1>5, <1>6, <1>7, <1>8, <1>9, <1>10, <1>11, LinkStartStep

LEMMA ImportLinksInductive ==
  ASSUME MInv, NEW m \in registered, ImportLinks(m)
  PROVE  MInv'
<1> DEFINE k == Len(stack) - 1
           a == Link("import", Top.ctx, m)
<1>1. /\ ~Idle /\ Top.kind = "ruby" /\ Top.for = "import" /\ stack' = Append(Below, a)
      /\ ~instantiating /\ instantiating' = TRUE /\ parked' = parked
      /\ modules' = SetStatus({m}, "instantiating")
      /\ UNCHANGED <<activeRealms, draining, realms, registered>>
  BY DEF ImportLinks, LinkInProgress, TopIs
<1>2. m \in DOMAIN modules /\ m \in ModuleId
  BY Facts, ModulesAssumption DEF MInv, Born, ModuleId
<1>3. parked = None /\ None \in 0..MaxDepth
  BY <1>1, NoLink, Facts DEF None
<1>4. Top.ctx \in DOMAIN stamp /\ Top.ctx \in Context /\ ~Opens(Top) /\ (Len(stack) = 1 => Opens(Top))
  BY <1>1, Facts DEF Good, Top, Depth, Opens
<1>5. /\ a \in LinkFrame /\ a.kind = "link" /\ a.by = "import" /\ a.ctx = Top.ctx
      /\ a.walk = <<m>> /\ a.saved = None /\ Walked(a) = {m}
  BY <1>2, <1>3, <1>4 DEF Link, LinkFrame, Source, Walked
<1> HIDE DEF a
<1>6. a \in Activation /\ ~Opens(a) /\ a.walk # <<>>
  BY <1>5, Kinds DEF Opens
<1>7. /\ k \in 0..Len(stack) /\ k + 1 = Len(stack) /\ k + 1 <= MaxDepth /\ k < Len(stack)
      /\ k # 0 /\ stack # <<>>
  BY <1>1, <1>4, Facts DEF Idle
<1>8. /\ Below = SubSeq(stack, 1, k) /\ Below \in Seq(Activation) /\ Len(Below) = k
      /\ \A i \in 1..k : Below[i] = stack[i]
  BY <1>7, Facts, CutElements DEF Below, Depth
<1>9. /\ stack' \in Seq(Activation) /\ Len(stack') = k + 1
      /\ \A i \in 1..k : stack'[i] = stack[i]
      /\ stack'[k + 1] = a
  BY <1>1, <1>6, <1>8, AppendElements
<1>10. Counted(stack', activeRealms', stamp')
  <2>1. Counted(Below, activeRealms, stamp)
    BY <1>4, <1>7, <1>8, Facts, PopCounts DEF Top, Depth
  <2>2. Counted(Append(Below, a), activeRealms, stamp)
    BY <2>1, <1>6, <1>8, Facts, PushCounts
  <2> QED
    BY <2>2, <1>1 DEF realms
<1>11. activeRealms' \in Seq(Realm) /\ Kept(modules')
  BY <1>1, Facts, SetStatusKept DEF Status
<1>12. \A x \in Walked(a) : x \in DOMAIN modules
  BY <1>2, <1>5
<1> HIDE DEF k
<1> QED
  BY <1>1, <1>3, <1>4, <1>5, <1>6, <1>7, <1>9, <1>10, <1>11, <1>12, LinkStartStep

(* The link above the first keep activations is over, and they are left. *)
LEMMA LinkPopStep ==
  ASSUME MInv, NEW keep \in 0..Len(stack), keep < Len(stack), IsLink(stack[keep + 1]),
         LinkOver(stack[keep + 1]), stack' = SubSeq(stack, 1, keep),
         Counted(SubSeq(stack, 1, keep + 1), activeRealms, stamp),
         UNCHANGED <<draining, realms, registered>>, Kept(modules')
  PROVE  MInv'
<1> DEFINE link == stack[keep + 1]
           upto == SubSeq(stack, 1, keep + 1)
<1>1. /\ keep + 1 \in DOMAIN stack /\ keep + 1 \in 0..Len(stack) /\ Len(stack) \in Nat
      /\ keep \in Nat /\ keep + 1 - 1 = keep
  BY Facts
<1>2. /\ stack' \in Seq(Activation) /\ Len(stack') = keep /\ DOMAIN stack' = 1..keep
      /\ \A i \in 1..keep : stack'[i] = stack[i]
  BY <1>1, Facts, CutElements
<1>3. LinkHolds(link)
  BY <1>1 DEF MInv, Good
<1>4. instantiating' = FALSE /\ parked' = None
  BY <1>3 DEF LinkOver, RestoreParked, LinkHolds
<1>5. (Opens(link) => PopRealm) /\ (~Opens(link) => activeRealms' = activeRealms)
  BY DEF LinkOver, KeepRealm, Opens, IsLink
<1>6. activeRealms' \in Seq(Realm)
  BY <1>5, Facts, PopRealmTyped
<1>7. Counted(stack', activeRealms', stamp')
  <2>1. /\ upto \in Seq(Activation) /\ Len(upto) = keep + 1 /\ upto[keep + 1] = link
        /\ \A i \in 1..(keep + 1) : upto[i] = stack[i]
    BY <1>1, Facts, CutElements
  <2>2. upto # <<>> /\ keep \in 0..Len(upto)
    BY <2>1, <1>1
  <2>3. SubSeq(upto, 1, Len(upto) - 1) = stack'
    <3> HIDE DEF upto
    <3>1. SubSeq(upto, 1, keep) \in Seq(Activation) /\ Len(SubSeq(upto, 1, keep)) = keep
          /\ \A i \in 1..keep : SubSeq(upto, 1, keep)[i] = upto[i]
      BY <2>1, <2>2, CutElements
    <3>2. \A i \in 1..keep : i \in 1..(keep + 1)
      BY <1>1
    <3>3. \A i \in 1..keep : SubSeq(upto, 1, keep)[i] = stack'[i]
      BY <3>1, <3>2, <2>1, <1>2
    <3>4. SubSeq(upto, 1, keep) = stack'
      BY <3>1, <3>3, <1>2
    <3> QED
      BY <3>4, <2>1, <1>1
  <2>4. Counted(SubSeq(upto, 1, Len(upto) - 1), activeRealms', stamp)
    <3> HIDE DEF upto
    <3>1. Counted(upto, activeRealms, stamp)
      BY DEF upto
    <3> QED
      BY <3>1, <2>1, <2>2, <1>5, <1>6, Facts, PopCounts DEF PopRealm
  <2> QED
    BY <2>3, <2>4 DEF realms
<1>8. LinkState'
  <2>1. \A i \in DOMAIN stack' : ~(i > keep)
    BY <1>1, <1>2
  <2>2. keep <= Len(stack')
    BY <1>1, <1>2
  <2> QED
    BY <2>1, <2>2, <1>1, <1>2, <1>4, LinkEnds
<1>9. /\ instantiating' \in BOOLEAN /\ parked' \in 0..MaxDepth /\ draining' \in BOOLEAN
      /\ Len(stack') <= MaxDepth /\ keep <= Len(stack')
      /\ \A i \in DOMAIN stack' : ~(i > keep)
  <2>1. 0 \in 0..MaxDepth /\ keep <= MaxDepth
    BY <1>1, Facts
  <2>2. keep <= Len(stack') /\ \A i \in DOMAIN stack' : ~(i > keep)
    BY <1>1, <1>2
  <2>3. Len(stack') <= MaxDepth
    BY <2>1, <1>2
  <2> QED
    BY <2>1, <2>2, <2>3, <1>4, Facts DEF None
<1>10. UNCHANGED <<current, stamp, registered>>
  BY DEF realms
<1> QED
  BY <1>2, <1>6, <1>7, <1>8, <1>9, <1>10, StackStep

LEMMA LinkEndsInductive ==
  ASSUME MInv, ReferrerGone \/ LinkSucceeds
  PROVE  MInv'
<1> DEFINE k == Len(stack) - 1
<1>1. /\ ~Idle /\ IsLink(Top) /\ stack' = Below /\ LinkOver(Top)
      /\ UNCHANGED <<draining, realms, registered>>
      /\ modules' = Unlinked(Top) \/ modules' = SetStatus(Walked(Top), "instantiated")
  BY DEF ReferrerGone, LinkSucceeds, TopIs, IsLink
<1>2. k \in 0..Len(stack) /\ k < Len(stack) /\ k + 1 = Len(stack)
  BY <1>1, Facts
<1>3. Kept(modules')
  BY <1>1, Facts, UnlinkedKept, SetStatusKept DEF Status
<1>4. SubSeq(stack, 1, k + 1) = stack
  <2>1. Len(stack) \in 0..Len(stack) /\ stack \in Seq(Activation)
    BY Facts
  <2>2. /\ SubSeq(stack, 1, Len(stack)) \in Seq(Activation)
        /\ Len(SubSeq(stack, 1, Len(stack))) = Len(stack)
        /\ \A i \in 1..Len(stack) : SubSeq(stack, 1, Len(stack))[i] = stack[i]
    BY <2>1, CutElements
  <2>3. SubSeq(stack, 1, Len(stack)) = stack
    BY <2>1, <2>2
  <2> QED
    BY <2>3, <1>2
<1>5. stack' = SubSeq(stack, 1, k) /\ Top = stack[k + 1]
  BY <1>1, <1>2 DEF Below, Top, Depth
<1> HIDE DEF k
<1> QED
  BY <1>1, <1>2, <1>3, <1>4, <1>5, Facts, LinkPopStep

(* The link of the resolver on top is the activation below it. *)
LEMMA AskedBelow ==
  ASSUME MInv, TopIs({"ruby"}), Top.for = "edge"
  PROVE  /\ Len(stack) \in Nat /\ Len(stack) > 1
         /\ Len(stack) - 2 \in 0..Len(stack) /\ Len(stack) - 1 \in 1..Len(stack)
         /\ EdgeHolds(Len(stack))
         /\ Counted(SubSeq(stack, 1, Len(stack) - 1), activeRealms, stamp)
<1>1. ~Idle /\ IsEdge(Top) /\ Top = stack[Len(stack)] /\ ~Opens(Top)
  BY DEF TopIs, IsEdge, Opens, Top, Depth
<1>2. EdgeHolds(Len(stack))
  BY <1>1, Facts DEF Good
<1>3. Len(stack) \in Nat /\ Len(stack) > 1
  BY <1>2, Facts DEF EdgeHolds
<1>4. stack # <<>>
  BY <1>1 DEF Idle
<1>5. Counted(SubSeq(stack, 1, Len(stack) - 1), activeRealms, stamp)
  BY <1>1, <1>4, Facts, PopCounts
<1> QED
  BY <1>2, <1>3, <1>5

LEMMA EdgeFailsInductive ==
  ASSUME MInv, EdgeFails
  PROVE  MInv'
<1> DEFINE k == Len(stack) - 2
<1>1. TopIs({"ruby"}) /\ Top.for = "edge"
  BY DEF EdgeFails
<1>2. /\ k \in 0..Len(stack) /\ k < Len(stack) /\ k + 1 = Len(stack) - 1
      /\ IsLink(stack[Len(stack) - 1])
      /\ Counted(SubSeq(stack, 1, Len(stack) - 1), activeRealms, stamp)
  BY <1>1, AskedBelow DEF EdgeHolds
<1>3. /\ modules' = Unlinked(stack[Len(stack) - 1])
      /\ stack' = SubSeq(stack, 1, k)
      /\ LinkOver(stack[Len(stack) - 1])
      /\ UNCHANGED <<draining, realms, registered>>
  BY DEF EdgeFails, Depth
<1>4. Kept(modules')
  BY <1>3, Facts, UnlinkedKept
<1> HIDE DEF k
<1> QED
  BY <1>2, <1>3, <1>4, LinkPopStep

LEMMA LinkedImportEvaluatesInductive ==
  ASSUME MInv, LinkedImportEvaluates
  PROVE  MInv'
<1> DEFINE k == Len(stack) - 1
           linked == SetStatus(Walked(Top), "instantiated")
           m == Top.walk[1]
           a == Evaluation("import", m, linked)
<1>1. /\ ~Idle /\ Top.kind = "link" /\ Top.by = "import" /\ IsLink(Top) /\ LinkOver(Top)
      /\ stack' = Append(Below, a) /\ modules' = Evaluating(m, linked)
      /\ UNCHANGED <<draining, realms, registered>>
  BY DEF LinkedImportEvaluates, TopIs, IsLink
<1>2. Kept(linked)
  BY Facts, SetStatusKept DEF Status
<1>3. Top \in LinkFrame /\ LinkHolds(Top) /\ ~Opens(Top) /\ (Len(stack) = 1 => Opens(Top))
  BY <1>1, Facts, Kinds DEF Good, Top, Depth, Opens
<1>4. m \in DOMAIN modules /\ modules[m].ctx \in DOMAIN stamp
  <2>1. Top.walk \in Seq(ModuleId) /\ Top.walk # <<>> /\ \A x \in Walked(Top) : x \in DOMAIN modules
    BY <1>3 DEF LinkHolds, LinkFrame
  <2>2. m \in Walked(Top)
    BY <2>1 DEF Walked
  <2> QED
    BY <2>1, <2>2 DEF MInv, Born
<1> HIDE DEF linked, m
<1>5. /\ a \in EvaluateFrame /\ a.kind = "evaluate" /\ a.by = "import" /\ a.phase = "run"
      /\ a.ctx = modules[m].ctx /\ a.root = m /\ a.graph \subseteq DOMAIN modules
  BY <1>2, <1>4, EvaluationTyped DEF Source
<1> HIDE DEF a
<1>6. a \in Activation /\ ~IsLink(a) /\ ~IsDone(a) /\ ~IsEdge(a) /\ ~Opens(a) /\ Fits(a)
  BY <1>4, <1>5, Kinds DEF IsLink, IsDone, IsEdge, Opens, Fits
<1>7. /\ k \in 0..Len(stack) /\ k + 1 = Len(stack) /\ k + 1 <= MaxDepth /\ k < Len(stack)
      /\ k # 0 /\ stack # <<>> /\ k \in Nat
  BY <1>1, <1>3, Facts DEF Idle
<1>8. /\ Below = SubSeq(stack, 1, k) /\ Below \in Seq(Activation) /\ Len(Below) = k
      /\ \A i \in 1..k : Below[i] = stack[i]
  BY <1>7, Facts, CutElements DEF Below, Depth
<1>9. /\ stack' \in Seq(Activation) /\ Len(stack') = k + 1
      /\ \A i \in 1..k : stack'[i] = stack[i]
      /\ stack'[k + 1] = a
  BY <1>1, <1>6, <1>8, AppendElements
<1>10. instantiating' = FALSE /\ parked' = None /\ activeRealms' = activeRealms
  BY <1>1, <1>3 DEF LinkOver, RestoreParked, LinkHolds, KeepRealm
<1>11. Counted(stack', activeRealms', stamp')
  <2>1. Counted(Below, activeRealms, stamp)
    BY <1>3, <1>7, <1>8, Facts, PopCounts DEF Top, Depth
  <2>2. Counted(Append(Below, a), activeRealms, stamp)
    BY <2>1, <1>6, <1>8, Facts, PushCounts
  <2> QED
    BY <2>2, <1>1, <1>10 DEF realms
<1>12. Kept(modules')
  BY <1>1, <1>2, Facts, EvaluatingKept
<1>13. /\ DOMAIN stack' = 1..(k + 1) /\ k <= Len(stack') /\ Len(stack') <= MaxDepth
       /\ \A i \in DOMAIN stack' : i > k => i = k + 1
       /\ k + 1 \in DOMAIN stack /\ IsLink(stack[k + 1])
  <2>1. Top = stack[k + 1] /\ k + 1 \in DOMAIN stack
    BY <1>1, <1>7, Facts DEF Top, Depth
  <2> HIDE DEF k
  <2>2. DOMAIN stack' = 1..(k + 1)
    BY <1>7, <1>9
  <2>3. k <= Len(stack') /\ Len(stack') <= MaxDepth /\ \A i \in 1..(k + 1) : i > k => i = k + 1
    BY <1>7, <1>9
  <2> QED
    BY <2>1, <2>2, <2>3, <1>1
<1>14. UNCHANGED <<current, stamp, registered>>
  BY <1>1 DEF realms
<1>15. ASSUME NEW i \in DOMAIN stack', i > k
       PROVE  Good(i)' /\ ~IsDone(stack'[i]) /\ ~IsLink(stack'[i])
  <2>1. i = k + 1 /\ i # 1 /\ stack'[i] = a
    BY <1>7, <1>9, <1>13, <1>15
  <2> QED
    BY <2>1, <1>6, <1>12, <1>14 DEF Good, Fits, Opens, Kept, IsLink, IsDone, IsEdge
<1>16. /\ instantiating' \in BOOLEAN /\ parked' \in 0..MaxDepth /\ draining' \in BOOLEAN
       /\ activeRealms' \in Seq(Realm)
  <2>1. 0 \in 0..MaxDepth
    BY Facts
  <2> QED
    BY <2>1, <1>1, <1>10, Facts DEF None
<1> HIDE DEF k
<1>17. LinkState'
  BY <1>7, <1>9, <1>10, <1>13, <1>15, LinkEnds
<1> QED
  BY <1>7, <1>9, <1>11, <1>12, <1>13, <1>14, <1>15, <1>16, <1>17, StackStep

(* What the resolver answers is of the link's context: its realm is current. *)
LEMMA EdgeResolvedInductive ==
  ASSUME MInv, NEW m \in registered, EdgeResolved(m)
  PROVE  MInv'
<1> DEFINE n == Len(stack) - 1
           k == Len(stack) - 2
           link == stack[n]
           new == modules[m].status = "uninstantiated"
           t == IF new THEN SetStatus({m}, "instantiating") ELSE modules
           b == [t[Top.from] EXCEPT !.deps = @ \cup {m}]
           a == [link EXCEPT !.walk = IF new THEN Append(@, m) ELSE @]
<1>1. /\ TopIs({"ruby"}) /\ Top.for = "edge" /\ Accepts(m) /\ ~Idle
      /\ UNCHANGED <<activeRealms, draining, linking, realms, registered>>
      /\ modules' = [t EXCEPT ![Top.from] = b]
      /\ stack' = [Below EXCEPT ![n] = [Below[n] EXCEPT !.walk = IF new THEN Append(@, m) ELSE @]]
  BY DEF EdgeResolved, TopIs, Depth
<1>2. m \in DOMAIN modules /\ modules[m] \in Module /\ m \in ModuleId
  BY Facts, ModulesAssumption DEF MInv, Born, ModuleId
<1>3. Kept(modules')
  <2>1. Kept(SetStatus({m}, "instantiating")) /\ Kept(modules)
    BY Facts, SetStatusKept, KeptSelf DEF Status
  <2>2. Kept(t)
    BY <2>1
  <2> HIDE DEF t
  <2>3. Top.from \in DOMAIN modules => t[Top.from] \in Module
    BY <2>2 DEF Kept
  <2>4. Top.from \in DOMAIN modules =>
          b \in Module /\ b.realm = t[Top.from].realm /\ b.ctx = t[Top.from].ctx
    BY <2>3, <1>2 DEF Module
  <2> HIDE DEF b
  <2> QED
    BY <2>2, <2>4, <1>1, Facts, UpdateKept
<1> HIDE DEF t, b
<1>4. /\ n \in Nat /\ n > 0 /\ n \in 1..Len(stack) /\ n \in 0..Len(stack)
      /\ k \in 0..Len(stack) /\ k \in Nat /\ k + 1 = n /\ n - 1 = k /\ k < Len(stack)
      /\ n \in DOMAIN stack /\ IsLink(link) /\ (link.by = "request" => Top.here = IdOf(link.ctx))
      /\ Counted(SubSeq(stack, 1, n), activeRealms, stamp)
  BY <1>1, AskedBelow DEF EdgeHolds, Top, Depth
<1> HIDE DEF k, n
<1>5. link \in LinkFrame /\ LinkHolds(link) /\ link.ctx \in DOMAIN stamp /\ (n = 1 => Opens(link))
  <2>1. link \in Activation /\ Good(n)
    BY <1>4, Facts DEF MInv
  <2> QED
    BY <2>1, <1>4, Kinds DEF Good, IsLink
<1>6. link.by = "request" => modules[m].ctx = link.ctx
  <2>1. modules[m].realm = Top.here /\ modules[m].realm # NoRealm
    BY <1>1, <1>2, ModulesAssumption DEF Accepts, Module, Realm, NoRealm
  <2>2. current[modules[m].realm] = modules[m].ctx
    BY DEF MInv, Born
  <2> QED
    BY <2>1, <2>2, <1>4 DEF IdOf
<1>7. /\ Below = SubSeq(stack, 1, n) /\ Below \in Seq(Activation) /\ Len(Below) = n
      /\ \A i \in 1..n : Below[i] = stack[i]
      /\ n \in 1..n
  BY <1>4, Facts, CutElements DEF Below, Depth, n
<1>8. stack' = [Below EXCEPT ![n] = a]
  BY <1>1, <1>7
<1>9. PICK e \in LinkFrame :
        /\ e = a /\ e.kind = "link" /\ e.by = link.by /\ e.ctx = link.ctx /\ e.saved = link.saved
        /\ e.walk = link.walk \/ e.walk = Append(link.walk, m)
  <2>1. /\ a \in LinkFrame /\ a.kind = "link" /\ a.by = link.by /\ a.ctx = link.ctx
        /\ a.saved = link.saved
        /\ a.walk = link.walk \/ a.walk = Append(link.walk, m)
    <3> DEFINE w == IF new THEN Append(link.walk, m) ELSE link.walk
    <3>1. link.walk \in Seq(ModuleId)
      BY <1>5 DEF LinkFrame
    <3>2. w \in Seq(ModuleId) /\ (w = link.walk \/ w = Append(link.walk, m))
      BY <3>1, <1>2, AppendElements
    <3>3. a = [link EXCEPT !.walk = w]
      OBVIOUS
    <3> HIDE DEF a, w
    <3> QED
      BY <3>2, <3>3, <1>5 DEF LinkFrame
  <2> HIDE DEF a
  <2> QED
    BY <2>1
<1> HIDE DEF a, new
<1>10. /\ e.saved = None /\ e.walk # <<>>
       /\ \A x \in Walked(e) : x \in DOMAIN modules
       /\ e.by = "request" => \A x \in Walked(e) : modules[x].ctx = e.ctx
  <2>1. link.walk \in Seq(ModuleId) /\ link.walk # <<>>
    BY <1>5 DEF LinkFrame, LinkHolds
  <2>2. e.walk # <<>> /\ Walked(e) \subseteq Walked(link) \cup {m}
    <3>1. CASE e.walk = link.walk
      BY <3>1, <2>1 DEF Walked
    <3>2. CASE e.walk = Append(link.walk, m)
      <4>1. /\ Len(e.walk) = Len(link.walk) + 1 /\ e.walk \in Seq(ModuleId) /\ Len(link.walk) \in Nat
            /\ \A i \in 1..Len(link.walk) : e.walk[i] = link.walk[i]
            /\ e.walk[Len(link.walk) + 1] = m
        BY <3>2, <2>1, <1>2, AppendElements
      <4>2. /\ DOMAIN e.walk = 1..(Len(link.walk) + 1) /\ DOMAIN link.walk = 1..Len(link.walk)
            /\ e.walk # <<>>
        BY <4>1, <2>1
      <4>3. \A i \in DOMAIN e.walk : e.walk[i] = m \/ (i \in DOMAIN link.walk /\ e.walk[i] = link.walk[i])
        BY <4>1, <4>2
      <4> QED
        BY <4>2, <4>3 DEF Walked
    <3> QED
      BY <3>1, <3>2, <1>9
  <2> QED
    BY <2>2, <1>2, <1>5, <1>6, <1>9 DEF LinkHolds
<1>11. e \in Activation /\ IsLink(e) /\ ~IsDone(e) /\ ~IsEdge(e) /\ (Opens(e) <=> Opens(link))
  BY <1>4, <1>9, Kinds DEF IsLink, IsDone, IsEdge, Opens
<1>12. /\ stack' \in Seq(Activation) /\ Len(stack') = n /\ DOMAIN stack' = 1..n
       /\ stack'[n] = e
       /\ \A i \in 1..n : i # n => stack'[i] = stack[i]
  <2>1. DOMAIN Below = 1..n /\ stack' = [Below EXCEPT ![n] = e]
    BY <1>7, <1>8, <1>9
  <2>2. stack' \in Seq(Activation)
    BY <2>1, <1>7, <1>11
  <2>3. DOMAIN stack' = 1..n /\ stack'[n] = e /\ \A i \in 1..n : i # n => stack'[i] = Below[i]
    BY <2>1, <1>7
  <2>4. Len(stack') = n
    BY <2>2, <2>3, <1>4
  <2> QED
    BY <2>2, <2>3, <2>4, <1>7
<1>13. /\ \A i \in 1..k : stack'[i] = stack[i]
       /\ \A i \in 1..n : i > k => i = n
       /\ k <= Len(stack') /\ Len(stack') <= MaxDepth
  <2>1. \A i \in 1..k : i \in 1..n /\ i # n
    BY <1>4
  <2>2. \A i \in 1..n : i > k => i = n
    BY <1>4
  <2>3. k <= n /\ n <= MaxDepth
    BY <1>4, Facts
  <2> QED
    BY <2>1, <2>2, <2>3, <1>12
<1>14. Counted(stack', activeRealms', stamp')
  <2>1. \A i \in 1..n :
          /\ Opens(stack'[i]) <=> Opens(Below[i])
          /\ Opens(Below[i]) => stack'[i].ctx = Below[i].ctx
    <3> SUFFICES ASSUME NEW i \in 1..n
                 PROVE  /\ Opens(stack'[i]) <=> Opens(Below[i])
                        /\ stack'[i].ctx = Below[i].ctx
      OBVIOUS
    <3>1. CASE i = n
      BY <3>1, <1>7, <1>9, <1>11, <1>12
    <3>2. CASE i # n
      BY <3>2, <1>7, <1>12
    <3> QED
      BY <3>1, <3>2
  <2>2. Counted(stack', activeRealms, stamp)
    BY <2>1, <1>4, <1>7, <1>12, Facts, SameCounts
  <2> QED
    BY <2>2, <1>1 DEF realms
<1>15. UNCHANGED <<current, stamp, registered, instantiating, parked>>
  BY <1>1 DEF realms, linking
<1>16. ASSUME NEW i \in DOMAIN stack', i > k
       PROVE  Good(i)' /\ ~IsDone(stack'[i])
  <2>1. i = n /\ stack'[i] = e
    BY <1>12, <1>13, <1>16
  <2>2. i = 1 => Opens(e)
    BY <2>1, <1>5, <1>11
  <2>3. LinkHolds(e)'
    BY <1>3, <1>10 DEF LinkHolds, Kept
  <2>4. e.ctx \in DOMAIN stamp'
    BY <1>5, <1>9, <1>15
  <2> QED
    BY <2>1, <2>2, <2>3, <2>4, <1>9, <1>11 DEF Good, Opens, IsLink, IsEdge, IsDone
<1>17. LinkState'
  <2>1. IsLink(stack[k + 1]) /\ k + 1 \in DOMAIN stack /\ stack'[k + 1] = e
        /\ Len(stack') = k + 1 /\ stack'[k + 1].by = stack[k + 1].by
    BY <1>4, <1>9, <1>12
  <2> QED
    BY <2>1, <1>1, <1>4, <1>11, <1>12, <1>13, LinkGrows
<1>18. /\ draining' \in BOOLEAN /\ instantiating' \in BOOLEAN /\ parked' \in 0..MaxDepth
       /\ activeRealms' \in Seq(Realm)
  BY <1>1, <1>15, Facts
<1> QED
  BY <1>3, <1>4, <1>12, <1>13, <1>14, <1>15, <1>16, <1>17, <1>18, StackStep

-----------------------------------------------------------------------------
(* Every step *)

LEMMA StutterInductive ==
  ASSUME MInv, UNCHANGED vars
  PROVE  MInv'
<1>1. /\ UNCHANGED <<stack, activeRealms, draining, instantiating, parked>>
      /\ UNCHANGED <<current, stamp, modules, registered>>
  BY DEF vars, linking, realms
<1>2. TypeOK' /\ Born' /\ Counted(stack', activeRealms', stamp')
  BY <1>1 DEF MInv, TypeOK, Born
<1>3. LinkState' /\ VerdictIsFresh'
  BY <1>1 DEF MInv, LinkState, OneLinkAtATime, VerdictIsFresh, TopIs, Idle, Top, Depth
<1>4. ASSUME NEW i \in DOMAIN stack
      PROVE  Good(i)'
  <2>1. Good(i)
    BY DEF MInv
  <2> QED
    BY <2>1, <1>1 DEF Good, EdgeHolds, LinkHolds, Walked, IdOf
<1> QED
  BY <1>1, <1>2, <1>3, <1>4 DEF MInv

LEMMA StepInductive ==
  ASSUME MInv, [Next]_vars
  PROVE  MInv'
<1>1. ASSUME NEW realm \in Realm,
             \/ CompileModule(realm) \/ CompileScript(realm)
             \/ Reset(realm) \/ DisposeContext(realm)
             \/ Eval(realm) \/ CallRealm(realm)
      PROVE  MInv'
  BY <1>1, CompileInductive, ChangeInductive, RequestsInductive, CallsInductive
     DEF CompileModule, CompileScript, Status
<1>2. ASSUME NEW m \in registered,
             \/ Dispose(m) \/ RunScript(m) \/ Namespace(m)
             \/ BeginInstantiate(m) \/ RefuseInstantiate(m) \/ EdgeResolved(m)
      PROVE  MInv'
  <2>1. CASE RefuseInstantiate(m)
    BY <2>1, StutterInductive DEF RefuseInstantiate, RestoreParked, vars, linking
  <2> QED
    BY <1>2, <2>1, DisposeInductive, RequestsInductive, BeginInstantiateInductive,
       EdgeResolvedInductive
<1>3. ASSUME NEW m \in registered,
             BeginEvaluate(m) \/ EvaluateOther(m) \/ ImportLinks(m) \/ ImportEvaluates(m)
      PROVE  MInv'
  BY <1>3, BeginEvaluateInductive, EvaluateOtherInductive, ImportLinksInductive,
     ImportEvaluatesInductive
<1>4. ASSUME RequestDrains \/ RequestReturns \/ CallHost \/ CallOrHostReturns
      PROVE  MInv'
  BY <1>4, RequestDrainsInductive, ReturnsInductive, CallsInductive
<1>5. ASSUME AskResolver \/ EdgeFails \/ ReferrerGone \/ LinkSucceeds
      PROVE  MInv'
  BY <1>5, AskResolverInductive, EdgeFailsInductive, LinkEndsInductive
<1>6. ASSUME Evaluated \/ EvaluatedInside \/ DrainEnds \/ EvaluateReturns
      PROVE  MInv'
  BY <1>6, EvaluatedInductive, ReturnsInductive, DrainEndsInductive
<1>7. ASSUME \/ \E m \in DOMAIN modules : Settles(m)
             \/ Import \/ ImportFails \/ LinkedImportEvaluates
      PROVE  MInv'
  BY <1>7, SettlesInductive, CallsInductive, ReturnsInductive, LinkedImportEvaluatesInductive
<1>8. CASE UNCHANGED vars
  BY <1>8, StutterInductive
<1> QED
  BY <1>1, <1>2, <1>3, <1>4, <1>5, <1>6, <1>7, <1>8 DEF Next

(***************************************************************************)
(* What the theorems below rest on: a link under way owns the flag and the *)
(* pair parked, its realm stays current as long as it is active, and what  *)
(* is registered is of the current context of its realm.                   *)
(***************************************************************************)
THEOREM ModulesInvariance == Spec => []MInv
<1> QED
  BY InitMInv, StepInductive, PTL DEF Spec

(***************************************************************************)
(* Requests, calls, links, evaluates, resolvers and realms nest without    *)
(* leaving the shapes they are declared with.                              *)
(***************************************************************************)
THEOREM ModulesTypeCorrect == Spec => []TypeOK
<1>1. MInv => TypeOK
  BY DEF MInv
<1> QED
  BY <1>1, ModulesInvariance, PTL

(***************************************************************************)
(* LinkInProgress (ops.rs) keeps V8 to one link, however deep the          *)
(* resolvers of the first instantiate, evaluate and import in turn.        *)
(***************************************************************************)
THEOREM LinksNeverOverlap == Spec => []OneLinkAtATime
<1>1. MInv => OneLinkAtATime
  BY DEF MInv, LinkState
<1> QED
  BY <1>1, ModulesInvariance, PTL

(***************************************************************************)
(* The pair swap_instantiate parks is the one of the instantiate whose     *)
(* imports are being resolved, and nothing is parked between links.        *)
(***************************************************************************)
THEOREM EdgesReachTheirResolver == Spec => []EdgesAskTheirResolver
<1>1. MInv => EdgesAskTheirResolver
  <2> SUFFICES ASSUME MInv PROVE EdgesAskTheirResolver
    OBVIOUS
  <2>1. \A i \in DOMAIN stack :
          stack[i].kind = "link" => parked = IF stack[i].by = "request" THEN i ELSE None
    BY DEF MInv, LinkState, IsLink
  <2>2. \A i \in DOMAIN stack :
          stack[i].kind = "ruby" /\ stack[i].for = "edge" =>
            stack[i].static = (stack[i - 1].by = "request")
    BY DEF MInv, Good, IsEdge, EdgeHolds
  <2>3. (\A i \in DOMAIN stack : stack[i].kind # "link") => parked = None /\ ~instantiating
    BY DEF MInv, LinkState, IsLink
  <2> QED
    BY <2>1, <2>2, <2>3 DEF EdgesAskTheirResolver
<1> QED
  BY <1>1, ModulesInvariance, PTL

(***************************************************************************)
(* resolve_imported accepts only what is registered in the realm linked,   *)
(* which is the context linked, for an instantiate's realm is active.      *)
(***************************************************************************)
THEOREM InstantiateLinksOwnContext == Spec => []InstantiateStaysInContext
<1>1. MInv => InstantiateStaysInContext
  BY DEF MInv, Good, IsLink, LinkHolds, InstantiateStaysInContext
<1> QED
  BY <1>1, ModulesInvariance, PTL

(***************************************************************************)
(* op_evaluate_module reads the promise again after the drain, so that it  *)
(* never replies success for a module the drain settled as failed.         *)
(***************************************************************************)
THEOREM VerdictAfterTheDrain == Spec => []VerdictIsFresh
<1>1. MInv => VerdictIsFresh
  BY DEF MInv
<1> QED
  BY <1>1, ModulesInvariance, PTL
=============================================================================
