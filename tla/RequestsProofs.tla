--------------------------- MODULE RequestsProofs ---------------------------
(***************************************************************************)
(* What requests reply, and what they leave behind, for any depth and any  *)
(* number of deadlines: the safety properties of Requests.tla and its use  *)
(* of the timer of Deadlines.tla.                                          *)
(***************************************************************************)
EXTENDS Requests, TLAPS

(* A checkpoint of the binding is what the request runs or is suspended in. *)
Marked(op) ==
    \/ op.phase = "drain"
    \/ op.phase \in Hosted \cup {"handler", "absorbed"} /\ op.from = "drain"
MarkedBelow(i) == \E j \in DOMAIN ops : j < i /\ Marked(ops[j])

(* Only bracketed and drain requests arm, drain and disarm. *)
Fits(op) ==
    /\ op.kind = "plain" => /\ op.gen = None /\ op.from = "js"
                            /\ op.phase \notin {"arm", "drain", "tail", "disarm"}
    /\ op.phase = "arm" => op.gen = None

(* The suspended requests wait for a host function; only the outermost one *)
(* sweeps; deadlines are handed out once, the outer ones first.            *)
Shaped(i) ==
    LET op == ops[i]
    IN  /\ Fits(op)
        /\ i < Len(ops) => op.phase \in Hosted
        /\ op.phase \in Over => i = 1
        /\ Marked(op) => (op.saved <=> MarkedBelow(i))
        /\ op.gen <= nextGeneration
        /\ \A j \in DOMAIN ops : j < i /\ op.gen # None => ops[j].gen < op.gen

(* Who raised the flag, and which of them will be swept. *)
Blame ==
    /\ term # "none" \/ TopIn({"absorbed"}) => causes # {}
    /\ "watchdog" \in causes => watchdogFired \/ firedGeneration # None
    /\ "oom" \in causes => oomFired \/ TopIn({"gc"})
    /\ firedGeneration # None => "watchdog" \in causes
    /\ watchdogFired => ~Idle /\ ~TopIn(Over) /\ "watchdog" \in causes
    /\ oomFired => ~Idle /\ ~TopIn({"done"}) /\ (TopIn({"swept"}) \/ "oom" \in causes)

(* The recovery is owed until it has run, and runs for nothing else. *)
Owed ==
    /\ oomFired \/ TopIn({"gc"}) => ceilingHit
    /\ ceilingHit => Idle \/ oomFired \/ TopIn({"gc", "done"})

(* A deadline that alone was enforced stays in the slot until it disarms. *)
SlotRemembers == \A g \in OpenGenerations : hit = {g} => firedGeneration = g

(* What a request has replied, or a suspended one found out. *)
Good == {"terminated", "oom"}
Reports(op) ==
    /\ op.phase \in Closed /\ Ran(op) =>
         /\ op.gen # None /\ hit = {op.gen} => op.result \in Good
         /\ op.kind = "bracketed" /\ ceilingHit =>
              op.result = IF op.phase = "done" THEN "oom" ELSE "terminated"
    /\ op.result = "terminated" /\ op.phase \notin Over => causes # {}

RInv ==
    /\ TypeOK
    /\ \A i \in DOMAIN ops : Shaped(i)
    /\ DrainingIsMarked
    /\ Blame /\ Owed
    /\ TerminateSurvivesNesting
    /\ SlotRemembers
    /\ \A i \in DOMAIN ops : Reports(ops[i])

-----------------------------------------------------------------------------
(* The stack, and the deadlines that are open on it *)

LEMMA StackFacts ==
  ASSUME ops \in Seq(Op)
  PROVE  /\ Depth \in Nat /\ DOMAIN ops = 1..Depth
         /\ \A i \in DOMAIN ops : ops[i] \in Op
         /\ Idle <=> Depth = 0
         /\ ~Idle => Depth \in DOMAIN ops /\ Top \in Op
<1>1. ops = <<>> <=> Len(ops) = 0
  OBVIOUS
<1> QED
  BY <1>1 DEF Depth, Idle, Top

LEMMA SetTopFacts ==
  ASSUME ops \in Seq(Op), ~Idle, NEW op \in Op, SetTop(op)
  PROVE  /\ ops' \in Seq(Op) /\ Depth' = Depth /\ ~Idle' /\ Top' = op
         /\ DOMAIN ops' = DOMAIN ops
         /\ ops'[Depth] = op
         /\ \A i \in DOMAIN ops : i # Depth => ops'[i] = ops[i]
<1>1. Depth \in Nat /\ DOMAIN ops = 1..Depth /\ Depth \in DOMAIN ops /\ Depth # 0
  BY StackFacts
<1>2. ops' = [ops EXCEPT ![Depth] = op]
  BY DEF SetTop
<1>3. ops' \in Seq(Op) /\ DOMAIN ops' = DOMAIN ops /\ Len(ops') = Len(ops)
  BY <1>1, <1>2 DEF Depth
<1>4. ops'[Depth] = op /\ \A i \in DOMAIN ops : i # Depth => ops'[i] = ops[i]
  BY <1>1, <1>2
<1>5. Depth' = Depth /\ ~Idle'
  BY <1>1, <1>3 DEF Depth, Idle
<1> QED
  BY <1>3, <1>4, <1>5 DEF Top

(* The timer of Deadlines.tla takes a step of its own, or none. *)
TimerStep == [Timer!Next]_(Timer!vars)

LEMMA OpenIs ==
  ASSUME NEW g
  PROVE  g \in OpenGenerations <=>
           g # None /\ \E i \in DOMAIN ops : ops[i].phase \notin Closed /\ ops[i].gen = g
BY DEF OpenGenerations, InBracket

(* The top goes on: its deadline stays open, or it never had one. *)
LEMMA TopKeepsOpen ==
  ASSUME ops \in Seq(Op), ~Idle, NEW op \in Op, SetTop(op),
         op.gen = Top.gen,
         \/ op.gen = None
         \/ op.phase \notin Closed /\ Top.phase \notin Closed
         \/ op.phase \in Closed /\ Top.phase \in Closed
  PROVE  OpenGenerations' = OpenGenerations
<1>1. /\ DOMAIN ops' = DOMAIN ops /\ Depth \in DOMAIN ops /\ ops'[Depth] = op
      /\ \A i \in DOMAIN ops : i # Depth => ops'[i] = ops[i]
  BY SetTopFacts, StackFacts
<1>2. ops[Depth].gen = op.gen
  BY DEF Top
<1>3. \A i \in DOMAIN ops : ops'[i].gen # None =>
        (ops'[i].phase \notin Closed <=> ops[i].phase \notin Closed)
  BY <1>1, <1>2 DEF Top
<1>4. \A i \in DOMAIN ops : ops'[i].gen = ops[i].gen
  BY <1>1, <1>2
<1>5. ASSUME NEW g PROVE g \in OpenGenerations' <=> g \in OpenGenerations
  <2>1. g \in OpenGenerations' <=>
          g # None /\ \E i \in DOMAIN ops' : ops'[i].phase \notin Closed /\ ops'[i].gen = g
    BY DEF OpenGenerations, InBracket, None, Closed, Over
  <2> QED
    BY <1>1, <1>3, <1>4, <2>1, OpenIs
<1> QED
  BY <1>5

LEMMA SameStackSameOpen ==
  ASSUME UNCHANGED ops
  PROVE  OpenGenerations' = OpenGenerations
BY DEF OpenGenerations, InBracket, None, Closed, Over

LEMMA SameOpenSameTimer ==
  ASSUME OpenGenerations' = OpenGenerations, UNCHANGED timer
  PROVE  /\ TimerStep
         /\ Timer!TypeOK => Timer!TypeOK'
BY DEF timer, TimerStep, Timer!vars, Timer!TypeOK, Timer!None

-----------------------------------------------------------------------------
(* Steps that change the top of the stack only *)

(* What every step owes, whatever it does to the stack. *)
Globals ==
    /\ term \in {"none", "requested", "active"}
    /\ watchdogFired \in BOOLEAN /\ oomFired \in BOOLEAN /\ draining \in BOOLEAN
    /\ Timer!TypeOK
    /\ causes \subseteq {"watchdog", "user", "oom"}
    /\ hit \subseteq 1..nextGeneration
    /\ ceilingHit \in BOOLEAN

LEMMA TopStep ==
  ASSUME RInv, ~Idle, NEW op \in Op, SetTop(op),
         Globals', Blame', Owed', TerminateSurvivesNesting', SlotRemembers', Reports(op)',
         Fits(op), op.phase \in Over => Depth = 1,
         \/ op.gen = Top.gen
         \/ op.gen = nextGeneration + 1 /\ nextGeneration' = nextGeneration + 1,
         nextGeneration' >= nextGeneration,
         Marked(op) => (op.saved <=> MarkedBelow(Depth)),
         draining' <=> MarkedBelow(Depth) \/ Marked(op),
         Depth = 1 \/ (causes # {} => causes' # {})
  PROVE  RInv'
<1>1. /\ ops \in Seq(Op) /\ Len(ops) <= MaxDepth /\ Timer!TypeOK
      /\ \A i \in DOMAIN ops : Shaped(i)
      /\ \A i \in DOMAIN ops : Reports(ops[i])
  BY DEF RInv, TypeOK
<1>2. /\ Depth \in Nat /\ DOMAIN ops = 1..Depth /\ Depth \in DOMAIN ops
      /\ \A i \in DOMAIN ops : ops[i] \in Op
  BY <1>1, StackFacts
<1>3. /\ ops' \in Seq(Op) /\ Len(ops') = Len(ops) /\ DOMAIN ops' = DOMAIN ops
      /\ ops'[Depth] = op
      /\ \A i \in DOMAIN ops : i # Depth => ops'[i] = ops[i]
  BY <1>1, SetTopFacts DEF Depth
<1>4. TypeOK'
  BY <1>1, <1>3 DEF TypeOK, Globals
<1>5. nextGeneration \in Nat /\ nextGeneration' \in Nat
  BY <1>1, RequestsAssumption DEF Globals, Timer!TypeOK
<1>6. ASSUME NEW i \in DOMAIN ops PROVE MarkedBelow(i)' <=> MarkedBelow(i)
  BY <1>2, <1>3 DEF MarkedBelow
<1>7. ASSUME NEW i \in DOMAIN ops' PROVE Shaped(i)'
  <2>1. CASE i = Depth
    <3>1. op.gen \in Nat /\ \A j \in DOMAIN ops : ops[j].gen \in Nat
      BY <1>2 DEF Op
    <3>2. Shaped(Depth) /\ \A j \in DOMAIN ops : Shaped(j)
      BY <1>1, <1>2
    <3>3. op.gen <= nextGeneration'
      BY <1>5, <3>1, <3>2, <1>2 DEF Shaped, Top
    <3>4. \A j \in DOMAIN ops : j < Depth /\ op.gen # None => ops[j].gen < op.gen
      BY <1>2, <1>5, <3>1, <3>2 DEF Shaped, Top
    <3>5. Marked(op) => (op.saved <=> MarkedBelow(i))'
      BY <1>2, <1>6, <2>1
    <3> QED
      BY <1>2, <1>3, <2>1, <3>3, <3>4, <3>5 DEF Shaped, Depth, None, Fits, Marked, Hosted
  <2>2. CASE i # Depth
    <3>1. Shaped(i) /\ i < Depth /\ ops'[i] = ops[i]
      BY <1>1, <1>2, <1>3, <2>2
    <3>2. \A j \in DOMAIN ops : j < i => ops'[j] = ops[j]
      BY <1>2, <1>3, <3>1
    <3>3. ops[i].gen <= nextGeneration'
      BY <1>2, <1>3, <1>5, <3>1 DEF Shaped, Op
    <3> QED
      BY <1>2, <1>3, <1>6, <3>1, <3>2, <3>3 DEF Shaped, Depth, None, Fits, Marked, Hosted
  <2> QED
    BY <2>1, <2>2
<1>8. DrainingIsMarked'
  <2>1. \A i \in DOMAIN ops : i < Depth => ops'[i] = ops[i]
    BY <1>2, <1>3
  <2>2. (\E i \in DOMAIN ops' : Marked(ops'[i])) <=> MarkedBelow(Depth) \/ Marked(op)
    BY <1>2, <1>3, <2>1 DEF MarkedBelow
  <2> QED
    BY <2>2 DEF DrainingIsMarked, Marked, Hosted
<1>9. ASSUME NEW i \in DOMAIN ops' PROVE Reports(ops[i])'
  <2>1. CASE i = Depth
    BY <1>3, <2>1 DEF Reports
  <2>2. CASE i # Depth
    <3>1. /\ Reports(ops[i]) /\ ops'[i] = ops[i] /\ i < Depth
          /\ ops[i].phase \in Hosted
      BY <1>1, <1>2, <1>3, <2>2 DEF Shaped, Depth
    <3>2. Depth # 1
      BY <1>2, <1>3, <3>1
    <3> QED
      BY <3>1, <3>2 DEF Reports, Closed, Over, Hosted
  <2> QED
    BY <2>1, <2>2
<1> QED
  BY <1>4, <1>7, <1>8, <1>9 DEF RInv

(* The step of a request that arms, disarms and replies nothing: the flag   *)
(* keeps telling who raised it.                                             *)
LEMMA QuietTopStep ==
  ASSUME RInv, ~Idle, NEW op \in Op, SetTop(op),
         UNCHANGED <<watchdogFired, oomFired, timer, causes, hit, ceilingHit>>,
         term' \in {"none", "requested", "active"}, draining' \in BOOLEAN,
         op.gen = Top.gen, Fits(op), Top.phase \notin Closed,
         op.phase \in Closed => op.phase = "reply" /\ op.kind = "plain",
         op.result = "terminated" => causes # {},
         causes # {} <=> term' # "none" \/ op.phase = "absorbed",
         Marked(op) => (op.saved <=> MarkedBelow(Depth)),
         draining' <=> MarkedBelow(Depth) \/ Marked(op)
  PROVE  RInv' /\ TimerStep
<1>1. /\ ops \in Seq(Op) /\ Globals /\ Blame /\ Owed /\ SlotRemembers
      /\ Depth \in Nat /\ Depth' = Depth /\ ~Idle' /\ Top' = op
      /\ nextGeneration \in Nat
  BY StackFacts, SetTopFacts, RequestsAssumption DEF RInv, TypeOK, Globals, Timer!TypeOK
<1>2. OpenGenerations' = OpenGenerations
  <2>1. op.phase \in Closed => op.gen = None
    BY DEF Fits
  <2> QED
    BY <1>1, <2>1, TopKeepsOpen
<1>3. TimerStep /\ Timer!TypeOK'
  BY <1>1, <1>2, SameOpenSameTimer DEF Globals
<1>4. Globals'
  BY <1>1, <1>3 DEF Globals, timer
<1>5. op.phase \notin Over /\ Top.phase \notin Over
  BY DEF Closed, Over
<1>6. \A phases : TopIn(phases)' <=> op.phase \in phases
  BY <1>1 DEF TopIn
<1>7. Blame' /\ Owed'
  BY <1>1, <1>5, <1>6 DEF Blame, Owed, timer, None, TopIn, Over
<1>8. TerminateSurvivesNesting'
  BY <1>1, <1>6 DEF TerminateSurvivesNesting
<1>9. SlotRemembers'
  BY <1>1, <1>2 DEF SlotRemembers, timer
<1>10. Reports(op)'
  BY DEF Reports, Fits, None
<1>11. nextGeneration' = nextGeneration /\ nextGeneration' >= nextGeneration
  BY <1>1 DEF timer
<1> QED
  BY <1>1, <1>3, <1>4, <1>5, <1>7, <1>8, <1>9, <1>10, <1>11, TopStep

LEMMA TopFacts ==
  ASSUME RInv, ~Idle
  PROVE  /\ Top \in Op /\ Fits(Top) /\ Reports(Top)
         /\ Depth \in Nat /\ Depth >= 1
         /\ Top.phase \in Over => Depth = 1
         /\ Marked(Top) => (Top.saved <=> MarkedBelow(Depth))
         /\ draining <=> MarkedBelow(Depth) \/ Marked(Top)
<1>1. /\ ops \in Seq(Op) /\ Depth \in Nat /\ DOMAIN ops = 1..Depth
      /\ Depth \in DOMAIN ops /\ Top \in Op
  BY StackFacts DEF RInv, TypeOK
<1>2. Shaped(Depth) /\ Reports(ops[Depth])
  BY <1>1 DEF RInv
<1>3. draining <=> MarkedBelow(Depth) \/ Marked(Top)
  <2>1. draining <=> \E i \in DOMAIN ops : Marked(ops[i])
    BY DEF RInv, DrainingIsMarked, Marked, Hosted
  <2>2. (\E i \in DOMAIN ops : Marked(ops[i])) <=> MarkedBelow(Depth) \/ Marked(Top)
    BY <1>1 DEF MarkedBelow, Top
  <2> QED
    BY <2>1, <2>2
<1> QED
  BY <1>1, <1>2, <1>3 DEF Shaped, Top

(* What a body finds on its way in: it drains, runs JavaScript or does not. *)
Entered(op, gen) ==
    /\ SetTop(op) /\ Fits(op)
    /\ op.gen = gen /\ op.kind = Top.kind /\ op.from = Top.from
    /\ op.phase \in {"js", "drain", "tail", "disarm"}
    /\ op.result = Top.result \/ op.result \in {"ok", "error"}
    /\ Marked(op) <=> op.phase = "drain"
    /\ op.phase = "drain" => op.saved = draining /\ draining' = TRUE
    /\ op.phase # "drain" => draining' = draining

LEMMA EnterBodyFacts ==
  ASSUME Top \in Op, Fits(Top), Top.phase = "arm", draining \in BOOLEAN,
         NEW gen \in 0..MaxArms, EnterBody(gen)
  PROVE  \E op \in Op : Entered(op, gen)
<1>1. Top.kind # "plain"
  BY DEF Fits
<1>2. ASSUME Top.kind = "drain", draining' = TRUE,
             SetTop([Top EXCEPT !.gen = gen, !.phase = "drain", !.saved = draining])
      PROVE  \E op \in Op : Entered(op, gen)
  <2>1. PICK op : op = [Top EXCEPT !.gen = gen, !.phase = "drain", !.saved = draining]
    OBVIOUS
  <2>2. /\ op \in Op /\ op.gen = gen /\ op.kind = Top.kind /\ op.from = Top.from
        /\ op.phase = "drain" /\ op.result = Top.result /\ op.saved = draining
    BY <2>1 DEF Op, Phase
  <2>3. Fits(op) /\ Marked(op) /\ SetTop(op)
    BY <1>1, <1>2, <2>1, <2>2 DEF Fits, Marked, Hosted
  <2> QED
    BY <1>2, <2>2, <2>3 DEF Entered
<1>3. ASSUME NEW phase \in {"js", "tail", "disarm"}, NEW result,
             result = Top.result \/ result \in {"ok", "error"}, draining' = draining,
             SetTop([Top EXCEPT !.gen = gen, !.phase = phase, !.result = result])
      PROVE  \E op \in Op : Entered(op, gen)
  <2>1. PICK op : op = [Top EXCEPT !.gen = gen, !.phase = phase, !.result = result]
    OBVIOUS
  <2>2. /\ op \in Op /\ op.gen = gen /\ op.kind = Top.kind /\ op.from = Top.from
        /\ op.phase = phase /\ op.result = result
    BY <1>3, <2>1 DEF Op, Phase
  <2>3. Fits(op) /\ ~Marked(op) /\ SetTop(op)
    BY <1>1, <1>3, <2>1, <2>2 DEF Fits, Marked, Hosted
  <2> QED
    BY <1>3, <2>2, <2>3 DEF Entered
<1>4. CASE NoJs(gen)
  <2>1. PICK next \in {<<"disarm", "error">>, <<"tail", "error">>, <<"tail", "ok">>} :
          SetTop([Top EXCEPT !.gen = gen, !.phase = next[1], !.result = next[2]])
    BY <1>4 DEF NoJs
  <2>2. next[1] \in {"js", "tail", "disarm"} /\ next[2] \in {"ok", "error"}
    BY <2>1
  <2> QED
    BY <1>3, <1>4, <2>1, <2>2 DEF NoJs
<1>5. ASSUME SetTop([Top EXCEPT !.gen = gen, !.phase = "js"]), UNCHANGED draining
      PROVE  \E op \in Op : Entered(op, gen)
  <2>1. [Top EXCEPT !.gen = gen, !.phase = "js"]
          = [Top EXCEPT !.gen = gen, !.phase = "js", !.result = Top.result]
    BY DEF Op
  <2> QED
    BY <1>3, <1>5, <2>1
<1> QED
  BY <1>2, <1>4, <1>5 DEF EnterBody

(* Requests that run, and wait for hosts and handlers. *)
LEMMA ScriptInductive ==
  ASSUME RInv,
         \/ ArmUntimed \/ HostCall \/ HostReturn \/ HandlerCall \/ HandlerReturn
         \/ HandlerAbsorbs \/ Reassert \/ JsReturns \/ JsUnwinds \/ ErroredModule
         \/ AutoDrain \/ CheckpointEnds
  PROVE  RInv' /\ TimerStep
<1>1. ~Idle
  BY DEF ArmUntimed, HostCall, HostReturn, HandlerCall, HandlerReturn, HandlerAbsorbs,
         Reassert, JsReturns, JsUnwinds, ErroredModule, AutoDrain, CheckpointEnds, TopIn
<1>2. /\ Top \in Op /\ Fits(Top) /\ Reports(Top)
      /\ Marked(Top) => (Top.saved <=> MarkedBelow(Depth))
      /\ draining <=> MarkedBelow(Depth) \/ Marked(Top)
  BY <1>1, TopFacts
<1>3. /\ term \in {"none", "requested", "active"} /\ draining \in BOOLEAN
      /\ causes # {} <=> term # "none" \/ Top.phase = "absorbed"
  BY <1>1 DEF RInv, TypeOK, Blame, TerminateSurvivesNesting, TopIn
<1>4. Top.phase \notin Closed => (Top.result = "terminated" => causes # {})
  BY <1>2 DEF Reports, Closed, Over
<1>5. CASE ArmUntimed
  <2>0. None \in 0..MaxArms
    BY RequestsAssumption DEF None
  <2>1. Top.phase = "arm" /\ EnterBody(None)
        /\ UNCHANGED <<term, watchdogFired, oomFired, timer, causes, hit, ceilingHit>>
    BY <1>5 DEF ArmUntimed, TopIn
  <2>2. PICK op \in Op : Entered(op, None)
    BY <1>2, <1>3, <2>0, <2>1, EnterBodyFacts
  <2>3. Top.gen = None
    BY <1>2, <2>1 DEF Fits
  <2>4. ~Marked(Top) /\ (Marked(op) => (op.saved <=> MarkedBelow(Depth)))
    BY <1>2, <2>1, <2>2 DEF Marked, Hosted, Entered
  <2>5. draining' \in BOOLEAN /\ (draining' <=> MarkedBelow(Depth) \/ Marked(op))
    <3>1. draining \in BOOLEAN /\ (draining <=> MarkedBelow(Depth) \/ Marked(Top))
      BY <1>2, <1>3
    <3>2. CASE op.phase = "drain"
      BY <2>2, <3>2 DEF Entered
    <3>3. CASE op.phase # "drain"
      BY <2>2, <2>4, <3>1, <3>3 DEF Entered
    <3> QED
      BY <3>2, <3>3
  <2>6. op.result = "terminated" => causes # {}
    BY <1>4, <2>1, <2>2 DEF Entered, Closed, Over
  <2>7. /\ SetTop(op) /\ op.gen = Top.gen /\ Fits(op)
        /\ op.phase \notin Closed /\ Top.phase \notin Closed
        /\ op.phase # "absorbed" /\ Top.phase # "absorbed"
    BY <2>1, <2>2, <2>3 DEF Entered, Closed, Over
  <2> QED
    BY <1>1, <1>3, <2>1, <2>2, <2>4, <2>5, <2>6, <2>7, QuietTopStep
<1>6. CASE HostCall \/ HostReturn \/ HandlerCall \/ HandlerReturn \/ Reassert
  <2>1. /\ UNCHANGED <<watchdogFired, oomFired, draining, timer, causes, hit, ceilingHit>>
        /\ \/ term' = term /\ Top.phase # "absorbed"
           \/ term' \in {"requested", "active"} /\ Top.phase = "absorbed"
    BY <1>3, <1>6 DEF HostCall, HostReturn, HandlerCall, HandlerReturn, Reassert, TopIn
  <2>2. PICK phase, from :
          /\ SetTop([Top EXCEPT !.phase = phase, !.from = from])
          /\ \/ /\ Top.phase \in {"js", "drain"} /\ from = Top.phase
                /\ phase \in {"host", "handler"}
             \/ /\ Top.phase \in Hosted \cup {"handler", "absorbed"} /\ from = Top.from
                /\ phase \in {"handler", "handlerHost", Top.from}
    <3>1. \A phase : [Top EXCEPT !.phase = phase]
                        = [Top EXCEPT !.phase = phase, !.from = Top.from]
      BY <1>2 DEF Op
    <3>2. CASE HandlerCall \/ (HostCall /\ Top.phase # "handler")
      BY <3>2 DEF HostCall, HandlerCall, TopIn
    <3>3. CASE HostReturn \/ HandlerReturn \/ Reassert \/ (HostCall /\ Top.phase = "handler")
      <4>1. PICK phase \in {"handler", "handlerHost", Top.from} :
              SetTop([Top EXCEPT !.phase = phase])
        BY <3>3 DEF HostCall, HostReturn, HandlerReturn, Reassert, TopIn, GoTo
      <4>2. Top.phase \in Hosted \cup {"handler", "absorbed"}
        BY <3>3 DEF HostCall, HostReturn, HandlerReturn, Reassert, TopIn, Hosted
      <4> QED
        BY <3>1, <4>1, <4>2
    <3> QED
      BY <1>6, <3>2, <3>3
  <2>3. PICK op : op = [Top EXCEPT !.phase = phase, !.from = from]
    OBVIOUS
  <2>4. from \in {"js", "drain"} /\ phase \in {"host", "handler", "handlerHost", "js", "drain"}
    BY <1>2, <2>2 DEF Op
  <2>5. op \in Op /\ SetTop(op)
    BY <1>2, <2>2, <2>3, <2>4 DEF Op, Phase
  <2>6. /\ op.gen = Top.gen /\ op.phase = phase /\ op.from = from
        /\ op.kind = Top.kind /\ op.result = Top.result /\ op.saved = Top.saved
    BY <1>2, <2>3 DEF Op
  <2>7. (Marked(op) <=> Marked(Top)) /\ Fits(op)
    BY <1>2, <2>2, <2>4, <2>6 DEF Marked, Hosted, Fits, Op
  <2>8. /\ term' \in {"none", "requested", "active"}
        /\ causes # {} <=> term' # "none" \/ op.phase = "absorbed"
    BY <1>3, <2>1, <2>4, <2>6
  <2>9. op.phase \notin Closed /\ Top.phase \notin Closed
    BY <2>2, <2>4, <2>6 DEF Closed, Over, Hosted
  <2>10. op.result = "terminated" => causes # {}
    BY <1>4, <2>6, <2>9
  <2> QED
    BY <1>1, <1>2, <1>3, <2>1, <2>5, <2>6, <2>7, <2>8, <2>9, <2>10, QuietTopStep
<1>8. CASE HandlerAbsorbs
  <2>1. PICK op : op = [Top EXCEPT !.phase = "absorbed"]
    OBVIOUS
  <2>2. op \in Op /\ SetTop(op) /\ Top.phase = "handler" /\ term # "none" /\ term' = "none"
    BY <1>2, <1>8, <2>1 DEF Op, Phase, HandlerAbsorbs, TopIn, GoTo
  <2>3. /\ op.gen = Top.gen /\ op.phase = "absorbed" /\ op.from = Top.from
        /\ op.kind = Top.kind /\ op.result = Top.result /\ op.saved = Top.saved
    BY <1>2, <2>1 DEF Op
  <2>4. (Marked(op) <=> Marked(Top)) /\ Fits(op)
    BY <1>2, <2>2, <2>3 DEF Marked, Hosted, Fits
  <2> QED
    BY <1>1, <1>2, <1>3, <1>4, <1>8, <2>2, <2>3, <2>4, QuietTopStep DEF Closed, Over, HandlerAbsorbs
<1>9. CASE JsReturns \/ JsUnwinds \/ ErroredModule
  <2>1. /\ UNCHANGED <<term, watchdogFired, oomFired, draining, timer, causes, hit, ceilingHit>>
        /\ Top.phase = "js"
    BY <1>9 DEF JsReturns, JsUnwinds, ErroredModule, TopIn
  <2>2. PICK phase, ran, result :
          /\ SetTop([Top EXCEPT !.phase = phase, !.ranJs = ran, !.result = result])
          /\ ran \in BOOLEAN
          /\ IF Top.kind = "plain" THEN phase = "reply" ELSE phase \in {"tail", "disarm"}
          /\ \/ result = Top.result \/ result = "ok" \/ result = "error"
             \/ result = "terminated" /\ term = "active"
    <3>1. CASE JsReturns
      <4>1. [Top EXCEPT !.phase = AfterJs, !.ranJs = TRUE]
              = [Top EXCEPT !.phase = AfterJs, !.ranJs = TRUE, !.result = Top.result]
        BY <1>2 DEF Op
      <4> QED
        BY <3>1, <4>1 DEF JsReturns, AfterJs
    <3>2. CASE JsUnwinds
      BY <3>2 DEF JsUnwinds, AfterJs
    <3>3. CASE ErroredModule
      <4>1. SetTop([Top EXCEPT !.phase = "tail", !.result = "error"])
        BY <3>3 DEF ErroredModule
      <4>2. [Top EXCEPT !.phase = "tail", !.result = "error"]
              = [Top EXCEPT !.phase = "tail", !.ranJs = Top.ranJs, !.result = "error"]
        BY <1>2 DEF Op
      <4>3. Top.ranJs \in BOOLEAN /\ Top.kind = "bracketed"
        BY <1>2, <3>3 DEF Op, ErroredModule
      <4> QED
        BY <4>1, <4>2, <4>3
    <3> QED
      BY <1>9, <3>1, <3>2, <3>3
  <2>3. PICK op : op = [Top EXCEPT !.phase = phase, !.ranJs = ran, !.result = result]
    OBVIOUS
  <2>4. /\ result \in {"ok", "error", "terminated", "oom"}
        /\ phase \in {"reply", "tail", "disarm"}
    BY <1>2, <2>2 DEF Op
  <2>5. op \in Op /\ SetTop(op)
    BY <1>2, <2>2, <2>3, <2>4 DEF Op, Phase
  <2>6. /\ op.gen = Top.gen /\ op.phase = phase /\ op.from = Top.from
        /\ op.kind = Top.kind /\ op.result = result /\ op.saved = Top.saved
    BY <1>2, <2>3 DEF Op
  <2>7. ~Marked(op) /\ ~Marked(Top) /\ Fits(op)
    BY <1>2, <2>1, <2>2, <2>4, <2>6 DEF Marked, Hosted, Fits
  <2>8. op.result = "terminated" => causes # {}
    BY <1>3, <1>4, <2>1, <2>2, <2>6 DEF Closed, Over
  <2>9. op.phase \in Closed => op.phase = "reply" /\ op.kind = "plain"
    BY <2>2, <2>6 DEF Closed, Over
  <2> QED
    BY <1>1, <1>2, <1>3, <2>1, <2>4, <2>5, <2>6, <2>7, <2>8, <2>9, QuietTopStep DEF Closed, Over
<1>10. CASE AutoDrain
  <2>1. UNCHANGED <<term, watchdogFired, oomFired, timer, causes, hit, ceilingHit>> /\ Top.phase = "tail"
    BY <1>10 DEF AutoDrain, TopIn
  <2>2. ~Marked(Top) /\ Top.kind # "plain"
    BY <1>2, <2>1 DEF Marked, Hosted, Fits
  <2>3. CASE SetTop([Top EXCEPT !.phase = "drain", !.saved = draining]) /\ draining' = TRUE
    <3>1. PICK op : op = [Top EXCEPT !.phase = "drain", !.saved = draining]
      OBVIOUS
    <3>2. op \in Op /\ SetTop(op)
      BY <1>2, <1>3, <2>3, <3>1 DEF Op, Phase
    <3>3. /\ op.gen = Top.gen /\ op.phase = "drain" /\ op.saved = draining
          /\ op.kind = Top.kind /\ op.result = Top.result
      BY <1>2, <3>1 DEF Op
    <3>4. Marked(op) /\ Fits(op)
      BY <2>2, <3>3 DEF Marked, Hosted, Fits
    <3> QED
      BY <1>1, <1>2, <1>3, <1>4, <2>1, <2>2, <2>3, <3>2, <3>3, <3>4, QuietTopStep DEF Closed, Over
  <2>4. CASE GoTo("disarm") /\ UNCHANGED draining
    <3>1. PICK op : op = [Top EXCEPT !.phase = "disarm"]
      OBVIOUS
    <3>2. op \in Op /\ SetTop(op)
      BY <1>2, <2>4, <3>1 DEF Op, Phase, GoTo
    <3>3. /\ op.gen = Top.gen /\ op.phase = "disarm"
          /\ op.kind = Top.kind /\ op.result = Top.result
      BY <1>2, <3>1 DEF Op
    <3>4. ~Marked(op) /\ Fits(op)
      BY <2>2, <3>3 DEF Marked, Hosted, Fits
    <3> QED
      BY <1>1, <1>2, <1>3, <1>4, <2>1, <2>2, <2>4, <3>2, <3>3, <3>4, QuietTopStep DEF Closed, Over
  <2> QED
    BY <1>10, <2>3, <2>4 DEF AutoDrain
<1>11. CASE CheckpointEnds
  <2>1. /\ UNCHANGED <<term, watchdogFired, oomFired, timer, causes, hit, ceilingHit>>
        /\ Top.phase = "drain" /\ draining' = Top.saved
    BY <1>11 DEF CheckpointEnds, TopIn, RestoreDraining
  <2>2. Marked(Top) /\ Top.kind # "plain"
    BY <1>2, <2>1 DEF Marked, Hosted, Fits
  <2>3. PICK op : op = [Top EXCEPT !.phase = "disarm"]
    OBVIOUS
  <2>4. op \in Op /\ SetTop(op)
    BY <1>2, <1>11, <2>3 DEF Op, Phase, GoTo, CheckpointEnds
  <2>5. /\ op.gen = Top.gen /\ op.phase = "disarm"
        /\ op.kind = Top.kind /\ op.result = Top.result
    BY <1>2, <2>3 DEF Op
  <2>6. ~Marked(op) /\ Fits(op)
    BY <2>2, <2>5 DEF Marked, Hosted, Fits
  <2>7. draining' \in BOOLEAN
    BY <1>2, <2>1 DEF Op
  <2> QED
    BY <1>1, <1>2, <1>3, <1>4, <2>1, <2>2, <2>4, <2>5, <2>6, <2>7, QuietTopStep DEF Closed, Over
<1> QED
  BY <1>5, <1>6, <1>8, <1>9, <1>10, <1>11

(* A new deadline is greater than all that are open; nothing has hit it. *)
LEMMA ArmTimedInductive ==
  ASSUME RInv, ArmTimed
  PROVE  RInv' /\ TimerStep
<1>1. ~Idle /\ Top.phase = "arm"
  BY DEF ArmTimed, TopIn
<1>2. /\ Top \in Op /\ Fits(Top) /\ Reports(Top) /\ Globals /\ Blame /\ Owed
      /\ draining <=> MarkedBelow(Depth) \/ Marked(Top)
      /\ TerminateSurvivesNesting /\ SlotRemembers
  BY <1>1, TopFacts DEF RInv, TypeOK, Globals
<1>3. /\ ~shutdown /\ nextGeneration < MaxArms
      /\ nextGeneration' = nextGeneration + 1
      /\ OpenGenerations' = OpenGenerations \cup {nextGeneration + 1}
      /\ armed' = armed \cup {nextGeneration + 1}
      /\ UNCHANGED <<expired, firedGeneration, shutdown>>
      /\ UNCHANGED <<term, watchdogFired, oomFired, causes, hit, ceilingHit>>
  BY DEF ArmTimed, Timer!Arm
<1>4. /\ nextGeneration \in Nat /\ nextGeneration + 1 \in 0..MaxArms
      /\ nextGeneration + 1 >= nextGeneration
      /\ hit \subseteq 1..(nextGeneration + 1) /\ hit # {nextGeneration + 1}
  BY <1>2, <1>3, RequestsAssumption DEF Globals, Timer!TypeOK
<1>5. Timer!TypeOK'
  BY <1>2, <1>3, <1>4 DEF Globals, Timer!TypeOK, Timer!None
<1>6. PICK op \in Op : Entered(op, nextGeneration + 1)
  BY <1>1, <1>2, <1>4, EnterBodyFacts DEF ArmTimed, Globals
<1>7. SetTop(op) /\ Fits(op)
  BY <1>6 DEF Entered
<1>8. /\ op.gen = nextGeneration + 1
      /\ op.result = Top.result \/ op.result \in {"ok", "error"}
      /\ op.phase \in {"js", "drain", "tail", "disarm"}
      /\ Marked(op) <=> op.phase = "drain"
      /\ op.phase = "drain" => op.saved = draining
  BY <1>6 DEF Entered
<1>9. /\ draining' \in BOOLEAN
      /\ op.phase = "drain" => draining' = TRUE
      /\ op.phase # "drain" => draining' = draining
  BY <1>2, <1>6 DEF Entered, Globals
<1>10. ~Marked(Top)
  BY <1>1 DEF Marked, Hosted
<1>11. Globals'
  BY <1>2, <1>3, <1>4, <1>5, <1>9 DEF Globals
<1>12. ops \in Seq(Op) /\ ~Idle' /\ Top' = op
  BY <1>1, <1>7, <1>8, SetTopFacts DEF RInv, TypeOK
<1>13. Blame' /\ Owed' /\ TerminateSurvivesNesting'
  BY <1>1, <1>2, <1>3, <1>8, <1>12 DEF Blame, Owed, TerminateSurvivesNesting, TopIn, Over, None
<1>14. SlotRemembers'
  BY <1>2, <1>3, <1>4 DEF SlotRemembers
<1>15. Reports(op)'
  BY <1>1, <1>2, <1>3, <1>8 DEF Reports, Closed, Over
<1>16. TimerStep
  BY DEF ArmTimed, TimerStep, Timer!Next
<1> QED
  BY <1>16, <1>1, <1>2, <1>3, <1>4, <1>7, <1>8, <1>9, <1>10, <1>11, <1>13, <1>14, <1>15, TopStep
     DEF Over

(* The slot told the request whether its deadline was the last enforced one: *)
(* the outcome says so.                                                      *)
LEMMA DisarmInductive ==
  ASSUME RInv, Disarm
  PROVE  RInv' /\ TimerStep
<1>1. ~Idle /\ Top.phase = "disarm"
  BY DEF Disarm, TopIn
<1>2. /\ Top \in Op /\ Fits(Top) /\ Reports(Top) /\ Globals /\ Blame /\ Owed
      /\ draining <=> MarkedBelow(Depth) \/ Marked(Top)
      /\ TerminateSurvivesNesting /\ SlotRemembers /\ ops \in Seq(Op)
  BY <1>1, TopFacts DEF RInv, TypeOK, Globals
<1>3. PICK fired \in BOOLEAN : fired <=> Top.gen # None /\ firedGeneration = Top.gen
  OBVIOUS
<1>4. PICK op : op = [Top EXCEPT !.phase = "reply", !.result = Outcome(fired)]
  OBVIOUS
<1>5. /\ SetTop(op) /\ watchdogFired' = (watchdogFired \/ fired)
      /\ UNCHANGED <<term, oomFired, draining, causes, hit, ceilingHit>>
  <2>1. fired = (Top.gen # None /\ firedGeneration = Top.gen)
    BY <1>3
  <2> QED
    BY <1>4, <2>1 DEF Disarm
<1>6. /\ Outcome(fired) \in {"ok", "error", "terminated", "oom"}
      /\ fired /\ Ran(Top) => Outcome(fired) = "terminated"
      /\ oomFired /\ Top.kind = "bracketed" /\ Ran(Top) => Outcome(fired) = "terminated"
      /\ Outcome(fired) = "terminated" => fired \/ oomFired \/ Top.result = "terminated"
  BY <1>2 DEF Outcome, Ran, Op
<1>7. /\ op \in Op /\ op.gen = Top.gen /\ op.phase = "reply" /\ op.kind = Top.kind
      /\ op.from = Top.from /\ op.ranJs = Top.ranJs /\ op.result = Outcome(fired)
  BY <1>2, <1>4, <1>6 DEF Op, Phase
<1> HIDE DEF Outcome
<1>8. /\ OpenGenerations' = OpenGenerations \ {Top.gen}
      /\ armed' \subseteq armed \ {Top.gen} /\ expired' \subseteq expired \ {Top.gen}
      /\ expired' \subseteq armed' /\ armed' \subseteq OpenGenerations'
      /\ fired => firedGeneration' = None
      /\ ~fired => firedGeneration' = firedGeneration
      /\ UNCHANGED <<nextGeneration, shutdown>>
  <2>1. CASE Top.gen = None
    <3>1. UNCHANGED timer /\ ~fired
      BY <1>3, <2>1 DEF Disarm, DisarmWatchdog
    <3>2. OpenGenerations' = OpenGenerations
      BY <1>1, <1>2, <1>5, <1>7, <2>1, TopKeepsOpen
    <3>3. None \notin OpenGenerations
      BY DEF OpenGenerations
    <3> QED
      BY <1>2, <2>1, <3>1, <3>2, <3>3 DEF timer, Globals, Timer!TypeOK
  <2>2. CASE Top.gen # None
    <3>1. Timer!Disarm(Top.gen)
      BY <2>2 DEF Disarm, DisarmWatchdog
    <3>2. /\ OpenGenerations' = OpenGenerations \ {Top.gen}
          /\ armed' = armed \ {Top.gen} /\ expired' = expired \ {Top.gen}
          /\ firedGeneration' = IF firedGeneration = Top.gen THEN None ELSE firedGeneration
          /\ UNCHANGED <<nextGeneration, shutdown>>
      BY <3>1 DEF Timer!Disarm, Timer!None, None
    <3> QED
      BY <1>2, <1>3, <2>2, <3>2 DEF Globals, Timer!TypeOK
  <2> QED
    BY <2>1, <2>2
<1>9. Timer!TypeOK'
  BY <1>2, <1>3, <1>8 DEF Globals, Timer!TypeOK, Timer!None, None
<1>10. Globals'
  BY <1>2, <1>5, <1>8, <1>9 DEF Globals
<1>11. ~Idle' /\ Top' = op
  BY <1>1, <1>2, <1>5, <1>7, SetTopFacts
<1>12. Blame' /\ Owed'
  BY <1>1, <1>2, <1>3, <1>5, <1>7, <1>8, <1>11 DEF Blame, Owed, TopIn, Over, None
<1>13. TerminateSurvivesNesting'
  BY <1>1, <1>2, <1>5, <1>7, <1>11 DEF TerminateSurvivesNesting, TopIn
<1>14. SlotRemembers'
  BY <1>2, <1>3, <1>5, <1>8 DEF SlotRemembers
<1>15. Top.gen # None => Top.gen \in OpenGenerations
  BY <1>1, <1>2, StackFacts, OpenIs DEF Top, Closed, Over
<1>16. Reports(op)'
  <2>1. Ran(Top) /\ op.gen # None /\ hit = {op.gen} => op.result \in Good
    BY <1>2, <1>3, <1>6, <1>7, <1>15 DEF SlotRemembers, Good
  <2>2. Ran(Top) /\ op.kind = "bracketed" /\ ceilingHit => op.result = "terminated"
    BY <1>1, <1>2, <1>6, <1>7 DEF Owed, TopIn
  <2>3. op.result = "terminated" => causes # {}
    BY <1>1, <1>2, <1>3, <1>6, <1>7 DEF Blame, Owed, Reports, TopIn, Over
  <2> QED
    BY <1>5, <1>7, <2>1, <2>2, <2>3 DEF Reports, Ran
<1>17. Fits(op) /\ ~Marked(op) /\ ~Marked(Top)
  BY <1>1, <1>2, <1>7 DEF Fits, Marked, Hosted
<1>18. nextGeneration' >= nextGeneration
  BY <1>2, <1>8, RequestsAssumption DEF Globals, Timer!TypeOK
<1>19. TimerStep
  <2>1. CASE Top.gen = None
    <3>1. OpenGenerations' = OpenGenerations
      BY <1>1, <1>2, <1>5, <1>7, <2>1, TopKeepsOpen
    <3> QED
      BY <2>1, <3>1, SameOpenSameTimer DEF Disarm, DisarmWatchdog
  <2>2. CASE Top.gen # None
    BY <1>15, <2>2 DEF Disarm, DisarmWatchdog, TimerStep, Timer!Next
  <2> QED
    BY <2>1, <2>2
<1> QED
  BY <1>19, <1>1, <1>2, <1>5, <1>7, <1>10, <1>12, <1>13, <1>14, <1>16, <1>17, <1>18, TopStep
     DEF Over

-----------------------------------------------------------------------------
(* Steps that end a request, or begin one *)

LEMMA NothingOpen ==
  ASSUME RInv, Depth = 0 \/ (Depth = 1 /\ Top.phase \in Closed)
  PROVE  OpenGenerations = {} /\ firedGeneration = None /\ armed = {} /\ expired = {}
<1>1. Depth \in Nat /\ DOMAIN ops = 1..Depth /\ Timer!TypeOK
  BY StackFacts DEF RInv, TypeOK
<1>2. InBracket = {}
  BY <1>1 DEF InBracket, Top
<1> QED
  BY <1>1, <1>2 DEF OpenGenerations, Timer!TypeOK, Timer!None, None

(* The end sweep erases a terminate only when the watchdog raised it. *)
LEMMA SweepInductive ==
  ASSUME RInv, Sweep
  PROVE  RInv' /\ TimerStep
<1>1. ~Idle /\ Top.phase = "reply" /\ Depth = 1
  BY DEF Sweep, TopIn, Outermost
<1>2. /\ Top \in Op /\ Fits(Top) /\ Reports(Top) /\ Globals /\ Blame /\ Owed
      /\ draining <=> MarkedBelow(Depth) \/ Marked(Top)
      /\ TerminateSurvivesNesting /\ SlotRemembers /\ ops \in Seq(Op)
  BY <1>1, TopFacts DEF RInv, TypeOK, Globals
<1>3. OpenGenerations = {} /\ firedGeneration = None
  BY <1>1, NothingOpen DEF Closed, Over
<1>4. PICK op : op = [Top EXCEPT !.phase = "swept"]
  OBVIOUS
<1>5. SetTop(op) /\ UNCHANGED <<oomFired, draining, timer, hit, ceilingHit>>
  BY <1>4 DEF Sweep, GoTo
<1>6. /\ op \in Op /\ op.gen = Top.gen /\ op.phase = "swept" /\ op.kind = Top.kind
      /\ op.from = Top.from /\ op.ranJs = Top.ranJs /\ op.result = Top.result
  BY <1>2, <1>4 DEF Op, Phase
<1>7. OpenGenerations' = OpenGenerations
  BY <1>1, <1>2, <1>5, <1>6, TopKeepsOpen DEF Closed, Over
<1>8. \/ watchdogFired' = FALSE /\ term' = "none" /\ causes' = {}
      \/ ~watchdogFired /\ watchdogFired' = FALSE /\ term' = term /\ causes' = causes
  BY <1>2 DEF Sweep, CancelTerminate, Globals
<1>9. Globals'
  BY <1>2, <1>5, <1>7, <1>8, SameOpenSameTimer DEF Globals, timer
<1>10. ~Idle' /\ Top' = op
  BY <1>1, <1>2, <1>5, <1>6, SetTopFacts
<1>11. Blame' /\ Owed'
  BY <1>1, <1>2, <1>3, <1>5, <1>6, <1>8, <1>10 DEF Blame, Owed, TopIn, Over, None, timer
<1>12. TerminateSurvivesNesting' /\ SlotRemembers'
  BY <1>1, <1>2, <1>3, <1>5, <1>7, <1>8, <1>10
     DEF TerminateSurvivesNesting, SlotRemembers, TopIn, timer
<1>13. Reports(op)'
  BY <1>1, <1>2, <1>5, <1>6, <1>8 DEF Reports, Closed, Over, Ran
<1>14. Fits(op) /\ ~Marked(op) /\ ~Marked(Top)
  BY <1>1, <1>2, <1>6 DEF Fits, Marked, Hosted
<1>15. nextGeneration' >= nextGeneration
  BY <1>2, <1>5, RequestsAssumption DEF Globals, Timer!TypeOK, timer
<1>16. TimerStep
  BY <1>5, <1>7, SameOpenSameTimer
<1> QED
  BY <1>16, <1>1, <1>2, <1>5, <1>6, <1>9, <1>11, <1>12, <1>13, <1>14, <1>15, TopStep

(* The recovery relabels what the ceiling terminated, and clears what the   *)
(* collection it forced has raised.                                         *)
LEMMA RecoverInductive ==
  ASSUME RInv, Recover
  PROVE  RInv' /\ TimerStep
<1>1. ~Idle /\ Top.phase \in {"swept", "gc"}
      /\ UNCHANGED <<watchdogFired, draining, timer, hit, ceilingHit>>
  BY DEF Recover, NoRecovery, TakeOomFired, FinishRecovery, TopIn
<1>2. /\ Top \in Op /\ Fits(Top) /\ Reports(Top) /\ Globals /\ Blame /\ Owed /\ Depth = 1
      /\ draining <=> MarkedBelow(Depth) \/ Marked(Top)
      /\ TerminateSurvivesNesting /\ SlotRemembers /\ ops \in Seq(Op)
  BY <1>1, TopFacts DEF RInv, TypeOK, Globals, Over
<1>3. OpenGenerations = {} /\ firedGeneration = None
  BY <1>1, <1>2, NothingOpen DEF Closed, Over
<1>4. PICK phase, result :
        /\ SetTop([Top EXCEPT !.phase = phase, !.result = result])
        /\ \/ /\ Top.phase = "swept" /\ ~oomFired /\ phase = "done" /\ result = Top.result
              /\ UNCHANGED <<term, oomFired, causes>>
           \/ /\ Top.phase = "swept" /\ oomFired /\ phase = "gc" /\ result = Top.result
              /\ oomFired' = FALSE /\ UNCHANGED <<term, causes>>
           \/ /\ Top.phase = "gc" /\ phase = "done" /\ result = Relabel(Top.result)
              /\ oomFired' = FALSE /\ term' = "none" /\ causes' = {}
  <2>1. \A phase : [Top EXCEPT !.phase = phase]
                      = [Top EXCEPT !.phase = phase, !.result = Top.result]
    BY <1>2 DEF Op
  <2>2. CASE NoRecovery
    <3>1. SetTop([Top EXCEPT !.phase = "done", !.result = Top.result])
      BY <2>1, <2>2 DEF NoRecovery, GoTo
    <3> QED
      BY <2>2, <3>1 DEF NoRecovery, TopIn
  <2>3. CASE TakeOomFired
    <3>1. SetTop([Top EXCEPT !.phase = "gc", !.result = Top.result])
      BY <2>1, <2>3 DEF TakeOomFired, GoTo
    <3> QED
      BY <2>3, <3>1 DEF TakeOomFired, TopIn
  <2>4. CASE FinishRecovery
    BY <2>4 DEF FinishRecovery, CancelTerminate, TopIn
  <2> QED
    BY <2>2, <2>3, <2>4 DEF Recover
<1>5. /\ result \in {"ok", "error", "terminated", "oom"}
      /\ phase \in {"gc", "done"}
      /\ Top.result \in Good => result \in Good
      /\ Top.phase = "gc" /\ Top.result = "terminated" => result = "oom"
  BY <1>2, <1>4 DEF Relabel, Op, Good
<1>6. PICK op : op = [Top EXCEPT !.phase = phase, !.result = result]
  OBVIOUS
<1>7. /\ op \in Op /\ op.gen = Top.gen /\ op.phase = phase /\ op.kind = Top.kind
      /\ op.from = Top.from /\ op.ranJs = Top.ranJs /\ op.result = result
      /\ SetTop(op)
  BY <1>2, <1>4, <1>5, <1>6 DEF Op, Phase
<1>8. OpenGenerations' = OpenGenerations
  BY <1>1, <1>2, <1>5, <1>7, TopKeepsOpen DEF Closed, Over
<1>9. Globals'
  BY <1>1, <1>2, <1>4, <1>8, SameOpenSameTimer DEF Globals, timer
<1>10. ~Idle' /\ Top' = op
  BY <1>1, <1>2, <1>7, SetTopFacts
<1>11. TerminateSurvivesNesting' /\ SlotRemembers'
  BY <1>1, <1>2, <1>3, <1>4, <1>8, <1>10
     DEF TerminateSurvivesNesting, SlotRemembers, TopIn, timer
<1>12. Blame'
  BY <1>1, <1>2, <1>3, <1>4, <1>7, <1>10 DEF Blame, TopIn, None, timer, Over
<1>13. Owed'
  BY <1>1, <1>2, <1>4, <1>7, <1>10 DEF Owed, TopIn
<1>14. Reports(op)'
  <2>1. Ran(op) <=> Ran(Top)
    BY <1>7 DEF Ran
  <2>2. Ran(op) /\ op.gen # None /\ hit = {op.gen} => op.result \in Good
    BY <1>1, <1>2, <1>5, <1>7, <2>1 DEF Reports, Closed, Over
  <2>3. Ran(op) /\ op.kind = "bracketed" /\ ceilingHit =>
          op.result = IF op.phase = "done" THEN "oom" ELSE "terminated"
    <3>1. Ran(Top) /\ Top.kind = "bracketed" /\ ceilingHit => Top.result = "terminated"
      BY <1>1, <1>2 DEF Reports, Closed, Over
    <3>2. ceilingHit /\ Top.phase = "swept" => oomFired
      BY <1>1, <1>2 DEF Owed, TopIn
    <3> QED
      BY <1>4, <1>5, <1>7, <2>1, <3>1, <3>2
  <2> QED
    BY <1>1, <1>5, <1>7, <2>2, <2>3 DEF Reports, Ran, Over
<1>15. Fits(op) /\ ~Marked(op) /\ ~Marked(Top)
  BY <1>1, <1>2, <1>5, <1>7 DEF Fits, Marked, Hosted
<1>16. nextGeneration' >= nextGeneration
  BY <1>1, <1>2, RequestsAssumption DEF Globals, Timer!TypeOK, timer
<1>17. TimerStep
  BY <1>1, <1>8, SameOpenSameTimer
<1>18. draining' <=> MarkedBelow(Depth) \/ Marked(op)
  BY <1>1, <1>2, <1>15
<1> QED
  BY <1>17, <1>1, <1>2, <1>7, <1>9, <1>11, <1>12, <1>13, <1>14, <1>15, <1>16, <1>18, TopStep

LEMMA AppendElements ==
  ASSUME NEW T, NEW q \in Seq(T), NEW e \in T
  PROVE  /\ Append(q, e) \in Seq(T)
         /\ Len(Append(q, e)) = Len(q) + 1
         /\ \A i \in 1..Len(q) : Append(q, e)[i] = q[i]
         /\ Append(q, e)[Len(q) + 1] = e
  OBVIOUS

LEMMA CutElements ==
  ASSUME NEW T, NEW q \in Seq(T), NEW k \in 0..Len(q)
  PROVE  /\ SubSeq(q, 1, k) \in Seq(T)
         /\ Len(SubSeq(q, 1, k)) = k
         /\ \A i \in 1..k : SubSeq(q, 1, k)[i] = q[i]
  OBVIOUS

(* What is below the top keeps its place. *)
LEMMA SamePlace ==
  ASSUME NEW i \in DOMAIN ops, i \in DOMAIN ops', ops \in Seq(Op), ops' \in Seq(Op),
         \A j \in 1..i : ops'[j] = ops[j], nextGeneration' = nextGeneration,
         Shaped(i), i = Depth' \/ i < Depth
  PROVE  Shaped(i)'
<1>1. /\ Depth \in Nat /\ DOMAIN ops = 1..Depth /\ Depth' \in Nat /\ DOMAIN ops' = 1..Depth'
      /\ i \in Nat
  BY DEF Depth
<1>2. ops'[i] = ops[i] /\ \A j \in DOMAIN ops' : j < i => j \in DOMAIN ops /\ ops'[j] = ops[j]
  BY <1>1
<1>3. MarkedBelow(i)' <=> MarkedBelow(i)
  BY <1>1, <1>2 DEF MarkedBelow, Marked, Hosted
<1>4. i < Depth' => i < Depth
  BY <1>1
<1> QED
  BY <1>1, <1>2, <1>3, <1>4 DEF Shaped, Fits, Marked, Hosted, None, Depth

(* A nested request returns into the host function that waits for it. *)
LEMMA NestedReturnInductive ==
  ASSUME RInv, NestedReturn
  PROVE  RInv' /\ TimerStep
<1>1. ~Idle /\ Top.phase = "reply" /\ Depth # 1
  BY DEF NestedReturn, TopIn, Outermost
<1>2. /\ ops \in Seq(Op) /\ Len(ops) <= MaxDepth
      /\ Depth \in Nat /\ DOMAIN ops = 1..Depth /\ Depth > 1 /\ Len(ops) = Depth
      /\ \A i \in DOMAIN ops : Shaped(i) /\ Reports(ops[i])
      /\ Globals /\ Blame /\ Owed /\ TerminateSurvivesNesting /\ SlotRemembers
  BY <1>1, StackFacts DEF RInv, TypeOK, Globals, Depth
<1>3. UNCHANGED <<term, watchdogFired, oomFired, draining, timer, causes, hit, ceilingHit>>
  BY DEF NestedReturn
<1>4. PICK d \in Nat : d = Depth - 1
  BY <1>2
<1>5. /\ ops' \in Seq(Op) /\ Len(ops') = d /\ DOMAIN ops' = 1..d
      /\ \A i \in 1..d : ops'[i] = ops[i]
  <2>1. d \in 0..Len(ops) /\ ops' = SubSeq(ops, 1, d)
    BY <1>2, <1>4 DEF NestedReturn
  <2> QED
    BY <1>2, <2>1, CutElements
<1>6. /\ Depth' = d /\ ~Idle' /\ d >= 1 /\ Top' = ops[d] /\ ops[d].phase \in Hosted
      /\ \A i \in DOMAIN ops' : i \in DOMAIN ops /\ i < Depth
  <2>1. d >= 1 /\ d < Len(ops) /\ d \in DOMAIN ops
    BY <1>2, <1>4
  <2>2. ops[d].phase \in Hosted
    BY <1>2, <2>1 DEF Shaped
  <2> QED
    BY <1>2, <1>4, <1>5, <2>1, <2>2 DEF Depth, Idle, Top
<1>7. OpenGenerations' = OpenGenerations
  <2>1. ASSUME NEW g PROVE g \in OpenGenerations' <=> g \in OpenGenerations
    <3>1. g \in OpenGenerations' <=>
            g # None /\ \E i \in DOMAIN ops' : ops'[i].phase \notin Closed /\ ops'[i].gen = g
      BY DEF OpenGenerations, InBracket, None, Closed, Over
    <3>2. \A i \in DOMAIN ops : i \in DOMAIN ops' \/ ops[i].phase \in Closed
      BY <1>1, <1>2, <1>4, <1>5 DEF Top, Closed, Over
    <3> QED
      BY <1>5, <1>6, <3>1, <3>2, OpenIs
  <2> QED
    BY <2>1
<1>8. Globals'
  BY <1>2, <1>3, <1>7, SameOpenSameTimer DEF Globals, timer
<1>9. TypeOK'
  <2>1. d <= MaxDepth
    BY <1>2, <1>4, RequestsAssumption
  <2> QED
    BY <1>5, <1>8, <2>1 DEF TypeOK, Globals
<1>10. ASSUME NEW i \in DOMAIN ops' PROVE Shaped(i)'
  BY <1>2, <1>3, <1>5, <1>6, SamePlace DEF timer
<1>11. DrainingIsMarked'
  <2>1. (\E i \in DOMAIN ops' : Marked(ops'[i])) <=> \E i \in DOMAIN ops : Marked(ops[i])
    <3>1. \A i \in DOMAIN ops : i \in DOMAIN ops' \/ ~Marked(ops[i])
      BY <1>1, <1>2, <1>4, <1>5 DEF Top, Marked, Hosted
    <3> QED
      BY <1>5, <1>6, <3>1
  <2> QED
    BY <1>3, <2>1 DEF RInv, DrainingIsMarked, Marked, Hosted
<1>12. Blame' /\ Owed' /\ TerminateSurvivesNesting' /\ SlotRemembers'
  BY <1>1, <1>2, <1>3, <1>6, <1>7
     DEF Blame, Owed, TerminateSurvivesNesting, SlotRemembers, TopIn, Over, Hosted, timer
<1>13. ASSUME NEW i \in DOMAIN ops' PROVE Reports(ops[i])'
  BY <1>2, <1>3, <1>5, <1>6 DEF Reports
<1>14. TimerStep
  BY <1>3, <1>7, SameOpenSameTimer
<1> QED
  BY <1>14, <1>9, <1>10, <1>11, <1>12, <1>13 DEF RInv

(* The outermost request is over. *)
LEMMA ReturnInductive ==
  ASSUME RInv, Return
  PROVE  RInv' /\ TimerStep
<1>1. ~Idle /\ Top.phase = "done" /\ ops' = <<>>
      /\ UNCHANGED <<term, watchdogFired, oomFired, draining, timer, causes, hit, ceilingHit>>
  BY DEF Return, TopIn
<1>2. /\ Globals /\ Blame /\ Owed /\ Depth = 1 /\ DrainingIsMarked /\ ops \in Seq(Op)
      /\ draining <=> MarkedBelow(Depth) \/ Marked(Top)
  BY <1>1, TopFacts DEF RInv, TypeOK, Globals, Over
<1>3. OpenGenerations = {}
  BY <1>1, <1>2, NothingOpen DEF Closed, Over
<1>4. OpenGenerations' = {} /\ Idle' /\ DOMAIN ops' = {} /\ Len(ops') = 0
  BY <1>1 DEF OpenGenerations, InBracket, Idle
<1>5. Globals'
  BY <1>1, <1>2, <1>3, <1>4, SameOpenSameTimer DEF Globals, timer
<1>6. TypeOK'
  BY <1>1, <1>4, <1>5, RequestsAssumption DEF TypeOK, Globals
<1>7. ~draining
  BY <1>1, <1>2, StackFacts DEF MarkedBelow, Marked, Hosted
<1>8. DrainingIsMarked'
  BY <1>1, <1>4, <1>7 DEF DrainingIsMarked
<1>9. Blame' /\ Owed' /\ TerminateSurvivesNesting' /\ SlotRemembers'
  BY <1>1, <1>2, <1>4
     DEF Blame, Owed, TerminateSurvivesNesting, SlotRemembers, TopIn, Over, timer
<1>10. TimerStep
  BY <1>1, <1>3, <1>4, SameOpenSameTimer
<1> QED
  BY <1>10, <1>4, <1>6, <1>8, <1>9 DEF RInv

(* A request begins: on an idle isolate it clears what an idle terminate   *)
(* left, inside another one it leaves the flag alone.                      *)
LEMMA BeginInductive ==
  ASSUME RInv, NEW kind \in Kind, Begin(kind)
  PROVE  RInv' /\ TimerStep
<1>1. PICK op : op = [kind |-> kind, gen |-> None, from |-> "js",
                      phase |-> IF kind = "plain" THEN "js" ELSE "arm",
                      saved |-> FALSE, ranJs |-> FALSE, result |-> "ok"]
  OBVIOUS
<1>2. /\ op \in Op /\ op.gen = None /\ op.phase \in {"js", "arm"} /\ op.from = "js"
      /\ op.result = "ok"
      /\ ~Marked(op) /\ Fits(op)
  <2>1. None \in 0..MaxArms
    BY RequestsAssumption DEF None
  <2> QED
    BY <1>1, <2>1 DEF Op, Phase, Kind, Marked, Fits
<1>3. /\ ops' = Append(ops, op) /\ Depth < MaxDepth
      /\ ~Idle => Top.phase \in Hosted
      /\ UNCHANGED <<watchdogFired, oomFired, draining, timer>>
      /\ Idle => term' = "none" /\ causes' = {} /\ hit' = {} /\ ceilingHit' = FALSE
      /\ ~Idle => UNCHANGED <<term, causes, hit, ceilingHit>>
  BY <1>1 DEF Begin, ClearLeftover, TopIn
<1>4. /\ ops \in Seq(Op) /\ Depth \in Nat /\ DOMAIN ops = 1..Depth /\ Len(ops) = Depth
      /\ Globals /\ Blame /\ Owed /\ TerminateSurvivesNesting /\ SlotRemembers
      /\ Idle <=> Depth = 0
      /\ \A i \in DOMAIN ops : Shaped(i) /\ Reports(ops[i])
      /\ nextGeneration \in Nat
  BY StackFacts, RequestsAssumption DEF RInv, TypeOK, Globals, Depth, Timer!TypeOK
<1>5. PICK d \in Nat : d = Depth + 1
  BY <1>4
<1>6. /\ ops' \in Seq(Op) /\ Len(ops') = d /\ DOMAIN ops' = 1..d /\ ops'[d] = op
      /\ \A i \in 1..Depth : ops'[i] = ops[i]
  BY <1>2, <1>3, <1>4, <1>5, AppendElements
<1>7. Depth' = d /\ ~Idle' /\ Top' = op /\ d >= 1
  BY <1>4, <1>5, <1>6 DEF Depth, Idle, Top
<1>8. \A i \in DOMAIN ops' : i = d \/ (i \in DOMAIN ops /\ i < d)
  BY <1>4, <1>5, <1>6
<1>9. OpenGenerations' = OpenGenerations
  <2>1. ASSUME NEW g PROVE g \in OpenGenerations' <=> g \in OpenGenerations
    <3>1. g \in OpenGenerations' <=>
            g # None /\ \E i \in DOMAIN ops' : ops'[i].phase \notin Closed /\ ops'[i].gen = g
      BY DEF OpenGenerations, InBracket, None, Closed, Over
    <3>2. \A i \in DOMAIN ops : i \in DOMAIN ops' /\ ops'[i] = ops[i]
      BY <1>4, <1>5, <1>6
    <3> QED
      BY <1>2, <1>6, <1>8, <3>1, <3>2, OpenIs
  <2> QED
    BY <2>1
<1>10. Globals'
  BY <1>3, <1>4, <1>9, SameOpenSameTimer DEF Globals, timer
<1>11. TypeOK'
  <2>1. d <= MaxDepth
    BY <1>3, <1>4, <1>5, RequestsAssumption
  <2> QED
    BY <1>6, <1>10, <2>1 DEF TypeOK, Globals
<1>12. ASSUME NEW i \in DOMAIN ops' PROVE Shaped(i)'
  <2>1. CASE i = d
    BY <1>2, <1>3, <1>4, <1>6, <1>7, <2>1
       DEF Shaped, Fits, Marked, Hosted, Over, None, timer
  <2>2. CASE i # d /\ i # Depth
    <3>1. i \in DOMAIN ops /\ i < Depth /\ Shaped(i) /\ \A j \in 1..i : ops'[j] = ops[j]
      BY <1>4, <1>5, <1>6, <1>8, <2>2
    <3> QED
      BY <1>3, <1>4, <1>6, <3>1, SamePlace DEF timer
  <2>3. CASE i = Depth
    <3>1. /\ i \in DOMAIN ops /\ Shaped(i) /\ ops[i].phase \in Hosted /\ ops'[i] = ops[i]
          /\ \A j \in 1..i : ops'[j] = ops[j]
      BY <1>3, <1>4, <1>6, <1>8, <2>3, <1>5 DEF Top
    <3>2. MarkedBelow(i)' <=> MarkedBelow(i)
      BY <1>4, <1>5, <1>6, <2>3, <3>1 DEF MarkedBelow, Marked, Hosted
    <3> QED
      BY <1>3, <1>4, <1>5, <1>6, <2>3, <3>1, <3>2 DEF Shaped, Fits, Marked, Hosted, None, timer
  <2> QED
    BY <2>1, <2>2, <2>3
<1>13. DrainingIsMarked'
  <2>1. (\E i \in DOMAIN ops' : Marked(ops'[i])) <=> \E i \in DOMAIN ops : Marked(ops[i])
    <3>1. \A i \in DOMAIN ops : i \in DOMAIN ops' /\ ops'[i] = ops[i]
      BY <1>4, <1>5, <1>6
    <3> QED
      BY <1>2, <1>6, <1>8, <3>1
  <2> QED
    BY <1>3, <2>1 DEF RInv, DrainingIsMarked, Marked, Hosted
<1>14. Idle => firedGeneration = None
  BY <1>4, NothingOpen
<1>15. Idle => OpenGenerations = {}
  BY <1>4, NothingOpen
<1>16. Blame' /\ Owed'
  BY <1>2, <1>3, <1>4, <1>7, <1>14 DEF Blame, Owed, TopIn, Over, Hosted, timer
<1>17. TerminateSurvivesNesting' /\ SlotRemembers'
  BY <1>2, <1>3, <1>4, <1>7, <1>9, <1>15
     DEF TerminateSurvivesNesting, SlotRemembers, TopIn, Hosted, timer
<1>18. ASSUME NEW i \in DOMAIN ops' PROVE Reports(ops[i])'
  <2>1. CASE i = d
    BY <1>2, <1>6, <2>1 DEF Reports, Closed, Over
  <2>2. CASE i # d
    <3>1. i \in DOMAIN ops /\ Reports(ops[i]) /\ ops'[i] = ops[i] /\ ~Idle
      BY <1>4, <1>5, <1>6, <1>8, <2>2
    <3> QED
      BY <1>3, <3>1 DEF Reports
  <2> QED
    BY <2>1, <2>2
<1>19. TimerStep
  BY <1>3, <1>9, SameOpenSameTimer
<1> QED
  BY <1>19, <1>11, <1>12, <1>13, <1>16, <1>17, <1>18 DEF RInv

-----------------------------------------------------------------------------
(* Steps of the others: the script unwinds, somebody raises the flag, time *)
(* passes, the watchdog acts, the isolate is torn down.                    *)

LEMMA WorldStep ==
  ASSUME RInv, UNCHANGED <<ops, draining, nextGeneration>>,
         Globals', Blame', Owed', TerminateSurvivesNesting', SlotRemembers',
         \A i \in DOMAIN ops : Reports(ops[i])'
  PROVE  RInv'
<1>1. ASSUME NEW i \in DOMAIN ops' PROVE Shaped(i)'
  <2>1. Shaped(i)
    BY DEF RInv
  <2> QED
    BY <2>1 DEF Shaped, Fits, Marked, Hosted, MarkedBelow, None
<1>2. DrainingIsMarked'
  BY DEF RInv, DrainingIsMarked
<1>3. TypeOK'
  BY DEF RInv, TypeOK, Globals
<1>4. ASSUME NEW i \in DOMAIN ops' PROVE Reports(ops[i])'
  BY <1>4
<1> QED
  BY <1>1, <1>2, <1>3, <1>4 DEF RInv

(* A suspended request waits for a host function; it has replied nothing. *)
LEMMA OnlyTheTopCloses ==
  ASSUME RInv, NEW i \in DOMAIN ops, ops[i].phase \in Closed
  PROVE  i = Depth /\ Top = ops[i] /\ ~Idle
<1>1. Shaped(i) /\ Depth \in Nat /\ DOMAIN ops = 1..Depth
  BY StackFacts DEF RInv, TypeOK
<1>2. i = Depth
  BY <1>1 DEF Shaped, Closed, Over, Hosted, Depth
<1> QED
  BY <1>1, <1>2 DEF Top, Idle, Depth

LEMMA RaiseInductive ==
  ASSUME RInv, Notice \/ UserTerminate \/ NearHeapLimit
  PROVE  RInv' /\ TimerStep
<1>1. /\ UNCHANGED <<ops, watchdogFired, draining, timer, hit>>
      /\ Globals /\ Blame /\ Owed /\ TerminateSurvivesNesting /\ SlotRemembers
      /\ causes \subseteq causes' /\ causes' \subseteq {"watchdog", "user", "oom"}
      /\ "watchdog" \in causes' => "watchdog" \in causes
      /\ term' \in {"requested", "active"} /\ causes' # {}
      /\ \/ oomFired' = oomFired /\ ceilingHit' = ceilingHit /\ ("oom" \in causes' => "oom" \in causes)
         \/ /\ oomFired' = TRUE /\ ceilingHit' = TRUE /\ "oom" \in causes'
            /\ TopIn({"js", "drain", "handler", "gc"})
  <2>1. Globals /\ Blame /\ Owed /\ TerminateSurvivesNesting /\ SlotRemembers
    BY DEF RInv, TypeOK, Globals
  <2>2. CASE Notice
    BY <2>1, <2>2 DEF Notice, Globals, Blame
  <2>3. CASE UserTerminate
    BY <2>1, <2>3 DEF UserTerminate, Raise, Globals
  <2>4. CASE NearHeapLimit
    BY <2>1, <2>4 DEF NearHeapLimit, Raise, Globals
  <2> QED
    BY <2>1, <2>2, <2>3, <2>4
<1>2. OpenGenerations' = OpenGenerations
  BY <1>1, SameStackSameOpen
<1>3. TimerStep /\ Timer!TypeOK'
  BY <1>1, <1>2, SameOpenSameTimer DEF Globals
<1>4. Globals'
  BY <1>1, <1>3 DEF Globals, timer
<1>5. \A phases : TopIn(phases)' <=> TopIn(phases)
  BY <1>1 DEF TopIn, Idle, Top, Depth
<1>6. Idle' <=> Idle
  BY <1>1 DEF Idle
<1>7. TopIn({"js", "drain", "handler", "gc"}) =>
        ~TopIn({"done"}) /\ ~TopIn({"swept"}) /\ ~Idle
  BY DEF TopIn
<1>8. Blame' /\ Owed'
  BY <1>1, <1>5, <1>6, <1>7 DEF Blame, Owed, timer, None
<1>9. TerminateSurvivesNesting' /\ SlotRemembers'
  BY <1>1, <1>2 DEF TerminateSurvivesNesting, SlotRemembers, timer
<1>10. ASSUME NEW i \in DOMAIN ops PROVE Reports(ops[i])'
  <2>1. Reports(ops[i])
    BY DEF RInv
  <2>2. CASE ops[i].phase \in Closed
    <3>1. /\ ~Idle /\ Top = ops[i]
          /\ TopIn({"js", "drain", "handler", "gc"}) => TopIn({"gc"})
      BY <2>2, OnlyTheTopCloses DEF TopIn, Closed, Over
    <3>2. ceilingHit' = ceilingHit
      BY <1>1, <3>1 DEF Owed, Globals
    <3> QED
      BY <1>1, <2>1, <3>2 DEF Reports, Ran
  <2>3. CASE ops[i].phase \notin Closed
    BY <1>1, <2>1, <2>3 DEF Reports, Closed, Over
  <2> QED
    BY <2>2, <2>3
<1> QED
  BY <1>1, <1>3, <1>4, <1>8, <1>9, <1>10, WorldStep DEF timer

(* The deadline is still open, so its request has not replied. *)
LEMMA WatchdogFiresInductive ==
  ASSUME RInv, NEW g \in expired, WatchdogFires(g)
  PROVE  RInv' /\ TimerStep
<1>1. /\ UNCHANGED <<ops, watchdogFired, oomFired, draining, ceilingHit>>
      /\ term' = IF term = "none" THEN "requested" ELSE term
      /\ causes' = causes \cup {"watchdog"} /\ hit' = hit \cup {g}
      /\ Timer!Fire(g)
  BY DEF WatchdogFires, Raise
<1>2. /\ Globals /\ Blame /\ Owed /\ TerminateSurvivesNesting /\ SlotRemembers
      /\ g \in OpenGenerations /\ g # None /\ g \in 1..nextGeneration
  <2>1. Globals /\ Blame /\ Owed /\ TerminateSurvivesNesting /\ SlotRemembers
    BY DEF RInv, TypeOK, Globals
  <2>2. g \in OpenGenerations /\ g \in 1..nextGeneration
    BY <2>1 DEF Globals, Timer!TypeOK
  <2> QED
    BY <2>1, <2>2, OpenIs
<1>3. /\ armed' = armed \ {g} /\ expired' = expired \ {g} /\ firedGeneration' = g
      /\ UNCHANGED <<OpenGenerations, nextGeneration, shutdown>>
  BY <1>1 DEF Timer!Fire
<1>4. TimerStep
  BY <1>1 DEF TimerStep, Timer!Next
<1>5. Timer!TypeOK'
  BY <1>2, <1>3 DEF Globals, Timer!TypeOK, Timer!None
<1>6. term' \in {"requested", "active"} /\ Globals'
  BY <1>1, <1>2, <1>3, <1>5 DEF Globals
<1>7. PICK j \in DOMAIN ops : ops[j].phase \notin Closed /\ ops[j].gen = g
  BY <1>2, OpenIs
<1>8. \A phases : TopIn(phases)' <=> TopIn(phases)
  BY <1>1 DEF TopIn, Idle, Top, Depth
<1>9. Idle' <=> Idle
  BY <1>1 DEF Idle
<1>10. Blame' /\ Owed'
  BY <1>1, <1>2, <1>3, <1>6, <1>8, <1>9 DEF Blame, Owed, None
<1>11. TerminateSurvivesNesting' /\ SlotRemembers'
  BY <1>1, <1>2, <1>3, <1>6 DEF TerminateSurvivesNesting, SlotRemembers
<1>12. ASSUME NEW i \in DOMAIN ops PROVE Reports(ops[i])'
  <2>1. Reports(ops[i]) /\ Shaped(i)
    BY DEF RInv
  <2>2. ops[i].phase \in Closed => ops[i].gen = None \/ ops[i].gen # g
    <3>1. SUFFICES ASSUME ops[i].phase \in Closed, ops[i].gen = g, ops[i].gen # None
                   PROVE  FALSE
      OBVIOUS
    <3>2. i = Depth /\ j # i /\ Depth \in Nat /\ DOMAIN ops = 1..Depth
      BY <1>7, <3>1, OnlyTheTopCloses, StackFacts DEF RInv, TypeOK
    <3>3. j < i
      BY <1>7, <3>2
    <3>4. ops[j].gen < ops[i].gen
      BY <2>1, <3>1, <3>3 DEF Shaped
    <3> QED
      BY <1>2, <1>7, <3>1, <3>4
  <2> QED
    BY <1>1, <1>2, <2>1, <2>2 DEF Reports, Ran, None
<1> QED
  BY <1>1, <1>3, <1>4, <1>6, <1>10, <1>11, <1>12, WorldStep

LEMMA TimePassesInductive ==
  ASSUME RInv, Teardown \/ \E gs \in SUBSET armed : DeadlinesPass(gs)
  PROVE  RInv' /\ TimerStep
<1>1. UNCHANGED <<ops, term, watchdogFired, oomFired, draining, causes, hit, ceilingHit>>
  BY DEF Teardown, DeadlinesPass
<1>2. Globals /\ Blame /\ Owed /\ TerminateSurvivesNesting /\ SlotRemembers
  BY DEF RInv, TypeOK, Globals
<1>3. /\ TimerStep /\ Timer!TypeOK'
      /\ UNCHANGED <<OpenGenerations, nextGeneration, firedGeneration>>
  <2>1. CASE Teardown
    BY <1>2, <2>1 DEF Teardown, Timer!RequestShutdown, TimerStep, Timer!Next,
                      Globals, Timer!TypeOK, Timer!None
  <2>2. ASSUME NEW gs \in SUBSET armed, DeadlinesPass(gs)
        PROVE  /\ TimerStep /\ Timer!TypeOK'
               /\ UNCHANGED <<OpenGenerations, nextGeneration, firedGeneration>>
    BY <1>2, <2>2 DEF DeadlinesPass, Timer!Expire, TimerStep, Timer!Next,
                      Globals, Timer!TypeOK, Timer!None
  <2> QED
    BY <2>1, <2>2
<1>4. Globals'
  BY <1>1, <1>2, <1>3 DEF Globals
<1>5. Blame' /\ Owed' /\ TerminateSurvivesNesting' /\ SlotRemembers'
  BY <1>1, <1>2, <1>3
     DEF Blame, Owed, TerminateSurvivesNesting, SlotRemembers, TopIn, Over, Idle, Top, Depth, None
<1>6. ASSUME NEW i \in DOMAIN ops PROVE Reports(ops[i])'
  BY <1>1 DEF RInv, Reports, Ran
<1> QED
  BY <1>1, <1>3, <1>4, <1>5, <1>6, WorldStep

-----------------------------------------------------------------------------
LEMMA InitInductive == Init => RInv /\ Timer!Init
<1> SUFFICES ASSUME Init PROVE RInv /\ Timer!Init
  OBVIOUS
<1>1. /\ DOMAIN ops = {} /\ Len(ops) = 0 /\ ops \in Seq(Op) /\ Idle
      /\ OpenGenerations = {}
  BY DEF Init, OpenGenerations, InBracket, Idle
<1>2. TypeOK
  <2>1. 0 \in 0..MaxArms /\ 0 <= MaxDepth
    BY RequestsAssumption
  <2>2. Timer!TypeOK
    BY <1>1, <2>1 DEF Init, Timer!TypeOK, Timer!None, None
  <2> QED
    BY <1>1, <2>1, <2>2 DEF Init, TypeOK
<1>3. DrainingIsMarked /\ Blame /\ Owed /\ TerminateSurvivesNesting /\ SlotRemembers
  BY <1>1 DEF Init, DrainingIsMarked, Blame, Owed, TerminateSurvivesNesting,
              SlotRemembers, TopIn, Over, None
<1>4. Timer!Init
  BY <1>1 DEF Init, Timer!Init, Timer!None, None
<1> QED
  BY <1>1, <1>2, <1>3, <1>4 DEF RInv

LEMMA StepInductive == RInv /\ [Next]_vars => RInv' /\ TimerStep
<1> SUFFICES ASSUME RInv, [Next]_vars PROVE RInv' /\ TimerStep
  OBVIOUS
<1>1. ASSUME NEW kind \in Kind, Begin(kind) PROVE RInv' /\ TimerStep
  BY <1>1, BeginInductive
<1>2. CASE BindingStep
  BY <1>2, ArmTimedInductive, ScriptInductive, DisarmInductive, NestedReturnInductive,
     SweepInductive, RecoverInductive, ReturnInductive DEF BindingStep
<1>3. CASE UnwindStep \/ ScriptStep \/ HostReturn \/ HandlerReturn \/ HandlerAbsorbs
  BY <1>3, ScriptInductive DEF UnwindStep, ScriptStep
<1>4. CASE Notice \/ UserTerminate \/ NearHeapLimit
  BY <1>4, RaiseInductive
<1>5. ASSUME NEW g \in expired, WatchdogFires(g) PROVE RInv' /\ TimerStep
  BY <1>5, WatchdogFiresInductive
<1>6. CASE Teardown \/ \E gs \in SUBSET armed : DeadlinesPass(gs)
  BY <1>6, TimePassesInductive
<1>7. CASE UNCHANGED vars
  <2>1. UNCHANGED <<ops, term, watchdogFired, oomFired, draining, timer, causes, hit, ceilingHit>>
    BY <1>7 DEF vars
  <2>2. OpenGenerations' = OpenGenerations
    BY <2>1, SameStackSameOpen
  <2>3. Globals /\ Blame /\ Owed /\ TerminateSurvivesNesting /\ SlotRemembers
    BY DEF RInv, TypeOK, Globals
  <2>4. TimerStep /\ Globals'
    BY <2>1, <2>2, <2>3, SameOpenSameTimer DEF Globals, timer
  <2>5. Blame' /\ Owed' /\ TerminateSurvivesNesting' /\ SlotRemembers'
    BY <2>1, <2>2, <2>3
       DEF Blame, Owed, TerminateSurvivesNesting, SlotRemembers, TopIn, Over, Idle, Top, Depth, None, timer
  <2>6. ASSUME NEW i \in DOMAIN ops PROVE Reports(ops[i])'
    BY <2>1 DEF RInv, Reports, Ran
  <2> QED
    BY <2>1, <2>4, <2>5, <2>6, WorldStep DEF timer
<1> QED
  BY <1>1, <1>2, <1>3, <1>4, <1>5, <1>6, <1>7 DEF Next

LEMMA RInvHolds == Spec => []RInv
BY InitInductive, StepInductive, PTL DEF Spec

-----------------------------------------------------------------------------
(***************************************************************************)
(* The timer's facts, and those of the requests on the stack, have their   *)
(* types in every reachable state: the report slot holds the generation of *)
(* a request that has not disarmed yet, or nothing.                        *)
(***************************************************************************)
THEOREM TypeCorrect == Spec => []TypeOK
<1>1. RInv => TypeOK
  BY DEF RInv
<1> QED
  BY <1>1, RInvHolds, PTL

(* service_request and Core::run leave nothing behind for the next request, *)
(* and no request replies Terminated unless somebody raised the flag.       *)
THEOREM NothingLeaks == Spec => []IdleIsClean
<1>1. RInv => IdleIsClean
  <2> SUFFICES ASSUME RInv PROVE IdleIsClean
    OBVIOUS
  <2>1. Timer!TypeOK /\ Blame /\ TypeOK
    BY DEF RInv, TypeOK
  <2>2. ASSUME Idle
        PROVE  /\ armed = {} /\ firedGeneration = None
               /\ ~watchdogFired /\ ~oomFired /\ ~draining
               /\ term # "none" => causes = {"user"}
    <3>1. DOMAIN ops = {} /\ Depth = 0
      BY <2>2 DEF Idle, Depth
    <3>2. armed = {} /\ firedGeneration = None
      BY <3>1, NothingOpen
    <3>3. ~watchdogFired /\ ~oomFired
      BY <2>1, <2>2 DEF Blame, Owed
    <3>4. ~draining
      BY <3>1 DEF RInv, DrainingIsMarked
    <3>5. term # "none" => causes = {"user"}
      BY <2>1, <2>2, <3>2, <3>3 DEF Blame, TypeOK, TopIn
    <3> QED
      BY <3>2, <3>3, <3>4, <3>5
  <2>3. ASSUME NEW i \in DOMAIN ops, ops[i].result = "terminated",
               ops[1].phase \notin Over
        PROVE  causes # {}
    <3>1. Reports(ops[i]) /\ Shaped(i)
      BY DEF RInv
    <3> QED
      BY <2>3, <3>1 DEF Reports, Shaped
  <2> QED
    BY <2>2, <2>3 DEF IdleIsClean
<1> QED
  BY <1>1, RInvHolds, PTL

(* No nested return, sweep or reject handler erases a terminate. *)
THEOREM TerminatesEscalate == Spec => []TerminateSurvivesNesting
<1>1. RInv => TerminateSurvivesNesting
  BY DEF RInv
<1> QED
  BY <1>1, RInvHolds, PTL

(* run_js_bracketed and op_drain_microtasks turn an enforced deadline into *)
(* Terminated, whatever the script returned.                               *)
THEOREM TimeoutsAreReported == Spec => []TimeoutIsReported
<1>1. RInv => TimeoutIsReported
  BY DEF RInv, TimeoutIsReported, Replied, Reports, Good
<1> QED
  BY <1>1, RInvHolds, PTL

(* run_js_bracketed turns an OOM into Terminated, whatever the script       *)
(* returned, and Core::run relabels it in the outermost request's reply.    *)
THEOREM OomsAreReported == Spec => []OomIsReported
<1>1. RInv => OomIsReported
  BY DEF RInv, OomIsReported, Replied, Reports, Good
<1> QED
  BY <1>1, RInvHolds, PTL

(* The flag op_reset and op_dispose_context refuse on is set exactly while *)
(* a checkpoint of the binding is on the stack, at any depth.              *)
THEOREM CheckpointsAreMarked == Spec => []DrainingIsMarked
<1>1. RInv => DrainingIsMarked
  BY DEF RInv
<1> QED
  BY <1>1, RInvHolds, PTL

(* The generation a request disarms is the greatest open one: requests give *)
(* the watchdog's frames back in the reverse of the order they armed them.  *)
DisarmsInnermost ==
    TopIn({"disarm"}) /\ Top.gen # None => Timer!Innermost(Top.gen)

THEOREM DeadlinesNest == Spec => []DisarmsInnermost
<1>1. RInv => DisarmsInnermost
  <2> SUFFICES ASSUME RInv, ~Idle, Top.phase = "disarm", Top.gen # None
               PROVE  Timer!Innermost(Top.gen)
    BY DEF DisarmsInnermost, TopIn
  <2>1. /\ ops \in Seq(Op) /\ Depth \in Nat /\ DOMAIN ops = 1..Depth /\ Depth \in DOMAIN ops
        /\ \A i \in DOMAIN ops : ops[i] \in Op
    BY StackFacts DEF RInv, TypeOK
  <2>2. Top.gen \in OpenGenerations
    BY <2>1, OpenIs DEF Top, Closed, Over
  <2>3. ASSUME NEW h \in OpenGenerations PROVE h <= Top.gen
    <3>1. PICK i \in DOMAIN ops : ops[i].gen = h
      BY OpenIs
    <3>2. i < Depth => ops[i].gen < Top.gen
      BY <2>1 DEF RInv, Shaped, Top
    <3>3. h \in Nat /\ Top.gen \in Nat
      BY <2>1, <3>1 DEF Op, Top
    <3> QED
      BY <2>1, <3>1, <3>2, <3>3 DEF Top
  <2> QED
    BY <2>2, <2>3 DEF Timer!Innermost
<1> QED
  BY <1>1, RInvHolds, PTL

(* Requests use the watchdog of Deadlines.tla only by its own steps: what   *)
(* Watchdog.tla implements is what the stack of requests relies on.         *)
THEOREM UsesTheTimer == Spec => Timer!Safety
<1>1. RInv /\ [Next]_vars => [Timer!Next]_(Timer!vars)
  BY StepInductive DEF TimerStep
<1> QED
  BY <1>1, InitInductive, RInvHolds, PTL DEF Spec, Timer!Safety
=============================================================================
