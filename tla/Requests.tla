------------------------------ MODULE Requests ------------------------------
(***************************************************************************)
(* How one isolate services requests (Core::run, service_request and       *)
(* run_js_bracketed): the owner thread's stack of nested requests, V8's    *)
(* one terminate flag per isolate, and everybody who raises it -- the      *)
(* watchdog thread, Isolate#terminate from any thread, the heap ceiling    *)
(* callback -- against the bracket, the sweeps and the OOM recovery that   *)
(* decide what each request replies and whether the next one starts clean. *)
(*                                                                         *)
(* The watchdog is the abstract timer of Deadlines.tla.  Only the request  *)
(* on top of the stack runs; the ones below are suspended in a host        *)
(* function.  What JavaScript computes is abstracted to "ok": it returned  *)
(* a value or threw an exception of its own.                               *)
(***************************************************************************)
EXTENDS Naturals, Sequences

CONSTANTS
    AutoMode,       \* the isolate was created with microtasks: :auto
    MaxArms,        \* bound: how many deadlines are ever armed
    MaxDepth        \* bound: how deep requests nest

ASSUME RequestsAssumption ==
    /\ AutoMode \in BOOLEAN
    /\ MaxArms \in Nat
    /\ MaxDepth \in Nat \ {0}

VARIABLES
    ops,            \* the requests on the owner's stack, the outermost first
    term,           \* V8's terminate flag: requested, or noticed and unwinding
    watchdogFired,  \* IsolateState.watchdog_fired
    oomFired,       \* IsolateState.oom_fired
    draining,       \* IsolateState.draining
    (* the watchdog, as in Deadlines.tla *)
    armed, expired, nextGeneration, firedGeneration, shutdown,
    (* history *)
    causes,         \* who raised the flag since it was last cleared for a request
    hit,            \* generations enforced during the outermost request
    ceilingHit      \* the heap ceiling was hit during the outermost request

timer == <<armed, expired, nextGeneration, firedGeneration, shutdown>>
vars == <<ops, term, watchdogFired, oomFired, draining, timer, causes, hit, ceilingHit>>

None == 0
Over == {"swept", "gc", "done"}
Closed == {"reply"} \cup Over
InBracket == {i \in DOMAIN ops : ops[i].phase \notin Closed}
OpenGenerations == {ops[i].gen : i \in InBracket} \ {None}

Timer == INSTANCE Deadlines WITH open <- OpenGenerations

(***************************************************************************)
(* "bracketed": Eval, Call, Attach, AttachMany, RunScript, EvaluateModule. *)
(* "drain": DrainMicrotasks, which arms and disarms by itself.  "plain":   *)
(* the requests without a deadline (compile, instantiate, namespace, ...). *)
(***************************************************************************)
Kind == {"bracketed", "drain", "plain"}

Phase == {"arm", "js", "drain", "handler", "absorbed", "host", "handlerHost",
          "tail", "disarm", "reply", "swept", "gc", "done"}

(* Suspended in a host function, called by the script or by the recorder. *)
Hosted == {"host", "handlerHost"}

Op == [kind : Kind, gen : 0..MaxArms, phase : Phase,
       from : {"js", "drain"},      \* where a host function or handler returns to
       saved : BOOLEAN,             \* checkpoint_draining's prev
       ranJs : BOOLEAN,
       result : {"ok", "error", "terminated", "oom"}]

TypeOK ==
    /\ ops \in Seq(Op) /\ Len(ops) <= MaxDepth
    /\ term \in {"none", "requested", "active"}
    /\ watchdogFired \in BOOLEAN /\ oomFired \in BOOLEAN /\ draining \in BOOLEAN
    /\ Timer!TypeOK
    /\ causes \subseteq {"watchdog", "user", "oom"}
    /\ hit \subseteq 1..nextGeneration
    /\ ceilingHit \in BOOLEAN

Init ==
    /\ ops = <<>>
    /\ term = "none"
    /\ watchdogFired = FALSE /\ oomFired = FALSE /\ draining = FALSE
    /\ armed = {} /\ expired = {} /\ nextGeneration = 0
    /\ firedGeneration = None /\ shutdown = FALSE
    /\ causes = {} /\ hit = {} /\ ceilingHit = FALSE

Depth == Len(ops)
Top == ops[Depth]
Outermost == Depth = 1
Idle == ops = <<>>
TopIn(phases) == ~Idle /\ Top.phase \in phases
SetTop(op) == ops' = [ops EXCEPT ![Depth] = op]
GoTo(phase) == SetTop([Top EXCEPT !.phase = phase])

-----------------------------------------------------------------------------
(* V8's terminate flag *)

(* terminate_execution: an unwinding that has begun is not requested anew. *)
Raise(cause) ==
    /\ term' = IF term = "none" THEN "requested" ELSE term
    /\ causes' = causes \cup {cause}

(* JavaScript reaches a stack guard and starts to unwind. *)
Notice ==
    /\ TopIn({"js", "drain"})
    /\ term = "requested"
    /\ term' = "active"
    /\ UNCHANGED <<ops, watchdogFired, oomFired, draining, timer, causes, hit, ceilingHit>>

(* Isolate#terminate, from any thread, whether a request runs or not. *)
UserTerminate ==
    /\ Raise("user")
    /\ UNCHANGED <<ops, watchdogFired, oomFired, draining, timer, hit, ceilingHit>>

(* near_heap_limit_cb, while JavaScript (or the compiler) allocates, and    *)
(* once more in the collection the recovery forces.                         *)
NearHeapLimit ==
    /\ TopIn({"js", "drain", "handler", "gc"})
    /\ oomFired' = TRUE /\ ceilingHit' = TRUE
    /\ Raise("oom")
    /\ UNCHANGED <<ops, watchdogFired, draining, timer, hit>>

(* The watchdog thread; the slot and the flag are set under its mutex. *)
WatchdogFires(g) ==
    /\ UNCHANGED <<ops, watchdogFired, oomFired, draining, ceilingHit>>
    /\ Timer!Fire(g)
    /\ Raise("watchdog")
    /\ hit' = hit \cup {g}

DeadlinesPass(gs) ==
    /\ UNCHANGED <<ops, term, watchdogFired, oomFired, draining, causes, hit, ceilingHit>>
    /\ Timer!Expire(gs)

-----------------------------------------------------------------------------
(* A request begins: Core::run and the head of service_request *)

(* Only the outermost request clears what an idle terminate left behind. *)
ClearAlways == term' = "none"
ClearLeftover == term' = IF Idle THEN "none" ELSE term

Begin(kind) ==
    /\ Idle \/ TopIn(Hosted)
    /\ ~shutdown
    /\ Depth < MaxDepth
    /\ ops' = Append(ops, [kind |-> kind, gen |-> None, from |-> "js",
                           phase |-> IF kind = "plain" THEN "js" ELSE "arm",
                           saved |-> FALSE, ranJs |-> FALSE, result |-> "ok"])
    /\ ClearLeftover
    /\ causes' = IF Idle THEN {} ELSE causes
    /\ hit' = IF Idle THEN {} ELSE hit
    /\ ceilingHit' = IF Idle THEN FALSE ELSE ceilingHit
    /\ UNCHANGED <<watchdogFired, oomFired, draining, timer>>

(* The bodies without JavaScript: the realm or module is gone; the module  *)
(* cannot be evaluated, or has been (an Ok) and its request drains as well. *)
NoJs(gen) ==
    /\ Top.kind = "bracketed"
    /\ \E next \in {<<"disarm", "error">>, <<"tail", "error">>, <<"tail", "ok">>} :
         SetTop([Top EXCEPT !.gen = gen, !.phase = next[1], !.result = next[2]])
    /\ UNCHANGED draining

(* arm_watchdog, then the body: JavaScript, or a microtask checkpoint. *)
EnterBody(gen) ==
    \/ /\ Top.kind = "drain"
       /\ SetTop([Top EXCEPT !.gen = gen, !.phase = "drain", !.saved = draining])
       /\ draining' = TRUE
    \/ /\ Top.kind = "bracketed"
       /\ SetTop([Top EXCEPT !.gen = gen, !.phase = "js"])
       /\ UNCHANGED draining
    \/ NoJs(gen)

ArmTimed ==
    /\ TopIn({"arm"})
    /\ EnterBody(nextGeneration + 1)
    /\ Timer!Arm
    /\ UNCHANGED <<term, watchdogFired, oomFired, causes, hit, ceilingHit>>

ArmUntimed ==
    /\ TopIn({"arm"})
    /\ EnterBody(None)
    /\ UNCHANGED <<term, watchdogFired, oomFired, timer, causes, hit, ceilingHit>>

-----------------------------------------------------------------------------
(* JavaScript runs *)

(* host_fn_callback: a Ruby proc runs, and may issue requests of its own. *)
HostCall ==
    /\ term # "active"
    /\ \/ TopIn({"js", "drain"}) /\ SetTop([Top EXCEPT !.phase = "host", !.from = Top.phase])
       \/ TopIn({"handler"}) /\ GoTo("handlerHost")
    /\ UNCHANGED <<term, watchdogFired, oomFired, draining, timer, causes, hit, ceilingHit>>

HostReturn ==
    /\ \/ TopIn({"host"}) /\ GoTo(Top.from)
       \/ TopIn({"handlerHost"}) /\ GoTo("handler")
    /\ UNCHANGED <<term, watchdogFired, oomFired, draining, timer, causes, hit, ceilingHit>>

(* promise_reject_cb calls the recorder under a TryCatch of its own. *)
HandlerCall ==
    /\ TopIn({"js", "drain"})
    /\ term # "active"
    /\ SetTop([Top EXCEPT !.phase = "handler", !.from = Top.phase])
    /\ UNCHANGED <<term, watchdogFired, oomFired, draining, timer, causes, hit, ceilingHit>>

HandlerReturn ==
    /\ TopIn({"handler"})
    /\ term # "active"
    /\ GoTo(Top.from)
    /\ UNCHANGED <<term, watchdogFired, oomFired, draining, timer, causes, hit, ceilingHit>>

(* The recorder is terminated, itself or in what its host function ran: its *)
(* TryCatch takes the termination ...                                       *)
HandlerAbsorbs ==
    /\ TopIn({"handler"})
    /\ term # "none"
    /\ term' = "none"
    /\ GoTo("absorbed")
    /\ UNCHANGED <<watchdogFired, oomFired, draining, timer, causes, hit, ceilingHit>>

(* ... and the callback raises it again for the script around it. *)
ForgetTermination ==
    /\ TopIn({"absorbed"})
    /\ GoTo(Top.from)
    /\ UNCHANGED <<term, watchdogFired, oomFired, draining, timer, causes, hit, ceilingHit>>
Reassert ==
    /\ TopIn({"absorbed"})
    /\ term' = IF term = "none" THEN "requested" ELSE term
    /\ GoTo(Top.from)
    /\ UNCHANGED <<watchdogFired, oomFired, draining, timer, causes, hit, ceilingHit>>

(* Where a body that is over goes on: plain requests have no bracket. *)
AfterJs == IF Top.kind = "plain" THEN "reply" ELSE "tail"

JsReturns ==
    /\ TopIn({"js"})
    /\ term # "active"
    /\ SetTop([Top EXCEPT !.phase = AfterJs, !.ranJs = TRUE])
    /\ UNCHANGED <<term, watchdogFired, oomFired, draining, timer, causes, hit, ceilingHit>>

(* has_terminated; a namespace getter's termination is marshalled over. *)
JsUnwinds ==
    /\ TopIn({"js"})
    /\ term = "active"
    /\ \E result \in {"ok", "terminated"} :
         /\ result = "ok" => Top.kind = "plain"
         /\ SetTop([Top EXCEPT !.phase = AfterJs, !.ranJs = TRUE, !.result = result])
    /\ UNCHANGED <<term, watchdogFired, oomFired, draining, timer, causes, hit, ceilingHit>>

(* The module has failed before: reading its exception may run JavaScript, *)
(* which ran_js does not count.                                            *)
ErroredModule ==
    /\ TopIn({"js"})
    /\ Top.kind = "bracketed"
    /\ SetTop([Top EXCEPT !.phase = "tail", !.result = "error"])
    /\ UNCHANGED <<term, watchdogFired, oomFired, draining, timer, causes, hit, ceilingHit>>

(* auto_drain *)
AutoDrain ==
    /\ TopIn({"tail"})
    /\ IF Outermost /\ AutoMode /\ term # "active"
       THEN /\ SetTop([Top EXCEPT !.phase = "drain", !.saved = draining])
            /\ draining' = TRUE
       ELSE GoTo("disarm") /\ UNCHANGED draining
    /\ UNCHANGED <<term, watchdogFired, oomFired, timer, causes, hit, ceilingHit>>

ClearDraining == draining' = FALSE
RestoreDraining == draining' = Top.saved

(* The microtask queue is empty, or the checkpoint stops at a termination. *)
CheckpointEnds ==
    /\ TopIn({"drain"})
    /\ GoTo("disarm")
    /\ RestoreDraining
    /\ UNCHANGED <<term, watchdogFired, oomFired, timer, causes, hit, ceilingHit>>

-----------------------------------------------------------------------------
(* The end of the bracket, and of the request *)

(* What run_js_bracketed and op_drain_microtasks make of the outcome. *)
OutcomeIgnoringFired(fired) ==
    IF Top.ranJs /\ oomFired THEN "terminated" ELSE Top.result
Outcome(fired) ==
    IF Top.kind = "drain"
    THEN IF fired THEN "terminated" ELSE "ok"
    ELSE IF Top.ranJs /\ (fired \/ oomFired) THEN "terminated" ELSE Top.result

(* The error paths of a body return through the bracket too. *)
DisarmUnlessError ==
    IF Top.gen = None \/ Top.result = "error"
    THEN UNCHANGED timer ELSE Timer!Disarm(Top.gen)
DisarmWatchdog == IF Top.gen = None THEN UNCHANGED timer ELSE Timer!Disarm(Top.gen)

Disarm ==
    /\ TopIn({"disarm"})
    /\ LET fired == Top.gen # None /\ firedGeneration = Top.gen
       IN  /\ SetTop([Top EXCEPT !.phase = "reply", !.result = Outcome(fired)])
           /\ watchdogFired' = (watchdogFired \/ fired)
    /\ DisarmWatchdog
    /\ UNCHANGED <<term, oomFired, draining, causes, hit, ceilingHit>>

NestedReturn ==
    /\ TopIn({"reply"})
    /\ ~Outermost
    /\ ops' = SubSeq(ops, 1, Depth - 1)
    /\ UNCHANGED <<term, watchdogFired, oomFired, draining, timer, causes, hit, ceilingHit>>

CancelTerminate == term' = "none" /\ causes' = {}

(* The end sweep of service_request. *)
Sweep ==
    /\ TopIn({"reply"})
    /\ Outermost
    /\ IF watchdogFired
       THEN watchdogFired' = FALSE /\ CancelTerminate
       ELSE UNCHANGED <<watchdogFired, term, causes>>
    /\ GoTo("swept")
    /\ UNCHANGED <<oomFired, draining, timer, hit, ceilingHit>>

(* Core::run's recovery takes oom_fired and forces a collection, which may  *)
(* hit the ceiling once more; whatever it raised is cleared after it.       *)
DropLabel(result) == result
Relabel(result) == IF result = "terminated" THEN "oom" ELSE result

NoRecovery ==
    /\ TopIn({"swept"}) /\ ~oomFired
    /\ GoTo("done")
    /\ UNCHANGED <<term, oomFired, causes>>

TakeOomFired ==
    /\ TopIn({"swept"}) /\ oomFired
    /\ GoTo("gc")
    /\ oomFired' = FALSE
    /\ UNCHANGED <<term, causes>>

FinishWithoutClearing ==
    /\ TopIn({"gc"})
    /\ SetTop([Top EXCEPT !.phase = "done", !.result = Relabel(Top.result)])
    /\ UNCHANGED <<term, oomFired, causes>>
FinishRecovery ==
    /\ TopIn({"gc"})
    /\ SetTop([Top EXCEPT !.phase = "done", !.result = Relabel(Top.result)])
    /\ oomFired' = FALSE
    /\ CancelTerminate

ClearBeforeCollecting ==
    /\ \/ NoRecovery
       \/ /\ TopIn({"swept"}) /\ oomFired
          /\ GoTo("gc")
          /\ oomFired' = FALSE /\ CancelTerminate
       \/ FinishWithoutClearing
    /\ UNCHANGED <<watchdogFired, draining, timer, hit, ceilingHit>>
Recover ==
    /\ NoRecovery \/ TakeOomFired \/ FinishRecovery
    /\ UNCHANGED <<watchdogFired, draining, timer, hit, ceilingHit>>

Return ==
    /\ TopIn({"done"})
    /\ ops' = <<>>
    /\ UNCHANGED <<term, watchdogFired, oomFired, draining, timer, causes, hit, ceilingHit>>

(* teardown, between requests: nothing is served after it. *)
Teardown ==
    /\ UNCHANGED <<ops, term, watchdogFired, oomFired, draining, causes, hit, ceilingHit>>
    /\ Idle
    /\ Timer!RequestShutdown

-----------------------------------------------------------------------------
(* What the binding's own code does next, whatever JavaScript does. *)
BindingStep ==
    \/ ArmTimed \/ ArmUntimed \/ Reassert \/ AutoDrain \/ Disarm
    \/ NestedReturn \/ Sweep \/ Recover \/ Return

(* V8 unwinds what has noticed a termination. *)
UnwindStep == JsUnwinds \/ (term = "active" /\ CheckpointEnds)

ScriptStep ==
    \/ HostCall \/ HandlerCall \/ JsReturns \/ ErroredModule \/ CheckpointEnds

Next ==
    \/ \E kind \in Kind : Begin(kind)
    \/ BindingStep \/ Notice \/ UnwindStep \/ ScriptStep
    \/ HostReturn \/ HandlerReturn \/ HandlerAbsorbs
    \/ UserTerminate \/ NearHeapLimit \/ Teardown
    \/ \E g \in expired : WatchdogFires(g)
    \/ \E gs \in SUBSET armed : DeadlinesPass(gs)

(***************************************************************************)
(* The binding goes on, running JavaScript -- a script, a microtask or the *)
(* reject recorder -- polls its stack guard time and again between its     *)
(* calls, at every depth, V8 unwinds, the watchdog thread acts (what       *)
(* Watchdog.tla implements), and host functions return in the end, however *)
(* many requests a proc issues.  JavaScript, the recorder's included, may  *)
(* run forever.                                                            *)
(***************************************************************************)
Fairness ==
    /\ WF_vars(BindingStep)
    /\ WF_vars(UnwindStep)
    /\ SF_vars(HostReturn)
    /\ \A d \in 1..MaxDepth :
         /\ SF_vars(Depth = d /\ Notice)
         /\ SF_vars(Depth = d /\ HandlerAbsorbs)
    /\ \A g \in 1..MaxArms : WF_vars(WatchdogFires(g))

Spec == Init /\ [][Next]_vars /\ Fairness

-----------------------------------------------------------------------------
(* Safety *)

(* The requests that ran JavaScript and have their outcome. *)
Ran(op) == op.kind = "drain" \/ op.ranJs
Replied == {i \in DOMAIN ops : ops[i].phase \in Closed /\ Ran(ops[i])}

(***************************************************************************)
(* Between requests nothing of the last one is left: no deadline, no       *)
(* report, no sweep owed, no OOM to recover from, no checkpoint marked;    *)
(* and a raised terminate flag can only be Isolate#terminate's, which the  *)
(* next outermost request clears: a request that replies Terminated has,   *)
(* since the outermost one began, been aimed at by somebody.               *)
(***************************************************************************)
IdleIsClean ==
    /\ Idle =>
        /\ armed = {} /\ firedGeneration = None
        /\ ~watchdogFired /\ ~oomFired /\ ~draining
        /\ term # "none" => causes = {"user"}
    /\ \A i \in DOMAIN ops :
        ops[i].result = "terminated" /\ ops[1].phase \notin Over =>
            causes # {}

(***************************************************************************)
(* A terminate that lands while requests are nested survives every nested  *)
(* return, sweep and reject handler until the outermost request is over:   *)
(* it escalates to the suspended frames instead of being erased.           *)
(***************************************************************************)
TerminateSurvivesNesting ==
    ~Idle /\ causes # {} => term # "none" \/ TopIn({"absorbed"})

(***************************************************************************)
(* A request that ran JavaScript and whose deadline was enforced replies   *)
(* so, whatever value the script had reached, unless the one report slot   *)
(* was taken by another deadline enforced during the same outermost        *)
(* request.                                                                *)
(***************************************************************************)
TimeoutIsReported ==
    \A i \in Replied :
        ops[i].gen # None /\ hit = {ops[i].gen} =>
            ops[i].result \in {"terminated", "oom"}

(***************************************************************************)
(* Once the heap ceiling is hit, the outermost request replies             *)
(* OutOfMemory to its caller if it is bracketed and ran JavaScript: also   *)
(* when the script itself had returned a value, when the ceiling was hit   *)
(* in a microtask, a reject recorder or a nested request whose error Ruby  *)
(* rescued, and when a deadline was enforced as well.  Until the recovery  *)
(* relabels it, and in every nested request, the outcome is Terminated.    *)
(***************************************************************************)
OomIsReported ==
    ceilingHit =>
        \A i \in Replied :
            ops[i].kind = "bracketed" =>
                ops[i].result = IF ops[i].phase = "done" THEN "oom" ELSE "terminated"

(***************************************************************************)
(* While a microtask checkpoint of the binding is on the stack, however    *)
(* deep, draining is set, and only then: what op_reset and                 *)
(* op_dispose_context refuse on.                                           *)
(***************************************************************************)
DrainingIsMarked ==
    draining <=> \E i \in DOMAIN ops :
                    \/ ops[i].phase = "drain"
                    \/ ops[i].phase \in Hosted \cup {"handler", "absorbed"}
                         /\ ops[i].from = "drain"

-----------------------------------------------------------------------------
(* Liveness *)

(***************************************************************************)
(* A deadline that passes ends its request, however the script loops and   *)
(* whatever it has nested, provided the host functions it called return.   *)
(***************************************************************************)
DeadlineEndsRequest ==
    \A g \in 1..MaxArms : g \in expired ~> g \notin OpenGenerations

(***************************************************************************)
(* Isolate#terminate, a timeout or the heap ceiling, once raised during a  *)
(* request, ends the whole stack of requests.                              *)
(***************************************************************************)
TerminateEndsRequests == ~Idle /\ causes # {} ~> Idle

-----------------------------------------------------------------------------
(***************************************************************************)
(* "The value must not mask the timeout" (rusty_racer_test.rb): an eval    *)
(* that ran JavaScript and whose own deadline was enforced never replies   *)
(* with the script's value.  Fails when a nested request's deadline is     *)
(* enforced after the outer one's.                                         *)
(***************************************************************************)
EveryTimeoutIsReported ==
    1 \in Replied /\ ops[1].kind = "bracketed" /\ ops[1].gen \in hit =>
        ops[1].result \in {"terminated", "oom"}

(***************************************************************************)
(* "A runaway drained continuation is caught by the watchdog, whose firing *)
(* the caller maps to Terminated" (auto_drain): no outermost request whose *)
(* deadline alone was enforced returns a value.  Fails where ran_js is     *)
(* false although the request drains: a module that is Evaluated already.  *)
(***************************************************************************)
NoTimeoutIsMasked ==
    TopIn({"done"}) /\ Top.gen # None /\ hit = {Top.gen} => Top.result # "ok"

(***************************************************************************)
(* "A script that exceeds the ceiling is terminated and raises             *)
(* V8OutOfMemoryError": every outermost request that hit it replies so.    *)
(* Fails for DrainMicrotasks, which looks at the watchdog only, and for    *)
(* the modules that run_js_bracketed is told run no JavaScript: Evaluated  *)
(* already, they reply Ok, Errored, the module's own error.                *)
(***************************************************************************)
EveryOomIsReported ==
    TopIn({"done"}) /\ ceilingHit /\ Top.kind # "plain" => Top.result = "oom"
=============================================================================
