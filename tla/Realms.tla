------------------------------- MODULE Realms -------------------------------
(***************************************************************************)
(* The realms of one isolate: contexts that are created, reset and         *)
(* disposed of by Ruby code, while JavaScript of theirs is suspended on    *)
(* the stack, waits in the microtask queue, or calls into one another --   *)
(* and the host functions attached to them, whose Ruby procs live in the   *)
(* table of ProcTable.tla.                                                 *)
(*                                                                         *)
(* A realm is an id; a context is one v8::Context, numbered in the order   *)
(* of creation, that has been the realm's at some time.  The owner thread  *)
(* is a stack of activations: the request being served, a call into        *)
(* another realm, a microtask checkpoint, a microtask, a host function.    *)
(* Deadlines and terminates are left to Requests.tla: here any activation  *)
(* may return at any time.                                                 *)
(***************************************************************************)
EXTENDS ProcTable

CONSTANTS
    MaxRealms,      \* bound: realms besides the main one
    MaxContexts,    \* bound: contexts ever created
    MaxProcs,       \* bound: procs ever attached
    MaxDepth,       \* bound: activations on the stack
    Minted          \* {FALSE} leaves the resolver's wrappers out, BOOLEAN does not

None == 0
MainRealm == 0

(* The table is that of numbered realms and of procs in attach order.      *)
ASSUME RealmsAssumption ==
    /\ Realm = 0..MaxRealms /\ Proc = 1..MaxProcs /\ NoProc = None
    /\ MaxSlots = MaxProcs
    /\ Minted \subseteq BOOLEAN
    /\ MaxRealms \in Nat /\ MaxProcs \in Nat /\ MaxDepth \in Nat
    /\ MaxContexts \in Nat \ {0}

VARIABLES
    stack,          \* activations, the outermost first
    activeRealms,   \* IsolateState.active_realms
    draining,       \* IsolateState.draining
    current,        \* V8State: realm id -> its context, None when unknown
    nextContextId,  \* V8State.next_context_id
    stamp,          \* the realm id in each context's embedder data
    queued,         \* contexts that have a job in the microtask queue
    handler,        \* V8State.promise_reject_handler
    attached,       \* how many procs were ever handed to attach
    functions,      \* the V8 functions attach built and installed
    disposed        \* the Context wrappers whose disposed flag is set

realms == <<current, nextContextId, stamp, handler>>
procs == <<table, attached, functions>>
vars == <<stack, activeRealms, draining, realms, queued, procs, disposed>>

Context == 1..MaxContexts

(* Wrapper objects: create_context's own, and the ones minted for the       *)
(* dynamic import resolver, which have a disposed flag of their own.        *)
Wrapper == [realm : Realm, minted : Minted]

HostFunction == [ctx : Context, slot : 1..MaxProcs, proc : 1..MaxProcs]

(* A function that a request still has to install, with the proc the       *)
(* attach was given for it.                                                *)
Pending == [slot : 1..MaxProcs, proc : 1..MaxProcs]

(* JavaScript runs in ctx. *)
JsKind == {"request", "call", "microtask"}
ScriptFrame ==
    [kind : JsKind, realm : Realm, ctx : Context, pending : Seq(Pending),
     drained : BOOLEAN]
Activation ==
    ScriptFrame
    \cup [kind : {"checkpoint"}, marked : BOOLEAN, saved : BOOLEAN]
    \cup [kind : {"host"}]

TypeOK ==
    /\ stack \in Seq(Activation) /\ Len(stack) <= MaxDepth
    /\ activeRealms \in Seq(Realm)
    /\ draining \in BOOLEAN
    /\ current \in [Realm -> {None} \cup DOMAIN stamp]
    /\ nextContextId \in 1..(MaxRealms + 1)
    /\ stamp \in Seq(Realm) /\ Len(stamp) <= MaxContexts
    /\ queued \subseteq DOMAIN stamp
    /\ handler \in [ctx : {None} \cup DOMAIN stamp, tag : Realm]
    /\ TableTypeOK
    /\ attached \in 0..MaxProcs
    /\ functions \subseteq HostFunction
    /\ disposed \subseteq Wrapper

NoHandler == [ctx |-> None, tag |-> MainRealm]

(* Isolate::new boots the main realm. *)
Init ==
    /\ stack = <<>> /\ activeRealms = <<>> /\ draining = FALSE
    /\ current = [r \in Realm |-> IF r = MainRealm THEN 1 ELSE None]
    /\ nextContextId = 1
    /\ stamp = <<MainRealm>>
    /\ queued = {} /\ handler = NoHandler
    /\ TableInit
    /\ attached = 0 /\ functions = {} /\ disposed = {}

-----------------------------------------------------------------------------
Depth == Len(stack)
Top == stack[Depth]
Idle == stack = <<>>
TopIs(kinds) == ~Idle /\ Top.kind \in kinds
Push(activation) == Depth < MaxDepth /\ stack' = Append(stack, activation)
Pop == stack' = SubSeq(stack, 1, Depth - 1)

(* A context is live while it is the one its stamp maps to. *)
Live(ctx) == current[stamp[ctx]] = ctx
InScript == TopIs(JsKind)
InRuby == Idle \/ TopIs({"host"})

(* Wrappers Ruby code can hold and that do not refuse at once (check_live). *)
Usable(w) == w.realm < nextContextId /\ w \notin disposed

Script(kind, realm, ctx, pending) ==
    [kind |-> kind, realm |-> realm, ctx |-> ctx, pending |-> pending,
     drained |-> FALSE]

-----------------------------------------------------------------------------
(* Requests that run JavaScript *)

(* service_request marks the realm active; a realm that is gone replies an *)
(* error and unmarks it again.                                             *)
Enter(realm, pending) ==
    IF current[realm] = None
    THEN UNCHANGED <<stack, activeRealms>>
    ELSE /\ Push(Script("request", realm, current[realm], pending))
         /\ activeRealms' = Append(activeRealms, realm)

(* Eval, Call, RunScript, EvaluateModule ... *)
BeginRequest(w) ==
    /\ InRuby
    /\ Usable(w)
    /\ current[w.realm] # None
    /\ Enter(w.realm, <<>>)
    /\ UNCHANGED <<draining, realms, queued, procs, disposed>>

(* Core::attach and attach_many: the slots are taken first, whatever       *)
(* becomes of the request.                                                 *)
TakeSlots(realm, n) ==
    /\ attached' = attached + n
    /\ Alloc(realm, [k \in 1..n |-> attached + k])

Attach(w, n) ==
    /\ InRuby
    /\ Usable(w)
    /\ attached + n <= MaxProcs
    /\ TakeSlots(w.realm, n)
    /\ Enter(w.realm, [k \in 1..n |-> [slot |-> NthId(k), proc |-> attached + k]])
    /\ UNCHANGED <<draining, realms, queued, functions, disposed>>

(* From another thread: WrongThreadError, after the slots were taken. *)
ForeignAttach(w, n) ==
    /\ Usable(w)
    /\ attached + n <= MaxProcs
    /\ TakeSlots(w.realm, n)
    /\ UNCHANGED <<stack, activeRealms, draining, realms, queued, functions, disposed>>

(* attach_at_path, after whatever accessors it has run, writes the function *)
(* or fails; a failure abandons the rest of the batch.                      *)
Install ==
    /\ InScript
    /\ Top.pending # <<>>
    /\ \/ /\ stack' = [stack EXCEPT ![Depth].pending = Tail(@)]
          /\ LET next == Head(Top.pending)
             IN functions' = functions \cup
                   {[ctx |-> Top.ctx, slot |-> next.slot, proc |-> next.proc]}
       \/ stack' = [stack EXCEPT ![Depth].pending = <<>>] /\ UNCHANGED functions
    /\ UNCHANGED <<activeRealms, draining, realms, queued, table, attached, disposed>>

-----------------------------------------------------------------------------
(* What a script does *)

(* A call into another realm's code, through contextGlobal, which throws   *)
(* when the realm is gone.                                                 *)
CallAnyRealm(realm) ==
    /\ InScript
    /\ current[realm] # Top.ctx
    /\ Push(Script("call", realm, current[realm], <<>>))
    /\ UNCHANGED <<activeRealms, draining, realms, queued, procs, disposed>>
CallRealm(realm) ==
    /\ InScript
    /\ current[realm] \notin {None, Top.ctx}
    /\ Push(Script("call", realm, current[realm], <<>>))
    /\ UNCHANGED <<activeRealms, draining, realms, queued, procs, disposed>>

(* host_fn_callback and call_proc: an empty slot throws "unknown host      *)
(* function".  Through contextGlobal a script may have any realm's         *)
(* functions, those of contexts reset away since among them.               *)
CallHost(f) ==
    /\ InScript
    /\ slots[f.slot].proc # None
    /\ Push([kind |-> "host"])
    /\ UNCHANGED <<activeRealms, draining, realms, queued, procs, disposed>>

Enqueue ==
    /\ InScript
    /\ queued' = queued \cup {Top.ctx}
    /\ UNCHANGED <<stack, activeRealms, draining, realms, procs, disposed>>

(* setPromiseRejectHandler, tagged with id_of_context: 0 when not live. *)
RegisterHandler ==
    /\ InScript
    /\ handler' = [ctx |-> Top.ctx,
                   tag |-> IF Live(Top.ctx) THEN stamp[Top.ctx] ELSE MainRealm]
    /\ UNCHANGED <<stack, activeRealms, draining, current, nextContextId, stamp,
                   queued, procs, disposed>>

-----------------------------------------------------------------------------
(* Microtask checkpoints *)

MarkNothing == UNCHANGED draining
Mark == draining' = TRUE
Checkpoint(marked) == [kind |-> "checkpoint", marked |-> marked, saved |-> draining]

(* V8 does not run the queue from within the queue. *)
Reentrant == \E i \in 1..(Depth - 1) : stack[i].kind = "checkpoint"

(* auto_drain, of the outermost request only, and once. *)
AutoDrain ==
    /\ Depth = 1 /\ TopIs({"request"})
    /\ Top.pending = <<>> /\ ~Top.drained
    /\ Depth + 1 <= MaxDepth
    /\ stack' = Append([stack EXCEPT ![Depth].drained = TRUE], Checkpoint(TRUE))
    /\ Mark
    /\ UNCHANGED <<activeRealms, realms, queued, procs, disposed>>

(* perform_microtask_checkpoint, a request for the main realm. *)
DrainMicrotasks ==
    /\ InRuby
    /\ Depth + 2 <= MaxDepth
    /\ LET request == [Script("request", MainRealm, current[MainRealm], <<>>)
                         EXCEPT !.drained = TRUE]
       IN  stack' = Append(Append(stack, request), Checkpoint(TRUE))
    /\ activeRealms' = Append(activeRealms, MainRealm)
    /\ Mark
    /\ UNCHANGED <<realms, queued, procs, disposed>>

(* NS.drainMicrotasks, called by a script, marks nothing. *)
ScriptDrains ==
    /\ InScript
    /\ Push(Checkpoint(FALSE))
    /\ UNCHANGED <<activeRealms, draining, realms, queued, procs, disposed>>

Microtask(ctx) ==
    /\ TopIs({"checkpoint"})
    /\ ~Reentrant
    /\ queued' = queued \ {ctx}
    /\ Push(Script("microtask", stamp[ctx], ctx, <<>>))
    /\ UNCHANGED <<activeRealms, draining, realms, procs, disposed>>

ClearDraining == draining' = IF Top.marked THEN FALSE ELSE draining
RestoreDraining == draining' = IF Top.marked THEN Top.saved ELSE draining

(* The queue is empty, or a termination empties it. *)
CheckpointEnds ==
    /\ TopIs({"checkpoint"})
    /\ Pop
    /\ RestoreDraining
    /\ queued' = IF Reentrant THEN queued ELSE {}
    /\ UNCHANGED <<activeRealms, realms, procs, disposed>>

-----------------------------------------------------------------------------
(* Activations end *)

PopRealm == activeRealms' = SubSeq(activeRealms, 1, Len(activeRealms) - 1)

RequestReturns ==
    /\ TopIs({"request"})
    /\ Pop
    /\ PopRealm
    /\ UNCHANGED <<draining, realms, queued, procs, disposed>>

OtherReturns ==
    /\ TopIs({"call", "microtask", "host"})
    /\ Pop
    /\ UNCHANGED <<activeRealms, draining, realms, queued, procs, disposed>>

-----------------------------------------------------------------------------
(* Requests that replace, add or drop a realm: no JavaScript runs in them *)

InnermostActive(realm) == activeRealms # <<>> /\ activeRealms[Len(activeRealms)] = realm
Active(realm) == \E i \in DOMAIN activeRealms : activeRealms[i] = realm

(* drop_context_artifacts: modules and scripts are in Modules.tla. *)
KeepHandler(realm) == UNCHANGED handler
DropArtifacts(realm) ==
    handler' = IF handler.tag = realm THEN NoHandler ELSE handler

NewContext(realm) ==
    /\ Len(stamp) < MaxContexts
    /\ stamp' = Append(stamp, realm)
    /\ current' = [current EXCEPT ![realm] = Len(stamp) + 1]

(* Core::reset releases the procs only when op_reset has not refused. *)
Reset(w) ==
    /\ InRuby
    /\ Usable(w)
    /\ ~draining
    /\ current[w.realm] # None
    /\ ~Active(w.realm)
    /\ NewContext(w.realm)
    /\ DropArtifacts(w.realm)
    /\ Release(w.realm)
    /\ UNCHANGED <<stack, activeRealms, draining, nextContextId, queued,
                   attached, functions, disposed>>

CreateContext ==
    /\ InRuby
    /\ nextContextId <= MaxRealms
    /\ nextContextId' = nextContextId + 1
    /\ NewContext(nextContextId)
    /\ UNCHANGED <<stack, activeRealms, draining, handler, queued, procs, disposed>>

(* op_dispose_context and the release that follows it, if it succeeds. *)
ReleaseAnyway(realm) ==
    /\ Release(realm)
    /\ IF draining \/ Active(realm)
       THEN UNCHANGED <<current, handler>>
       ELSE /\ current' = [current EXCEPT ![realm] = None]
            /\ DropArtifacts(realm)

DisposeContext(realm) ==
    IF draining \/ Active(realm)
    THEN UNCHANGED <<current, handler, table>>
    ELSE /\ current' = [current EXCEPT ![realm] = None]
         /\ DropArtifacts(realm)
         /\ Release(realm)

(* Context::dispose sets the flag first and drops the request's error. *)
Dispose(w) ==
    /\ InRuby
    /\ Usable(w) /\ w.realm # MainRealm
    /\ disposed' = disposed \cup {w}
    /\ DisposeContext(w.realm)
    /\ UNCHANGED <<stack, activeRealms, draining, nextContextId, stamp, queued,
                   attached, functions>>

(* From another thread: the error dropped is a WrongThreadError. *)
ForeignDispose(w) ==
    /\ Usable(w) /\ w.realm # MainRealm
    /\ disposed' = disposed \cup {w}
    /\ UNCHANGED <<stack, activeRealms, draining, realms, queued, procs>>

-----------------------------------------------------------------------------
Next ==
    \/ \E w \in Wrapper :
         \/ BeginRequest(w) \/ \E n \in 1..MaxProcs : Attach(w, n) \/ ForeignAttach(w, n)
         \/ Reset(w) \/ Dispose(w) \/ ForeignDispose(w)
    \/ CreateContext \/ DrainMicrotasks \/ AutoDrain
    \/ Install \/ Enqueue \/ RegisterHandler \/ ScriptDrains
    \/ \E realm \in Realm : CallRealm(realm)
    \/ \E f \in functions : CallHost(f)
    \/ \E ctx \in queued : Microtask(ctx)
    \/ CheckpointEnds \/ RequestReturns \/ OtherReturns

Spec == Init /\ [][Next]_vars

-----------------------------------------------------------------------------
(* Safety *)

(***************************************************************************)
(* The realm of a request on the stack, suspended or not, keeps the        *)
(* context the request entered: no reset or dispose issued further up      *)
(* replaces it, whichever request and wrapper it comes through.            *)
(***************************************************************************)
RequestsKeepTheirRealm ==
    \A i \in DOMAIN stack :
        stack[i].kind = "request" => current[stack[i].realm] = stack[i].ctx

(***************************************************************************)
(* While a checkpoint of the binding is on the stack, however deep, no     *)
(* realm loses its context: a microtask of any of them may be suspended.   *)
(***************************************************************************)
CheckpointsKeepRealms ==
    [][(\E i \in DOMAIN stack : stack[i].kind = "checkpoint" /\ stack[i].marked) =>
           \A ctx \in DOMAIN stamp : Live(ctx) => Live(ctx)']_vars

(***************************************************************************)
(* A function attached to a realm that is still there calls the proc it    *)
(* was attached with, whatever was attached, reset and disposed of since.  *)
(***************************************************************************)
LiveFunctionsReachTheirProc ==
    \A f \in functions : Live(f.ctx) => slots[f.slot].proc = f.proc

(***************************************************************************)
(* The recorder of promise rejections goes with the context its function   *)
(* was created in, unless that context was dead when it registered.        *)
(***************************************************************************)
HandlerDiesWithItsRealm ==
    [][\A ctx \in DOMAIN stamp :
         handler.ctx = ctx /\ Live(ctx) /\ ~Live(ctx)' => handler' = NoHandler]_vars

-----------------------------------------------------------------------------
(* What the documentation and the comments say, and the code does not do *)

(***************************************************************************)
(* README: reset "is refused when a microtask checkpoint is draining".     *)
(* Fails for a checkpoint run by NS.drainMicrotasks, which marks nothing.  *)
(***************************************************************************)
NoResetWhileDraining ==
    [][(\E i \in DOMAIN stack : stack[i].kind = "checkpoint") =>
           \A ctx \in DOMAIN stamp : Live(ctx) => Live(ctx)']_vars

(***************************************************************************)
(* service_request: Reset and DisposeContext "refuse to pull a live realm  *)
(* out from under a suspended frame".  Fails for a frame of another realm  *)
(* that the request's script called into.                                  *)
(***************************************************************************)
SuspendedFramesKeepTheirRealm ==
    [][\A ctx \in DOMAIN stamp :
         /\ \E i \in DOMAIN stack :
                stack[i].kind \in {"request", "call"} /\ stack[i].ctx = ctx
         /\ Live(ctx)
         => Live(ctx)']_vars

(***************************************************************************)
(* ProcTable: "no stale V8 external can still call a recycled id".  Fails  *)
(* for a microtask of the context that was reset away, which calls a       *)
(* function of its own.                                                    *)
(***************************************************************************)
NoRecycledIdIsCalled ==
    [][\A f \in functions :
         CallHost(f) /\ f.ctx = Top.ctx => slots[f.slot].proc = f.proc]_vars

(***************************************************************************)
(* Context::dispose: "if the isolate was disposed first, the context went  *)
(* with it, so a failed DisposeContext send is success": the realm of a    *)
(* wrapper that says it is disposed is gone.  Fails when the request was   *)
(* refused, or came from another thread, in a live isolate.                *)
(***************************************************************************)
DisposedRealmsAreGone == \A w \in disposed : current[w.realm] = None
=============================================================================
