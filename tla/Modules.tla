------------------------------ MODULE Modules ------------------------------
(***************************************************************************)
(* ES modules and classic scripts: the registries of one isolate, compile, *)
(* instantiate with its resolve block, evaluate, namespace, dispose, and   *)
(* import(), which links and evaluates on its own -- while the resolvers,  *)
(* being Ruby code, use the isolate again, and realms are reset and        *)
(* disposed of.                                                            *)
(*                                                                         *)
(* The owner thread is a stack of activations as in Realms.tla, whose      *)
(* host functions, wrappers and microtask queue are left out here: of the  *)
(* drain that ends an outermost request (:auto mode) what is kept is that  *)
(* it runs JavaScript and settles modules with top-level await.  A         *)
(* resolver that raises, answers nil or is not set fails the edge alike.   *)
(***************************************************************************)
EXTENDS Naturals, Sequences, FiniteSets

CONSTANTS
    MaxRealms,      \* realms besides the main one
    MaxContexts,    \* bound: contexts ever created
    MaxCompiled,    \* bound: modules and scripts ever compiled
    MaxDepth        \* bound: activations on the stack

ASSUME ModulesAssumption ==
    /\ MaxRealms \in Nat /\ MaxCompiled \in Nat /\ MaxDepth \in Nat
    /\ MaxContexts \in Nat /\ MaxContexts > MaxRealms

VARIABLES
    stack,          \* activations, the outermost first
    activeRealms,   \* IsolateState.active_realms
    draining,       \* IsolateState.draining
    instantiating,  \* IsolateState.instantiating
    parked,         \* IsolateState.instantiate_resolve: who parked it, or None
    current,        \* realm id -> its context, None when disposed of
    stamp,          \* the realm of each context ever created
    modules,        \* everything ever compiled, classic scripts included
    registered      \* what ModuleReg.by_id and ScriptReg.by_id hold of it

realms == <<current, stamp>>
linking == <<instantiating, parked>>
vars == <<stack, activeRealms, draining, linking, realms, modules, registered>>

None == 0
Realm == 0..MaxRealms
Context == 1..MaxContexts
ModuleId == 1..MaxCompiled

(* v8::ModuleStatus, or a script; deps: what its imports were resolved to; *)
(* pending: the promise of an evaluated module is.                         *)
Status == {"uninstantiated", "instantiating", "instantiated",
           "evaluating", "evaluated", "errored", "script"}
Module ==
    [realm : Realm, ctx : Context, deps : SUBSET ModuleId, status : Status,
     pending : BOOLEAN]

(* All but "link" and "ruby" run JavaScript, an evaluate until it is       *)
(* "done"; "ruby" is a host function ("host") or a resolver.               *)
Source == {"request", "import"}
Activation ==
    [kind : {"request"}, ctx : Context, phase : {"run", "drain", "last"}]
    \cup [kind : {"call"}, ctx : Context]
    \cup [kind : {"link"}, by : Source, ctx : Context, walk : Seq(ModuleId), saved : 0..MaxDepth]
    \cup [kind : {"evaluate"}, by : Source, ctx : Context, root : ModuleId,
          graph : SUBSET ModuleId, phase : {"run", "drain", "done"}, ok : BOOLEAN]
    \cup [kind : {"ruby"}, for : {"host", "import"}, ctx : Context]
    \cup [kind : {"ruby"}, for : {"edge"}, from : ModuleId, static : BOOLEAN,
          here : Realm \cup {MaxRealms + 1}]

TypeOK ==
    /\ stack \in Seq(Activation) /\ Len(stack) <= MaxDepth
    /\ activeRealms \in Seq(Realm) /\ Len(activeRealms) <= Len(stack)
    /\ draining \in BOOLEAN /\ instantiating \in BOOLEAN
    /\ parked \in 0..MaxDepth
    /\ current \in [Realm -> {None} \cup DOMAIN stamp]
    /\ stamp \in Seq(Realm) /\ Len(stamp) <= MaxContexts
    /\ modules \in Seq(Module)
    /\ registered \subseteq DOMAIN modules

(* An isolate whose create_context was called MaxRealms times. *)
Init ==
    /\ stack = <<>> /\ activeRealms = <<>> /\ draining = FALSE
    /\ instantiating = FALSE /\ parked = None
    /\ current = [r \in Realm |-> r + 1]
    /\ stamp = [c \in 1..(MaxRealms + 1) |-> c - 1]
    /\ modules = <<>> /\ registered = {}

-----------------------------------------------------------------------------
Depth == Len(stack)
Top == stack[Depth]
Below == SubSeq(stack, 1, Depth - 1)
Idle == stack = <<>>
TopIs(kinds) == ~Idle /\ Top.kind \in kinds
InRuby == Idle \/ TopIs({"ruby"})
InScript ==
    \/ TopIs({"request", "call"})
    \/ TopIs({"evaluate"}) /\ Top.phase # "done"
InDrain == TopIs({"request", "evaluate"}) /\ Top.phase = "drain"

Push(activation) == Depth < MaxDepth /\ stack' = Append(stack, activation)

(* id_of_context; NoRealm is its None. *)
NoRealm == MaxRealms + 1
IdOf(ctx) == IF current[stamp[ctx]] = ctx THEN stamp[ctx] ELSE NoRealm

Activate(realm) == activeRealms' = Append(activeRealms, realm)
KeepRealm == UNCHANGED activeRealms
PopRealm == activeRealms' = SubSeq(activeRealms, 1, Len(activeRealms) - 1)

Active(realm) == \E i \in DOMAIN activeRealms : activeRealms[i] = realm

SetStatus(ids, status) ==
    [m \in DOMAIN modules |->
        IF m \in ids THEN [modules[m] EXCEPT !.status = status] ELSE modules[m]]

-----------------------------------------------------------------------------
(* Requests without JavaScript *)

Compile(realm, status) ==
    /\ InRuby
    /\ current[realm] # None
    /\ Len(modules) < MaxCompiled
    /\ modules' = Append(modules,
           [realm |-> realm, ctx |-> current[realm], deps |-> {}, status |-> status,
            pending |-> FALSE])
    /\ registered' = registered \cup {Len(modules) + 1}
    /\ UNCHANGED <<stack, activeRealms, draining, linking, realms>>

CompileModule(realm) == Compile(realm, "uninstantiated")
CompileScript(realm) == Compile(realm, "script")

(* op_dispose_module, op_dispose_script *)
Dispose(m) ==
    /\ InRuby
    /\ registered' = registered \ {m}
    /\ UNCHANGED <<stack, activeRealms, draining, linking, realms, modules>>

(* drop_context_artifacts *)
KeepArtifacts(realm) == UNCHANGED registered
DropArtifacts(realm) == registered' = {m \in registered : modules[m].realm # realm}

MayChange(realm) == InRuby /\ ~draining /\ current[realm] # None /\ ~Active(realm)

Reset(realm) ==
    /\ MayChange(realm)
    /\ Len(stamp) < MaxContexts
    /\ stamp' = Append(stamp, realm)
    /\ current' = [current EXCEPT ![realm] = Len(stamp) + 1]
    /\ DropArtifacts(realm)
    /\ UNCHANGED <<stack, activeRealms, draining, linking, modules>>

DisposeContext(realm) ==
    /\ MayChange(realm)
    /\ realm # 0
    /\ current' = [current EXCEPT ![realm] = None]
    /\ DropArtifacts(realm)
    /\ UNCHANGED <<stack, activeRealms, draining, linking, stamp, modules>>

-----------------------------------------------------------------------------
(* Requests with JavaScript, and what JavaScript does *)

BeginRequest(realm, drains) ==
    /\ InRuby
    /\ current[realm] # None
    /\ Push([kind |-> "request", ctx |-> current[realm],
             phase |-> IF drains /\ Idle THEN "run" ELSE "last"])
    /\ Activate(realm)
    /\ UNCHANGED <<draining, linking, realms, modules, registered>>

Eval(realm) == BeginRequest(realm, TRUE)
RunScript(m) == modules[m].status = "script" /\ BeginRequest(modules[m].realm, TRUE)

(* Marshalling the namespace may run accessors of what is exported. *)
Namespace(m) ==
    /\ modules[m].status \notin {"uninstantiated", "instantiating", "script"}
    /\ BeginRequest(modules[m].realm, FALSE)

(* auto_drain *)
RequestDrains ==
    /\ TopIs({"request"}) /\ Top.phase = "run"
    /\ stack' = [stack EXCEPT ![Depth].phase = "drain"]
    /\ draining' = TRUE
    /\ UNCHANGED <<activeRealms, linking, realms, modules, registered>>

RequestReturns ==
    /\ TopIs({"request"}) /\ Top.phase # "run"
    /\ stack' = Below
    /\ draining' = (draining /\ Top.phase # "drain")
    /\ PopRealm
    /\ UNCHANGED <<linking, realms, modules, registered>>

CallRealm(realm) ==
    /\ InScript
    /\ current[realm] \notin {None, Top.ctx}
    /\ Push([kind |-> "call", ctx |-> current[realm]])
    /\ UNCHANGED <<activeRealms, draining, linking, realms, modules, registered>>

CallHost ==
    /\ InScript
    /\ Push([kind |-> "ruby", for |-> "host", ctx |-> Top.ctx])
    /\ UNCHANGED <<activeRealms, draining, linking, realms, modules, registered>>

CallOrHostReturns ==
    /\ TopIs({"call"}) \/ (TopIs({"ruby"}) /\ Top.for = "host")
    /\ stack' = Below
    /\ UNCHANGED <<activeRealms, draining, linking, realms, modules, registered>>

-----------------------------------------------------------------------------
(* Instantiate *)

Link(by, ctx, m) ==
    [kind |-> "link", by |-> by, ctx |-> ctx, walk |-> <<m>>, saved |-> parked]

(* Neither instantiate nor import() links while a link is under way. *)
LinkAnyway == FALSE
LinkInProgress == instantiating

(* context_for: what the realm a module was compiled in has now. *)
ContextFor(m) == current[modules[m].realm]

(* swap_instantiate parks the block, op_instantiate_module links. *)
BeginInstantiate(m) ==
    /\ InRuby
    /\ ~LinkInProgress
    /\ ContextFor(m) # None
    /\ modules[m].status = "uninstantiated"
    /\ Push(Link("request", ContextFor(m), m))
    /\ Activate(modules[m].realm)
    /\ instantiating' = TRUE
    /\ parked' = Depth + 1
    /\ modules' = SetStatus({m}, "instantiating")
    /\ UNCHANGED <<draining, realms, registered>>

(* Linking already, or nothing to link: the pair parked is swapped back.   *)
ForgetParked(saved) == parked' = None
RestoreParked(saved) == parked' = saved

RefuseInstantiate(m) ==
    /\ InRuby
    /\ LinkInProgress \/ ContextFor(m) = None \/ modules[m].status # "uninstantiated"
    /\ modules[m].status # "script"
    /\ RestoreParked(parked)
    /\ UNCHANGED <<stack, activeRealms, draining, instantiating, realms, modules,
                   registered>>

(* V8 walks the imports of every module it reaches, here as many as it     *)
(* likes and in any order.  resolve_imported finds the referrer's url,     *)
(* notes the realm being linked and asks the block parked, or else the     *)
(* isolate's dynamic resolver.                                             *)
Walked(link) == {link.walk[i] : i \in DOMAIN link.walk}

AskResolver ==
    /\ TopIs({"link"})
    /\ \E from \in Walked(Top) \cap registered :
         Push([kind |-> "ruby", for |-> "edge", from |-> from, here |-> IdOf(Top.ctx),
               static |-> parked # None])
    /\ UNCHANGED <<activeRealms, draining, linking, realms, modules, registered>>

(* The module must be registered and of the realm noted. *)
Accepts(m) ==
    m \in registered /\ modules[m].status # "script" /\ modules[m].realm = Top.here

EdgeResolved(m) ==
    /\ TopIs({"ruby"}) /\ Top.for = "edge"
    /\ Accepts(m)
    /\ LET new == modules[m].status = "uninstantiated"
       IN  /\ modules' = [(IF new THEN SetStatus({m}, "instantiating") ELSE modules)
                              EXCEPT ![Top.from].deps = @ \cup {m}]
           /\ stack' = [Below EXCEPT ![Depth - 1].walk = IF new THEN Append(@, m) ELSE @]
    /\ UNCHANGED <<activeRealms, draining, linking, realms, registered>>

(* V8 puts the modules of a failed link back. *)
Unlinked(link) ==
    [m \in DOMAIN modules |->
        IF m \in Walked(link)
        THEN [modules[m] EXCEPT !.status = "uninstantiated", !.deps = {}]
        ELSE modules[m]]

LinkOver(link) ==
    /\ instantiating' = FALSE
    /\ RestoreParked(link.saved)
    /\ IF link.by = "request" THEN PopRealm ELSE KeepRealm

EdgeFails ==
    /\ TopIs({"ruby"}) /\ Top.for = "edge"
    /\ LET link == stack[Depth - 1]
       IN  /\ modules' = Unlinked(link)
           /\ stack' = SubSeq(stack, 1, Depth - 2)
           /\ LinkOver(link)
    /\ UNCHANGED <<draining, realms, registered>>

(* A module unregistered meanwhile has an import: module_url fails. *)
ReferrerGone ==
    /\ TopIs({"link"})
    /\ ~(Walked(Top) \subseteq registered)
    /\ modules' = Unlinked(Top)
    /\ stack' = Below
    /\ LinkOver(Top)
    /\ UNCHANGED <<draining, realms, registered>>

LinkSucceeds ==
    /\ TopIs({"link"}) /\ Top.by = "request"
    /\ modules' = SetStatus(Walked(Top), "instantiated")
    /\ stack' = Below
    /\ LinkOver(Top)
    /\ UNCHANGED <<draining, realms, registered>>

-----------------------------------------------------------------------------
(* Evaluate *)

(* What m imports, directly or not: the least set that imports lead out of *)
(* nowhere.                                                                *)
Closed(S, table) == \A x \in S : table[x].deps \subseteq S
Graph(m, table) ==
    {x \in DOMAIN table :
        \A S \in SUBSET DOMAIN table : m \in S /\ Closed(S, table) => x \in S}

(* evaluate() on table, the modules as the link left them. *)
Evaluation(by, m, table) ==
    [kind |-> "evaluate", by |-> by, ctx |-> table[m].ctx, root |-> m,
     graph |-> {x \in Graph(m, table) : table[x].status = "instantiated"},
     phase |-> "run", ok |-> TRUE]
Evaluating(m, table) ==
    [x \in DOMAIN table |->
        IF x \in Graph(m, table) /\ table[x].status = "instantiated"
        THEN [table[x] EXCEPT !.status = "evaluating"] ELSE table[x]]

BeginEvaluate(m) ==
    /\ InRuby
    /\ ContextFor(m) # None
    /\ modules[m].status = "instantiated"
    /\ Push(Evaluation("request", m, modules))
    /\ Activate(modules[m].realm)
    /\ modules' = Evaluating(m, modules)
    /\ UNCHANGED <<draining, linking, realms, registered>>

(* Not to be evaluated: the outermost request drains all the same. *)
EvaluateOther(m) ==
    /\ Idle
    /\ ContextFor(m) # None
    /\ modules[m].status \notin {"instantiated", "script"}
    /\ MaxDepth > 0
    /\ stack' = <<[Evaluation("request", m, modules) EXCEPT !.phase = "drain", !.graph = {},
                       !.ok = modules[m].status = "evaluated"]>>
    /\ Activate(modules[m].realm)
    /\ draining' = TRUE
    /\ UNCHANGED <<linking, realms, modules, registered>>

(* The body ran to its end, or to its first await. *)
BodyEnds ==
    \/ /\ \A x \in Graph(Top.root, modules) : modules[x].status # "errored"
       /\ \E pending \in BOOLEAN :
            modules' = [SetStatus(Top.graph, "evaluated") EXCEPT ![Top.root].pending = pending]
    \/ \E bad \in SUBSET Top.graph :
            /\ Top.root \in bad
            /\ modules' = [x \in DOMAIN modules |->
                   IF x \in Top.graph
                   THEN [modules[x] EXCEPT !.status = IF x \in bad THEN "errored" ELSE "evaluated"]
                   ELSE modules[x]]

(* The drain comes next when the evaluate is the outermost request. *)
Evaluated ==
    /\ TopIs({"evaluate"}) /\ Top.phase = "run" /\ Depth = 1
    /\ BodyEnds
    /\ stack' = <<[Top EXCEPT !.phase = "drain", !.ok = modules'[Top.root].status # "errored"]>>
    /\ draining' = TRUE
    /\ UNCHANGED <<activeRealms, linking, realms, registered>>

EvaluatedInside ==
    /\ TopIs({"evaluate"}) /\ Top.phase = "run" /\ Depth > 1
    /\ BodyEnds
    /\ stack' = Below
    /\ IF Top.by = "request" THEN PopRealm ELSE KeepRealm
    /\ UNCHANGED <<draining, linking, realms, registered>>

(* A continuation run by the drain settles a module's promise. *)
Settles(m) ==
    /\ InDrain
    /\ modules[m].pending
    /\ \E status \in {"evaluated", "errored"} :
         modules' = [modules EXCEPT ![m].pending = FALSE, ![m].status = status]
    /\ UNCHANGED <<stack, activeRealms, draining, linking, realms, registered>>

(* The promise of the module just evaluated is read again after the drain. *)
StaleVerdict == Top.ok
Verdict == Top.ok /\ (Top.graph # {} => modules[Top.root].status # "errored")

DrainEnds ==
    /\ TopIs({"evaluate"}) /\ Top.phase = "drain"
    /\ stack' = [stack EXCEPT ![Depth].phase = "done", ![Depth].ok = Verdict]
    /\ draining' = FALSE
    /\ UNCHANGED <<activeRealms, linking, realms, modules, registered>>

EvaluateReturns ==
    /\ TopIs({"evaluate"}) /\ Top.phase = "done"
    /\ stack' = Below
    /\ PopRealm
    /\ UNCHANGED <<draining, linking, realms, modules, registered>>

-----------------------------------------------------------------------------
(* import() *)

Import ==
    /\ InScript
    /\ Push([kind |-> "ruby", for |-> "import", ctx |-> Top.ctx])
    /\ UNCHANGED <<activeRealms, draining, linking, realms, modules, registered>>

(* dynamic_import_cb looks at the realm after the resolver has answered. *)
Importable(m) == m \in registered /\ modules[m].realm = IdOf(Top.ctx)

ImportFails ==
    /\ TopIs({"ruby"}) /\ Top.for = "import"
    /\ stack' = Below
    /\ UNCHANGED <<activeRealms, draining, linking, realms, modules, registered>>

(* finish_dynamic_import links, unless a link is under way ... *)
ImportLinks(m) ==
    /\ TopIs({"ruby"}) /\ Top.for = "import"
    /\ Importable(m)
    /\ modules[m].status = "uninstantiated"
    /\ ~LinkInProgress
    /\ stack' = Append(Below, Link("import", Top.ctx, m))
    /\ instantiating' = TRUE
    /\ modules' = SetStatus({m}, "instantiating")
    /\ UNCHANGED <<activeRealms, draining, parked, realms, registered>>

(* ... and evaluates, a module of its own link ... *)
LinkedImportEvaluates ==
    /\ TopIs({"link"}) /\ Top.by = "import"
    /\ LET linked == SetStatus(Walked(Top), "instantiated")
           m == Top.walk[1]
       IN  /\ stack' = Append(Below, Evaluation("import", m, linked))
           /\ modules' = Evaluating(m, linked)
    /\ LinkOver(Top)
    /\ UNCHANGED <<draining, realms, registered>>

(* ... or one linked before; an evaluated one has its promise already, a   *)
(* busy or failed one rejects (ImportFails).                               *)
ImportEvaluates(m) ==
    /\ TopIs({"ruby"}) /\ Top.for = "import"
    /\ Importable(m)
    /\ modules[m].status = "instantiated"
    /\ stack' = Append(Below, Evaluation("import", m, modules))
    /\ modules' = Evaluating(m, modules)
    /\ UNCHANGED <<activeRealms, draining, linking, realms, registered>>

-----------------------------------------------------------------------------
Next ==
    \/ \E realm \in Realm :
         \/ CompileModule(realm) \/ CompileScript(realm)
         \/ Reset(realm) \/ DisposeContext(realm)
         \/ Eval(realm) \/ CallRealm(realm)
    \/ \E m \in registered :
         \/ Dispose(m) \/ RunScript(m) \/ Namespace(m)
         \/ BeginInstantiate(m) \/ RefuseInstantiate(m) \/ EdgeResolved(m)
         \/ BeginEvaluate(m) \/ EvaluateOther(m)
         \/ ImportLinks(m) \/ ImportEvaluates(m)
    \/ RequestDrains \/ RequestReturns \/ CallHost \/ CallOrHostReturns
    \/ AskResolver \/ EdgeFails \/ ReferrerGone \/ LinkSucceeds
    \/ Evaluated \/ EvaluatedInside \/ DrainEnds \/ EvaluateReturns
    \/ \E m \in DOMAIN modules : Settles(m)
    \/ Import \/ ImportFails \/ LinkedImportEvaluates

Spec == Init /\ [][Next]_vars

-----------------------------------------------------------------------------
(* Safety *)

(***************************************************************************)
(* Two links are never under way at once, whatever the resolvers of the    *)
(* first do: V8 would walk a half-built graph.                             *)
(***************************************************************************)
OneLinkAtATime ==
    \A i, j \in DOMAIN stack : stack[i].kind = "link" /\ stack[j].kind = "link" => i = j

(***************************************************************************)
(* Every import met by an instantiate is put to that instantiate's own     *)
(* resolve block, and no import() is, although a refused instantiate       *)
(* parks its block in the same place; nothing stays parked afterwards.     *)
(***************************************************************************)
EdgesAskTheirResolver ==
    /\ \A i \in DOMAIN stack :
         /\ stack[i].kind = "link" => parked = IF stack[i].by = "request" THEN i ELSE None
         /\ stack[i].kind = "ruby" /\ stack[i].for = "edge" =>
              stack[i].static = (stack[i - 1].by = "request")
    /\ (\A i \in DOMAIN stack : stack[i].kind # "link") => parked = None /\ ~instantiating

(***************************************************************************)
(* An instantiate links modules of its own context only, whatever its      *)
(* resolve block does to realms: a foreign one would abort the process.    *)
(***************************************************************************)
InstantiateStaysInContext ==
    \A i \in DOMAIN stack :
        stack[i].kind = "link" /\ stack[i].by = "request" =>
            \A m \in Walked(stack[i]) : modules[m].ctx = stack[i].ctx

(***************************************************************************)
(* An evaluate that evaluated its module does not reply success when the   *)
(* drain that followed settled the module as failed.                       *)
(***************************************************************************)
VerdictIsFresh ==
    TopIs({"evaluate"}) /\ Top.phase = "done" /\ Top.graph # {} /\ Top.ok
        => modules[Top.root].status # "errored"

-----------------------------------------------------------------------------
(* What the comments say, and the code does not do *)

(***************************************************************************)
(* resolve_imported: "The dep must live in the context actually being      *)
(* linked".  Fails for the link of an import() made by a function called   *)
(* from another realm, whose realm the resolver resets.                    *)
(***************************************************************************)
LinksStayInContext ==
    \A i \in DOMAIN stack :
        stack[i].kind = "link" =>
            \A m \in Walked(stack[i]) : modules[m].ctx = stack[i].ctx
=============================================================================
