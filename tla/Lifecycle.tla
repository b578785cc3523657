----------------------------- MODULE Lifecycle -----------------------------
(***************************************************************************)
(* Isolates from creation to disposal: the thread each belongs to, the     *)
(* operations that run on it (Core::run) and call back into Ruby, V8's     *)
(* stack of entered isolates, explicit dispose, the drop of the last       *)
(* wrapper by the collector on whatever thread, the poisoning of an        *)
(* isolate after a panic, and the count of leaked isolates.                *)
(*                                                                         *)
(* A step is what one thread does without letting another thread's Ruby    *)
(* code in (the GVL); an operation gives the GVL up while it runs.  What   *)
(* an operation does to requests and realms is in Requests.tla and         *)
(* Realms.tla; the watchdog thread in full is in Watchdog.tla.             *)
(***************************************************************************)
EXTENDS Naturals, Sequences, FiniteSets

CONSTANTS
    Thread,         \* addresses of Ruby Thread objects
    Isolate,        \* ids of isolates
    None,           \* neither a thread nor an isolate
    Interrupts,     \* whether Thread#raise, #kill or Timeout hit an operation
    MaxDepth,       \* bound: Core.depth
    MaxFrames,      \* bound: operations on one thread's stack
    MaxLives        \* bound: threads that ever have one address

(* inRuby: the operation has called a host function or a resolver. *)
Frame == [iso : Isolate, enters : BOOLEAN, inRuby : BOOLEAN]
Teardown == [iso : Isolate, phase : {"join", "drop"}]

ASSUME LifecycleAssumption ==
    /\ None \notin Thread
    /\ None \notin {"running", "told", "stopped"}
    /\ None \notin Teardown
    /\ Interrupts \in BOOLEAN
    /\ IsFiniteSet(Isolate)
    /\ MaxDepth \in Nat /\ MaxFrames \in Nat /\ MaxLives \in Nat \ {0}

VARIABLES
    owner,          \* Core.owner; None before Isolate.new
    birth,          \* which of the threads at that address created it
    life,           \* which thread has the address now
    registry,       \* ISOLATES
    disposed,       \* isolates whose Shared.disposed is set
    depth,          \* Core.depth
    held,           \* isolates some wrapper of which is reachable
    watchdog,       \* "running", "told" to stop, "stopped"; None before
    leaked,         \* LEAKED_ISOLATES
    frames,         \* per thread: Core::run activations, the outermost first
    entered,        \* per thread: V8's stack of entered isolates
    teardown        \* per thread: Core::teardown in progress

threads == <<frames, entered, life>>
vars == <<owner, birth, registry, disposed, depth, held, watchdog, leaked,
          threads, teardown>>

TypeOK ==
    /\ owner \in [Isolate -> Thread \cup {None}]
    /\ life \in [Thread -> 1..MaxLives]
    /\ birth \in [Isolate -> 0..MaxLives]
    /\ registry \subseteq {i \in Isolate : owner[i] # None}
    /\ held \subseteq {i \in Isolate : owner[i] # None}
    /\ disposed \subseteq {i \in Isolate : owner[i] # None}
    /\ depth \in [Isolate -> 0..MaxDepth]
    /\ watchdog \in [Isolate -> {None, "running", "told", "stopped"}]
    /\ leaked \in 0..Cardinality(Isolate)
    /\ frames \in [Thread -> Seq(Frame)]
    /\ entered \in [Thread -> Seq(Isolate)]
    /\ teardown \in [Thread -> Teardown \cup {None}]

Init ==
    /\ owner = [i \in Isolate |-> None]
    /\ birth = [i \in Isolate |-> 0]
    /\ life = [t \in Thread |-> 1]
    /\ registry = {} /\ disposed = {} /\ held = {}
    /\ depth = [i \in Isolate |-> 0]
    /\ watchdog = [i \in Isolate |-> None]
    /\ leaked = 0
    /\ frames = [t \in Thread |-> <<>>]
    /\ entered = [t \in Thread |-> <<>>]
    /\ teardown = [t \in Thread |-> None]

-----------------------------------------------------------------------------
Last(s) == s[Len(s)]
Front(s) == SubSeq(s, 1, Len(s) - 1)

(* Teardown keeps the GVL from beginning to end, the join included. *)
GvlIsFree == \A t \in Thread : teardown[t] = None
RunsRuby(t) == GvlIsFree /\ (frames[t] # <<>> => Last(frames[t]).inRuby)
RunsOperation(t) == frames[t] # <<>> /\ ~Last(frames[t]).inRuby

(* Every thread's address is its own while some Core roots it. *)
NothingRooted == {}
RootedThreads == {owner[i] : i \in held}

-----------------------------------------------------------------------------
(* Threads come and go *)

(* A thread ends, and a new one gets the address of its Thread object. *)
ReuseAddress(t) ==
    /\ GvlIsFree
    /\ frames[t] = <<>>
    /\ t \notin RootedThreads
    /\ life[t] < MaxLives
    /\ life' = [life EXCEPT ![t] = @ + 1]
    /\ UNCHANGED <<owner, birth, registry, disposed, depth, held, watchdog, leaked,
                   frames, entered, teardown>>

(* Isolate::new: enters, boots the main realm, registers, exits. *)
New(t, i) ==
    /\ RunsRuby(t)
    /\ owner[i] = None
    /\ owner' = [owner EXCEPT ![i] = t]
    /\ birth' = [birth EXCEPT ![i] = life[t]]
    /\ registry' = registry \cup {i}
    /\ held' = held \cup {i}
    /\ watchdog' = [watchdog EXCEPT ![i] = "running"]
    /\ UNCHANGED <<disposed, depth, leaked, threads, teardown>>

-----------------------------------------------------------------------------
(* Core::run *)

(* ensure_owner_and_live *)
OwnerAndLive(t, i) == i \in held /\ owner[i] = t /\ i \notin disposed

(* Depth 0 enters the isolate, anything else is a re-entry. *)
BeginOperation(t, i) ==
    /\ RunsRuby(t)
    /\ OwnerAndLive(t, i)
    /\ depth[i] < MaxDepth /\ Len(frames[t]) < MaxFrames
    /\ depth' = [depth EXCEPT ![i] = @ + 1]
    /\ frames' = [frames EXCEPT ![t] =
           Append(@, [iso |-> i, enters |-> depth[i] = 0, inRuby |-> FALSE])]
    /\ entered' = IF depth[i] = 0
                  THEN [entered EXCEPT ![t] = Append(@, i)] ELSE entered
    /\ UNCHANGED <<owner, birth, life, registry, disposed, held, watchdog, leaked, teardown>>

CallRuby(t) ==
    /\ RunsOperation(t)
    /\ GvlIsFree
    /\ frames' = [frames EXCEPT ![t][Len(frames[t])].inRuby = TRUE]
    /\ UNCHANGED <<owner, birth, life, registry, disposed, depth, held, watchdog, leaked,
                   entered, teardown>>

RubyReturns(t) ==
    /\ frames[t] # <<>>
    /\ RunsRuby(t)
    /\ frames' = [frames EXCEPT ![t][Len(frames[t])].inRuby = FALSE]
    /\ UNCHANGED <<owner, birth, life, registry, disposed, depth, held, watchdog, leaked,
                   entered, teardown>>

(* The closure run without the GVL is over. *)
LeaveByDepth(t) ==
    /\ RunsOperation(t)
    /\ GvlIsFree
    /\ frames' = [frames EXCEPT ![t] = Front(@)]
    /\ entered' = IF depth[Last(frames[t]).iso] = 1
                  THEN [entered EXCEPT ![t] = Front(@)] ELSE entered

Leave(t) ==
    /\ RunsOperation(t)
    /\ GvlIsFree
    /\ frames' = [frames EXCEPT ![t] = Front(@)]
    /\ entered' = IF Last(frames[t]).enters
                  THEN [entered EXCEPT ![t] = Front(@)] ELSE entered

OperationReturns(t) ==
    /\ Leave(t)
    /\ depth' = [depth EXCEPT ![Last(frames[t]).iso] = @ - 1]
    /\ UNCHANGED <<owner, birth, life, registry, disposed, held, watchdog, leaked, teardown>>

(* catch_unwind caught a panic: the isolate is poisoned. *)
PanicStartsOver(t) ==
    /\ Leave(t)
    /\ depth' = [depth EXCEPT ![Last(frames[t]).iso] = 0]
    /\ disposed' = disposed \cup {Last(frames[t]).iso}
    /\ UNCHANGED <<owner, birth, life, registry, held, watchdog, leaked, teardown>>

OperationPanics(t) ==
    /\ Leave(t)
    /\ depth' = [depth EXCEPT ![Last(frames[t]).iso] = @ - 1]
    /\ disposed' = disposed \cup {Last(frames[t]).iso}
    /\ UNCHANGED <<owner, birth, life, registry, held, watchdog, leaked, teardown>>

(* rb_thread_call_without_gvl checks for interrupts once it has the GVL    *)
(* back, and one that raises leaves Core::run by longjmp.                  *)
OperationInterrupted(t) ==
    /\ Interrupts
    /\ Leave(t)
    /\ UNCHANGED <<owner, birth, life, registry, disposed, depth, held, watchdog, leaked, teardown>>

-----------------------------------------------------------------------------
(* Dispose and drop *)

(* teardown begins: request_shutdown. *)
BeginTeardown(t, i) ==
    /\ disposed' = disposed \cup {i}
    /\ teardown' = [teardown EXCEPT ![t] = [iso |-> i, phase |-> "join"]]
    /\ watchdog' = [watchdog EXCEPT ![i] = IF @ = "running" THEN "told" ELSE @]

(* Core::dispose; from elsewhere, twice or in mid-operation it does nothing. *)
NeverRefused(i) == FALSE
Refused(i) == depth[i] # 0

Dispose(t, i) ==
    /\ RunsRuby(t)
    /\ OwnerAndLive(t, i)
    /\ ~Refused(i)
    /\ BeginTeardown(t, i)
    /\ UNCHANGED <<owner, birth, registry, depth, held, leaked, threads>>

NoJoin(i) == TRUE
Joined(i) == watchdog[i] = "stopped"

(* ... the watchdog is joined, the isolate entered, procs and globals go ... *)
Join(t) ==
    /\ teardown[t] # None /\ teardown[t].phase = "join"
    /\ Joined(teardown[t].iso)
    /\ teardown' = [teardown EXCEPT ![t].phase = "drop"]
    /\ entered' = [entered EXCEPT ![t] = Append(@, teardown[t].iso)]
    /\ UNCHANGED <<owner, birth, life, registry, disposed, depth, held, watchdog, leaked, frames>>

(* ... and the OwnedIsolate is dropped, which exits it. *)
DropIsolate(t) ==
    /\ teardown[t] # None /\ teardown[t].phase = "drop"
    /\ registry' = registry \ {teardown[t].iso}
    /\ entered' = [entered EXCEPT ![t] = Front(@)]
    /\ teardown' = [teardown EXCEPT ![t] = None]
    /\ UNCHANGED <<owner, birth, life, disposed, depth, held, watchdog, leaked, frames>>

(* A running operation keeps its receiver, a wrapper, reachable. *)
InUse(i) == \E t \in Thread : \E k \in DOMAIN frames[t] : frames[t][k].iso = i

(* Drop for Core, on the thread on which the collector runs. *)
CollectDisposed(t, i) ==
    /\ i \in disposed
    /\ UNCHANGED <<disposed, teardown, watchdog, leaked>>

CollectByOwner(t, i) ==
    /\ i \notin disposed /\ owner[i] = t
    /\ BeginTeardown(t, i)
    /\ UNCHANGED leaked

CollectElsewhereFirst(t, i) ==
    /\ owner[i] # t
    /\ leaked' = leaked + 1
    /\ watchdog' = [watchdog EXCEPT ![i] = "told"]
    /\ UNCHANGED <<disposed, teardown>>

CollectElsewhere(t, i) ==
    /\ i \notin disposed /\ owner[i] # t
    /\ leaked' = leaked + 1
    /\ watchdog' = [watchdog EXCEPT ![i] = "told"]
    /\ UNCHANGED <<disposed, teardown>>

Collect(t, i) ==
    /\ RunsRuby(t)
    /\ i \in held /\ ~InUse(i)
    /\ held' = held \ {i}
    /\ CollectDisposed(t, i) \/ CollectByOwner(t, i) \/ CollectElsewhere(t, i)
    /\ UNCHANGED <<owner, birth, registry, depth, threads>>

WatchdogStops(i) ==
    /\ watchdog[i] = "told"
    /\ watchdog' = [watchdog EXCEPT ![i] = "stopped"]
    /\ UNCHANGED <<owner, birth, registry, disposed, depth, held, leaked, threads, teardown>>

-----------------------------------------------------------------------------
Next ==
    \/ \E t \in Thread :
         \/ ReuseAddress(t)
         \/ \E i \in Isolate :
              New(t, i) \/ BeginOperation(t, i) \/ Dispose(t, i) \/ Collect(t, i)
         \/ CallRuby(t) \/ RubyReturns(t)
         \/ OperationReturns(t) \/ OperationPanics(t) \/ OperationInterrupted(t)
         \/ Join(t) \/ DropIsolate(t)
    \/ \E i \in Isolate : WatchdogStops(i)

Spec == Init /\ [][Next]_vars

-----------------------------------------------------------------------------
(* Safety *)

(***************************************************************************)
(* No isolate is freed, nor is its teardown under way, while an operation  *)
(* of it is on a stack: "would tear the isolate down mid-run".             *)
(***************************************************************************)
RunningIsolatesExist ==
    \A t \in Thread : \A k \in DOMAIN frames[t] :
        /\ frames[t][k].iso \in registry
        /\ \A u \in Thread : teardown[u] # None => teardown[u].iso # frames[t][k].iso

(***************************************************************************)
(* The watchdog is gone before anything of the isolate is: "so no late     *)
(* TerminateExecution can land on the isolate while we clear and drop it". *)
(***************************************************************************)
WatchdogGoesFirst ==
    \A i \in Isolate :
        (\/ owner[i] # None /\ i \notin registry
         \/ \E t \in Thread : teardown[t] = [iso |-> i, phase |-> "drop"])
        => watchdog[i] = "stopped"

(***************************************************************************)
(* An operation runs on the very thread that created the isolate, not on   *)
(* one that was given the address of its Thread object.                    *)
(***************************************************************************)
OperationsStayOnTheirThread ==
    \A t \in Thread : \A k \in DOMAIN frames[t] :
        owner[frames[t][k].iso] = t /\ birth[frames[t][k].iso] = life[t]

Lost == {i \in Isolate : owner[i] # None /\ i \notin held /\ i \notin disposed}

(***************************************************************************)
(* leaked_isolate_count is the number of isolates that lost their last     *)
(* wrapper without being disposed of; they stay in the registry.           *)
(***************************************************************************)
LeaksAreCounted ==
    /\ leaked = Cardinality(Lost)
    /\ \A i \in Isolate : owner[i] # None /\ i \notin disposed => i \in registry

(***************************************************************************)
(* V8's entry stack of a thread is its outermost operations in order, and  *)
(* on top of them the isolate being dropped: whoever exits, exits the      *)
(* isolate it entered.                                                     *)
(***************************************************************************)
Entering(stack) == {k \in DOMAIN stack : stack[k].enters}
Position(stack, k) == Cardinality({j \in Entering(stack) : j <= k})
Dropping(t) == teardown[t] # None /\ teardown[t].phase = "drop"

EntriesNest ==
    \A t \in Thread :
        /\ Len(entered[t]) = Cardinality(Entering(frames[t])) + (IF Dropping(t) THEN 1 ELSE 0)
        /\ \A k \in Entering(frames[t]) : entered[t][Position(frames[t], k)] = frames[t][k].iso
        /\ Dropping(t) => Last(entered[t]) = teardown[t].iso

(***************************************************************************)
(* Core::run, dispose and the drop of the last wrapper do together what    *)
(* Isolates.tla promises: depth, owner address and flags are enough to     *)
(* keep an isolate to its thread, and to tear it down once, unused.        *)
(***************************************************************************)
Makers == [i \in Isolate |-> IF owner[i] = None THEN None ELSE <<owner[i], birth[i]>>]
Closing == {i \in Isolate : \E t \in Thread : teardown[t] # None /\ teardown[t].iso = i}
Freed == {i \in Isolate : owner[i] # None /\ i \notin registry}
Calls == [t \in Thread |-> [k \in DOMAIN frames[t] |-> frames[t][k].iso]]

Contract == INSTANCE Isolates WITH
    maker <- Makers, usable <- held \ disposed, closing <- Closing,
    freed <- Freed, lost <- Lost, calls <- Calls

ImplementsIsolates == Contract!Spec

-----------------------------------------------------------------------------
(* What the comments say, and the code does not do *)

(***************************************************************************)
(* Drop for Core: "Explicit dispose already tore the isolate down --       *)
(* nothing to do": a Core dropped with the flag set has no isolate left.   *)
(* Fails for an isolate poisoned by a panic.                               *)
(***************************************************************************)
DisposedIsTornDown ==
    \A i \in disposed : i \notin held /\ GvlIsFree => i \notin registry

(***************************************************************************)
(* Core.depth: "0 = top-level op, > 0 = a host callback is on the V8       *)
(* stack".  Fails after an interrupt raised at the end of an operation.    *)
(***************************************************************************)
FramesOf(i) == {p \in Thread \X (1..MaxFrames) :
                  p[2] \in DOMAIN frames[p[1]] /\ frames[p[1]][p[2]].iso = i}
DepthIsTheStack == \A i \in Isolate : depth[i] = Cardinality(FramesOf(i))

(***************************************************************************)
(* Core::run, re-entrant: "the isolate is already entered by the depth-0   *)
(* op, so bootstrap onto the ambient HandleScope rather than re-enter":    *)
(* JavaScript runs in the thread's current isolate.  Fails when an         *)
(* operation of another isolate is between the two.                        *)
(***************************************************************************)
RunsInTheCurrentIsolate ==
    \A t \in Thread :
        RunsOperation(t) => entered[t] # <<>> /\ Last(entered[t]) = Last(frames[t]).iso
=============================================================================
