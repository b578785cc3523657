------------------------------ MODULE Watchdog ------------------------------
(***************************************************************************)
(* The execution watchdog of one isolate (watchdog.rs): a persistent       *)
(* thread that sleeps on a condition variable, and the owner thread, whose *)
(* nested requests arm and disarm deadlines and which finally shuts the    *)
(* thread down.                                                            *)
(*                                                                         *)
(* Atomicity.  The owner's critical sections (arm, disarm, the flag write  *)
(* of request_shutdown) are one step each: they hold the mutex throughout. *)
(* The loop holds the mutex from the moment it wakes until it waits again, *)
(* so while it fires ("firing", "locked") no owner section can run, but    *)
(* the clock can.  request_shutdown notifies after releasing the mutex: a  *)
(* step of its own.  The clock is read and waited on in one step.          *)
(***************************************************************************)
EXTENDS Naturals, FiniteSets

CONSTANTS
    Timeouts,   \* the timeouts (in ticks) a request may ask for; 0 arms nothing
    MaxArms,    \* bound: how many generations are ever armed
    Horizon     \* bound: the last instant of the clock

ASSUME WatchdogAssumption ==
    /\ Timeouts \subseteq Nat \ {0}
    /\ MaxArms \in Nat
    /\ Horizon \in Nat

VARIABLES
    (* WatchdogInner, under the mutex *)
    frames,           \* Vec<WatchdogFrame>: generations are unique, so a set
    nextGeneration,
    firedGeneration,  \* Option<u64>: one slot
    shutdown,
    (* the thread *)
    loop,             \* where watchdog_loop is
    target,           \* its local `frame`: waited for ("timed") or fired ("firing")
    now,              \* the monotonic clock
    (* the owner thread *)
    open,             \* the frames of the requests inside their arm/disarm bracket
    owner,            \* "serving", "flagged" (notify pending), "joining", "joined"
    (* history since the outermost open bracket was armed *)
    hit,              \* generations terminate_execution was called for
    told              \* generations whose disarm returned true

inner == <<frames, nextGeneration, firedGeneration, shutdown>>
thread == <<loop, target>>
history == <<hit, told>>
vars == <<inner, thread, now, open, owner, history>>

None == 0
NoFrame == [generation |-> None, deadline |-> 0]
WatchdogFrame == [generation : 1..MaxArms, deadline : 0..Horizon]
Generations(fs) == {f.generation : f \in fs}

(* Vec::retain: every frame but that of generation g. *)
RetainNothing(fs, g) == {}
RetainAll(fs, g) == fs
Without(fs, g) == {f \in fs : f.generation # g}

(* The thread holds the mutex from its return from a wait to its next wait. *)
NoMutex == TRUE
LockFree == loop \notin {"locked", "firing"}

TypeOK ==
    /\ frames \subseteq WatchdogFrame
    /\ nextGeneration \in 0..MaxArms
    /\ firedGeneration \in 0..MaxArms
    /\ shutdown \in BOOLEAN
    /\ loop \in {"ready", "locked", "firing", "idle", "timed", "done"}
    /\ target \in WatchdogFrame \cup {NoFrame}
    /\ now \in 0..Horizon
    /\ open \subseteq WatchdogFrame
    /\ owner \in {"serving", "flagged", "joining", "joined"}
    /\ hit \subseteq 1..MaxArms
    /\ told \subseteq 1..MaxArms

(* WatchdogShared::new, and the thread spawned but not yet at the mutex. *)
Init ==
    /\ frames = {} /\ nextGeneration = 0 /\ firedGeneration = None
    /\ shutdown = FALSE
    /\ loop = "ready" /\ target = NoFrame
    /\ now = 0
    /\ open = {} /\ owner = "serving"
    /\ hit = {} /\ told = {}

-----------------------------------------------------------------------------
(* watchdog_loop *)

(* min_by_key returns the first minimum, and frames are pushed in order. *)
Earliest(f) ==
    /\ f \in frames
    /\ \A g \in frames :
         \/ f.deadline < g.deadline
         \/ f.deadline = g.deadline /\ f.generation <= g.generation

AtTop == loop \in {"ready", "locked"}

LoopExit ==
    /\ AtTop
    /\ shutdown
    /\ loop' = "done"
    /\ UNCHANGED <<inner, target, now, open, owner, history>>

LoopIdle ==
    /\ AtTop
    /\ ~shutdown
    /\ frames = {}
    /\ loop' = "idle"
    /\ UNCHANGED <<inner, target, now, open, owner, history>>

LoopWait ==
    /\ AtTop
    /\ ~shutdown
    /\ \E f \in frames :
         /\ Earliest(f)
         /\ now < f.deadline
         /\ target' = f
    /\ loop' = "timed"
    /\ UNCHANGED <<inner, now, open, owner, history>>

LoopTerminate ==
    /\ AtTop
    /\ ~shutdown
    /\ \E f \in frames :
         /\ Earliest(f)
         /\ now >= f.deadline
         /\ target' = f
         /\ hit' = hit \cup {f.generation}
    /\ loop' = "firing"
    /\ UNCHANGED <<inner, now, open, owner, told>>

LoopRecordFired ==
    /\ loop = "firing"
    /\ firedGeneration' = target.generation
    /\ frames' = Without(frames, target.generation)
    /\ loop' = "locked"
    /\ target' = NoFrame
    /\ UNCHANGED <<nextGeneration, shutdown, now, open, owner, history>>

(* wait_timeout returns because its time is up. *)
LoopTimeout ==
    /\ loop = "timed"
    /\ now >= target.deadline
    /\ loop' = "ready"
    /\ target' = NoFrame
    /\ UNCHANGED <<inner, now, open, owner, history>>

(* A condition variable may return from a wait for no reason. *)
SpuriousWakeup ==
    /\ loop \in {"idle", "timed"}
    /\ loop' = "ready"
    /\ target' = NoFrame
    /\ UNCHANGED <<inner, now, open, owner, history>>

(* notify_one: the loop is the only thread that ever waits. *)
NotifyNobody == UNCHANGED thread
NotifyIdleOnly ==
    IF loop = "idle" THEN loop' = "ready" /\ target' = NoFrame ELSE UNCHANGED thread
NotifyOne ==
    IF loop \in {"idle", "timed"}
    THEN loop' = "ready" /\ target' = NoFrame
    ELSE UNCHANGED thread

Tick ==
    /\ now < Horizon
    /\ now' = now + 1
    /\ UNCHANGED <<inner, thread, open, owner, history>>

-----------------------------------------------------------------------------
(* The owner thread *)

(* arm_watchdog with timeout_ms > 0; the other case changes nothing. *)
ArmBeforeIncrement(timeout) ==
    /\ owner = "serving" /\ LockFree
    /\ nextGeneration < MaxArms
    /\ now + timeout <= Horizon
    /\ LET f == [generation |-> nextGeneration, deadline |-> now + timeout]
       IN  frames' = frames \cup {f} /\ open' = open \cup {f}
    /\ nextGeneration' = nextGeneration + 1
    /\ NotifyOne
    /\ UNCHANGED <<firedGeneration, shutdown, now, owner, history>>
ArmWatchdog(timeout) ==
    /\ owner = "serving"
    /\ LockFree
    /\ nextGeneration < MaxArms
    /\ now + timeout <= Horizon
    /\ LET f == [generation |-> nextGeneration + 1, deadline |-> now + timeout]
       IN  /\ frames' = frames \cup {f}
           /\ open' = open \cup {f}
    /\ nextGeneration' = nextGeneration + 1
    /\ NotifyOne
    /\ hit' = IF open = {} THEN {} ELSE hit
    /\ told' = IF open = {} THEN {} ELSE told
    /\ UNCHANGED <<firedGeneration, shutdown, now, owner>>

(* Brackets are call frames: the one that disarms is the last that armed. *)
Innermost(f) == f \in open /\ \A g \in open : g.generation <= f.generation

(* The result of disarm_watchdog. *)
AnyFired(f) == firedGeneration # None
Fired(f) == firedGeneration = f.generation

DisarmDiscardingSlot(f) ==
    /\ owner = "serving" /\ LockFree
    /\ Innermost(f)
    /\ frames' = Without(frames, f.generation)
    /\ open' = open \ {f}
    /\ firedGeneration' = None
    /\ told' = IF Fired(f) THEN told \cup {f.generation} ELSE told
    /\ NotifyOne
    /\ UNCHANGED <<nextGeneration, shutdown, now, owner, hit>>

DisarmWatchdog(f) ==
    /\ owner = "serving"
    /\ LockFree
    /\ Innermost(f)
    /\ frames' = Without(frames, f.generation)
    /\ open' = open \ {f}
    /\ IF Fired(f)
       THEN firedGeneration' = None /\ told' = told \cup {f.generation}
       ELSE UNCHANGED <<firedGeneration, told>>
    /\ NotifyOne
    /\ UNCHANGED <<nextGeneration, shutdown, now, owner, hit>>

(* request_shutdown: the flag under the mutex, then the notification. *)
SetShutdown ==
    /\ owner = "serving"
    /\ open = {}
    /\ LockFree
    /\ shutdown' = TRUE
    /\ owner' = "flagged"
    /\ UNCHANGED <<frames, nextGeneration, firedGeneration, thread, now, open, history>>

NotifyShutdown ==
    /\ owner = "flagged"
    /\ NotifyOne
    /\ owner' = "joining"
    /\ UNCHANGED <<inner, now, open, history>>

(* teardown joins the thread before it touches the isolate. *)
Join ==
    /\ owner = "joining"
    /\ loop = "done"
    /\ owner' = "joined"
    /\ UNCHANGED <<inner, thread, now, open, history>>

-----------------------------------------------------------------------------
LoopStep ==
    \/ LoopExit \/ LoopIdle \/ LoopWait \/ LoopTerminate
    \/ LoopRecordFired \/ LoopTimeout

OwnerStep ==
    \/ \E timeout \in Timeouts : ArmWatchdog(timeout)
    \/ \E f \in open : DisarmWatchdog(f)
    \/ SetShutdown \/ NotifyShutdown \/ Join

(* The owner has joined the thread and goes on without a watchdog. *)
Finished == owner = "joined" /\ UNCHANGED vars

Next == LoopStep \/ SpuriousWakeup \/ Tick \/ OwnerStep \/ Finished

(***************************************************************************)
(* The thread is scheduled, time passes, and the owner finishes a shutdown *)
(* it has started.  Nothing is assumed of requests: the script between arm *)
(* and disarm may run forever.                                             *)
(***************************************************************************)
Fairness ==
    /\ WF_vars(LoopStep)
    /\ WF_vars(Tick)
    /\ WF_vars(NotifyShutdown)
    /\ WF_vars(Join)

Spec == Init /\ [][Next]_vars /\ Fairness

-----------------------------------------------------------------------------
(* Safety *)

(***************************************************************************)
(* No wakeup is lost: while the thread sleeps without a limit nothing is   *)
(* armed, while it sleeps with one no armed deadline is earlier than the   *)
(* instant it will wake at, and it sleeps through a shutdown only until    *)
(* the pending notification (watchdog_loop against arm, disarm and         *)
(* request_shutdown).                                                      *)
(***************************************************************************)
NoLostWakeup ==
    /\ loop = "idle" => frames = {}
    /\ loop = "timed" => \A f \in frames : target.deadline <= f.deadline
    /\ loop \in {"idle", "timed"} /\ shutdown => owner = "flagged"

(***************************************************************************)
(* The armed frames are those of the requests still running: a nested      *)
(* disarm leaves the outer deadline in force unless it was already         *)
(* enforced, and no frame outlives its request to terminate a later one    *)
(* (the comments on WatchdogFrame and disarm_watchdog).                    *)
(***************************************************************************)
StillWatched ==
    /\ frames \subseteq open
    /\ \A f \in open \ frames : f.generation \in hit

(***************************************************************************)
(* Nobody is told of a terminate that was not made for its own deadline,   *)
(* and the report slot never keeps the generation of a request that is     *)
(* over (disarm_watchdog clears what it consumes).                         *)
(***************************************************************************)
NoFalseReport ==
    /\ told \subseteq hit
    /\ firedGeneration # None =>
         /\ firedGeneration \in hit
         /\ \E f \in open : f.generation = firedGeneration

(***************************************************************************)
(* If the watchdog terminated execution at all between an outermost arm    *)
(* and its disarm, at least one of the requests in between learns of it,   *)
(* so that the end sweep of the outermost request is not skipped: the slot *)
(* may be overwritten but never emptied unread.                            *)
(***************************************************************************)
SomeoneIsTold == open = {} /\ hit # {} => told # {}

(***************************************************************************)
(* A terminate is issued only for a request inside its bracket whose own   *)
(* deadline has passed, and never once the shutdown flag is up ("so the    *)
(* loop can't fire a terminate into an isolate we're mid-disposing").      *)
(***************************************************************************)
TerminatesOnlyExpired ==
    [][\A g \in hit' \ hit :
         /\ ~shutdown
         /\ \E f \in open : f.generation = g /\ f.deadline <= now]_vars

-----------------------------------------------------------------------------
(* Liveness and refinement *)

(***************************************************************************)
(* Every armed deadline is enforced unless its request disarms first,      *)
(* whatever the other requests arm, disarm and fire meanwhile.             *)
(***************************************************************************)
DeadlineEnforced ==
    \A g \in 1..MaxArms :
        g \in Generations(frames) ~> (g \in hit \/ g \notin Generations(open))

(* teardown's join returns: a shutdown, once begun, stops the thread. *)
ShutdownCompletes == owner = "flagged" ~> owner = "joined"

Promise == INSTANCE Deadlines WITH
    open <- Generations(open),
    armed <- Generations(frames),
    expired <- Generations({f \in frames : f.deadline <= now})

(***************************************************************************)
(* The thread, its mutex and its condition variable implement the atomic   *)
(* timer the requests rely on, with its liveness.                          *)
(***************************************************************************)
ImplementsDeadlines == Promise!Spec

=============================================================================
