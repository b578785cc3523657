--------------------------- MODULE WatchdogProofs ---------------------------
(***************************************************************************)
(* The safety properties of Watchdog.tla, for every set of timeouts and    *)
(* every value of the bounds.  The inductive invariant adds to them what   *)
(* the mutex protects: that generations are unique, that the frame being   *)
(* fired stays in place until it is recorded, and that between a terminate *)
(* and the first report of one the slot is never empty.                    *)
(***************************************************************************)
EXTENDS Watchdog, TLAPS

(* Each generation names one request, and the last one handed out is the greatest. *)
UniqueGenerations ==
    /\ \A f \in open : f.generation <= nextGeneration
    /\ \A f, g \in open : f.generation = g.generation => f = g

(* The mutex keeps the frame in place between the terminate and its record. *)
FiringIsArmed ==
    loop = "firing" =>
    /\ target \in frames
    /\ target.deadline <= now
    /\ target.generation \in hit

(* The owner shuts down once, between requests. *)
ShutdownOrder ==
    /\ shutdown <=> owner # "serving"
    /\ shutdown => open = {}

(* Until somebody has read the slot, a terminate leaves a trace in it. *)
TraceOfHit ==
    hit # {} /\ told = {} => loop = "firing" \/ firedGeneration # None

IInv ==
    /\ TypeOK
    /\ UniqueGenerations
    /\ FiringIsArmed
    /\ ShutdownOrder
    /\ TraceOfHit
    /\ NoLostWakeup
    /\ StillWatched
    /\ NoFalseReport

-----------------------------------------------------------------------------
LEMMA InitInductive == Init => IInv
<1> SUFFICES ASSUME Init PROVE IInv
  OBVIOUS
<1>1. TypeOK
  <2>1. shutdown \in BOOLEAN
    BY DEF Init
  <2>2. now \in 0..Horizon
    BY WatchdogAssumption DEF Init
  <2>3. nextGeneration \in 0..MaxArms /\ firedGeneration \in 0..MaxArms
    BY WatchdogAssumption DEF Init, None
  <2>4. target \in WatchdogFrame \cup {NoFrame}
    BY DEF Init
  <2>5. QED
    BY <2>1, <2>2, <2>3, <2>4 DEF Init, TypeOK
<1>2. UniqueGenerations /\ FiringIsArmed /\ ShutdownOrder
  BY DEF Init, UniqueGenerations, FiringIsArmed, ShutdownOrder
<1>3. TraceOfHit /\ NoLostWakeup /\ StillWatched /\ NoFalseReport
  BY DEF Init, TraceOfHit, NoLostWakeup, StillWatched, NoFalseReport
<1>4. QED
  BY <1>1, <1>2, <1>3 DEF IInv

(* The steps of the thread, and of the clock. *)
LEMMA LoopInductive ==
  ASSUME IInv, LoopStep \/ SpuriousWakeup \/ Tick
  PROVE  IInv'
<1> USE WatchdogAssumption
    DEF IInv, TypeOK, UniqueGenerations, FiringIsArmed, ShutdownOrder,
        TraceOfHit, NoLostWakeup, StillWatched, NoFalseReport, Generations,
        NoFrame, None, WatchdogFrame, inner, thread, history, AtTop, LoopStep
<1>1. CASE LoopExit
  BY <1>1 DEF LoopExit
<1>2. CASE LoopIdle
  BY <1>2 DEF LoopIdle
<1>3. CASE LoopWait
  BY <1>3 DEF LoopWait, Earliest
<1>4. CASE LoopTerminate
  BY <1>4 DEF LoopTerminate
<1>5. CASE LoopRecordFired
  BY <1>5 DEF LoopRecordFired, Without
<1>6. CASE LoopTimeout
  BY <1>6 DEF LoopTimeout
<1>7. CASE SpuriousWakeup
  BY <1>7 DEF SpuriousWakeup
<1>8. CASE Tick
  BY <1>8 DEF Tick
<1>9. QED
  BY <1>1, <1>2, <1>3, <1>4, <1>5, <1>6, <1>7, <1>8

(* The critical sections of the owner. *)
LEMMA OwnerInductive ==
  ASSUME IInv, OwnerStep
  PROVE  IInv'
<1> USE WatchdogAssumption
    DEF IInv, TypeOK, UniqueGenerations, FiringIsArmed, ShutdownOrder,
        TraceOfHit, NoLostWakeup, StillWatched, NoFalseReport, Generations,
        NoFrame, None, WatchdogFrame, inner, thread, history, LockFree,
        NotifyOne, OwnerStep
<1>1. ASSUME NEW timeout \in Timeouts, ArmWatchdog(timeout)
      PROVE  IInv'
  <2> DEFINE f == [generation |-> nextGeneration + 1, deadline |-> now + timeout]
  <2>1. /\ f \in WatchdogFrame
        /\ f.generation = nextGeneration + 1
        /\ f.deadline = now + timeout
    BY <1>1 DEF ArmWatchdog
  <2>2. frames' = frames \cup {f} /\ open' = open \cup {f}
    BY <1>1 DEF ArmWatchdog
  <2> HIDE DEF f
  <2>3. TypeOK'
    <3>1. frames' \subseteq WatchdogFrame /\ open' \subseteq WatchdogFrame
      BY <2>1, <2>2
    <3>2. nextGeneration' \in 0..MaxArms
      BY <1>1 DEF ArmWatchdog
    <3>3. hit' \subseteq 1..MaxArms /\ told' \subseteq 1..MaxArms
      BY <1>1 DEF ArmWatchdog
    <3>4. QED
      BY <1>1, <3>1, <3>2, <3>3 DEF ArmWatchdog
  <2>4. UniqueGenerations'
    BY <1>1, <2>1, <2>2 DEF ArmWatchdog
  <2>5. FiringIsArmed' /\ ShutdownOrder' /\ TraceOfHit'
    BY <1>1, <2>2 DEF ArmWatchdog
  <2>6. NoLostWakeup'
    BY <1>1, <2>2 DEF ArmWatchdog
  <2>7. StillWatched' /\ NoFalseReport'
    BY <1>1, <2>2 DEF ArmWatchdog
  <2>8. QED
    BY <2>3, <2>4, <2>5, <2>6, <2>7
<1>2. ASSUME NEW f \in open, DisarmWatchdog(f)
      PROVE  IInv'
  <2> USE <1>2 DEF DisarmWatchdog, Innermost, Without, Fired
  <2> f.generation \in 1..MaxArms
    OBVIOUS
  <2>0. \/ Fired(f) /\ firedGeneration' = None /\ told' = told \cup {f.generation}
        \/ ~Fired(f) /\ firedGeneration' = firedGeneration /\ told' = told
    BY Zenon
  <2>1. TypeOK'
    <3>1. told' \subseteq 1..MaxArms
      BY <2>0
    <3>2. firedGeneration' \in 0..MaxArms
      BY <2>0
    <3>3. QED
      BY <3>1, <3>2
  <2>2. UniqueGenerations'
    OBVIOUS
  <2>3. FiringIsArmed'
    OBVIOUS
  <2>4. ShutdownOrder'
    OBVIOUS
  <2>5. TraceOfHit'
    OBVIOUS
  <2>6. NoLostWakeup'
    OBVIOUS
  <2>7. StillWatched'
    OBVIOUS
  <2>8. NoFalseReport'
    <3>1. told' \subseteq hit'
      <4>1. Fired(f) => f.generation \in hit
        OBVIOUS
      <4>2. told \subseteq hit /\ hit' = hit
        OBVIOUS
      <4> HIDE <1>2 DEF IInv, DisarmWatchdog, Fired, StillWatched, TypeOK, NoFalseReport
      <4>3. QED
        BY <2>0, <4>1, <4>2
    <3>2. firedGeneration' # None =>
            firedGeneration' \in hit' /\ \E g \in open' : g.generation = firedGeneration'
      BY <2>0
    <3>3. QED
      BY <3>1, <3>2
  <2>9. QED
    BY <2>1, <2>2, <2>3, <2>4, <2>5, <2>6, <2>7, <2>8
<1>3. CASE SetShutdown
  BY <1>3 DEF SetShutdown
<1>4. CASE NotifyShutdown
  BY <1>4 DEF NotifyShutdown
<1>5. CASE Join
  BY <1>5 DEF Join
<1>6. QED
  BY <1>1, <1>2, <1>3, <1>4, <1>5
-----------------------------------------------------------------------------
(* Every reachable state of the watchdog satisfies the inductive invariant. *)
THEOREM Invariance == Spec => []IInv
<1>1. Init => IInv
  BY InitInductive
<1>2. IInv /\ [Next]_vars => IInv'
  <2> SUFFICES ASSUME IInv, [Next]_vars PROVE IInv'
    OBVIOUS
  <2>1. CASE LoopStep \/ SpuriousWakeup \/ Tick
    BY <2>1, LoopInductive
  <2>2. CASE OwnerStep
    BY <2>2, OwnerInductive
  <2>3. CASE UNCHANGED vars
    BY <2>3 DEF vars, inner, thread, history, IInv, TypeOK, UniqueGenerations,
                FiringIsArmed, ShutdownOrder, TraceOfHit, NoLostWakeup,
                StillWatched, NoFalseReport
  <2>4. QED
    BY <2>1, <2>2, <2>3 DEF Next, Finished
<1>3. QED
  BY <1>1, <1>2, PTL DEF Spec

(***************************************************************************)
(* The state of the watchdog (WatchdogInner, the thread's and the owner's  *)
(* control) keeps its types.                                               *)
(***************************************************************************)
THEOREM TypeCorrect == Spec => []TypeOK
  BY Invariance, PTL DEF IInv

(***************************************************************************)
(* watchdog_loop never sleeps past a deadline that was armed, nor past a   *)
(* shutdown whose notification has been sent.                              *)
(***************************************************************************)
THEOREM WakeupsAreNotLost == Spec => []NoLostWakeup
  BY Invariance, PTL DEF IInv

(***************************************************************************)
(* disarm_watchdog removes exactly the frame of its own request: the outer *)
(* deadlines stay armed and none outlives its request.                     *)
(***************************************************************************)
THEOREM OuterStaysWatched == Spec => []StillWatched
  BY Invariance, PTL DEF IInv

(* disarm_watchdog reports a terminate only to the request it was made for. *)
THEOREM ReportsAreTrue == Spec => []NoFalseReport
  BY Invariance, PTL DEF IInv

(***************************************************************************)
(* However many deadlines are enforced and however the single report slot  *)
(* is overwritten, when the outermost request disarms some request has     *)
(* been told: run_js_bracketed has then set watchdog_fired for the sweep.  *)
(***************************************************************************)
THEOREM SweepIsOwed == Spec => []SomeoneIsTold
<1>1. IInv => SomeoneIsTold
  BY DEF IInv, SomeoneIsTold, TraceOfHit, FiringIsArmed, StillWatched, NoFalseReport
<1>2. QED
  BY <1>1, Invariance, PTL

(***************************************************************************)
(* The thread calls terminate_execution only for a request that is inside  *)
(* its bracket and past its deadline, and never after request_shutdown.    *)
(***************************************************************************)
THEOREM NoStrayTerminate == Spec => TerminatesOnlyExpired
<1> DEFINE Justified ==
      \A g \in hit' \ hit :
        /\ ~shutdown
        /\ \E f \in open : f.generation = g /\ f.deadline <= now
<1>1. IInv /\ [Next]_vars => [Justified]_vars
  <2> SUFFICES ASSUME IInv, [Next]_vars, NEW g \in hit' \ hit
               PROVE  ~shutdown /\ \E f \in open : f.generation = g /\ f.deadline <= now
    OBVIOUS
  <2>1. CASE LoopTerminate
    <3>1. PICK f \in frames : now >= f.deadline /\ hit' = hit \cup {f.generation}
      BY <2>1 DEF LoopTerminate
    <3>2. g = f.generation /\ f \in open /\ f \in WatchdogFrame /\ now \in 0..Horizon
      BY <3>1 DEF IInv, StillWatched, TypeOK
    <3>3. f.deadline <= now
      BY <3>1, <3>2, WatchdogAssumption DEF WatchdogFrame
    <3>4. QED
      BY <2>1, <3>2, <3>3 DEF LoopTerminate
  <2>2. CASE LoopExit \/ LoopIdle \/ LoopWait \/ LoopRecordFired \/ LoopTimeout
    BY <2>2 DEF LoopExit, LoopIdle, LoopWait, LoopRecordFired, LoopTimeout, history
  <2>3. CASE OwnerStep
    BY <2>3 DEF OwnerStep, ArmWatchdog, DisarmWatchdog, SetShutdown,
                NotifyShutdown, Join, history
  <2>4. CASE SpuriousWakeup \/ Tick \/ UNCHANGED vars
    BY <2>4 DEF SpuriousWakeup, Tick, vars, history
  <2>5. QED
    BY <2>1, <2>2, <2>3, <2>4 DEF Next, LoopStep, Finished
<1>2. QED
  BY <1>1, Invariance, PTL DEF Spec, TerminatesOnlyExpired

(***************************************************************************)
(* The safety part of the refinement: every step of the thread, the clock  *)
(* and the owner is a step of the abstract timer or leaves it as it is.    *)
(* The timer fires when the loop records, which the mutex makes as good as *)
(* the moment it terminates.                                               *)
(***************************************************************************)
THEOREM RefinesDeadlines == Spec => Promise!Safety
<1> DEFINE Expired == {f \in frames : f.deadline <= now}
<1>1. Init => Promise!Init
  BY DEF Init, Promise!Init, Promise!None, None, Generations
<1>2. IInv /\ [Next]_vars => [Promise!Next]_(Promise!vars)
  <2> SUFFICES ASSUME IInv, [Next]_vars
               PROVE  Promise!Next \/ UNCHANGED Promise!vars
    OBVIOUS
  <2>1. CASE LoopExit \/ LoopIdle \/ LoopWait \/ LoopTerminate \/ LoopTimeout
             \/ SpuriousWakeup \/ Join \/ NotifyShutdown \/ UNCHANGED vars
    <3>1. UNCHANGED <<inner, now, open>>
      BY <2>1 DEF LoopExit, LoopIdle, LoopWait, LoopTerminate, LoopTimeout,
                  SpuriousWakeup, Join, NotifyShutdown, vars
    <3>2. QED
      BY <3>1 DEF Promise!vars, inner
  <2>2. CASE LoopRecordFired
    <3> DEFINE g == target.generation
    <3>1. target \in Expired /\ ~shutdown
      BY <2>2 DEF LoopRecordFired, IInv, FiringIsArmed, StillWatched, ShutdownOrder
    <3>2. g \in Generations(Expired)
      BY <3>1 DEF Generations
    <3>3. /\ Generations(frames)' = Generations(frames) \ {g}
          /\ Generations(Expired)' = Generations(Expired) \ {g}
      BY <2>2 DEF LoopRecordFired, Without, Generations
    <3>4. UNCHANGED <<Generations(open), nextGeneration, shutdown>> /\ firedGeneration' = g
      BY <2>2 DEF LoopRecordFired, Generations
    <3>5. Promise!Fire(g)
      BY <3>1, <3>2, <3>3, <3>4 DEF Promise!Fire
    <3>6. QED
      BY <3>2, <3>5 DEF Promise!Next
  <2>3. CASE Tick
    <3> DEFINE gs == Generations(Expired)' \ Generations(Expired)
    <3>1. UNCHANGED <<inner, open>> /\ now' = now + 1 /\ now \in Nat
      BY <2>3, WatchdogAssumption DEF Tick, IInv, TypeOK
    <3>2. Generations(Expired) \subseteq Generations(Expired)'
      <4>1. Expired \subseteq Expired'
        BY <3>1, WatchdogAssumption DEF inner, IInv, TypeOK, WatchdogFrame
      <4>2. QED
        BY <4>1 DEF Generations
    <3>3. Generations(Expired)' \subseteq Generations(frames)
      BY <3>1 DEF inner, Generations
    <3>4. UNCHANGED <<Generations(open), Generations(frames), nextGeneration,
                      firedGeneration, shutdown>>
      BY <3>1 DEF inner
    <3>5. CASE gs = {}
      BY <3>2, <3>4, <3>5 DEF Promise!vars
    <3>6. CASE gs # {}
      <4>1. gs \in SUBSET Generations(frames)
        BY <3>3
      <4>2. Promise!Expire(gs)
        BY <3>2, <3>3, <3>4, <3>6 DEF Promise!Expire
      <4>3. QED
        BY <4>1, <4>2 DEF Promise!Next
    <3>7. QED
      BY <3>5, <3>6
  <2>4. ASSUME NEW timeout \in Timeouts, ArmWatchdog(timeout)
        PROVE  Promise!Next
    <3> DEFINE f == [generation |-> nextGeneration + 1, deadline |-> now + timeout]
    <3>1. frames' = frames \cup {f} /\ open' = open \cup {f}
      BY <2>4 DEF ArmWatchdog
    <3>2. f.generation = nextGeneration + 1 /\ ~(f.deadline <= now) /\ now' = now
      BY <2>4, WatchdogAssumption DEF ArmWatchdog, IInv, TypeOK
    <3> HIDE DEF f
    <3>3. /\ Generations(open)' = Generations(open) \cup {nextGeneration + 1}
          /\ Generations(frames)' = Generations(frames) \cup {nextGeneration + 1}
      BY <3>1, <3>2 DEF Generations
    <3>4. Expired' = Expired
      BY <3>1, <3>2
    <3>5. ~shutdown
      BY <2>4 DEF ArmWatchdog, IInv, ShutdownOrder
    <3>6. Promise!Arm
      BY <2>4, <3>3, <3>4, <3>5 DEF Promise!Arm, ArmWatchdog, Generations
    <3>7. QED
      BY <3>6 DEF Promise!Next
  <2>5. ASSUME NEW f \in open, DisarmWatchdog(f)
        PROVE  Promise!Next
    <3> DEFINE g == f.generation
    <3>1. /\ Generations(frames)' = Generations(frames) \ {g}
          /\ Generations(Expired)' = Generations(Expired) \ {g}
      BY <2>5 DEF DisarmWatchdog, Without, Generations
    <3>2. Generations(open)' = Generations(open) \ {g}
      BY <2>5 DEF DisarmWatchdog, Generations, IInv, UniqueGenerations
    <3>3. Promise!Innermost(g)
      BY <2>5 DEF DisarmWatchdog, Innermost, Promise!Innermost, Generations
    <3>4. firedGeneration' = IF firedGeneration = g THEN Promise!None ELSE firedGeneration
      BY <2>5 DEF DisarmWatchdog, Fired, None, Promise!None
    <3>5. UNCHANGED <<nextGeneration, shutdown>>
      BY <2>5 DEF DisarmWatchdog
    <3>6. Promise!Disarm(g)
      BY <3>1, <3>2, <3>3, <3>4, <3>5 DEF Promise!Disarm
    <3>7. g \in Generations(open)
      BY <3>3 DEF Promise!Innermost
    <3>8. QED
      BY <3>6, <3>7 DEF Promise!Next
  <2>6. CASE SetShutdown
    <3>1. ~shutdown /\ Generations(open) = {} /\ shutdown' = TRUE
      BY <2>6 DEF SetShutdown, IInv, ShutdownOrder, Generations
    <3>2. UNCHANGED <<frames, now, open, nextGeneration, firedGeneration>>
      BY <2>6 DEF SetShutdown
    <3>3. Promise!RequestShutdown
      BY <3>1, <3>2 DEF Promise!RequestShutdown
    <3>4. QED
      BY <3>3 DEF Promise!Next
  <2>7. QED
    BY <2>1, <2>2, <2>3, <2>4, <2>5, <2>6
    DEF Next, LoopStep, OwnerStep, Finished
<1>3. QED
  BY <1>1, <1>2, Invariance, PTL DEF Spec, Promise!Safety
=============================================================================
