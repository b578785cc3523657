----------------------------- MODULE Deadlines -----------------------------
(***************************************************************************)
(* What the execution watchdog of an isolate promises to the requests that *)
(* arm it, without its thread, its lock, its condition variable or its     *)
(* clock: a deadline that passes while its request is still armed is       *)
(* enforced once, and the request that disarms learns whether the LAST     *)
(* enforced deadline was its own.                                          *)
(*                                                                         *)
(* Watchdog.tla implements this module (watchdog.rs); Requests.tla uses it *)
(* as its timer.                                                           *)
(***************************************************************************)
EXTENDS Naturals

CONSTANT MaxArms    \* bound: how many generations are ever armed

VARIABLES
    open,             \* generations armed and not disarmed yet
    armed,            \* generations with a frame, hence still to be enforced
    expired,          \* armed generations whose deadline has passed
    nextGeneration,   \* the last generation handed out
    firedGeneration,  \* the one report slot; None when empty
    shutdown          \* the isolate is being torn down

vars == <<open, armed, expired, nextGeneration, firedGeneration, shutdown>>

None == 0
Generation == 1..MaxArms

TypeOK ==
    /\ nextGeneration \in 0..MaxArms
    /\ open \subseteq 1..nextGeneration
    /\ armed \subseteq open
    /\ expired \subseteq armed
    /\ firedGeneration \in open \cup {None}
    /\ shutdown \in BOOLEAN

Init ==
    /\ open = {} /\ armed = {} /\ expired = {}
    /\ nextGeneration = 0
    /\ firedGeneration = None
    /\ shutdown = FALSE

(***************************************************************************)
(* A request arms a deadline of its own; a nested request arms on top of   *)
(* the requests it runs inside of.                                         *)
(***************************************************************************)
Arm ==
    /\ ~shutdown
    /\ nextGeneration < MaxArms
    /\ nextGeneration' = nextGeneration + 1
    /\ open' = open \cup {nextGeneration + 1}
    /\ armed' = armed \cup {nextGeneration + 1}
    /\ UNCHANGED <<expired, firedGeneration, shutdown>>

(* Time passes, and with it the deadlines of gs. *)
Expire(gs) ==
    /\ gs # {}
    /\ gs \subseteq armed \ expired
    /\ expired' = expired \cup gs
    /\ UNCHANGED <<open, armed, nextGeneration, firedGeneration, shutdown>>

(* The deadline of g is enforced: execution is terminated on its behalf. *)
Fire(g) ==
    /\ ~shutdown
    /\ g \in expired
    /\ armed' = armed \ {g}
    /\ expired' = expired \ {g}
    /\ firedGeneration' = g
    /\ UNCHANGED <<open, nextGeneration, shutdown>>

(* Requests nest, so the one that disarms is the innermost open one. *)
Innermost(g) == g \in open /\ \A h \in open : h <= g

Disarm(g) ==
    /\ Innermost(g)
    /\ open' = open \ {g}
    /\ armed' = armed \ {g}
    /\ expired' = expired \ {g}
    /\ firedGeneration' = IF firedGeneration = g THEN None ELSE firedGeneration
    /\ UNCHANGED <<nextGeneration, shutdown>>

(* Teardown happens between requests only. *)
RequestShutdown ==
    /\ open = {}
    /\ ~shutdown
    /\ shutdown' = TRUE
    /\ UNCHANGED <<open, armed, expired, nextGeneration, firedGeneration>>

Next ==
    \/ Arm
    \/ \E gs \in SUBSET armed : Expire(gs)
    \/ \E g \in expired : Fire(g)
    \/ \E g \in open : Disarm(g)
    \/ RequestShutdown

(* The watchdog acts on every deadline that passes; requests may run forever. *)
Fairness == \A g \in Generation : WF_vars(Fire(g))

Safety == Init /\ [][Next]_vars

Spec == Safety /\ Fairness
=============================================================================
