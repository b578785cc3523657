------------------------------- MODULE Stacks -------------------------------
(***************************************************************************)
(* Where V8 may put its frames: the stack limit and the start of the       *)
(* conservative scan of one isolate, set again for the stack of each       *)
(* operation (stack.rs, and Core::run for the operation's own frames).     *)
(*                                                                         *)
(* Code runs on the stack of a native thread or on a fiber's, mapped by    *)
(* Ruby and moved by it from one native thread to another.  Two caches of  *)
(* each native thread stand between an operation and the truth: the bounds *)
(* of its own stack and the region of the last fiber seen.  Addresses are  *)
(* naturals; a stack grows down from hi towards lo.                        *)
(***************************************************************************)
EXTENDS Naturals, Sequences

CONSTANTS
    Native,         \* native threads
    Fiber,          \* fibers, threads that Ruby schedules itself included
    Isolate,
    NativeStack,    \* pthread's bounds of each native thread
    Region,         \* where Ruby may map the stack of a fiber
    Split,          \* where the kernel may cut a mapping in two
    NativeGuard,    \* NATIVE_GUARD
    FiberReserve,   \* FIBER_RESERVE
    Clamp,          \* what the limit keeps below the SP on a fiber
    Guess,          \* the same when the region is not known
    DefaultSize,    \* the stack V8 counts on when nobody sets a limit
    MaxDepth        \* bound: operations of one isolate on the stack

Bounds == [lo : Nat, hi : Nat]
Disjoint(s, t) == s.hi < t.lo \/ t.hi < s.lo
Within(s, t) == t.lo <= s.lo /\ s.hi <= t.hi

(* All that is asked of the system: the first 64K are never mapped, and a  *)
(* fiber is never mapped over the stack of a native thread.  Fibers may be *)
(* mapped anywhere else, at bounds of their own each time.                 *)
ASSUME StacksAssumption ==
    /\ Native \cap Fiber = {}
    /\ NativeStack \in [Native -> Bounds] /\ Region \subseteq Bounds
    /\ \A n \in Native : NativeStack[n].lo >= Guess
    /\ \A r \in Region : r.lo >= Guess
    /\ \A n \in Native, r \in Region : Disjoint(NativeStack[n], r)
    /\ \A m, n \in Native : m # n => Disjoint(NativeStack[m], NativeStack[n])
    /\ NativeGuard \in Nat /\ FiberReserve \in Nat /\ MaxDepth \in Nat /\ DefaultSize \in Nat
    /\ Split \subseteq Nat
    /\ Clamp \in Nat \ {0} /\ Guess \in Nat \ {0} /\ Clamp <= Guess /\ Clamp <= NativeGuard

VARIABLES
    fibers,         \* the stack of each fiber, Unknown while it has none
    shifted,        \* history: fibers mapped across a region still cached
    bounds,         \* STACK_BOUNDS, one for each native thread
    region,         \* FIBER_REGION, one for each native thread
    field,          \* Core.scan_start_field # 0
    op,             \* what each isolate is doing, and where
    limit,          \* the limit V8 has for each isolate
    scanStart       \* V8's stack_start for each isolate

machine == <<fibers, shifted, bounds, region>>
vars == <<machine, field, op, limit, scanStart>>

Unknown == [lo |-> 0, hi |-> 0]
Idle == [kind |-> "idle"]
Gone == [kind |-> "gone"]
Unborn == [kind |-> "unborn"]

Kind == {"boot", "run", "teardown"}
Op == [kind : Kind, exec : Native \cup Fiber, native : Native, sps : Seq(Nat),
       anchor : {"native", "region", "none"}]

TypeOK ==
    /\ fibers \in [Fiber -> Region \cup {Unknown}]
    /\ shifted \subseteq Fiber
    /\ bounds \in [Native -> Bounds]
    /\ region \in [Native -> Bounds]
    /\ field \in [Isolate -> BOOLEAN]
    /\ op \in [Isolate -> Op \cup {Idle, Gone, Unborn}]
    /\ limit \in [Isolate -> Nat]
    /\ scanStart \in [Isolate -> Nat]

Init ==
    /\ fibers = [f \in Fiber |-> Unknown]
    /\ shifted = {}
    /\ bounds = [n \in Native |-> Unknown]
    /\ region = [n \in Native |-> Unknown]
    /\ field = [i \in Isolate |-> FALSE]
    /\ op = [i \in Isolate |-> Unborn]
    /\ limit = [i \in Isolate |-> 0]
    /\ scanStart = [i \in Isolate |-> 0]

-----------------------------------------------------------------------------
Min(a, b) == IF a < b THEN a ELSE b
UncheckedSub(a, b) == a - b
SaturatingSub(a, b) == IF a > b THEN a - b ELSE 0
Front(s) == SubSeq(s, 1, Len(s) - 1)

Active(i) == op[i].kind \in Kind
Stack(e) == IF e \in Native THEN NativeStack[e] ELSE fibers[e]
Innermost(i) == op[i].sps[Len(op[i].sps)]

(* Native thread n can be running stack e with its stack pointer at sp: a  *)
(* native stack has one thread, a fiber in an operation stays on the       *)
(* thread it has, and new frames go below the ones that are there.         *)
At(e, n, sp) ==
    /\ e \in Native => e = n
    /\ e \in Fiber => fibers[e] # Unknown
    /\ Stack(e).lo < sp /\ sp < Stack(e).hi
    /\ \A j \in Isolate : Active(j) /\ op[j].exec = e =>
         op[j].native = n /\ sp < Innermost(j)

Address == UNION {r.lo .. r.hi : r \in Region \cup {NativeStack[n] : n \in Native}}

-----------------------------------------------------------------------------
(* Some thread remembers memory of r as part of a mapping with other       *)
(* bounds: it was unmapped since, and the cache is never told.             *)
Misremembered(r) ==
    \E n \in Native : region[n] # Unknown /\ ~Within(region[n], r) /\ ~Disjoint(region[n], r)

(* Ruby maps the stack of a fiber, and unmaps it when the fiber is over.   *)
MapFiber(f, r) ==
    /\ fibers[f] = Unknown
    /\ \A g \in Fiber : fibers[g] # Unknown => Disjoint(r, fibers[g])
    /\ fibers' = [fibers EXCEPT ![f] = r]
    /\ shifted' = IF Misremembered(r) THEN shifted \cup {f} ELSE shifted
    /\ UNCHANGED <<bounds, region, field, op, limit, scanStart>>

UnmapFiber(f) ==
    /\ fibers[f] # Unknown
    /\ \A i \in Isolate : Active(i) => op[i].exec # f
    /\ fibers' = [fibers EXCEPT ![f] = Unknown]
    /\ shifted' = shifted \ {f}
    /\ UNCHANGED <<bounds, region, field, op, limit, scanStart>>

-----------------------------------------------------------------------------
(* v8::Isolate::Enter *)
EnterScan(i, n) == scanStart' = [scanStart EXCEPT ![i] = NativeStack[n].hi]

Begin(i, kind, e, n, sp, anchor) ==
    op' = [op EXCEPT ![i] =
             [kind |-> kind, exec |-> e, native |-> n, sps |-> <<sp>>, anchor |-> anchor]]

(* native_stack_bounds_cached; pthread may fail to answer. *)
CachedBounds(n, answers) ==
    IF bounds[n].lo # 0 THEN bounds[n]
    ELSE IF answers THEN NativeStack[n] ELSE Unknown

AboveBottom(b, sp) == b.lo # 0 /\ b.lo < sp
OnNative(b, sp) == b.lo # 0 /\ b.lo < sp /\ sp <= b.hi

(* The entries of /proc/self/maps that may hold sp: the mapping of its     *)
(* stack, or a part of it that the kernel lists by itself.  None reaches   *)
(* below the stack: the guard page there is another mapping.               *)
Entries(e, sp) ==
    LET stack == Stack(e)
        cuts == {c \in Split : stack.lo < c /\ c < stack.hi}
    IN {stack} \cup {[stack EXCEPT !.lo = c] : c \in {c \in cuts : c <= sp}}
               \cup {[stack EXCEPT !.hi = c] : c \in {c \in cuts : sp < c}}

(* current_region_bounds_cached; the file may not be readable.             *)
Filled(n, sp) == region[n].lo # 0
Cached(n, sp) == region[n].lo # 0 /\ region[n].lo <= sp /\ sp < region[n].hi
CachedRegion(n, e, sp) ==
    IF Cached(n, sp) THEN {region[n]} ELSE {Unknown} \cup Entries(e, sp)

FiberLimit(r, sp) == Min(r.lo + FiberReserve, SaturatingSub(sp, Clamp))

(* Core::run at depth 0: Enter, then set_v8_stack_limit.  Its two frames   *)
(* are at stack_top, and just below, at sp.                                *)
Run(i, e, n, sp) ==
    /\ op[i] = Idle
    /\ At(e, n, sp)
    /\ \E answers \in BOOLEAN, entry \in CachedRegion(n, e, sp) :
         LET b == CachedBounds(n, answers)
             native == OnNative(b, sp)
             r == IF native THEN Unknown ELSE entry
             new == IF native THEN b.lo + NativeGuard
                    ELSE IF r # Unknown THEN FiberLimit(r, sp)
                    ELSE SaturatingSub(sp, Guess)
             anchor == IF native THEN "native" ELSE IF r # Unknown THEN "region" ELSE "none"
         IN /\ bounds' = [bounds EXCEPT ![n] = b]
            /\ region' = IF r # Unknown THEN [region EXCEPT ![n] = r] ELSE region
            /\ limit' = [limit EXCEPT ![i] = IF new = 0 THEN @ ELSE new]
            /\ scanStart' = [scanStart EXCEPT ![i] =
                 IF ~native /\ new # 0 /\ field[i] THEN sp + 1 ELSE NativeStack[n].hi]
            /\ Begin(i, "run", e, n, sp, anchor)
    /\ UNCHANGED <<fibers, shifted, field>>

(* An operation of a host function's: deeper frames, nothing is set again. *)
Nest(i, sp) ==
    /\ op[i].kind = "run" /\ Len(op[i].sps) < MaxDepth
    /\ At(op[i].exec, op[i].native, sp)
    /\ op' = [op EXCEPT ![i].sps = Append(@, sp)]
    /\ UNCHANGED <<machine, field, limit, scanStart>>

(* Its frames are the lowest of their stack. *)
Lowest(i) ==
    \A j \in Isolate : Active(j) /\ op[j].exec = op[i].exec => Innermost(j) >= Innermost(i)

Return(i) ==
    /\ op[i].kind = "run" /\ Lowest(i)
    /\ op' = [op EXCEPT ![i] =
         IF Len(op[i].sps) = 1 THEN Idle ELSE [op[i] EXCEPT !.sps = Front(op[i].sps)]]
    /\ UNCHANGED <<machine, field, limit, scanStart>>

(* Isolate::new, and Snapshot.new: V8 derives its first limit from the SP. *)
Boot(i, e, n, sp) ==
    /\ op[i] = Unborn
    /\ At(e, n, sp)
    /\ EnterScan(i, n)
    /\ limit' = [limit EXCEPT ![i] = SaturatingSub(sp, DefaultSize)]
    /\ Begin(i, "boot", e, n, sp, "none")
    /\ UNCHANGED <<machine, field>>

(* discover_scan_start_field, and exit. *)
Booted(i, found) ==
    /\ op[i].kind = "boot" /\ Lowest(i)
    /\ field' = [field EXCEPT ![i] = found]
    /\ op' = [op EXCEPT ![i] = Idle]
    /\ UNCHANGED <<machine, limit, scanStart>>

(* Core::teardown enters the isolate once more, on the stack it is on. *)
Teardown(i, e, n, sp) ==
    /\ op[i] = Idle
    /\ At(e, n, sp)
    /\ EnterScan(i, n)
    /\ Begin(i, "teardown", e, n, sp, "none")
    /\ UNCHANGED <<machine, field, limit>>

TornDown(i) ==
    /\ op[i].kind = "teardown" /\ Lowest(i)
    /\ op' = [op EXCEPT ![i] = Gone]
    /\ UNCHANGED <<machine, field, limit, scanStart>>

Next ==
    \/ \E f \in Fiber : UnmapFiber(f) \/ \E r \in Region : MapFiber(f, r)
    \/ \E i \in Isolate :
         \/ Return(i) \/ TornDown(i)
         \/ \E found \in BOOLEAN : Booted(i, found)
         \/ \E sp \in Address : Nest(i, sp)
         \/ \E e \in Native \cup Fiber, n \in Native, sp \in Address :
              Boot(i, e, n, sp) \/ Run(i, e, n, sp) \/ Teardown(i, e, n, sp)

Spec == Init /\ [][Next]_vars

-----------------------------------------------------------------------------
(* Safety *)

Running(i) == op[i].kind = "run"
Entry(i) == op[i].sps[1]
Bottom(i) == Stack(op[i].exec).lo
Top(i) == Stack(op[i].exec).hi

(* The operation did not begin at the very bottom of its stack. *)
Room(i) ==
    IF op[i].exec \in Native
    THEN Entry(i) > Bottom(i) + NativeGuard
    ELSE Entry(i) >= Bottom(i) + Clamp

(***************************************************************************)
(* Whatever fibers came and went and whichever native threads they were    *)
(* on, the limit V8 has during an operation lies on the very stack the     *)
(* operation runs on, below where it entered: recursion is cut off before  *)
(* the bottom, and not at once.  Two exceptions: the bottom could not be   *)
(* found out, where the code guesses; and Ruby unmapped a stack that a     *)
(* thread remembers and mapped this fiber across the same memory with      *)
(* other bounds, where the cache gives the old bottom (LimitFitsRemapped). *)
(***************************************************************************)
LimitFitsItsStack ==
    \A i \in Isolate :
      Running(i) /\ op[i].anchor # "none" /\ op[i].exec \notin shifted /\ Room(i) =>
        Bottom(i) <= limit[i] /\ limit[i] < Entry(i)

(***************************************************************************)
(* A collection during an operation scans the operation's own stack, from  *)
(* its lowest frame to a start above its highest, and nothing beyond the   *)
(* top of that stack, nested operations of this and other isolates         *)
(* included.  (On a fiber, when the field was found.)                      *)
(***************************************************************************)
ScanStaysMapped ==
    \A i \in Isolate : Running(i) /\ (field[i] \/ op[i].exec \in Native) =>
        Entry(i) < scanStart[i] /\ Innermost(i) <= Entry(i) /\ scanStart[i] <= Top(i)

-----------------------------------------------------------------------------
(* What the comments say, and the code does not do *)

(***************************************************************************)
(* "find the bottom of the /proc/self/maps region holding the SP (the      *)
(* fiber's real bottom)" (stack.rs:208-209).  Fails on a fiber mapped      *)
(* higher up over a stack that was unmapped but is still cached.           *)
(***************************************************************************)
LimitFitsRemapped ==
    \A i \in Isolate : Running(i) /\ op[i].anchor # "none" /\ Room(i) =>
        Bottom(i) <= limit[i] /\ limit[i] < Entry(i)

(***************************************************************************)
(* "The limit MUST sit between the current SP and the real bottom of       *)
(* whatever stack we're on."  Fails within NATIVE_GUARD of the bottom of a *)
(* native stack, and within the clamp of the bottom of a fiber's.          *)
(***************************************************************************)
LimitSitsBetween ==
    \A i \in Isolate : Running(i) /\ op[i].anchor # "none" =>
        Bottom(i) <= limit[i] /\ limit[i] < Entry(i)

(***************************************************************************)
(* Heap scans "with a native start" run "off the fiber's mapped stack":    *)
(* so do those of an isolate that boots or is torn down on a fiber, where  *)
(* nothing re-points the start.                                            *)
(***************************************************************************)
EveryScanStaysMapped ==
    \A i \in Isolate : Active(i) => Entry(i) < scanStart[i] /\ scanStart[i] <= Top(i)
=============================================================================
