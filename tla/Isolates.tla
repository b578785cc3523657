------------------------------ MODULE Isolates ------------------------------
(***************************************************************************)
(* What an isolate is to those who use one, without depths, entry stacks,  *)
(* flags, the GVL, wrappers or a watchdog: the thread that makes it is the *)
(* only one to run operations on it and to tear it down, no operation of   *)
(* it is in progress then, and it is freed at most once.  One that is lost *)
(* on another thread, or poisoned, is never used again and never freed.    *)
(*                                                                         *)
(* Lifecycle.tla implements this module (lib.rs).                          *)
(***************************************************************************)
EXTENDS Naturals, Sequences

CONSTANTS
    Thread,     \* addresses of Thread objects
    Isolate,
    None        \* nobody made it yet

VARIABLES
    life,       \* which of the threads that ever have an address has it now
    maker,      \* per isolate: an address, and which of its threads
    usable,     \* isolates on which operations may begin
    closing,    \* isolates being torn down
    freed,
    lost,       \* out of reach, not freed and counted as leaked
    calls       \* per thread: isolates of the operations in progress, outermost first

vars == <<life, maker, usable, closing, freed, lost, calls>>

Init ==
    /\ life = [t \in Thread |-> 1]
    /\ maker = [i \in Isolate |-> None]
    /\ usable = {} /\ closing = {} /\ freed = {} /\ lost = {}
    /\ calls = [t \in Thread |-> <<>>]

Made(t, i) == maker[i] = <<t, life[t]>>
Busy(i) == \E t \in Thread : \E k \in DOMAIN calls[t] : calls[t][k] = i

(* While an isolate is torn down nothing else happens. *)
Undisturbed == closing = {}

(* Another thread gets an address at which no usable isolate was made. *)
Succeed(t) ==
    /\ Undisturbed
    /\ calls[t] = <<>>
    /\ \A i \in usable : ~Made(t, i)
    /\ life' = [life EXCEPT ![t] = @ + 1]
    /\ UNCHANGED <<maker, usable, closing, freed, lost, calls>>

Make(t, i) ==
    /\ Undisturbed
    /\ maker[i] = None
    /\ maker' = [maker EXCEPT ![i] = <<t, life[t]>>]
    /\ usable' = usable \cup {i}
    /\ UNCHANGED <<life, closing, freed, lost, calls>>

Call(t, i) ==
    /\ Undisturbed
    /\ i \in usable /\ Made(t, i)
    /\ calls' = [calls EXCEPT ![t] = Append(@, i)]
    /\ UNCHANGED <<life, maker, usable, closing, freed, lost>>

(* The innermost operation ends; a panic makes its isolate unusable. *)
Return(t) ==
    /\ Undisturbed
    /\ calls[t] # <<>>
    /\ calls' = [calls EXCEPT ![t] = SubSeq(@, 1, Len(@) - 1)]
    /\ usable' \in {usable, usable \ {calls[t][Len(calls[t])]}}
    /\ UNCHANGED <<life, maker, closing, freed, lost>>

(* An explicit dispose, or the last wrapper was collected on this thread. *)
Close(t, i) ==
    /\ Undisturbed
    /\ i \in usable /\ Made(t, i) /\ ~Busy(i)
    /\ usable' = usable \ {i}
    /\ closing' = {i}
    /\ UNCHANGED <<life, maker, freed, lost, calls>>

Free(i) ==
    /\ i \in closing
    /\ closing' = {}
    /\ freed' = freed \cup {i}
    /\ UNCHANGED <<life, maker, usable, lost, calls>>

(* The last wrapper was collected on a thread that may not tear it down. *)
Lose(t, i) ==
    /\ Undisturbed
    /\ i \in usable /\ ~Made(t, i) /\ ~Busy(i)
    /\ usable' = usable \ {i}
    /\ lost' = lost \cup {i}
    /\ UNCHANGED <<life, maker, closing, freed, calls>>

Next ==
    \/ \E t \in Thread :
         \/ Succeed(t) \/ Return(t)
         \/ \E i \in Isolate : Make(t, i) \/ Call(t, i) \/ Close(t, i) \/ Lose(t, i)
    \/ \E i \in Isolate : Free(i)

Spec == Init /\ [][Next]_vars
=============================================================================
