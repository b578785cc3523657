----------------------------- MODULE ProcTable -----------------------------
(***************************************************************************)
(* The registry of host functions of one isolate (ProcTable in lib.rs):    *)
(* a V8 function carries the index of a slot, the slot roots the Ruby proc *)
(* it calls.  Slots emptied when their realm goes are kept on a stack of   *)
(* free indices and handed out again.  All of it is under one mutex, so    *)
(* each method is a step.  Indices start at 1 here.                        *)
(***************************************************************************)
EXTENDS Naturals, Sequences, FiniteSets

CONSTANTS
    Realm,      \* context ids
    Proc,       \* Ruby procs
    NoProc,     \* ProcSlot.proc == None: the slot is released
    MaxSlots    \* bound: how long the table grows

ASSUME ProcTableAssumption ==
    /\ NoProc \notin Proc
    /\ MaxSlots \in Nat

VARIABLES
    slots,      \* Vec<ProcSlot>
    free        \* Vec<usize>, popped at the end

table == <<slots, free>>

ProcSlot == [realm : Realm, proc : Proc \cup {NoProc}]
Batch == UNION {[1..n -> Proc] : n \in 1..MaxSlots}     \* procs attached at once

InUse(id) == slots[id].proc # NoProc

TableTypeOK ==
    /\ slots \in Seq(ProcSlot)
    /\ Len(slots) <= MaxSlots
    /\ free \in Seq(DOMAIN slots)

TableInit == slots = <<>> /\ free = <<>>

-----------------------------------------------------------------------------
(* ProcTable::alloc, once for attach, in a row for attach_many: the free    *)
(* slots last released, then new ones.                                      *)
NthId(k) == IF k <= Len(free) THEN free[Len(free) - k + 1] ELSE Len(slots) + (k - Len(free))

PopFree(taken) == free' = SubSeq(free, 1, Len(free) - taken)

Alloc(realm, batch) ==
    LET n == Len(batch)
        taken == IF n <= Len(free) THEN n ELSE Len(free)
        size == Len(slots) + (n - taken)
    IN  /\ size <= MaxSlots
        /\ slots' = [id \in 1..size |->
                        IF \E k \in 1..n : NthId(k) = id
                        THEN [realm |-> realm,
                              proc |-> batch[CHOOSE k \in 1..n : NthId(k) = id]]
                        ELSE slots[id]]
        /\ PopFree(taken)

(* ProcTable::release: every slot of the realm that still has its proc, in *)
(* the order of the table.                                                 *)
AllOf(realm) == {id \in DOMAIN slots : slots[id].realm = realm}
LiveOf(realm) == {id \in DOMAIN slots : slots[id].realm = realm /\ InUse(id)}

(* The members of S in ascending order. *)
Ascending(S) ==
    {s \in [1..Cardinality(S) -> S] :
        /\ \A i, j \in DOMAIN s : i < j => s[i] < s[j]
        /\ \A x \in S : \E i \in DOMAIN s : s[i] = x}

Release(realm) ==
    /\ \E s \in Ascending(LiveOf(realm)) : free' = free \o s
    /\ slots' = [id \in DOMAIN slots |->
                    IF slots[id].realm = realm
                    THEN [slots[id] EXCEPT !.proc = NoProc]
                    ELSE slots[id]]

(* teardown empties both. *)
Clear == slots' = <<>> /\ free' = <<>>

TableNext ==
    \/ \E realm \in Realm, batch \in Batch : Alloc(realm, batch)
    \/ \E realm \in Realm : Release(realm)
    \/ Clear

TableSpec == TableInit /\ [][TableNext]_table

-----------------------------------------------------------------------------
(***************************************************************************)
(* The free list names every released slot once, and no slot in use: what  *)
(* alloc takes from it is never the slot of a function still attached, and *)
(* nothing is freed twice ("it can't be double-freed").                    *)
(***************************************************************************)
FreeListIsExact ==
    /\ \A i, j \in DOMAIN free : free[i] = free[j] => i = j
    /\ \A id \in DOMAIN slots :
         ~InUse(id) <=> \E i \in DOMAIN free : free[i] = id

(***************************************************************************)
(* An attached function keeps its proc until its own realm is released:    *)
(* no attach and no release of another realm changes a slot in use.        *)
(***************************************************************************)
SlotsInUseAreStable ==
    [][\A id \in DOMAIN slots :
         InUse(id) /\ id \in DOMAIN slots' /\ slots'[id] # slots[id] =>
             slots'[id].proc = NoProc /\ \A other \in DOMAIN slots :
                 slots[other].realm = slots[id].realm => slots'[other].proc = NoProc]_table
=============================================================================
