------------------------------ MODULE MCStacks ------------------------------
(***************************************************************************)
(* Stacks on small machines: two native threads, one of them the main one  *)
(* with the highest stack, and two places for fibers, one below and one    *)
(* above the worker's stack, the upper with two pairs of bounds.           *)
(***************************************************************************)
EXTENDS Stacks, TLC

MCNativeStack ==
    [n \in Native |-> IF n = "main" THEN [lo |-> 18, hi |-> 22] ELSE [lo |-> 7, hi |-> 11]]

\* The upper place is mapped at one pair of bounds or another: a pool that gave
\* memory back and mapped it again.
MCRegion == {[lo |-> 2, hi |-> 5], [lo |-> 12, hi |-> 16], [lo |-> 14, hi |-> 16]}

\* Fibers differ by nothing but their name.
MCSymmetry == Permutations(Fiber)

=============================================================================
