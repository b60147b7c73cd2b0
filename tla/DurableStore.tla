----------------------------- MODULE DurableStore -----------------------------
(***************************************************************************)
(* What KvStore promises its callers (crates/kvstore/src/lib.rs): the      *)
(* store is the list of the mutations applied to it, in order; a call that *)
(* returns with a durability promise (a strict put or delete, flush_wal,   *)
(* sync, checkpoint) fixes a prefix of the list; a crash and the recovery  *)
(* after it may drop a suffix of the list, never a promised mutation, and  *)
(* never one mutation without every mutation applied after it.             *)
(***************************************************************************)
EXTENDS Naturals, Sequences

CONSTANT Entries    \* what one mutation writes

VARIABLES
    hist,           \* the mutations the store holds, oldest first
    low             \* how many of them are promised to survive

vars == <<hist, low>>

Init == hist = <<>> /\ low = 0

\* A mutation is applied, behind all others.
Apply ==
    /\ hist' \in Seq(Entries) /\ Len(hist') = Len(hist) + 1
    /\ hist = SubSeq(hist', 1, Len(hist))
    /\ UNCHANGED low

\* A call returns and promises what the store holds, or part of it.
Promise ==
    /\ UNCHANGED hist
    /\ low' \in low..Len(hist)

\* A crash drops a suffix that was not promised.
Crash ==
    /\ UNCHANGED low
    /\ hist' \in Seq(Entries) /\ Len(hist') \in low..Len(hist)
    /\ hist' = SubSeq(hist, 1, Len(hist'))

Next == Promise \/ Apply \/ Crash

Spec == Init /\ [][Next]_vars
================================================================================
