----------------------------- MODULE Semaphore -----------------------------
(***************************************************************************)
(* What a concurrency cap promises (packages/db/src/task-claim.ts): slots  *)
(* are taken one at a time and only where there is room, and given up      *)
(* without anyone's leave. A claimant on whose behalf a person interferes  *)
(* strays: from then on it may hold a slot it never took, until it takes   *)
(* one again. The code has neither a counter nor a release; RunSlots shows *)
(* that its Task rows behave as if it had both.                            *)
(***************************************************************************)
EXTENDS Naturals, FiniteSets

CONSTANTS Claimants, Slots

VARIABLES
    holders,  \* the claimants that hold a slot
    strays    \* those of whom it may be untrue

vars == <<holders, strays>>

Init == holders = {} /\ strays = {}

\* A slot is taken, by a claimant that may be set right by it.
Take(c) ==
    /\ Cardinality(holders) < Slots
    /\ holders' = holders \union {c}
    /\ strays' \in {strays, strays \ {c}}

Give(c) ==
    /\ holders' = holders \ {c}
    /\ UNCHANGED strays

\* Somebody interferes, or has.
Stray(c) ==
    /\ strays' = strays \union {c}
    /\ holders' \in {holders \union {c}, holders \ {c}}

Next == \E c \in Claimants : Take(c) \/ Give(c) \/ Stray(c)

Spec == Init /\ [][Next]_vars
=============================================================================
