------------------------- MODULE AllocationLifecycle -------------------------
(***************************************************************************)
(* What docs/trading-allocations.md promises of a reviewed allocation      *)
(* change: it waits alone, it takes effect at most once and only if it was *)
(* not withdrawn, and nothing else changes the allocation in force.        *)
(***************************************************************************)
CONSTANTS Changes,   \* reviewed changes, by event id
          Legacy     \* the allocation in force before the first hand-over

VARIABLES life,      \* where each change stands
          inForce    \* the change whose allocation is traded

vars == <<life, inForce>>

Stages == {"new", "pending", "done", "withdrawn"}

Init == /\ life = [c \in Changes |-> "new"]
        /\ inForce = Legacy

Move(c, from, to) == /\ life[c] = from
                     /\ life' = [life EXCEPT ![c] = to]

\* An approved allocation waits for its close; only one can wait.
Approve(c) == /\ \A d \in Changes : life[d] # "pending"
              /\ Move(c, "new", "pending")
              /\ UNCHANGED inForce

\* A change of the SOTA designation alone takes effect at once.
Designate(c) == /\ \A d \in Changes : life[d] # "pending"
                /\ Move(c, "new", "done")
                /\ UNCHANGED inForce

Withdraw(c) == Move(c, "pending", "withdrawn") /\ UNCHANGED inForce

HandOver(c) == Move(c, "pending", "done") /\ inForce' = c

Next == \E c \in Changes : Approve(c) \/ Designate(c) \/ Withdraw(c) \/ HandOver(c)

Spec == Init /\ [][Next]_vars
=============================================================================
