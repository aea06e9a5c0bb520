------------------------- MODULE RebalanceObjective -------------------------
(***************************************************************************)
(* What the application promises about one portfolio objective            *)
(* (docs/rebalance-intent-recovery-2026-10-24.md): it is pursued by a      *)
(* sequence of attempts of which only the newest may place an order, only  *)
(* while no earlier order can execute and the objective is open, and never *)
(* for more than what is still missing.                                    *)
(***************************************************************************)
EXTENDS Naturals

CONSTANTS MaxAttempts, Target

Attempts == 1..MaxAttempts

VARIABLES held,     \* units executed
          working,  \* units of each attempt that can still execute
          latest,   \* the newest attempt
          state     \* "open" or why the objective is closed

vars == <<held, working, latest, state>>

Quiet == \A a \in Attempts : working[a] = 0

Init ==
    /\ held = 0
    /\ working = [a \in Attempts |-> 0]
    /\ latest = 1
    /\ state = "open"

Place(q) ==
    /\ state = "open"
    /\ Quiet
    /\ held + q <= Target
    /\ working' = [working EXCEPT ![latest] = q]
    /\ UNCHANGED <<held, latest, state>>

Execute(a) ==
    /\ working[a] > 0
    /\ held' = held + 1
    /\ working' = [working EXCEPT ![a] = @ - 1]
    /\ UNCHANGED <<latest, state>>

End(a) ==
    /\ working' = [working EXCEPT ![a] = 0]
    /\ UNCHANGED <<held, latest, state>>

Renew ==
    /\ state = "open"
    /\ Quiet
    /\ latest < MaxAttempts
    /\ latest' = latest + 1
    /\ UNCHANGED <<held, working, state>>

Close(reason) ==
    /\ state = "open"
    /\ reason = "completed" => Quiet /\ held = Target
    /\ state' = reason
    /\ UNCHANGED <<held, working, latest>>

Next ==
    \/ \E q \in 1..Target : Place(q)
    \/ \E a \in Attempts : Execute(a) \/ End(a)
    \/ Renew
    \/ \E reason \in {"completed", "cancelled", "superseded"} : Close(reason)

Spec == Init /\ [][Next]_vars
=============================================================================
