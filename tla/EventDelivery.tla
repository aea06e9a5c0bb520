----------------------------- MODULE EventDelivery -----------------------------
(******************************************************************************)
(* What the platform event outbox promises (docs/queue-adapter-selection.md,   *)
(* "Delivery contract"): an event is owed to the consumers from the moment the *)
(* transaction that recorded it commits, nothing else is ever delivered, and   *)
(* an event is settled (not offered again) only once it was delivered.         *)
(******************************************************************************)
CONSTANT Events

VARIABLES
    owed,       \* events whose transaction committed
    delivered,  \* events the consumers can read
    settled     \* events the producer will not publish again

vars == <<owed, delivered, settled>>

Init == owed = {} /\ delivered = {} /\ settled = {}

Commit(e) ==
    /\ e \notin owed
    /\ owed' = owed \cup {e}
    /\ UNCHANGED <<delivered, settled>>

Deliver(e) ==
    /\ e \in owed \ delivered
    /\ delivered' = delivered \cup {e}
    /\ UNCHANGED <<owed, settled>>

Settle(e) ==
    /\ e \in delivered
    /\ settled' = settled \cup {e}
    /\ UNCHANGED <<owed, delivered>>

Next == \E e \in Events : Commit(e) \/ Deliver(e) \/ Settle(e)

Spec == Init /\ [][Next]_vars
================================================================================
