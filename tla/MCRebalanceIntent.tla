------------------------- MODULE MCRebalanceIntent --------------------------
(* Instances of RebalanceIntent for TLC. *)
EXTENDS RebalanceIntent

AppOnly == {"app"}
AppAndScript == {"app", "script"}

\* The automatic policy, with an operator who cancels and switches it.  A sweep does
\* nothing a tick that neither renews nor claims does not do.
PolicyRequests == {"tick", "cancel", "configure"}
\* The policy stays off or unused: the operator decides everything.
OperatorRequests == {"sweep", "approve", "reject", "submit", "approve_submit", "cancel", "refresh"}
\* Two routers for one approved proposal; the app may be asked for another order type
RouterRequests == {"approve", "submit", "submit_as"}
=============================================================================
