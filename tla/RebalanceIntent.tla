-------------------------- MODULE RebalanceIntent ---------------------------
(***************************************************************************)
(* One portfolio objective and the proposals that pursue it: a proposal is *)
(* decided on, routed, expires and is renewed for what is still missing.   *)
(* The app does this for the operator (web/api.py) and for the automatic   *)
(* paper policy (live/auto_approval.py), one job at a time under           *)
(* ORDER_CONNECTION_LOCK; the command-line router is a process of its own. *)
(* Executions, order states and reconciliation arrive between all steps.   *)
(*                                                                         *)
(* Attempt 1 is the proposal the drift monitor staged; attempt n+1 is the  *)
(* successor of attempt n (its id is a hash of its predecessor's, so there *)
(* is one).  A proposal has one buy order of one instrument.  The life of  *)
(* an order between reservation and saved outcome is OrderLedger's.        *)
(***************************************************************************)
EXTENDS Integers, FiniteSets

CONSTANTS MaxAttempts,  \* bound on the length of the lineage
          Target,       \* units the objective asks for
          MaxCrashes,   \* bound on the crashes of all processes
          Later,        \* how far a later objective may get: 0 none, 1 staged, 2 approved
          Requests,     \* what the loop and the operator ask of the app
          Routers       \* {"app"} or {"app", "script"}

ASSUME AttemptsAssumption == MaxAttempts \in Nat \ {0}
ASSUME TargetAssumption == Target \in Nat \ {0}
ASSUME CrashAssumption == MaxCrashes \in Nat /\ Later \in 0..2
ASSUME RequestsAssumption == Requests \subseteq
    {"sweep", "tick", "approve", "reject", "submit", "submit_as", "approve_submit",
     "cancel", "refresh", "configure"}
ASSUME RoutersAssumption == "app" \in Routers /\ Routers \subseteq {"app", "script"}

Attempts == 1..MaxAttempts
Units == 0..Target
Closed == {"cancelled", "superseded", "completed"}

VARIABLES
    proposals, \* per attempt: [status, quantity, account]; account is prepared_account
    approvals, \* attempts with a recorded approval (strategy_approval_times)
    due,       \* attempts whose execution deadline has passed
    rows,      \* per attempt, its broker_orders row: [status, filled, seen]
    orders,    \* per attempt, its order at the broker: [state, filled] (external)
    held,      \* the position in the broker account (external)
    intent,    \* status of the rebalance-intent document
    newer,     \* a later objective of the portfolio: "none", "pending", "adopted"
    policy,    \* the approval policy file: [enabled, claims, since]
    report,    \* the latest reconciliation report
    recon,     \* a reconciliation under way
    job,       \* per process: what it is doing
    crashes

vars == <<proposals, approvals, due, rows, orders, held, intent, newer, policy,
          report, recon, job, crashes>>
market == <<due, orders, held>>
book == <<proposals, approvals, intent, policy>>

Statuses == {"none", "pending", "approved", "rejected", "missed"}
RowStatuses == {"none", "pending_submit", "submitted", "filled", "cancelled"}
Claims == {"none", "claimed", "router_entered", "submitted", "review"}
Decisions == {"approve", "reject", "submit", "submit_as", "approve_submit"}
Tasks == Decisions \cup {"none", "sweep", "tick", "script"}
Steps == {"idle", "expire", "renew", "pick", "approve", "enter", "decide",
          "validate", "connect", "reserve", "send", "save", "outcome"}

TypeOK ==
    /\ proposals \in [Attempts -> [status : Statuses, quantity : Units, account : Nat]]
    /\ approvals \subseteq Attempts
    /\ due \subseteq Attempts
    /\ rows \in [Attempts -> [status : RowStatuses, filled : Units, seen : BOOLEAN]]
    /\ orders \in [Attempts -> [state : {"none", "live", "ended"}, filled : Units]]
    /\ held \in Nat
    /\ intent \in {"none", "outstanding"} \cup Closed
    /\ newer \in {"none", "pending", "adopted"}
    /\ policy \in [enabled : BOOLEAN, claims : [Attempts -> Claims], since : SUBSET Attempts]
    /\ report \in [fresh : BOOLEAN, matched : BOOLEAN, position : Nat, covers : SUBSET Attempts]
    /\ recon \in [running : BOOLEAN, matched : BOOLEAN, covers : SUBSET Attempts]
    /\ job \in [Routers -> [step : Steps, task : Tasks, attempt : Attempts, sent : BOOLEAN,
                         lapsed : 0..MaxAttempts]]
    /\ crashes \in 0..MaxCrashes

NoRow == [status |-> "none", filled |-> 0, seen |-> FALSE]
Doing(step, task, a, b) ==
    [step |-> step, task |-> task, attempt |-> a, sent |-> FALSE, lapsed |-> b]
Idle == Doing("idle", "none", 1, 0)

\* The objective is staged on a reconciled account that holds nothing
\* (stage_portfolio_alignment); the policy was enabled before or is off.
Init ==
    /\ proposals = [a \in Attempts |->
          [status |-> IF a = 1 THEN "pending" ELSE "none",
           quantity |-> IF a = 1 THEN Target ELSE 0, account |-> 0]]
    /\ approvals = {}
    /\ due = {}
    /\ rows = [a \in Attempts |-> NoRow]
    /\ orders = [a \in Attempts |-> [state |-> "none", filled |-> 0]]
    /\ held = 0
    /\ intent = "none"
    /\ newer = "none"
    /\ \E on \in BOOLEAN :
          /\ on => "tick" \in Requests   \* else whether it is on makes no difference
          /\ policy = [enabled |-> on, claims |-> [a \in Attempts |-> "none"],
                       since |-> IF on THEN {1} ELSE {}]
    /\ report = [fresh |-> TRUE, matched |-> TRUE, position |-> 0, covers |-> {}]
    /\ recon = [running |-> FALSE, matched |-> TRUE, covers |-> {}]
    /\ job = [p \in Routers |-> Idle]
    /\ crashes = 0

-----------------------------------------------------------------------------
(* What the stores say. *)

Exists(a) == proposals[a].status # "none"
Successor(a) == a + 1 \in Attempts /\ Exists(a + 1)
Leaf(a) == Exists(a) /\ ~Successor(a)
Expired(a) == proposals[a].status = "missed" \/ a \in due   \* proposal_is_expired
Unsettled(a) == rows[a].status \in {"pending_submit", "submitted"}
Reconciled == report.fresh /\ report.matched   \* submission_reconciliation_issues

\* activation_issues: no break, and no order open or uncertain in the ledger.
Activatable == report.matched /\ \A a \in Attempts : ~Unsettled(a)

\* route_issues.  The last check is made only for a proposal found in
\* sources(store), which compares whole values: stored says whether the
\* proposal still equals the stored one.
RouteIssue(a, stored) ==
    \/ intent \in Closed
    \/ Successor(a)
    \/ stored /\ newer # "none"

\* prepared_submission_issues, of a proposal with a prepared account
PreparedIssue(a, stored) ==
    ~Activatable \/ report.position # proposals[a].account \/ RouteIssue(a, stored)

\* The same check in validation and in reserve_broker_order_record.  Expiry leaves
\* a missed row beside the others; an operator may allow another attempt of an
\* order that ended without any execution.
Free(a, task) ==
    /\ proposals[a].status # "missed"
    /\ \/ rows[a].status = "none"
       \/ /\ task \in {"submit", "submit_as", "script"}
          /\ rows[a].status = "cancelled" /\ rows[a].filled = 0 /\ orders[a].filled = 0

\* _submit_proposal_to_ib replaces the order type when it is asked to.
AsStored(task) == task # "submit_as"

\* validate_proposal_for_submission
Routable(a, task) ==
    /\ ~PreparedIssue(a, AsStored(task))
    /\ proposals[a].status = "approved" /\ ~Expired(a)
    /\ proposals[a].quantity > 0
    /\ Free(a, task)
    /\ Reconciled

Working == \E a \in Attempts : orders[a].state = "live"   \* any open order at IB

Touch(a) == /\ report' = [report EXCEPT !.covers = @ \ {a}]
            /\ recon' = [recon EXCEPT !.covers = @ \ {a}]

Goto(p, step) == job' = [job EXCEPT ![p].step = step]
Become(p, step, task, a) ==
    job' = [job EXCEPT ![p] = Doing(step, task, a, 0)]

-----------------------------------------------------------------------------
(* Jobs of the app: what is run under the order lock. *)

\* Mutant: an order that is not filled is taken for one that failed.
ActionableUnfilled(a) == rows[a].status # "filled"

\* _actionable_order_indexes: no order yet, or it failed.
Actionable(a) == rows[a].status \in {"none", "cancelled"}

\* expire_due_proposals
Lapses(a) ==
    /\ a \in due
    /\ \/ proposals[a].status = "pending"
       \/ /\ proposals[a].status = "approved"
          /\ proposals[a].quantity > 0 /\ Actionable(a)

\* expire_due_proposals reads the rows of a proposal before it writes that it is
\* missed; the newest proposal comes first.
FirstLapsed(b, last) == b \in 1..last /\ Lapses(b) /\ \A c \in (b + 1)..last : ~Lapses(c)

\* The status sync_intents gives the objective from its leaf.
Reached(a) ==
    /\ a \in approvals
    /\ \/ proposals[a].quantity = 0
       \/ rows[a].status = "filled" /\ rows[a].filled >= proposals[a].quantity

IntentOf(a) ==
    IF proposals[a].status = "rejected" THEN "cancelled"
    ELSE IF newer = "adopted" THEN "superseded"
    ELSE IF Reached(a) THEN "completed" ELSE "outstanding"

\* Mutant: a closed objective takes the status of its leaf again.
SyncIntentAlways == \E a \in Attempts : Leaf(a) /\ intent' = IntentOf(a)

\* sync_intents; record_intent never leaves a closed state.
SyncIntent ==
    \E a \in Attempts :
        /\ Leaf(a)
        /\ intent' = IF intent \in Closed THEN intent ELSE IntentOf(a)

\* What the request does once all that is due has expired: run_once and the
\* policy tick sync (which does not read what expired), and the tick goes on to
\* renewal if the policy is enabled; the endpoints decide.
AfterExpiry(task, a) ==
    IF task \in Decisions
    THEN /\ Become("app", "decide", task, a)
         /\ UNCHANGED intent
    ELSE /\ SyncIntent
         /\ IF task = "tick" /\ policy.enabled
            THEN Become("app", "renew", task, a) ELSE Become("app", "idle", "none", 1)

\* The rows of attempts 1..last are read, up to the first that lapses.
Expire(last, task, a) ==
    \/ \E b \in Attempts :
          /\ FirstLapsed(b, last)
          /\ job' = [job EXCEPT !["app"] = Doing("expire", task, a, b)]
          /\ UNCHANGED intent
    \/ /\ \A b \in 1..last : ~Lapses(b)
       /\ AfterExpiry(task, a)

\* Heads of run_once and of the policy tick, and of the endpoints that decide on
\* or submit a proposal: all first expire what is due.
Head(task, a) ==
    /\ task \in Requests
    /\ job["app"].step = "idle"
    /\ Expire(MaxAttempts, task, a)
    /\ UNCHANGED <<proposals, approvals, policy, market, rows, newer, report, recon, crashes>>

Sweep == Head("sweep", 1)
Tick == Head("tick", 1)
Ask(task, a) == Exists(a) /\ Head(task, a)

\* The missed row and the proposal are saved, as they were read; then the next one.
Miss ==
    LET b == job["app"].lapsed
    IN /\ job["app"].step = "expire"
       /\ proposals' = [proposals EXCEPT ![b].status = "missed"]
       /\ Expire(b - 1, job["app"].task, job["app"].attempt)
       /\ UNCHANGED <<approvals, policy, market, rows, newer, report, recon, crashes>>

\* Mutant: a report from before the last execution will do.
SettledByAnyReport(a) ==
    /\ rows[a].status \in {"filled", "cancelled"}
    /\ rows[a].status = "filled" => rows[a].filled = proposals[a].quantity
    /\ rows[a].filled = orders[a].filled

\* validate_recovery_account, for the attempts with a row: every one of them is
\* terminal by broker evidence, with all its executions, and was neither saved
\* nor executed since the report was begun; and IB shows no open order.
Settled(a) ==
    /\ rows[a].status \in {"filled", "cancelled"}
    /\ a \in report.covers
    /\ rows[a].status = "filled" => rows[a].filled = proposals[a].quantity
    /\ rows[a].filled = orders[a].filled

Recoverable ==
    /\ Reconciled
    /\ \A a \in Attempts : rows[a].status # "none" => Settled(a)
    /\ ~Working

\* refresh_rebalance of the leaf of the lineage
Refreshable(a, automatic) ==
    /\ Leaf(a)
    /\ proposals[a].status # "rejected"
    /\ ~RouteIssue(a, TRUE)
    /\ Activatable
    /\ (automatic \/ \E b \in Attempts : rows[b].status # "none") => Recoverable
    /\ report.position <= Target   \* else the trade direction changed

\* queue_proposal_once; its successor row ends the route of the old one.
QueueSuccessor(a, automatic) ==
    /\ a + 1 \in Attempts
    /\ proposals' = [proposals EXCEPT ![a + 1] =
          [status |-> "pending", quantity |-> Target - report.position,
           account |-> report.position]]
    /\ policy' = [policy EXCEPT !.since = IF automatic THEN @ \cup {a + 1} ELSE @]

\* _renew_missed_rebalance: expired, priced on an older day (which may be at
\* any time after the day it was made), or claimed and safely not sent.
RenewDue(a) ==
    /\ proposals[a].status \in {"missed", "pending", "approved"}
    /\ intent \notin Closed
    /\ \/ Expired(a) /\ ~Lapses(a)   \* what can lapse has, at the head of the tick
       \/ proposals[a].status = "pending"
       \/ policy.claims[a] \in {"claimed", "router_entered", "review"}

Renew(a) ==
    /\ job["app"].step = "renew"
    /\ RenewDue(a)
    /\ Refreshable(a, TRUE)
    /\ IF report.position = Target
       THEN /\ intent' = "completed"
            /\ UNCHANGED <<proposals, policy>>
       ELSE /\ QueueSuccessor(a, TRUE)
            /\ intent' = "outstanding"
    /\ Goto("app", "pick")
    /\ UNCHANGED <<approvals, market, rows, newer, report, recon, crashes>>

\* Not due, refused, or within the five minutes after a refusal.
RenewLater ==
    /\ job["app"].step = "renew"
    /\ Goto("app", "pick")
    /\ UNCHANGED <<book, market, rows, newer, report, recon, crashes>>

\* Eligible for the policy, and _preflight finds the account quiet and the
\* order unchanged.
Candidate(a) ==
    /\ proposals[a].status = "pending"
    /\ a \in policy.since
    /\ policy.claims[a] = "none"
    /\ ~RouteIssue(a, TRUE)
    /\ ~Expired(a)
    /\ rows[a].status = "none"
    /\ Reconciled
    /\ proposals[a].quantity = Target - report.position
    /\ \A b \in Attempts : ~Unsettled(b)
    /\ ~Working

\* Mutant: the claim is not saved before the approval.
ClaimUnsaved(a) ==
    /\ job["app"].step = "pick"
    /\ Candidate(a)
    /\ Become("app", "approve", "tick", a)
    /\ UNCHANGED <<book, market, rows, newer, report, recon, crashes>>

Claim(a) ==
    /\ job["app"].step = "pick"
    /\ Candidate(a)
    /\ policy' = [policy EXCEPT !.claims[a] = "claimed"]
    /\ Become("app", "approve", "tick", a)
    /\ UNCHANGED <<proposals, approvals, intent, market, rows, newer, report, recon, crashes>>

\* No candidate, or its window has not begun.
NothingToClaim ==
    /\ job["app"].step = "pick"
    /\ Become("app", "idle", "none", 1)
    /\ UNCHANGED <<book, market, rows, newer, report, recon, crashes>>

\* apply_decision, expecting the proposal to be pending still
ApproveClaim ==
    LET a == job["app"].attempt
    IN /\ job["app"].step = "approve"
       /\ proposals[a].status = "pending"
       /\ proposals' = [proposals EXCEPT ![a].status = "approved"]
       /\ approvals' = approvals \cup {a}
       /\ Goto("app", "enter")
       /\ UNCHANGED <<intent, policy, market, rows, newer, report, recon, crashes>>

EnterRouter ==
    /\ job["app"].step = "enter"
    /\ policy' = [policy EXCEPT !.claims[job["app"].attempt] = "router_entered"]
    /\ Goto("app", "validate")
    /\ UNCHANGED <<proposals, approvals, intent, market, rows, newer, report, recon, crashes>>

\* The outcome of the claim: all orders sent, or review.
RecordClaim ==
    /\ job["app"].step = "outcome"
    /\ policy' = [policy EXCEPT !.claims[job["app"].attempt] =
          IF job["app"].sent THEN "submitted" ELSE "review"]
    /\ Become("app", "idle", "none", 1)
    /\ UNCHANGED <<proposals, approvals, intent, market, rows, newer, report, recon, crashes>>

\* decide_proposal, approve_and_submit_proposal, submit_proposal_to_ib
Decide ==
    LET a == job["app"].attempt
        task == job["app"].task
        approving == task \in {"approve", "approve_submit"}
        refused == Expired(a) \/ (approving /\ PreparedIssue(a, TRUE))
    IN /\ job["app"].step = "decide"
       /\ IF refused \/ task \in {"submit", "submit_as"}
          THEN UNCHANGED <<proposals, approvals>>
          ELSE /\ proposals' = [proposals EXCEPT ![a].status =
                      IF approving THEN "approved" ELSE "rejected"]
               /\ approvals' = IF approving THEN approvals \cup {a} ELSE approvals
       /\ IF ~refused /\ task \in {"submit", "submit_as", "approve_submit"}
          THEN Goto("app", "validate") ELSE Become("app", "idle", "none", 1)
       /\ UNCHANGED <<intent, policy, market, rows, newer, report, recon, crashes>>

\* cancel_proposal_rebalance
CancelIntent ==
    /\ "cancel" \in Requests
    /\ job["app"].step = "idle"
    /\ intent \notin {"completed", "superseded"}
    /\ intent' = "cancelled"
    /\ UNCHANGED <<proposals, approvals, policy, market, rows, newer, report, recon, job, crashes>>

\* refresh_proposal_rebalance.  Its successor carries no automation key.
Refresh(a) ==
    /\ "refresh" \in Requests
    /\ job["app"].step = "idle"
    /\ Refreshable(a, FALSE)
    /\ QueueSuccessor(a, FALSE)
    /\ UNCHANGED <<approvals, intent, market, rows, newer, report, recon, job, crashes>>

\* PaperAutoApproval.configure.  Claims survive; only proposals made from
\* now on are eligible.
Configure(on) ==
    /\ "configure" \in Requests
    /\ job["app"].step = "idle"
    /\ on => Reconciled
    /\ policy' = [policy EXCEPT !.enabled = on, !.since = {}]
    /\ UNCHANGED <<proposals, approvals, intent, market, rows, newer, report, recon, job, crashes>>

-----------------------------------------------------------------------------
(* Routing, in the app and in scripts/submit_ib_paper_orders.py. *)

\* Where a process goes after the router, with or without an order sent
AfterRouting(p, sent) ==
    IF job[p].task = "tick"
    THEN job' = [job EXCEPT ![p].step = "outcome", ![p].sent = sent]
    ELSE Become(p, "idle", "none", 1)

Validate(p) ==
    /\ job[p].step = "validate"
    /\ IF Routable(job[p].attempt, job[p].task)
       THEN Goto(p, "connect") ELSE AfterRouting(p, FALSE)
    /\ UNCHANGED <<book, market, rows, newer, report, recon, crashes>>

RunScript(a) ==
    /\ "script" \in Routers
    /\ job["script"].step = "idle"
    /\ Routable(a, "script")
    /\ Become("script", "connect", "script", a)
    /\ UNCHANGED <<book, market, rows, newer, report, recon, crashes>>

\* One socket has the trading client id.
Connected(p) == job[p].step \in {"reserve", "send", "save"}

Connect(p) ==
    /\ job[p].step = "connect"
    /\ \A q \in Routers \ {p} : ~Connected(q)
    /\ Goto(p, "reserve")
    /\ UNCHANGED <<book, market, rows, newer, report, recon, crashes>>

ConnectFails(p) ==
    /\ job[p].step = "connect"
    /\ AfterRouting(p, FALSE)
    /\ UNCHANGED <<book, market, rows, newer, report, recon, crashes>>

\* Mutant: the reservation does not look at the row again.
ReserveUnchecked(p) ==
    LET a == job[p].attempt
    IN /\ job[p].step = "reserve"
       /\ rows' = [rows EXCEPT ![a] = [NoRow EXCEPT !.status = "pending_submit"]]
       /\ Touch(a)
       /\ Goto(p, "send")
       /\ UNCHANGED <<book, market, newer, crashes>>

\* reserve_broker_order_record looks at the row again.
Reserve(p) ==
    LET a == job[p].attempt
    IN /\ job[p].step = "reserve"
       /\ IF Free(a, job[p].task)
          THEN /\ rows' = [rows EXCEPT ![a] = [NoRow EXCEPT !.status = "pending_submit"]]
               /\ Touch(a)
               /\ Goto(p, "send")
          ELSE /\ AfterRouting(p, FALSE)
               /\ UNCHANGED <<rows, report, recon>>
       /\ UNCHANGED <<book, market, newer, crashes>>

\* place_order: acknowledged, or its outcome is unknown.
Send(p) ==
    LET a == job[p].attempt
    IN /\ job[p].step = "send"
       /\ \E taken, acknowledged \in BOOLEAN :
             /\ acknowledged => taken
             /\ orders' = IF taken
                   THEN [orders EXCEPT ![a] = [state |-> "live", filled |-> 0]] ELSE orders
             /\ job' = [job EXCEPT ![p].step = "save", ![p].sent = acknowledged]
       /\ UNCHANGED <<book, due, held, rows, newer, report, recon, crashes>>

\* A row that has moved on by then keeps what it knows.
SaveOutcome(p) ==
    LET a == job[p].attempt
    IN /\ job[p].step = "save"
       /\ rows' = IF job[p].sent /\ rows[a].status = "pending_submit"
                  THEN [rows EXCEPT ![a].status = "submitted"] ELSE rows
       /\ Touch(a)
       /\ AfterRouting(p, job[p].sent)
       /\ UNCHANGED <<book, market, newer, crashes>>

Crash(p) ==
    /\ crashes < MaxCrashes
    /\ job[p].step # "idle"
    /\ crashes' = crashes + 1
    /\ Become(p, "idle", "none", 1)
    /\ UNCHANGED <<book, market, rows, newer, report, recon>>

-----------------------------------------------------------------------------
(* Broker, time, evidence. *)

Execute(a) ==
    /\ orders[a].state = "live"
    /\ orders[a].filled < proposals[a].quantity
    /\ orders' = [orders EXCEPT ![a].filled = @ + 1,
                                ![a].state = IF orders[a].filled + 1 = proposals[a].quantity
                                             THEN "ended" ELSE @]
    /\ held' = held + 1
    /\ report' = [report EXCEPT !.covers = @ \ {a}]
    /\ recon' = [recon EXCEPT !.covers = @ \ {a}, !.matched = FALSE]
    /\ UNCHANGED <<book, due, rows, newer, job, crashes>>

\* The broker ends an order, at the latest at the end of its window.
EndOrder(a) ==
    /\ orders[a].state = "live"
    /\ orders' = [orders EXCEPT ![a].state = "ended"]
    /\ UNCHANGED <<book, due, held, rows, newer, report, recon, job, crashes>>

DeadlinePasses(a) ==
    /\ Exists(a)
    /\ due' = due \cup {a}
    /\ UNCHANGED <<book, orders, held, rows, newer, report, recon, job, crashes>>

\* Mutant: the total of the executions is added to the row.
MergedTwice(a) ==
    LET n == orders[a].filled
    IN IF rows[a].status = "none" \/ n = 0 \/ n = rows[a].filled THEN rows[a]
       ELSE [rows[a] EXCEPT !.filled = @ + n]

\* merge_execution_fills: a cancelled row stays cancelled until it is full.
Merged(a) ==
    LET n == orders[a].filled
    IN IF rows[a].status = "none" \/ n = 0 \/ n = rows[a].filled THEN rows[a]
       ELSE [rows[a] EXCEPT
               !.filled = n,
               !.status = IF n = proposals[a].quantity THEN "filled"
                          ELSE IF @ = "cancelled" THEN "cancelled" ELSE "submitted"]

\* sync_order_fills; the row is stamped with the time of its executions.
SyncExecutions ==
    /\ rows' = [a \in Attempts |-> Merged(a)]
    /\ UNCHANGED <<book, market, newer, report, recon, job, crashes>>

\* sync_orders on the trading client id.  An ended order is recognised by the
\* permanent id of an earlier observation.
Observe(a) ==
    /\ job["app"].step = "idle"
    /\ \A p \in Routers : ~Connected(p)
    /\ Unsettled(a)
    /\ \/ /\ orders[a].state = "live"
          /\ rows' = [rows EXCEPT ![a].seen = TRUE, ![a].status = "submitted"]
       \/ /\ orders[a].state = "ended" /\ rows[a].seen
          /\ orders[a].filled < proposals[a].quantity
          /\ rows' = [rows EXCEPT ![a].status = "cancelled"]
    /\ IF rows'[a].status # rows[a].status THEN Touch(a) ELSE UNCHANGED <<report, recon>>
    /\ UNCHANGED <<book, market, newer, job, crashes>>

\* reconcile_ib_paper_account: checked_at is taken, executions are merged ...
StartReconcile ==
    /\ ~recon.running
    /\ rows' = [a \in Attempts |-> Merged(a)]
    /\ recon' = [running |-> TRUE, matched |-> TRUE,
                 covers |-> {a \in Attempts : rows[a].status # "none"}]
    /\ UNCHANGED <<book, market, newer, report, job, crashes>>

\* ... then the position is fetched and compared, and the report stored.
FinishReconcile ==
    /\ recon.running
    /\ report' = [fresh |-> TRUE, matched |-> recon.matched, position |-> held,
                  covers |-> recon.covers]
    /\ recon' = [running |-> FALSE, matched |-> TRUE, covers |-> {}]
    /\ UNCHANGED <<book, market, rows, newer, job, crashes>>

\* 180 seconds pass.
ReportAges ==
    /\ report.fresh
    /\ report' = [report EXCEPT !.fresh = FALSE]
    /\ UNCHANGED <<book, market, rows, newer, recon, job, crashes>>

\* A later objective is staged, and may be approved.
NewerObjective ==
    /\ \/ newer = "none" /\ Later >= 1 /\ newer' = "pending"
       \/ newer = "pending" /\ Later = 2 /\ newer' = "adopted"
    /\ UNCHANGED <<book, market, rows, report, recon, job, crashes>>

-----------------------------------------------------------------------------

AppStep ==
    \/ Miss \/ NothingToClaim \/ RenewLater
    \/ ApproveClaim \/ EnterRouter \/ RecordClaim \/ Decide
    \/ \E a \in Attempts : Renew(a) \/ Claim(a)

Request ==
    \/ Sweep \/ Tick \/ CancelIntent
    \/ \E task \in Decisions, a \in Attempts : Ask(task, a)
    \/ \E a \in Attempts : Refresh(a)
    \/ \E on \in BOOLEAN : Configure(on)

Routing(p) ==
    Validate(p) \/ Connect(p) \/ ConnectFails(p) \/ Reserve(p) \/ Send(p) \/ SaveOutcome(p)

Environment ==
    \/ \E a \in Attempts : Execute(a) \/ EndOrder(a) \/ DeadlinePasses(a) \/ Observe(a)
    \/ SyncExecutions \/ StartReconcile \/ FinishReconcile \/ ReportAges \/ NewerObjective

Next ==
    \/ AppStep \/ Request \/ Environment
    \/ \E a \in Attempts : RunScript(a)
    \/ \E p \in Routers : Routing(p) \/ Crash(p)

Spec == Init /\ [][Next]_vars

-----------------------------------------------------------------------------
(* Properties. *)

LatestAttempt == CHOOSE a \in Attempts : Leaf(a)

Objective == INSTANCE RebalanceObjective WITH
    working <- [a \in Attempts |-> IF orders[a].state = "live"
                                  THEN proposals[a].quantity - orders[a].filled ELSE 0],
    latest <- LatestAttempt,
    state <- IF intent \in Closed THEN intent ELSE "open"

\* The app keeps the promise of RebalanceObjective: whatever crashes, fills and
\* reports come between validation, claim, renewal and order, at most one
\* attempt has an order that can execute, it is the newest, the objective is open
\* when it is sent, and it is for no more than what is missing.
KeepsObjective == Objective!Spec

\* An attempt recorded as missed has no order that can still execute: expiry does
\* not overtake the router of the app, and no row is called failed under a live
\* order.  (Holds where the app is the only router: the command-line router can
\* reserve a row between the scan of expire_due_proposals and its write.)
MissedHasNoOrder ==
    \A a \in Attempts : proposals[a].status = "missed" => orders[a].state # "live"

\* What the policy approves it has claimed in its file before, so that a crash at
\* any point leaves a claim that renewal and the next tick take into account.
\* (Holds where nobody but the policy approves.)
ClaimPrecedesApproval ==
    \A a \in Attempts : a \in approvals => policy.claims[a] # "none"
=============================================================================
