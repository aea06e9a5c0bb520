------------------------------ MODULE OrderLedger ------------------------------
(******************************************************************************)
(* The broker order ledger of one approved proposal and everything that writes *)
(* to it: the router (execution/broker.py), operator order management          *)
(* (execution/management.py), execution synchronisation (execution/fills.py),  *)
(* window expiry (execution/window.py) and the row writer they share           *)
(* (storage/postgres.py), against an external Interactive Brokers account.     *)
(*                                                                             *)
(* Two operating-system processes write: "app" (the API and the embedded       *)
(* management loop, serialised by ORDER_CONNECTION_LOCK) and "script" (the     *)
(* command-line router, scripts/submit_ib_paper_orders.py).  Execution sync    *)
(* runs in the app without the lock and on a client id of its own.             *)
(******************************************************************************)
EXTENDS Integers

CONSTANTS
    NumLegs,    \* number of orders of the proposal
    MaxOid,     \* bound on the broker order ids handed out
    Approved,   \* approved share count of every leg
    Procs       \* the processes running, a subset of {"app", "script"}

Legs == 1..NumLegs
Oids == 1..MaxOid

ASSUME NumLegsAssumption == NumLegs \in Nat
ASSUME MaxOidAssumption == MaxOid \in Nat
ASSUME ApprovedAssumption == Approved \in [Legs -> Nat \ {0}]
ASSUME ProcsAssumption == Procs \subseteq {"app", "script"}

VARIABLES
    proposal,   \* stored proposal status
    late,       \* the execution deadline has passed
    rec,        \* the broker_orders row of each leg
    missed,     \* legs with a synthetic "missed-" row
    ord,        \* the orders at the broker, by broker order id
    session,    \* process whose socket holds the trading client id
    job,        \* what each process is doing under its order lock
    seen,       \* the app's Gateway snapshot, one matched row per leg
    review,     \* the action an operator reviewed, and the row reviewed
    feed        \* executions fetched by the fill sync and not yet applied

vars == <<proposal, late, rec, missed, ord, session, job, seen, review, feed>>

--------------------------------------------------------------------------------
(* Rows, broker orders and the in-memory state of the processes. *)

RowStatus == {"none", "pending_submit", "submitted", "acknowledged",
              "partially_filled", "filled", "cancelled", "rejected"}
Failed == {"rejected", "cancelled"}

\* filled = -1: the broker row carries no fill count (get("filled", "-1")).
ObsState == {"none", "working", "cancelling", "cancelled", "filled"}
Observation == [state : ObsState, filled : Int]
NoObs == [state |-> "none", filled |-> -1]
Pending == [action : {"none", "cancel", "amend"}, qty : Nat]
NoPending == [action |-> "none", qty |-> 0]

\* filled executions of broker order source are recorded, out of qty ordered.
Row == [status : RowStatus, oid : 0..MaxOid, qty : Nat,
        filled : Nat, source : 0..MaxOid, issue : BOOLEAN,
        obs : Observation, pending : Pending]
NoRecord == [status |-> "none", oid |-> 0, qty |-> 0, filled |-> 0, source |-> 0,
             issue |-> FALSE, obs |-> NoObs, pending |-> NoPending]

\* done shares are executed; ask is an amended quantity still on the wire.
OrderState == {"unused", "transit", "working", "cancelling", "cancelled",
               "filled", "refused"}
Order == [leg : 0..NumLegs, state : OrderState, qty : Nat, done : Nat,
          ask : Nat, corrected : BOOLEAN]
Unused == [leg |-> 0, state |-> "unused", qty |-> 0, done |-> 0, ask |-> 0,
           corrected |-> FALSE]
LiveState == {"transit", "working", "cancelling"}

Seen == [oid : 0..MaxOid, state : ObsState, qty : Nat, filled : Int]
NoRow == [oid |-> 0, state |-> "none", qty |-> 0, filled |-> -1]

Job == [pc : {"idle", "validated", "routing", "reserved", "waiting", "outcome",
              "syncing", "reviewed", "claimed", "retrying", "expiring"},
        todo : SUBSET Legs, leg : 0..NumLegs, oid : 0..(MaxOid + 1),
        allow : BOOLEAN, qty : [Legs -> Nat],
        result : {"none", "submitted", "pending_submit", "rejected"}]
Idle == [pc |-> "idle", todo |-> {}, leg |-> 0, oid |-> 0, allow |-> FALSE,
         qty |-> Approved, result |-> "none"]

Review == [leg : 0..NumLegs, row : Row, action : {"none", "cancel", "amend", "resubmit"},
           qty : Nat]
NoReview == [leg |-> 0, row |-> NoRecord, action |-> "none", qty |-> 0]

Feed == [source : 0..MaxOid, n : Nat, conflict : BOOLEAN]
NoFeed == [source |-> 0, n |-> 0, conflict |-> FALSE]

TypeOK ==
    /\ proposal \in {"approved", "missed"}
    /\ late \in BOOLEAN
    /\ rec \in [Legs -> Row]
    /\ missed \subseteq Legs
    /\ ord \in [Oids -> Order]
    /\ session \in Procs \cup {"none"}
    /\ job \in [Procs -> Job]
    /\ seen \in [Legs -> Seen]
    /\ review \in Review
    /\ feed \in [Legs -> Feed]

Init ==
    /\ proposal = "approved"
    /\ late = FALSE
    /\ rec = [l \in Legs |-> NoRecord]
    /\ missed = {}
    /\ ord = [o \in Oids |-> Unused]
    /\ session = "none"
    /\ job = [p \in Procs |-> Idle]
    /\ seen = [l \in Legs |-> NoRow]
    /\ review = NoReview
    /\ feed = [l \in Legs |-> NoFeed]

--------------------------------------------------------------------------------
(* Row transitions computed by the program. *)

\* Mutant: the stored row is replaced instead of merged with.
PreserveNothing(prev, status, oid, qty) ==
    [NoRecord EXCEPT !.status = status, !.oid = oid, !.qty = qty]

\* preserve_execution_evidence applied to the row the router built before it
\* sent the order: fills, observation and claim of the stored row survive, the
\* claim and the observation only while the broker order id is the same.
Preserve(prev, status, oid, qty) ==
    [prev EXCEPT
        !.status = IF prev.filled > 0 /\ (status # "rejected" \/ prev.filled >= prev.qty)
                   THEN prev.status ELSE status,
        !.oid = oid,
        !.qty = IF prev.oid = oid THEN prev.qty ELSE qty,
        !.obs = IF prev.oid = oid THEN prev.obs ELSE NoObs,
        !.pending = IF prev.oid = oid THEN prev.pending ELSE NoPending]

\* The rows a reservation may replace (reserve branch of _write_broker_order_record).
Reroutable(r) ==
    /\ r.status \in Failed
    /\ r.filled = 0
    /\ r.pending.action = "none"
    /\ r.obs.state # "none" => r.obs.filled = 0

\* apply_observation, then preserve_execution_evidence on its result.
\* Mutant: the terms of the broker order are not compared with the claim.
TermsUnchecked(r, s) == r.pending.action = "amend" /\ s.state # "cancelling"

TermsInForce(r, s) ==
    r.pending.action = "amend" /\ s.state # "cancelling" /\ s.qty = r.pending.qty

\* Mutant: a missing fill count is read as zero.
ObservedUncounted(r, s) ==
    [r EXCEPT
        !.obs = [state |-> s.state, filled |-> IF s.filled < 0 THEN 0 ELSE s.filled],
        !.status = IF s.state = "cancelled" /\ ~(r.filled > 0 /\ r.filled >= r.qty)
                   THEN "cancelled"
                   ELSE IF s.state = "working" /\ r.filled = 0 THEN "acknowledged"
                   ELSE r.status,
        !.pending = IF s.state \in {"cancelled", "filled"} THEN NoPending ELSE r.pending]
\* Mutant: the Gateway's word is stored as the status.
ObservedRaw(r, s) == [r EXCEPT !.status = s.state]

Observed(r, s) ==
    [r EXCEPT
        !.obs = [state |-> s.state, filled |-> s.filled],
        !.status = IF s.state = "cancelled" /\ ~(r.filled > 0 /\ r.filled >= r.qty)
                   THEN "cancelled"
                   ELSE IF s.state = "working" /\ r.filled = 0 THEN "acknowledged"
                   ELSE r.status,
        !.qty = IF TermsInForce(r, s) THEN r.pending.qty ELSE r.qty,
        !.pending = IF TermsInForce(r, s) \/ s.state \in {"cancelled", "filled"}
                    THEN NoPending ELSE r.pending]

\* merge_execution_fills: conflicting, overlapping or excess evidence becomes a
\* durable issue and leaves the recorded executions as they were.
Conflicting(r, f) ==
    \/ f.conflict
    \/ r.filled > 0 /\ f.source # r.source
    \/ f.n > r.qty
MaxNat(a, b) == IF a >= b THEN a ELSE b

\* Mutant: executions of an order that ended are taken for late duplicates.
MergedWhileOpen(r, f) ==
    IF r.issue \/ r.status \in Failed THEN r
    ELSE [r EXCEPT !.filled = MaxNat(f.n, @), !.source = f.source,
                   !.status = IF f.n = r.qty THEN "filled" ELSE "partially_filled"]
Merged(r, f) ==
    IF r.issue \/ (r.filled > 0 /\ f.n <= r.filled /\ ~Conflicting(r, f)) THEN r
    ELSE IF Conflicting(r, f) THEN [r EXCEPT !.issue = TRUE]
    ELSE [r EXCEPT !.filled = f.n, !.source = f.source,
                   !.status = IF f.n = r.qty THEN "filled"
                              ELSE IF r.status \in Failed THEN r.status
                              ELSE "partially_filled"]

--------------------------------------------------------------------------------
(* Routing: submit_approved_proposal. *)

\* _retryable_order_indexes of the API's failed_only submission.
Retryable == {l \in Legs \ missed : rec[l].status \in Failed \cup {"none"}}

\* _validate_proposal_for_submission.
CanRoute(legs, allow) ==
    /\ proposal = "approved" /\ ~late
    /\ legs # {}
    /\ allow \/ (missed = {} /\ \A l \in Legs : rec[l].status = "none")
    /\ \A l \in legs :
          /\ l \notin missed
          /\ rec[l].status # "none" =>
                /\ rec[l].status \in Failed /\ rec[l].filled = 0
                /\ rec[l].obs.state # "none" => rec[l].obs.filled = 0
    /\ \A l \in Legs :
          /\ rec[l].pending.action = "none" /\ ~rec[l].issue
          /\ rec[l].status # "pending_submit"

Become(p, j) == job' = [job EXCEPT ![p] = j]
\* Leaving the lock disconnects the process from the Gateway.
Finish(p) ==
    /\ Become(p, Idle)
    /\ session' = IF session = p THEN "none" ELSE session

Validate(p) ==
    /\ job[p].pc = "idle"
    /\ \E allow \in BOOLEAN :
          \E legs \in {Legs} \cup (IF allow /\ p = "app" THEN {Retryable} ELSE {}) :
             /\ CanRoute(legs, allow)
             /\ Become(p, [Idle EXCEPT !.pc = "validated", !.todo = legs, !.allow = allow])
    /\ UNCHANGED <<proposal, late, rec, missed, ord, session, seen, review, feed>>

\* Ids start above both the Gateway's own sequence and every retained row.
Connect(p) ==
    /\ job[p].pc = "validated"
    /\ session = "none"
    /\ session' = p
    /\ \E first \in Oids :
          /\ \A l \in Legs : first > rec[l].oid
          /\ Become(p, [job[p] EXCEPT !.pc = "routing", !.oid = first])
    /\ UNCHANGED <<proposal, late, rec, missed, ord, seen, review, feed>>

ConnectFails(p) ==
    /\ job[p].pc = "validated"
    /\ Finish(p)
    /\ UNCHANGED <<proposal, late, rec, missed, ord, seen, review, feed>>

\* reserve_broker_order_record: any row of the intent, the missed one included.
\* Mutant: the claim looks at the flag only, not at the rows of the intent.
CanReserveByFlag(p, l) ==
    /\ l \notin missed
    /\ rec[l].status # "none" => job[p].allow
    /\ \A k \in Legs \ {l} : rec[k].oid # job[p].oid
CanReserve(p, l) ==
    /\ l \notin missed
    /\ rec[l].status # "none" => job[p].allow /\ Reroutable(rec[l])
    /\ \A k \in Legs \ {l} : rec[k].oid # job[p].oid   \* unique broker_order_id

Reserve(p) ==
    /\ job[p].pc = "routing"
    /\ job[p].oid \in Oids   \* bound on ids
    /\ \E l \in job[p].todo :
          /\ \A k \in job[p].todo : l <= k
          /\ CanReserve(p, l)
          /\ rec' = [rec EXCEPT ![l] =
                        Preserve(rec[l], "pending_submit", job[p].oid, job[p].qty[l])]
          /\ Become(p, [job[p] EXCEPT !.pc = "reserved", !.leg = l, !.todo = @ \ {l}])
    /\ UNCHANGED <<proposal, late, missed, ord, session, seen, review, feed>>

\* Refused claim, or the unique constraint raised: the rest of the batch stops.
ReserveRefused(p) ==
    /\ job[p].pc = "routing"
    /\ \E l \in job[p].todo : (\A k \in job[p].todo : l <= k) /\ ~CanReserve(p, l)
    /\ Finish(p)
    /\ UNCHANGED <<proposal, late, rec, missed, ord, seen, review, feed>>

BatchDone(p) ==
    /\ job[p].pc = "routing"
    /\ job[p].todo = {}
    /\ Finish(p)
    /\ UNCHANGED <<proposal, late, rec, missed, ord, seen, review, feed>>

\* place_order: the socket may be gone by now, and the broker takes no second
\* order under an id it knows.
Send(p) ==
    /\ job[p].pc = "reserved"
    /\ Become(p, [job[p] EXCEPT !.pc = "waiting"])
    /\ IF session = p /\ ord[job[p].oid].state = "unused"
       THEN ord' = [ord EXCEPT ![job[p].oid] =
                       [Unused EXCEPT !.leg = job[p].leg, !.state = "transit",
                                      !.qty = job[p].qty[job[p].leg]]]
       ELSE UNCHANGED ord
    /\ UNCHANGED <<proposal, late, rec, missed, session, seen, review, feed>>

\* openOrder or orderStatus arrived within the acknowledgement window.
Acknowledged(p) ==
    /\ job[p].pc = "waiting"
    /\ session = p
    /\ ord[job[p].oid].leg = job[p].leg
    /\ ord[job[p].oid].state \notin {"transit", "refused"}
    /\ Become(p, [job[p] EXCEPT !.pc = "outcome", !.result = "submitted"])
    /\ UNCHANGED <<proposal, late, rec, missed, ord, session, seen, review, feed>>

\* BrokerOrderRejectedError: the client vouches that the broker refused.
DefinitelyRejected(p) ==
    /\ job[p].pc = "waiting"
    /\ session = p
    /\ ord[job[p].oid].leg = job[p].leg
    /\ ord[job[p].oid].state = "refused"
    /\ Become(p, [job[p] EXCEPT !.pc = "outcome", !.result = "rejected"])
    /\ UNCHANGED <<proposal, late, rec, missed, ord, session, seen, review, feed>>

\* Timeout, error callback or lost connection: the outcome stays unknown.
\* Mutant: no answer in time is taken for a rejection.
UncertainIsRejected(p) ==
    /\ job[p].pc = "waiting"
    /\ Become(p, [job[p] EXCEPT !.pc = "outcome", !.result = "rejected"])
    /\ UNCHANGED <<proposal, late, rec, missed, ord, session, seen, review, feed>>
Uncertain(p) ==
    /\ job[p].pc = "waiting"
    /\ Become(p, [job[p] EXCEPT !.pc = "outcome", !.result = "pending_submit"])
    /\ UNCHANGED <<proposal, late, rec, missed, ord, session, seen, review, feed>>

\* save_broker_order_record of the outcome: a blind write through Preserve.
\* Mutant: the batch goes on after an uncertain outcome.
SaveOutcomeAndGoOn(p) ==
    /\ job[p].pc = "outcome"
    /\ LET l == job[p].leg
       IN rec' = [rec EXCEPT ![l] =
                     Preserve(rec[l], job[p].result, job[p].oid, job[p].qty[l])]
    /\ Become(p, [job[p] EXCEPT !.pc = "routing", !.leg = 0, !.result = "none", !.oid = @ + 1])
    /\ UNCHANGED <<proposal, late, missed, ord, session, seen, review, feed>>
SaveOutcome(p) ==
    /\ job[p].pc = "outcome"
    /\ LET l == job[p].leg
       IN rec' = [rec EXCEPT ![l] =
                     Preserve(rec[l], job[p].result, job[p].oid, job[p].qty[l])]
    /\ IF job[p].result = "pending_submit"
       THEN Finish(p)
       ELSE /\ Become(p, [job[p] EXCEPT !.pc = "routing", !.leg = 0, !.result = "none",
                                        !.oid = @ + 1])
            /\ UNCHANGED session
    /\ UNCHANGED <<proposal, late, missed, ord, seen, review, feed>>

--------------------------------------------------------------------------------
(* Order status sync and operator management, both in the app. *)

\* matching(): open orders by client and order id, completed ones only by the
\* permanent id of an earlier observation of this attempt.
Matched(l) ==
    LET o == ord[rec[l].oid]
    IN /\ rec[l].oid \in Oids /\ o.leg = l   \* order_ref
       /\ \/ o.state \in {"working", "cancelling"}
          \/ o.state \in {"cancelled", "filled"} /\ rec[l].obs.state # "none"

BrokerRow(l, counted) ==
    [oid |-> rec[l].oid, state |-> ord[rec[l].oid].state, qty |-> ord[rec[l].oid].qty,
     filled |-> IF counted THEN ord[rec[l].oid].done ELSE -1]

\* sync_orders: connect, snapshot and list the rows ...
OpenSync ==
    /\ "app" \in Procs
    /\ job["app"].pc = "idle"
    /\ session = "none"
    /\ session' = "app"
    /\ \E counted \in BOOLEAN :
          seen' = [l \in Legs |-> IF Matched(l) THEN BrokerRow(l, counted) ELSE NoRow]
    /\ Become("app", [Idle EXCEPT !.pc = "syncing"])
    /\ UNCHANGED <<proposal, late, rec, missed, ord, review, feed>>

\* ... then one transaction per matched row, which matches again.
ApplyObservation(l) ==
    /\ "app" \in Procs
    /\ job["app"].pc = "syncing"
    /\ seen[l] # NoRow
    /\ rec' = [rec EXCEPT ![l] = IF @.oid = seen[l].oid THEN Observed(@, seen[l]) ELSE @]
    /\ seen' = [seen EXCEPT ![l] = NoRow]
    /\ UNCHANGED <<proposal, late, missed, ord, session, job, review, feed>>

CloseSync ==
    /\ "app" \in Procs
    /\ job["app"].pc = "syncing"
    /\ \A l \in Legs : seen[l] = NoRow
    /\ Finish("app")
    /\ UNCHANGED <<proposal, late, rec, missed, ord, seen, review, feed>>

\* manage_order up to the fresh snapshot.  A resubmission disconnects again.
MayManage(l, action) ==
    /\ rec[l].status # "none" /\ rec[l].pending.action = "none"
    /\ action # "cancel" => proposal = "approved" /\ ~late /\ ~rec[l].issue
    /\ Matched(l)

OpenCancel(l) ==
    /\ "app" \in Procs /\ job["app"].pc = "idle" /\ session = "none"
    /\ MayManage(l, "cancel")
    /\ ord[rec[l].oid].state = "working"
    /\ \E counted \in BOOLEAN : seen' = [seen EXCEPT ![l] = BrokerRow(l, counted)]
    /\ review' = [leg |-> l, row |-> rec[l], action |-> "cancel", qty |-> 0]
    /\ session' = "app"
    /\ Become("app", [Idle EXCEPT !.pc = "reviewed"])
    /\ UNCHANGED <<proposal, late, rec, missed, ord, feed>>

OpenAmend(l) ==
    /\ "app" \in Procs /\ job["app"].pc = "idle" /\ session = "none"
    /\ MayManage(l, "amend")
    /\ ord[rec[l].oid].state = "working"
    /\ seen' = [seen EXCEPT ![l] = BrokerRow(l, TRUE)]
    /\ \E q \in 1..(rec[l].qty - 1) :
          /\ q > ord[rec[l].oid].done
          /\ review' = [leg |-> l, row |-> rec[l], action |-> "amend", qty |-> q]
    /\ session' = "app"
    /\ Become("app", [Idle EXCEPT !.pc = "reviewed"])
    /\ UNCHANGED <<proposal, late, rec, missed, ord, feed>>

OpenResubmit(l) ==
    /\ "app" \in Procs /\ job["app"].pc = "idle" /\ session = "none"
    /\ MayManage(l, "resubmit")
    /\ rec[l].status \in Failed /\ rec[l].filled = 0
    /\ ord[rec[l].oid].state = "cancelled" /\ ord[rec[l].oid].done = 0
    /\ review' = [leg |-> l, row |-> rec[l], action |-> "resubmit", qty |-> 0]
    /\ Become("app", [Idle EXCEPT !.pc = "retrying"])
    /\ UNCHANGED <<proposal, late, rec, missed, ord, session, seen, feed>>

\* reserve(): the claim is durable before the Gateway is asked, and only if
\* the row is still the one reviewed (review_token).
Claim ==
    /\ "app" \in Procs
    /\ job["app"].pc = "reviewed"
    /\ LET l == review.leg
       IN /\ rec[l] = review.row
          /\ rec' = [rec EXCEPT ![l].pending = [action |-> review.action, qty |-> review.qty],
                                ![l].obs = [state |-> seen[l].state, filled |-> seen[l].filled]]
          /\ seen' = [seen EXCEPT ![l] = NoRow]
    /\ Become("app", [job["app"] EXCEPT !.pc = "claimed"])
    /\ UNCHANGED <<proposal, late, missed, ord, session, review, feed>>

ReviewStale ==
    /\ "app" \in Procs
    /\ job["app"].pc \in {"reviewed", "retrying"}
    /\ rec[review.leg] # review.row
    /\ Finish("app")
    /\ seen' = [l \in Legs |-> NoRow]
    /\ review' = NoReview
    /\ UNCHANGED <<proposal, late, rec, missed, ord, feed>>

\* client.change: the request may be lost on the way to the Gateway.
Change ==
    /\ "app" \in Procs
    /\ job["app"].pc = "claimed"
    /\ \/ UNCHANGED ord
       \/ /\ session = "app"
          /\ ord[review.row.oid].state = "working"
          /\ ord' = IF review.action = "cancel"
                    THEN [ord EXCEPT ![review.row.oid].state = "cancelling"]
                    ELSE [ord EXCEPT ![review.row.oid].ask = review.qty]
    /\ Finish("app")
    /\ review' = NoReview
    /\ UNCHANGED <<proposal, late, rec, missed, seen, feed>>

\* audit_retry, then the router's validation of the single leg with the stored terms.
RetryRoute ==
    /\ "app" \in Procs
    /\ job["app"].pc = "retrying"
    /\ LET l == review.leg
       IN /\ rec[l] = review.row
          /\ Become("app", IF CanRoute({l}, TRUE)
                           THEN [Idle EXCEPT !.pc = "validated", !.todo = {l}, !.allow = TRUE,
                                             !.qty = [Approved EXCEPT ![l] = rec[l].qty]]
                           ELSE Idle)
    /\ review' = NoReview
    /\ UNCHANGED <<proposal, late, rec, missed, ord, session, seen, feed>>

--------------------------------------------------------------------------------
(* Window expiry: expire_due_proposals. *)

DeadlinePasses ==
    /\ ~late
    /\ late' = TRUE
    /\ UNCHANGED <<proposal, rec, missed, ord, session, job, seen, review, feed>>

\* A leg with both rows counts by the newer one, either of them.
ExpireScan ==
    /\ "app" \in Procs
    /\ job["app"].pc = "idle"
    /\ late /\ proposal = "approved"
    /\ \E both \in SUBSET {l \in missed : rec[l].status \notin Failed \cup {"none"}} :
          LET actionable == {l \in Legs : rec[l].status \in Failed \cup {"none"}} \cup both
          IN /\ actionable # {}
             /\ Become("app", [Idle EXCEPT !.pc = "expiring", !.todo = actionable])
    /\ UNCHANGED <<proposal, late, rec, missed, ord, session, seen, review, feed>>

ExpireMark(l) ==
    /\ "app" \in Procs
    /\ job["app"].pc = "expiring"
    /\ l \in job["app"].todo
    /\ missed' = missed \cup {l}
    /\ Become("app", [job["app"] EXCEPT !.todo = @ \ {l}])
    /\ UNCHANGED <<proposal, late, rec, ord, session, seen, review, feed>>

ExpireClose ==
    /\ "app" \in Procs
    /\ job["app"].pc = "expiring"
    /\ job["app"].todo = {}
    /\ proposal' = "missed"
    /\ Finish("app")
    /\ UNCHANGED <<late, rec, missed, ord, seen, review, feed>>

--------------------------------------------------------------------------------
(* Execution sync: sync_order_fills, outside the order lock. *)

Executed(l) == {o \in Oids : ord[o].leg = l /\ ord[o].done > 0}

FetchFills ==
    /\ "app" \in Procs
    /\ \A l \in Legs : feed[l] = NoFeed
    /\ \E l \in Legs : Executed(l) # {}
    /\ feed' = [l \in Legs |->
          IF Executed(l) = {} THEN NoFeed
          ELSE LET o == CHOOSE o \in Executed(l) : TRUE
               IN [source |-> o, n |-> ord[o].done,
                   conflict |-> Executed(l) # {o} \/ ord[o].corrected]]
    /\ UNCHANGED <<proposal, late, rec, missed, ord, session, job, seen, review>>

MergeFills(l) ==
    /\ feed[l] # NoFeed
    /\ rec' = [rec EXCEPT ![l] = Merged(@, feed[l])]
    /\ feed' = [feed EXCEPT ![l] = NoFeed]
    /\ UNCHANGED <<proposal, late, missed, ord, session, job, seen, review>>

--------------------------------------------------------------------------------
(* Crashes, lost connections and the broker (external). *)

Crash(p) ==
    /\ job[p] # Idle \/ (p = "app" /\ \E l \in Legs : feed[l] # NoFeed)
    /\ Finish(p)
    /\ IF p = "app"
       THEN /\ seen' = [l \in Legs |-> NoRow]
            /\ review' = NoReview
            /\ feed' = [l \in Legs |-> NoFeed]
       ELSE UNCHANGED <<seen, review, feed>>
    /\ UNCHANGED <<proposal, late, rec, missed, ord>>

DropSession ==
    /\ session # "none"
    /\ session' = "none"
    /\ UNCHANGED <<proposal, late, rec, missed, ord, job, seen, review, feed>>

Broker == UNCHANGED <<proposal, late, rec, missed, session, job, seen, review, feed>>

BrokerAccepts(o) ==
    /\ ord[o].state = "transit"
    /\ ord' = [ord EXCEPT ![o].state = "working"]
    /\ Broker

\* Refused by the broker, or lost before reaching it.
BrokerRefuses(o) ==
    /\ ord[o].state = "transit"
    /\ ord' = [ord EXCEPT ![o].state = "refused"]
    /\ Broker

BrokerFills(o) ==
    /\ ord[o].state \in {"working", "cancelling"}
    /\ ord' = [ord EXCEPT ![o].done = @ + 1,
                          ![o].state = IF ord[o].done + 1 >= ord[o].qty THEN "filled" ELSE @]
    /\ Broker

\* By request, or by the broker itself (end of day, operator in TWS).
BrokerCancels(o) ==
    /\ ord[o].state \in {"working", "cancelling"}
    /\ ord' = [ord EXCEPT ![o].state = "cancelled"]
    /\ Broker

\* An amendment at or below what is executed by now is refused.
BrokerAmends(o) ==
    /\ ord[o].ask # 0
    /\ ord' = [ord EXCEPT ![o].ask = 0,
                          ![o].qty = IF ord[o].state = "working" /\ ord[o].ask > ord[o].done
                                     THEN ord[o].ask ELSE @]
    /\ Broker

\* A later correction of an execution the broker has already reported.
BrokerCorrects(o) ==
    /\ ord[o].done > 0 /\ ~ord[o].corrected
    /\ ord' = [ord EXCEPT ![o].corrected = TRUE]
    /\ Broker

--------------------------------------------------------------------------------

Routing(p) ==
    \/ Validate(p) \/ Connect(p) \/ ConnectFails(p) \/ Reserve(p) \/ ReserveRefused(p)
    \/ BatchDone(p) \/ Send(p) \/ Acknowledged(p) \/ DefinitelyRejected(p)
    \/ Uncertain(p) \/ SaveOutcome(p)

Managing ==
    \/ OpenSync \/ CloseSync \/ Claim \/ ReviewStale \/ Change \/ RetryRoute
    \/ \E l \in Legs :
          ApplyObservation(l) \/ OpenCancel(l) \/ OpenAmend(l) \/ OpenResubmit(l)

Expiring ==
    DeadlinePasses \/ ExpireScan \/ ExpireClose \/ \E l \in Legs : ExpireMark(l)

Filling == FetchFills \/ \E l \in Legs : MergeFills(l)

AtBroker ==
    \E o \in Oids : \/ BrokerAccepts(o) \/ BrokerRefuses(o) \/ BrokerFills(o)
                    \/ BrokerCancels(o) \/ BrokerAmends(o) \/ BrokerCorrects(o)

Next ==
    \/ \E p \in Procs : Routing(p) \/ Crash(p)
    \/ Managing \/ Expiring \/ Filling \/ DropSession \/ AtBroker

Spec == Init /\ [][Next]_vars

\* The management loop calls the fill sync for ever; a merge it is prevented
\* from finishing by one restart is done after another.
FairSpec ==
    /\ Spec
    /\ WF_vars(FetchFills)
    /\ \A l \in Legs : SF_vars(MergeFills(l))

--------------------------------------------------------------------------------
(* Properties. *)

Live(o) == ord[o].state \in LiveState

\* However claims, resubmissions, crashes and late saves of the two processes
\* interleave, one order intent never has two orders alive at the broker
\* (reserve_broker_order_record and _validate_proposal_for_submission).
SingleLiveOrder ==
    \A o1, o2 \in Oids : Live(o1) /\ Live(o2) /\ ord[o1].leg = ord[o2].leg => o1 = o2

\* While an order is alive at the broker, the row of its leg never says that
\* there is none, that it was cancelled, rejected or filled: each of those makes
\* the leg retryable or expirable (ACTIONABLE_FAILURE_STATUSES) or settled.
ClosedRowNotLive ==
    \A o \in Oids : Live(o) =>
        rec[ord[o].leg].status \notin {"none", "cancelled", "rejected", "filled"}

\* Over all attempts of a leg the broker never executes more than was approved:
\* an attempt is replaced only after it ended without a single execution.
ExecutedWithinApproval ==
    \A o \in Oids : ord[o].done > 0 =>
        /\ ord[o].done <= Approved[ord[o].leg]
        /\ \A k \in Oids \ {o} : ord[k].leg = ord[o].leg =>
              ord[k].done = 0 /\ ~Live(k)

\* No write of any process, however old the row it was computed from, takes
\* recorded executions or a durable execution issue away again
\* (preserve_execution_evidence).
EvidenceNeverErased ==
    [][\A l \in Legs : /\ rec'[l].filled >= rec[l].filled
                       /\ rec[l].issue => rec'[l].issue]_vars

\* Every execution at the broker reaches the ledger or becomes a durable issue,
\* whatever restarts, lost connections and late saves happen in between.
FillsReachLedger ==
    \A o \in Oids : \A l \in Legs :
        (ord[o].leg = l /\ ord[o].done > 0)
            ~> (rec[l].issue \/ rec[l].filled = ord[o].done)

\* With the app as the only router, the row always names the live order, so the
\* order stays reachable for sync and for a cancellation.
LiveOrderTracked ==
    \A o \in Oids : Live(o) => rec[ord[o].leg].oid = o

\* With one router, an order whose outcome is unknown stops everything behind it:
\* no order of the proposal is sent while the row of another leg still says
\* pending_submit (the batch returns at the first uncertain outcome and
\* _validate_proposal_for_submission refuses the next one).
UncertainBlocksRouting ==
    [][\A o \in Oids : ord[o].state = "unused" /\ ord'[o].state = "transit" =>
          \A k \in Legs \ {ord'[o].leg} : rec[k].status # "pending_submit"]_vars

\* A management claim is cleared only once the broker order it is about has
\* ended or has taken the claimed quantity (apply_observation).
ClaimResolvedByBroker ==
    [][\A l \in Legs :
          rec[l].pending # NoPending /\ rec'[l].pending = NoPending =>
             \/ ord[rec[l].oid].state \in {"cancelled", "filled"}
             \/ rec[l].pending.action = "amend" /\ ord[rec[l].oid].qty = rec[l].pending.qty]_vars
================================================================================
