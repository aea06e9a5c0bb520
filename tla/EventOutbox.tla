------------------------------ MODULE EventOutbox ------------------------------
(******************************************************************************)
(* The platform event outbox: rows written with the business transaction       *)
(* (storage/postgres.py), the dispatchers that publish them                    *)
(* (messaging/outbox.py, scripts/dispatch_event_outbox.py) and the NATS        *)
(* JetStream publisher (messaging/nats.py) against an external broker.  The     *)
(* outbox delivers at least once: how often the broker stores a message (it      *)
(* drops the repeats of one Nats-Msg-Id within its window) is not represented.  *)
(*                                                                             *)
(* Nothing locks a row while it is published: the dispatcher service and a      *)
(* one-shot dispatch by an operator may hold the same rows.                     *)
(******************************************************************************)
EXTENDS Integers, FiniteSets

CONSTANTS
    Events,       \* event ids, each appended at most once (ON CONFLICT DO NOTHING)
    Poison,       \* events the broker refuses every time (payload size, subject)
    Dispatchers,
    Service,      \* the dispatchers that run as a service; the others dispatch once
    Limit,        \* rows of one batch
    Budget        \* slow publications that use up max_batch_seconds

ASSUME PoisonAssumption == Poison \subseteq Events
ASSUME LimitAssumption == Limit \in Nat \ {0}
ASSUME ServiceAssumption == Service \subseteq Dispatchers
ASSUME BudgetAssumption == Budget \in Nat \ {0}

VARIABLES
    row,        \* the outbox row of each event
    stamp,      \* its created_at; 0 before it is taken
    clock,      \* the producers' clock
    failing,    \* rows whose last_error is set
    job,        \* the batch each dispatcher is working through
    stored,     \* events whose message the broker has
    wire        \* events sent whose publisher has given up waiting

vars == <<row, stamp, clock, failing, job, stored, wire>>

RowState == {"none", "open", "pending", "published", "lost"}

Job == [pc : {"idle", "publish", "sent", "failed"}, todo : SUBSET Events,
        spent : 0..Budget]
Idle == [pc |-> "idle", todo |-> {}, spent |-> 0]

\* Type invariant; a batch never spends more than its time budget
\* (max_batch_seconds of dispatch_pending).
TypeOK ==
    /\ row \in [Events -> RowState]
    /\ stamp \in [Events -> Nat]
    /\ clock \in Nat
    /\ failing \subseteq Events
    /\ job \in [Dispatchers -> Job]
    /\ stored \subseteq Events
    /\ wire \subseteq Events

Init ==
    /\ row = [e \in Events |-> "none"]
    /\ stamp = [e \in Events |-> 0]
    /\ clock = 0
    /\ failing = {}
    /\ job = [d \in Dispatchers |-> Idle]
    /\ stored = {}
    /\ wire = {}

Broker == <<stored, wire>>

--------------------------------------------------------------------------------
(* Producers: _insert_platform_event inside the business transaction. *)

\* created_at is the application's clock, read before the transaction starts.
Append(e) ==
    /\ row[e] = "none"
    /\ row' = [row EXCEPT ![e] = "open"]
    /\ clock' = clock + 1
    /\ stamp' = [stamp EXCEPT ![e] = clock + 1]
    /\ UNCHANGED <<failing, job, Broker>>

\* So rows become visible in another order than they are stamped, or never.
Commit(e) ==
    /\ row[e] = "open"
    /\ row' = [row EXCEPT ![e] = "pending"]
    /\ UNCHANGED <<stamp, clock, failing, job, Broker>>

Rollback(e) ==
    /\ row[e] = "open"
    /\ row' = [row EXCEPT ![e] = "lost"]
    /\ UNCHANGED <<stamp, clock, failing, job, Broker>>

--------------------------------------------------------------------------------
(* dispatch_pending. *)

Unpublished == {e \in Events : row[e] = "pending"}
Become(d, j) == job' = [job EXCEPT ![d] = j]

\* list_pending_platform_events: the Limit oldest unpublished rows.
List(d) ==
    /\ job[d].pc = "idle"
    /\ \E batch \in SUBSET Unpublished :
          /\ batch # {} /\ Cardinality(batch) <= Limit
          /\ batch # Unpublished => Cardinality(batch) = Limit
          /\ \A e \in batch, f \in Unpublished \ batch : stamp[e] < stamp[f]
          /\ Become(d, [pc |-> "publish", todo |-> batch, spent |-> 0])
    /\ UNCHANGED <<row, stamp, clock, failing, Broker>>

Current(d, e) ==
    /\ e \in job[d].todo
    /\ \A f \in job[d].todo : stamp[e] <= stamp[f]

Store(e) == stored' = stored \cup {e}

Accepted(d, e) ==
    /\ job[d].pc = "publish" /\ Current(d, e)
    /\ e \notin Poison
    /\ Store(e)
    /\ \E t \in 0..1 : Become(d, [job[d] EXCEPT !.pc = "sent", !.spent = @ + t])
    /\ UNCHANGED <<row, stamp, clock, failing, wire>>

\* Mutant: giving up waiting is not an error.
TimedOutSilently(d, e) ==
    /\ job[d].pc = "publish" /\ Current(d, e)
    /\ wire' = wire \cup ({e} \ Poison)
    /\ Become(d, [job[d] EXCEPT !.pc = "sent", !.spent = @ + 1])
    /\ UNCHANGED <<row, stamp, clock, failing, stored>>
\* wait_for gave up on the acknowledgement; the message may still arrive.
TimedOut(d, e) ==
    /\ job[d].pc = "publish" /\ Current(d, e)
    /\ wire' = wire \cup ({e} \ Poison)
    /\ Become(d, [job[d] EXCEPT !.pc = "failed", !.spent = @ + 1])
    /\ UNCHANGED <<row, stamp, clock, failing, stored>>

\* No connection, no responder or an error reply: at once or after the timeout.
Refused(d, e) ==
    /\ job[d].pc = "publish" /\ Current(d, e)
    /\ \E t \in 0..1 : Become(d, [job[d] EXCEPT !.pc = "failed", !.spent = @ + t])
    /\ UNCHANGED <<row, stamp, clock, failing, Broker>>

\* Stored and acknowledged, but draining or closing the connection raised.
CloseFailed(d, e) ==
    /\ job[d].pc = "publish" /\ Current(d, e)
    /\ e \notin Poison
    /\ Store(e)
    /\ \E t \in 0..1 : Become(d, [job[d] EXCEPT !.pc = "failed", !.spent = @ + t])
    /\ UNCHANGED <<row, stamp, clock, failing, wire>>

\* Mutant: a failed row is tried again at once, whatever time is left.
ProceedRetries(d, e) ==
    Become(d, IF job[d].pc = "failed" THEN [job[d] EXCEPT !.pc = "publish"]
              ELSE IF job[d].todo = {e} \/ job[d].spent >= Budget THEN Idle
              ELSE [job[d] EXCEPT !.pc = "publish", !.todo = @ \ {e}])
\* Mutant: the batch stops at the first failure.
ProceedIfSent(d, e) ==
    Become(d, IF job[d].todo = {e} \/ job[d].spent >= Budget \/ job[d].pc = "failed" THEN Idle
              ELSE [job[d] EXCEPT !.pc = "publish", !.todo = @ \ {e}])
\* The next row, unless the time budget is used up.
Proceed(d, e) ==
    Become(d, IF job[d].todo = {e} \/ job[d].spent >= Budget THEN Idle
              ELSE [job[d] EXCEPT !.pc = "publish", !.todo = @ \ {e}])

\* mark_platform_event_published.
MarkPublished(d, e) ==
    /\ job[d].pc = "sent" /\ Current(d, e)
    /\ row' = [row EXCEPT ![e] = "published"]
    /\ failing' = failing \ {e}
    /\ Proceed(d, e)
    /\ UNCHANGED <<stamp, clock, Broker>>

\* Mutant: without the published_at IS NULL condition.
RecordFailureAlways(d, e) ==
    /\ job[d].pc = "failed" /\ Current(d, e)
    /\ failing' = failing \cup {e}
    /\ Proceed(d, e)
    /\ UNCHANGED <<row, stamp, clock, Broker>>
\* record_platform_event_publish_failure: WHERE published_at IS NULL.
RecordFailure(d, e) ==
    /\ job[d].pc = "failed" /\ Current(d, e)
    /\ failing' = IF row[e] = "published" THEN failing ELSE failing \cup {e}
    /\ Proceed(d, e)
    /\ UNCHANGED <<row, stamp, clock, Broker>>

\* The process dies, or the store raises and the exception leaves the batch.
Abort(d) ==
    /\ job[d] # Idle
    /\ Become(d, Idle)
    /\ UNCHANGED <<row, stamp, clock, failing, Broker>>

--------------------------------------------------------------------------------
(* The broker (external). *)

\* A second copy that arrives changes nothing here.
Arrives(e) ==
    /\ e \in wire
    /\ wire' = wire \ {e}
    /\ Store(e)
    /\ UNCHANGED <<row, stamp, clock, failing, job>>

WireLoses(e) ==
    /\ e \in wire
    /\ wire' = wire \ {e}
    /\ UNCHANGED <<row, stamp, clock, failing, job, stored>>

--------------------------------------------------------------------------------

Producing(e) == Append(e) \/ Commit(e) \/ Rollback(e)

Publishing(d, e) ==
    \/ Accepted(d, e) \/ TimedOut(d, e) \/ Refused(d, e) \/ CloseFailed(d, e)
    \/ MarkPublished(d, e) \/ RecordFailure(d, e)

AtBroker(e) == Arrives(e) \/ WireLoses(e)

Next ==
    \/ \E e \in Events : Producing(e) \/ AtBroker(e)
    \/ \E d \in Dispatchers : List(d) \/ Abort(d)
    \/ \E d \in Dispatchers, e \in Events : Publishing(d, e)

Spec == Init /\ [][Next]_vars

\* The service loop lists for ever; the broker is reachable and the store works
\* again and again, not always, and some attempt to publish a poison event comes
\* to its end without a crash.
FairSpec ==
    /\ Spec
    /\ \A d \in Service :
          /\ WF_vars(List(d))
          /\ \A e \in Poison : SF_vars(Refused(d, e) \/ TimedOut(d, e))
          /\ \A e \in Events :
                /\ SF_vars(Accepted(d, e))
                /\ SF_vars(MarkPublished(d, e))
                /\ SF_vars(RecordFailure(d, e))

--------------------------------------------------------------------------------
(* Properties. *)

Delivery == INSTANCE EventDelivery WITH
    owed <- {e \in Events : row[e] \in {"pending", "published"}},
    delivered <- stored,
    settled <- {e \in Events : row[e] = "published"}

\* The outbox keeps the delivery contract: nothing of an uncommitted or rolled
\* back transaction is published, and no row is marked as published unless its
\* message is stored, whatever timeouts, lost acknowledgements, failed closes,
\* crashes and concurrent dispatchers do.
KeepsContract == Delivery!Spec

\* Failure records of one dispatcher that arrive after another one published the
\* row leave no error on it (record_platform_event_publish_failure).
PublishedHasNoError == \A e \in failing : row[e] # "published"

\* Every committed event the broker would take is published in the end, even
\* behind events it never takes (dispatch_pending goes on after a failure).
HealthyEventsSettle ==
    \A e \in Events \ Poison : row[e] = "pending" ~> row[e] = "published"
================================================================================
