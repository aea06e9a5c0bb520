--------------------------- MODULE StrategyControl ---------------------------
(***************************************************************************)
(* The strategy roles of the portfolio (SOTA designation, allocation in    *)
(* force, pending change) and the monitoring membership they depend on:    *)
(* two documents of one compare-and-swap store, an immutable event log,    *)
(* the hand-over of the management loop and the proposal it queues.        *)
(*                                                                         *)
(* Every process serialises its own operations by ORDER_CONNECTION_LOCK,   *)
(* so it has one job at a time; another process meets it only in the       *)
(* database. A job reads, then commits, and may crash between any steps.   *)
(* A check that can only refuse (evidence review, plan validation,         *)
(* reconciliation, the review token, a page older than the document) is    *)
(* the action that is not taken.                                           *)
(***************************************************************************)
EXTENDS Integers, FiniteSets

CONSTANTS Keys,        \* strategies
          LegacyKey,   \* the strategy in force before any change
          Changes,     \* ids of operator changes
          Content,     \* Content[c]: what change c asks for
          Apps,        \* processes that run the API and the management loop
          Scripts,     \* processes that only route proposals
          Legacy, NoChange, NoKey,
          LastTime, MaxRevision   \* bounds of clock and of revisions

Request == [keys : SUBSET Keys, sota : Keys \cup {NoKey}, day : Nat]

ASSUME ControlAssumption ==
  /\ LegacyKey \in Keys /\ NoKey \notin Keys
  /\ Legacy \notin Changes /\ NoChange \notin Changes /\ Legacy # NoChange
  /\ Content \in [Changes -> Request]
  /\ \A c \in Changes : Content[c].keys # {} \/ Content[c].sota # NoKey
  /\ Apps \cap Scripts = {}
  /\ LastTime \in Nat /\ MaxRevision \in Nat

Procs == Apps \cup Scripts
Versions == Changes \cup {Legacy}
Scopes == {"roles", "members"}
NoGuard == -1

VARIABLES revision,    \* revision of each document
          roles,       \* the control document
          members,     \* the monitoring document
          history,     \* events of the control document, by kind and change
          replay,      \* membership of the latest calculation the worker finished
          report,      \* generation the published replay of a strategy covers
          proposals,   \* versions whose proposal is in the approval queue
          rows,        \* broker rows of each version's proposal
          job,         \* what each process is in the middle of
          clock        \* three phases a day, see Close and NextOpen

vars == <<revision, roles, members, history, replay, report, proposals, rows, job, clock>>

-----------------------------------------------------------------------------
(* Types *)

Allocation == [id : Versions, keys : SUBSET Keys, day : Nat]
Pending == [id : Changes \cup {NoChange}, keys : SUBSET Keys,
            sota : Keys \cup {NoKey}, day : Nat, catchUp : BOOLEAN]
Roles == [sota : Keys, active : Allocation, pending : Pending]
Members == [monitored : SUBSET Keys, generation : [Keys -> Nat]]

RoleKinds == {"schedule", "designate", "cancel", "authorize", "activate"}
Kinds == {"idle", "prepare", "member", "queue", "route"} \cup RoleKinds
Job == [op : Kinds, change : Versions \cup {NoChange}, late : BOOLEAN,
        expected : Nat, guard : Nat \cup {NoGuard}, roles : Roles, members : Members]
Event == [kind : RoleKinds, change : Changes, late : BOOLEAN]

RolesOf(sota, active, pending) == [sota |-> sota, active |-> active, pending |-> pending]

NoPending == [id |-> NoChange, keys |-> {}, sota |-> NoKey, day |-> 0, catchUp |-> FALSE]
LegacyRoles == RolesOf(LegacyKey, [id |-> Legacy, keys |-> {LegacyKey}, day |-> 0], NoPending)
FirstMembers == [monitored |-> {LegacyKey}, generation |-> [k \in Keys |-> 0]]
Plain(op, c) == [op |-> op, change |-> c, late |-> FALSE, expected |-> 0,
                 guard |-> NoGuard, roles |-> LegacyRoles, members |-> FirstMembers]
Idle == Plain("idle", NoChange)

Init ==
  /\ revision = [s \in Scopes |-> 0]
  /\ roles = LegacyRoles
  /\ members = FirstMembers
  /\ history = {}
  /\ replay = FirstMembers
  /\ report = [k \in Keys |-> 0]
  /\ proposals = {}
  /\ rows = [v \in Versions |-> "none"]
  /\ job = [p \in Procs |-> Idle]
  /\ clock = 3

-----------------------------------------------------------------------------
(* Reading the documents *)

\* A day has a morning, a session and an evening.
Today == clock \div 3
Close(d) == 3 * d + 2
NextOpen(d) == 3 * (d + 1) + 1
InNextSession(d) == clock = NextOpen(d)

SotaOf(k) == IF k = NoKey THEN {} ELSE {k}
Wanted(c) == Content[c].keys \cup SotaOf(Content[c].sota)

\* Every strategy the control document names.
Held(doc) == {doc.sota} \cup doc.active.keys \cup doc.pending.keys \cup SotaOf(doc.pending.sota)

\* candidate_evidence: monitored, and replayed since it was last restored.
Ready(k) == k \in members.monitored /\ report[k] = members.generation[k]

\* activation_issues, as far as the ledger goes: no open or uncertain order.
NoOpenOrder == \A v \in Versions : rows[v] # "open"

\* A job about to commit doc over the control document it has just read.
RoleJob(op, c, late, guard, doc) ==
  [op |-> op, change |-> c, late |-> late, expected |-> revision["roles"],
   guard |-> guard, roles |-> doc, members |-> FirstMembers]

Waiting == roles.pending.id # NoChange
Busy(p, j) == job' = [job EXCEPT ![p] = j]
Done(p) == Busy(p, Idle)

-----------------------------------------------------------------------------
(* Operator requests: read and check, under the lock of the process *)

RecordedIn(log, kind, c) == \E late \in BOOLEAN : [kind |-> kind, change |-> c, late |-> late] \in log
Recorded(kind, c) == RecordedIn(history, kind, c)
Known(c) == Recorded("schedule", c) \/ Recorded("designate", c)

Scheduled(c) ==
  [id |-> c, keys |-> Content[c].keys, sota |-> Content[c].sota, day |-> Content[c].day, catchUp |-> FALSE]

\* schedule_change up to its commit; the request may arrive more than once.
Schedule(p, c) ==
  /\ job[p] = Idle /\ ~Known(c) /\ ~Waiting
  /\ \A k \in Wanted(c) : Ready(k)
  /\ Content[c].keys # {} => clock < NextOpen(Content[c].day)
  /\ IF Content[c].keys = {}
     THEN Busy(p, RoleJob("designate", c, FALSE, revision["members"],
                          RolesOf(Content[c].sota, roles.active, roles.pending)))
     ELSE Busy(p, RoleJob("schedule", c, FALSE, revision["members"],
                          RolesOf(roles.sota, roles.active, Scheduled(c))))
  /\ UNCHANGED <<revision, roles, members, history, replay, report, proposals, rows, clock>>

\* cancel_pending
Cancel(p) ==
  /\ job[p] = Idle /\ Waiting
  /\ Busy(p, RoleJob("cancel", roles.pending.id, FALSE, NoGuard,
                     RolesOf(roles.sota, roles.active, NoPending)))
  /\ UNCHANGED <<revision, roles, members, history, replay, report, proposals, rows, clock>>

LatePending == [id |-> roles.pending.id, keys |-> roles.pending.keys, sota |-> roles.pending.sota,
                day |-> roles.pending.day, catchUp |-> TRUE]

\* authorize_catch_up: only in the session after the requested close.
Authorize(p) ==
  /\ job[p] = Idle /\ Waiting
  /\ InNextSession(roles.pending.day) /\ revision["roles"] < MaxRevision
  /\ Busy(p, RoleJob("authorize", roles.pending.id, FALSE, NoGuard,
                     RolesOf(roles.sota, roles.active, LatePending)))
  /\ UNCHANGED <<revision, roles, members, history, replay, report, proposals, rows, clock>>

Toggled(k) ==
  [monitored |-> IF k \in members.monitored THEN members.monitored \ {k} ELSE members.monitored \cup {k},
   generation |-> [members.generation EXCEPT ![k] = revision["members"] + 1]]

\* change_membership up to its commit; a restored strategy starts a new generation.
ChangeMembership(p, k) ==
  /\ job[p] = Idle /\ revision["members"] < MaxRevision
  /\ k \in members.monitored => k \notin Held(roles)
  /\ Busy(p, [op |-> "member", change |-> NoChange, late |-> FALSE, expected |-> revision["members"],
              guard |-> revision["roles"], roles |-> LegacyRoles, members |-> Toggled(k)])
  /\ UNCHANGED <<revision, roles, members, history, replay, report, proposals, rows, clock>>

-----------------------------------------------------------------------------
(* The hand-over, one tick of the management loop *)

\* The close the change takes effect at: the requested one, or, when its window
\* was missed and no catch-up was authorised, that of today.
EffectiveDay == IF roles.pending.catchUp \/ clock < NextOpen(roles.pending.day)
                THEN roles.pending.day ELSE Today

InWindowEarly == roles.pending.catchUp => InNextSession(roles.pending.day)
InWindow == /\ clock >= Close(EffectiveDay)
            /\ roles.pending.catchUp => InNextSession(roles.pending.day)

HandedOver == RolesOf(IF roles.pending.sota = NoKey THEN roles.sota ELSE roles.pending.sota,
                      [id |-> roles.pending.id, keys |-> roles.pending.keys, day |-> EffectiveDay],
                      NoPending)

\* activate_pending reads everything and builds the plan.
Prepare(p) ==
  /\ job[p] = Idle /\ Waiting
  /\ roles.pending.keys \cup SotaOf(roles.pending.sota) \subseteq members.monitored
  /\ InWindow /\ NoOpenOrder
  /\ Busy(p, RoleJob("prepare", roles.pending.id, roles.pending.catchUp, revision["members"], HandedOver))
  /\ UNCHANGED <<revision, roles, members, history, replay, report, proposals, rows, clock>>

\* It then checks again what may have moved while the plan was built; a
\* catch-up that ran past its session is dropped.
Recheck(p) ==
  /\ job[p].op = "prepare"
  /\ \/ /\ \A k \in job[p].roles.active.keys \cup SotaOf(Content[job[p].change].sota) : Ready(k)
        /\ NoOpenOrder
        /\ job[p].late => InNextSession(job[p].roles.active.day)
        /\ Busy(p, [job[p] EXCEPT !.op = "activate"])
     \/ Done(p)
  /\ UNCHANGED <<revision, roles, members, history, replay, report, proposals, rows, clock>>

\* queue_proposal_once, after the commit of the hand-over.
Queue(p) ==
  /\ job[p].op = "queue"
  /\ proposals' = proposals \cup {job[p].change}
  /\ Done(p)
  /\ UNCHANGED <<revision, roles, members, history, replay, report, rows, clock>>

RestoreFirst(p) ==
  /\ job[p] = Idle /\ ~Waiting /\ roles.active.id \in Changes /\ proposals = {}
  /\ proposals' = proposals \cup {roles.active.id}
  /\ UNCHANGED <<revision, roles, members, history, replay, report, rows, job, clock>>

\* With nothing pending the tick looks for a proposal that a crash left out.
Restore(p) ==
  /\ job[p] = Idle /\ ~Waiting /\ roles.active.id \in Changes \ proposals
  /\ proposals' = proposals \cup {roles.active.id}
  /\ UNCHANGED <<revision, roles, members, history, replay, report, rows, job, clock>>

-----------------------------------------------------------------------------
(* commit_strategy_control: one transaction over both documents *)

Replayed(j) == /\ j.op \in {"schedule", "designate", "activate"}
               /\ Recorded(j.op, j.change)
SameRequest(j) == [kind |-> j.op, change |-> j.change, late |-> j.late] \in history

Scope(j) == IF j.op = "member" THEN "members" ELSE "roles"
Other(s) == IF s = "roles" THEN "members" ELSE "roles"
CurrentUnguarded(j) == j.expected = revision[Scope(j)]
CurrentUnversioned(j) == j.guard \in {NoGuard, revision[Other(Scope(j))]}
Current(j) == /\ j.guard \in {NoGuard, revision[Other(Scope(j))]}
              /\ j.expected = revision[Scope(j)]

After(p) == IF job[p].op = "activate" THEN Busy(p, Plain("queue", job[p].change)) ELSE Done(p)

CommitRoles(p) ==
  /\ job[p].op \in RoleKinds /\ ~Replayed(job[p]) /\ Current(job[p])
  /\ roles' = job[p].roles
  /\ revision' = [revision EXCEPT !["roles"] = @ + 1]
  /\ history' = history \cup {[kind |-> job[p].op, change |-> job[p].change, late |-> job[p].late]}
  /\ After(p)
  /\ UNCHANGED <<members, replay, report, proposals, rows, clock>>

CommitMembers(p) ==
  /\ job[p].op = "member" /\ Current(job[p])
  /\ members' = job[p].members
  /\ revision' = [revision EXCEPT !["members"] = @ + 1]
  /\ Done(p)
  /\ UNCHANGED <<roles, history, replay, report, proposals, rows, clock>>

\* The event id is on record with the same request: the caller goes on as if it
\* had written.
ReplayCommit(p) ==
  /\ job[p].op \in RoleKinds /\ Replayed(job[p]) /\ SameRequest(job[p])
  /\ After(p)
  /\ UNCHANGED <<revision, roles, members, history, replay, report, proposals, rows, clock>>

RefuseCommit(p) ==
  /\ \/ job[p].op \in RoleKinds /\ IF Replayed(job[p]) THEN ~SameRequest(job[p]) ELSE ~Current(job[p])
     \/ job[p].op = "member" /\ ~Current(job[p])
  /\ Done(p)
  /\ UNCHANGED <<revision, roles, members, history, replay, report, proposals, rows, clock>>

-----------------------------------------------------------------------------
(* Routing of a proposal, and what happens around the processes *)

\* validate_proposal_for_submission: the proposal belongs to the allocation in force.
Validate(p, v) ==
  /\ job[p] = Idle /\ v \in proposals \cup {Legacy} /\ rows[v] = "none"
  /\ v = roles.active.id
  /\ Busy(p, Plain("route", v))
  /\ UNCHANGED <<revision, roles, members, history, replay, report, proposals, rows, clock>>

\* reserve_broker_order_record, and the send that follows it.
Reserve(p) ==
  /\ job[p].op = "route"
  /\ rows' = [rows EXCEPT ![job[p].change] = IF @ = "none" THEN "open" ELSE @]
  /\ Done(p)
  /\ UNCHANGED <<revision, roles, members, history, replay, report, proposals, clock>>

\* The broker finishes the order and sync records it.
Settle(v) ==
  /\ rows[v] = "open" /\ rows' = [rows EXCEPT ![v] = "closed"]
  /\ UNCHANGED <<revision, roles, members, history, replay, report, proposals, job, clock>>

\* The analytics worker has calculated every monitored strategy and finds the
\* membership unchanged since it began; the documents may move on from here.
Replay ==
  /\ replay # members /\ replay' = members
  /\ UNCHANGED <<revision, roles, members, history, report, proposals, rows, job, clock>>

Reported == [k \in Keys |-> IF k \in replay.monitored THEN replay.generation[k] ELSE report[k]]

\* It publishes all of them together; an archived strategy keeps its last report.
Publish ==
  /\ report # Reported /\ report' = Reported
  /\ UNCHANGED <<revision, roles, members, history, replay, proposals, rows, job, clock>>

Crash(p) ==
  /\ job[p] # Idle /\ Done(p)
  /\ UNCHANGED <<revision, roles, members, history, replay, report, proposals, rows, clock>>

Tick ==
  /\ clock < LastTime /\ clock' = clock + 1
  /\ UNCHANGED <<revision, roles, members, history, replay, report, proposals, rows, job>>

-----------------------------------------------------------------------------

Operator(p) == \/ \E c \in Changes : Schedule(p, c)
               \/ Cancel(p) \/ Authorize(p)
               \/ \E k \in Keys : ChangeMembership(p, k)

Loop(p) == Prepare(p) \/ Recheck(p) \/ Queue(p) \/ Restore(p)

Commit(p) == CommitRoles(p) \/ CommitMembers(p) \/ ReplayCommit(p) \/ RefuseCommit(p)

Route(p) == (\E v \in Versions : Validate(p, v)) \/ Reserve(p) \/ Crash(p)

Environment == \/ \E v \in Versions : Settle(v)
               \/ Replay \/ Publish \/ Tick

Next == \/ \E p \in Apps : Operator(p) \/ Loop(p) \/ Commit(p)
        \/ \E p \in Procs : Route(p)
        \/ Environment

Spec == Init /\ [][Next]_vars

\* A process finishes the job in hand unless it crashes, and its loop ticks
\* again after any crash; operators, scripts and the broker owe nothing.
Finish(p) == Recheck(p) \/ Commit(p) \/ Queue(p) \/ Reserve(p)
FairSpec == Spec /\ \A p \in Apps : WF_vars(Finish(p)) /\ SF_vars(Restore(p))

-----------------------------------------------------------------------------
(* Properties *)

TypeOK ==
  /\ revision \in [Scopes -> Nat]
  /\ roles \in Roles /\ members \in Members /\ replay \in Members
  /\ history \subseteq Event
  /\ report \in [Keys -> Nat]
  /\ proposals \subseteq Changes
  /\ rows \in [Versions -> {"none", "open", "closed"}]
  /\ job \in [Procs -> Job]
  /\ clock \in Nat

\* Whatever the SOTA, the allocation in force and the pending change name is
\* monitored and replayed since it was last restored: an archive and a schedule
\* that each read before the other wrote cannot both commit.
HeldAreReplayed == \A k \in Held(roles) : Ready(k)

\* A hand-over takes effect at a close that has passed, not before the requested
\* one and not before the close of the hand-over it replaces.
NeverBackdated ==
  [][roles'.active # roles.active =>
       LET d == roles'.active.day
       IN  Close(d) <= clock /\ roles.pending.day <= d /\ roles.active.day <= d]_vars

\* The event log, read as the life of each change, implements the documented one.
StageIn(log, c) == IF RecordedIn(log, "activate", c) \/ RecordedIn(log, "designate", c) THEN "done"
                   ELSE IF RecordedIn(log, "cancel", c) THEN "withdrawn"
                   ELSE IF RecordedIn(log, "schedule", c) THEN "pending" ELSE "new"

Lifecycle == INSTANCE AllocationLifecycle
               WITH life <- [c \in Changes |-> StageIn(history, c)], inForce <- roles.active.id
KeepsLifecycle == Lifecycle!Spec

\* A hand-over whose proposal a crash kept out of the queue gets it in the end,
\* unless another change is scheduled first.
InterruptedQueueRecovered ==
  \A c \in Changes : (roles.active.id = c /\ ~Waiting) ~> (c \in proposals \/ Waiting \/ roles.active.id # c)
=============================================================================
