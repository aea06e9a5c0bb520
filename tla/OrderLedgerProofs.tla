--------------------------- MODULE OrderLedgerProofs ---------------------------
(* Theorems about OrderLedger, for every number of legs, every approved         *)
(* quantity and every bound on the broker order ids.                            *)
EXTENDS OrderLedger, TLAPS

\* The sync can report the order: the broker has taken it on.  Once it has, the
\* order never goes back to one of the other states.
Observable(o) == ord[o].state \in {"working", "cancelling", "cancelled", "filled"}
\* Process p has reserved leg l and not yet saved the outcome.
Holds(p, l) == job[p].pc \in {"reserved", "waiting", "outcome"} /\ job[p].leg = l
Open(l) == rec[l].status \notin Failed \cup {"none"}
OnlyLive(l, o) == \A k \in Oids : Live(k) /\ ord[k].leg = l => k = o
NoneLive(l) == \A k \in Oids : Live(k) => ord[k].leg # l

\* What the program counter of a process promises about its job.
JobFits(p, j) ==
    /\ j.pc \in {"reserved", "waiting", "outcome"} => j.leg \in Legs /\ j.oid \in Oids
    /\ j.pc = "outcome" => j.result # "none"
    /\ j.pc \in {"syncing", "reviewed", "claimed", "retrying", "expiring"} => p = "app"
JobOK == \A p \in Procs : JobFits(p, job[p])

\* The app keeps a snapshot only while it works on it; the reviewed action is
\* about a leg, and before its claim the snapshot holds just the row it is for.
ReviewOK ==
    /\ \A l \in Legs : seen[l] # NoRow =>
          "app" \in Procs /\ job["app"].pc \in {"syncing", "reviewed"}
    /\ "app" \in Procs =>
          /\ job["app"].pc \in {"reviewed", "claimed", "retrying"} => review.leg \in Legs
          /\ job["app"].pc = "reviewed" =>
                /\ review.action \in {"cancel", "amend"}
                /\ seen[review.leg] # NoRow
                /\ seen[review.leg].oid = review.row.oid
                /\ \A l \in Legs \ {review.leg} : seen[l] = NoRow

\* The orders at the broker, and only they, are for some leg.
OrderOK == \A o \in Oids : ord[o].state # "unused" <=> ord[o].leg \in Legs

\* A leg without a row has no order, no executions and nothing to merge.
EmptyRow ==
    \A l \in Legs : rec[l].status = "none" =>
        /\ rec[l].filled = 0 /\ feed[l] = NoFeed
        /\ \A o \in Oids : ord[o].state # "unused" => ord[o].leg # l

\* A live order keeps its row out of the statuses a reservation may replace.
LiveIsOpen == \A o \in Oids : Live(o) => Open(ord[o].leg)

\* While the broker has not taken an order on, its leg stays with the process
\* that reserved it; the app cannot lose the leg at all, as only it runs sync.
Held ==
    \A l \in Legs : \A p \in Procs : Holds(p, l) =>
        /\ p = "app" => Open(l) /\ (rec[l].obs.state # "none" => rec[l].oid = job[p].oid)
        /\ ~Observable(job[p].oid) =>
              /\ Open(l) /\ OnlyLive(l, job[p].oid)
              /\ p # "app" => rec[l].oid = job[p].oid
        /\ job[p].pc = "outcome" /\ job[p].result = "rejected" =>
              ord[job[p].oid].state = "refused"
HeldOnce ==
    \A l \in Legs : \A p, q \in Procs :
        p # q /\ Holds(p, l) /\ Holds(q, l) /\ q # "app" => Observable(job[q].oid)

\* A snapshot row is about an order of its leg; while the row still carries that
\* order's id, or a process may yet write it back, no other order is alive.
Snapshot ==
    \A l \in Legs : seen[l] # NoRow =>
        /\ seen[l].oid \in Oids /\ Observable(seen[l].oid) /\ ord[seen[l].oid].leg = l
        /\ seen[l].state = "cancelled" => ord[seen[l].oid].state = "cancelled"
        /\ rec[l].oid = seen[l].oid => OnlyLive(l, seen[l].oid)
        /\ \A p \in Procs : Holds(p, l) /\ job[p].oid = seen[l].oid => OnlyLive(l, seen[l].oid)
Tracked == \A l \in Legs : rec[l].obs.state # "none" => OnlyLive(l, rec[l].oid)

Core ==
    /\ OrderOK /\ EmptyRow /\ LiveIsOpen /\ Held /\ HeldOnce /\ Snapshot
    /\ Tracked /\ SingleLiveOrder
IInv == TypeOK /\ JobOK /\ ReviewOK /\ Core

--------------------------------------------------------------------------------
(* Types. *)

USE NumLegsAssumption, MaxOidAssumption, ApprovedAssumption, ProcsAssumption

\* The constants that stand for an absent record have the right types.
LEMMA NullTypes ==
    /\ NoObs \in Observation /\ NoPending \in Pending /\ NoRecord \in Row
    /\ Unused \in Order /\ NoRow \in Seen /\ Idle \in Job
    /\ NoReview \in Review /\ NoFeed \in Feed
<1>1. NoObs \in Observation /\ NoPending \in Pending
  BY DEF NoObs, Observation, ObsState, NoPending, Pending
<1>2. NoRecord \in Row
  BY <1>1 DEF NoRecord, Row, RowStatus
<1>3. Unused \in Order /\ NoRow \in Seen /\ NoFeed \in Feed
  BY DEF Unused, Order, OrderState, NoRow, Seen, ObsState, NoFeed, Feed
<1>4. Idle \in Job /\ NoReview \in Review
  BY <1>2 DEF Idle, Job, NoReview, Review
<1> QED
  BY <1>1, <1>2, <1>3, <1>4

\* A row merged with an older one of the same leg is a row.
LEMMA PreserveType ==
    ASSUME NEW prev \in Row, NEW status \in RowStatus, NEW oid \in 0..MaxOid, NEW qty \in Nat
    PROVE  Preserve(prev, status, oid, qty) \in Row
BY NullTypes DEF Preserve, Row

\* An observed row is a row.
LEMMA ObservedType ==
    ASSUME NEW r \in Row, NEW s \in Seen
    PROVE  Observed(r, s) \in Row
BY DEF Observed, TermsInForce, Row, RowStatus, Seen, NoPending, Observation, Pending

\* A row with fills merged into it is a row.
LEMMA MergedType ==
    ASSUME NEW r \in Row, NEW f \in Feed
    PROVE  Merged(r, f) \in Row
BY DEF Merged, Conflicting, Row, RowStatus, Feed

\* The initial state has the right types.
LEMMA TypeInit == Init => TypeOK /\ JobOK /\ ReviewOK
<1> SUFFICES ASSUME Init PROVE TypeOK /\ JobOK /\ ReviewOK
  OBVIOUS
<1>1. TypeOK
  BY NullTypes DEF Init, TypeOK
<1>2. \A p \in Procs : job[p].pc = "idle"
  BY DEF Init, Idle
<1> QED
  BY <1>1, <1>2 DEF Init, JobOK, JobFits, ReviewOK

\* A process that takes on a job of the right type changes its own entry only.
LEMMA JobUpdate ==
    ASSUME TypeOK, NEW p \in Procs, NEW j \in Job, Become(p, j)
    PROVE  /\ job' \in [Procs -> Job]
           /\ job'[p] = j
           /\ \A q \in Procs \ {p} : job'[q] = job[q]
BY DEF TypeOK, Become

\* What the other processes promise is not touched.
LEMMA JobFitsKept ==
    ASSUME TypeOK, JobOK, NEW p \in Procs, NEW j \in Job, Become(p, j), JobFits(p, j)
    PROVE  JobOK'
<1>1. job'[p] = j /\ \A q \in Procs \ {p} : job'[q] = job[q]
  BY JobUpdate
<1>2. ASSUME NEW q \in Procs PROVE JobFits(q, job'[q])
  BY <1>1 DEF JobOK
<1>3. ASSUME NEW q \in Procs PROVE JobFits(q, job[q])'
  BY <1>2 DEF JobFits, Legs, Oids
<1> QED
  BY <1>3 DEF JobOK

\* A process at rest promises nothing.
LEMMA IdleFits == \A p \in Procs : JobFits(p, Idle)
BY DEF JobFits, Idle

\* A step that moves one process outside an operator review keeps what the
\* program counters promise.
LEMMA JobKept ==
    ASSUME TypeOK, JobOK, ReviewOK, NEW p \in Procs, NEW j \in Job, Become(p, j),
           JobFits(p, j), j.pc \notin {"reviewed", "claimed", "retrying"},
           \/ UNCHANGED <<review, seen>> /\ job[p].pc \notin {"syncing", "reviewed"}
           \/ p = "app" /\ j.pc = "syncing" /\ seen' \in [Legs -> Seen]
           \/ p = "app" /\ \A l \in Legs : seen'[l] = NoRow
    PROVE  job' \in [Procs -> Job] /\ JobOK' /\ ReviewOK'
<1>1. job' \in [Procs -> Job] /\ job'[p] = j /\ \A q \in Procs \ {p} : job'[q] = job[q]
  BY JobUpdate
<1>2. JobOK'
  BY <1>1 DEF JobOK, JobFits
<1>3. ReviewOK'
  BY <1>1 DEF ReviewOK
<1> QED
  BY <1>1, <1>2, <1>3

\* A step of nobody but the broker or the clock, or of the fill sync.
LEMMA JobUnmoved ==
    ASSUME JobOK, ReviewOK, UNCHANGED <<job, review, seen>>
    PROVE  JobOK' /\ ReviewOK'
BY DEF JobOK, ReviewOK

\* The router keeps the types.
LEMMA RoutingType ==
    ASSUME TypeOK, JobOK, ReviewOK, NEW p \in Procs, Routing(p)
    PROVE  TypeOK' /\ JobOK' /\ ReviewOK'
<1>0. job[p] \in Job /\ JobFits(p, job[p]) /\ Idle \in Job /\ JobFits(p, Idle) /\ Idle.pc = "idle"
  BY NullTypes, IdleFits DEF TypeOK, JobOK, Idle
<1>1. CASE Validate(p)
  <2>1. PICK allow \in BOOLEAN : \E legs \in {Legs} \cup (IF allow /\ p = "app" THEN {Retryable} ELSE {}) :
           Become(p, [Idle EXCEPT !.pc = "validated", !.todo = legs, !.allow = allow])
    BY <1>1 DEF Validate
  <2>2. PICK legs \in SUBSET Legs :
           Become(p, [Idle EXCEPT !.pc = "validated", !.todo = legs, !.allow = allow])
    BY <2>1 DEF Retryable
  <2> DEFINE j == [Idle EXCEPT !.pc = "validated", !.todo = legs, !.allow = allow]
  <2>3. j \in Job /\ j.pc = "validated"
    BY <1>0 DEF Job
  <2>4. JobFits(p, j)
    BY <2>3 DEF JobFits
  <2> QED
    BY <1>1, <2>2, <2>3, <2>4, JobKept DEF Validate, TypeOK
<1>2. CASE Connect(p)
  <2>1. PICK first \in Oids : Become(p, [job[p] EXCEPT !.pc = "routing", !.oid = first])
    BY <1>2 DEF Connect
  <2> DEFINE j == [job[p] EXCEPT !.pc = "routing", !.oid = first]
  <2>0. first \in 0..(MaxOid + 1)
    BY DEF Oids
  <2>2. j \in Job /\ j.pc = "routing"
    BY <1>0, <2>0 DEF Job
  <2>3. JobFits(p, j)
    BY <2>2 DEF JobFits
  <2> QED
    BY <1>2, <2>1, <2>2, <2>3, JobKept DEF Connect, TypeOK
<1>3. CASE ConnectFails(p) \/ ReserveRefused(p) \/ BatchDone(p)
  <2>1. Become(p, Idle)
    BY <1>3 DEF ConnectFails, ReserveRefused, BatchDone, Finish
  <2> QED
    BY <1>0, <1>3, <2>1, JobKept DEF ConnectFails, ReserveRefused, BatchDone, Finish, TypeOK
<1>4. CASE Reserve(p)
  <2>1. PICK l \in job[p].todo :
           /\ rec' = [rec EXCEPT ![l] = Preserve(rec[l], "pending_submit", job[p].oid, job[p].qty[l])]
           /\ Become(p, [job[p] EXCEPT !.pc = "reserved", !.leg = l, !.todo = @ \ {l}])
    BY <1>4 DEF Reserve
  <2> DEFINE j == [job[p] EXCEPT !.pc = "reserved", !.leg = l, !.todo = @ \ {l}]
  <2>2. l \in Legs /\ job[p].oid \in Oids
    BY <1>0, <1>4 DEF Job, Reserve
  <2>0. l \in 0..NumLegs /\ job[p].todo \ {l} \in SUBSET Legs
    BY <1>0, <2>2 DEF Job, Legs
  <2>3. j \in Job /\ j.pc = "reserved" /\ j.leg = l /\ j.oid = job[p].oid
    BY <1>0, <2>0 DEF Job
  <2>4. JobFits(p, j)
    BY <2>2, <2>3 DEF JobFits
  <2>5. rec[l] \in Row /\ job[p].qty[l] \in Nat /\ job[p].oid \in 0..MaxOid
    BY <1>0, <2>2 DEF TypeOK, Job, Oids
  <2>6. rec' \in [Legs -> Row]
    BY <2>1, <2>5, PreserveType DEF TypeOK, RowStatus
  <2> QED
    BY <1>4, <2>1, <2>3, <2>4, <2>6, JobKept DEF Reserve, TypeOK
<1>5. CASE Send(p)
  <2> DEFINE j == [job[p] EXCEPT !.pc = "waiting"]
  <2>1. j \in Job /\ j.pc = "waiting" /\ j.leg = job[p].leg /\ j.oid = job[p].oid
    BY <1>0 DEF Job
  <2>2. job[p].leg \in Legs /\ job[p].oid \in Oids /\ JobFits(p, j)
    BY <1>0, <1>5, <2>1 DEF Send, JobFits
  <2>3. [Unused EXCEPT !.leg = job[p].leg, !.state = "transit", !.qty = job[p].qty[job[p].leg]] \in Order
    BY <1>0, <2>2, NullTypes DEF Order, OrderState, Job, Legs
  <2>4. ord' \in [Oids -> Order]
    BY <1>5, <2>3 DEF Send, TypeOK
  <2> QED
    BY <1>5, <2>1, <2>2, <2>4, JobKept DEF Send, TypeOK
<1>6. CASE Acknowledged(p) \/ DefinitelyRejected(p) \/ Uncertain(p)
  <2>1. PICK res \in {"submitted", "rejected", "pending_submit"} :
           Become(p, [job[p] EXCEPT !.pc = "outcome", !.result = res])
    BY <1>6 DEF Acknowledged, DefinitelyRejected, Uncertain
  <2> DEFINE j == [job[p] EXCEPT !.pc = "outcome", !.result = res]
  <2>2. j \in Job /\ j.pc = "outcome" /\ j.result = res /\ j.leg = job[p].leg /\ j.oid = job[p].oid
    BY <1>0 DEF Job
  <2>3. JobFits(p, j)
    BY <1>0, <1>6, <2>2 DEF Acknowledged, DefinitelyRejected, Uncertain, JobFits
  <2> QED
    BY <1>6, <2>1, <2>2, <2>3, JobKept DEF Acknowledged, DefinitelyRejected, Uncertain, TypeOK
<1>7. CASE SaveOutcome(p)
  <2>1. job[p].leg \in Legs /\ job[p].oid \in Oids
    BY <1>0, <1>7 DEF SaveOutcome, JobFits
  <2>2. /\ rec[job[p].leg] \in Row /\ job[p].qty[job[p].leg] \in Nat
        /\ job[p].oid \in 0..MaxOid /\ job[p].result \in RowStatus
    BY <1>0, <2>1 DEF TypeOK, Job, Oids, RowStatus
  <2>3. rec' \in [Legs -> Row]
    BY <1>7, <2>2, PreserveType DEF SaveOutcome, TypeOK
  <2>4. CASE job[p].result = "pending_submit"
    BY <1>0, <1>7, <2>3, <2>4, JobKept DEF SaveOutcome, Finish, TypeOK
  <2>5. CASE job[p].result # "pending_submit"
    <3> DEFINE j == [job[p] EXCEPT !.pc = "routing", !.leg = 0, !.result = "none", !.oid = @ + 1]
    <3>0. job[p].oid + 1 \in 0..(MaxOid + 1)
      BY <2>1 DEF Oids
    <3>a. 0 \in 0..NumLegs
      OBVIOUS
    <3>1. j \in Job
      BY <1>0, <3>0, <3>a DEF Job
    <3>3. j.pc = "routing"
      BY <1>0 DEF Job
    <3>2. JobFits(p, j)
      BY <3>3 DEF JobFits
    <3> QED
      BY <1>7, <2>3, <2>5, <3>1, <3>2, <3>3, JobKept DEF SaveOutcome, TypeOK
  <2> QED
    BY <2>4, <2>5
<1> QED
  BY <1>1, <1>2, <1>3, <1>4, <1>5, <1>6, <1>7 DEF Routing

\* Sync, management and expiry keep the types.
LEMMA ManagingType ==
    ASSUME TypeOK, JobOK, ReviewOK, Managing \/ Expiring
    PROVE  TypeOK' /\ JobOK' /\ ReviewOK'
<1>0. Idle \in Job /\ Idle.pc = "idle" /\ \A p \in Procs : job[p] \in Job /\ JobFits(p, Idle)
  BY NullTypes, IdleFits DEF TypeOK, Idle
<1>a. ASSUME NEW l \in Legs, NEW counted \in BOOLEAN, Matched(l)
      PROVE  /\ BrokerRow(l, counted) \in Seen /\ BrokerRow(l, counted) # NoRow
             /\ BrokerRow(l, counted).oid = rec[l].oid
  <2>1. rec[l].oid \in Oids /\ ord[rec[l].oid].state \in {"working", "cancelling", "cancelled", "filled"}
    BY <1>a DEF Matched
  <2>2. rec[l].oid \in 0..MaxOid /\ ord[rec[l].oid].qty \in Nat /\ ord[rec[l].oid].done \in Nat
    BY <2>1 DEF TypeOK, Row, Order
  <2>3. BrokerRow(l, counted) \in Seen
    BY <2>1, <2>2 DEF BrokerRow, Seen, ObsState
  <2> QED
    BY <2>1, <2>3 DEF BrokerRow, NoRow
<1>1. CASE OpenSync
  <2>1. PICK counted \in BOOLEAN :
           seen' = [l \in Legs |-> IF Matched(l) THEN BrokerRow(l, counted) ELSE NoRow]
    BY <1>1 DEF OpenSync
  <2>2. seen' \in [Legs -> Seen]
    BY <1>a, <2>1, NullTypes
  <2> DEFINE j == [Idle EXCEPT !.pc = "syncing"]
  <2>3. j \in Job /\ j.pc = "syncing" /\ JobFits("app", j)
    BY <1>0 DEF Job, JobFits
  <2> QED
    BY <1>1, <2>2, <2>3, JobKept DEF OpenSync, TypeOK
<1>2. ASSUME NEW l \in Legs, ApplyObservation(l) PROVE TypeOK' /\ JobOK' /\ ReviewOK'
  <2>1. rec' \in [Legs -> Row]
    BY <1>2, ObservedType DEF ApplyObservation, TypeOK
  <2>2. seen' \in [Legs -> Seen]
    BY <1>2, NullTypes DEF ApplyObservation, TypeOK
  <2> QED
    BY <1>2, <2>1, <2>2 DEF ApplyObservation, TypeOK, JobOK, ReviewOK
<1>3. CASE CloseSync
  BY <1>0, <1>3, JobKept DEF CloseSync, Finish, TypeOK
<1>4. ASSUME NEW l \in Legs, OpenCancel(l) \/ OpenAmend(l) PROVE TypeOK' /\ JobOK' /\ ReviewOK'
  <2>0. /\ Matched(l) /\ "app" \in Procs /\ job["app"].pc = "idle"
        /\ Become("app", [Idle EXCEPT !.pc = "reviewed"])
    BY <1>4 DEF OpenCancel, OpenAmend, MayManage
  <2>1. PICK counted \in BOOLEAN : seen' = [seen EXCEPT ![l] = BrokerRow(l, counted)]
    BY <1>4 DEF OpenCancel, OpenAmend
  <2>2. PICK a \in {"cancel", "amend"}, q \in Nat :
           review' = [leg |-> l, row |-> rec[l], action |-> a, qty |-> q]
    <3>1. CASE OpenCancel(l)
      BY <3>1 DEF OpenCancel
    <3>2. CASE OpenAmend(l)
      <4>1. rec[l].qty \in Nat
        BY DEF TypeOK, Row
      <4> QED
        BY <3>2, <4>1 DEF OpenAmend
    <3> QED
      BY <1>4, <3>1, <3>2
  <2>3. seen' \in [Legs -> Seen]
    BY <1>a, <2>0, <2>1 DEF TypeOK
  <2>4. l \in 0..NumLegs
    BY DEF Legs
  <2>5. review' \in Review /\ review'.leg = l /\ review'.action = a /\ review'.row = rec[l]
    BY <2>2, <2>4 DEF Review, TypeOK
  <2> DEFINE j == [Idle EXCEPT !.pc = "reviewed"]
  <2>6. j \in Job /\ j.pc = "reviewed" /\ JobFits("app", j)
    BY <1>0, <2>0 DEF Job, JobFits
  <2>7. job' \in [Procs -> Job] /\ job'["app"].pc = "reviewed" /\ JobOK'
    BY <2>0, <2>6, JobUpdate, JobFitsKept
  <2>8. \A k \in Legs \ {l} : seen'[k] = NoRow
    BY <2>0, <2>1 DEF ReviewOK, TypeOK
  <2>9. seen'[l] # NoRow /\ seen'[l].oid = rec[l].oid
    BY <1>a, <2>0, <2>1 DEF TypeOK
  <2>10. ReviewOK'
    BY <2>0, <2>5, <2>7, <2>8, <2>9 DEF ReviewOK
  <2> QED
    BY <1>4, <2>3, <2>5, <2>7, <2>10 DEF OpenCancel, OpenAmend, TypeOK
<1>5. ASSUME NEW l \in Legs, OpenResubmit(l) PROVE TypeOK' /\ JobOK' /\ ReviewOK'
  <2> DEFINE j == [Idle EXCEPT !.pc = "retrying"]
  <2>0. "app" \in Procs /\ job["app"].pc = "idle" /\ Become("app", j) /\ seen' = seen
    BY <1>5 DEF OpenResubmit
  <2>1. j \in Job /\ j.pc = "retrying" /\ JobFits("app", j)
    BY <1>0, <2>0 DEF Job, JobFits
  <2>2. job' \in [Procs -> Job] /\ job'["app"].pc = "retrying" /\ JobOK'
    BY <2>0, <2>1, JobUpdate, JobFitsKept
  <2>3. l \in 0..NumLegs
    BY DEF Legs
  <2>4. review' \in Review /\ review'.leg = l
    BY <1>5, <2>3 DEF OpenResubmit, Review, TypeOK
  <2>5. ReviewOK'
    BY <2>0, <2>2, <2>4 DEF ReviewOK
  <2> QED
    BY <1>5, <2>2, <2>4, <2>5 DEF OpenResubmit, TypeOK
<1>6. CASE Claim
  <2> DEFINE j == [job["app"] EXCEPT !.pc = "claimed"]
             l == review.leg
  <2>0. "app" \in Procs /\ job["app"].pc = "reviewed" /\ Become("app", j) /\ review' = review
    BY <1>6 DEF Claim
  <2>1. l \in Legs /\ review.action \in {"cancel", "amend"} /\ review.qty \in Nat
    BY <2>0 DEF ReviewOK, TypeOK, Review
  <2>2. [action |-> review.action, qty |-> review.qty] \in Pending
    BY <2>1 DEF Pending
  <2>3. [state |-> seen[l].state, filled |-> seen[l].filled] \in Observation
    BY <2>1 DEF TypeOK, Seen, Observation
  <2> DEFINE r == [rec[l] EXCEPT !.pending = [action |-> review.action, qty |-> review.qty],
                                 !.obs = [state |-> seen[l].state, filled |-> seen[l].filled]]
  <2>9. r \in Row
    <3>1. rec[l] \in Row
      BY <2>1 DEF TypeOK
    <3>2. ASSUME NEW p \in Pending, NEW o \in Observation
          PROVE  [rec[l] EXCEPT !.pending = p, !.obs = o] \in Row
      BY <3>1 DEF Row
    <3> QED
      BY <2>2, <2>3, <3>2
  <2>10. rec' = [rec EXCEPT ![l] = r]
    BY <1>6, <2>1 DEF Claim, TypeOK
  <2>4. rec' \in [Legs -> Row]
    BY <2>9, <2>10 DEF TypeOK
  <2>5. seen' \in [Legs -> Seen] /\ \A k \in Legs : seen'[k] = NoRow
    BY <1>6, <2>0, <2>1, NullTypes DEF Claim, TypeOK, ReviewOK
  <2>6. j \in Job /\ j.pc = "claimed" /\ JobFits("app", j)
    BY <1>0, <2>0 DEF Job, JobFits
  <2>7. job' \in [Procs -> Job] /\ job'["app"].pc = "claimed" /\ JobOK'
    BY <2>0, <2>6, JobUpdate, JobFitsKept
  <2>8. ReviewOK'
    BY <2>0, <2>1, <2>5, <2>7 DEF ReviewOK
  <2> QED
    BY <1>6, <2>4, <2>5, <2>7, <2>8 DEF Claim, TypeOK
<1>7. CASE ReviewStale
  BY <1>0, <1>7, NullTypes, JobKept DEF ReviewStale, Finish, TypeOK
<1>8. CASE Change
  <2>1. ord' \in [Oids -> Order]
    BY <1>8 DEF Change, TypeOK, Order, OrderState, Review
  <2>2. \A l \in Legs : seen[l] = NoRow
    BY <1>8 DEF Change, ReviewOK
  <2> QED
    BY <1>0, <1>8, <2>1, <2>2, NullTypes, JobKept DEF Change, Finish, TypeOK
<1>9. CASE RetryRoute
  <2> DEFINE l == review.leg
             q == [Approved EXCEPT ![l] = rec[l].qty]
             j == [Idle EXCEPT !.pc = "validated", !.todo = {l}, !.allow = TRUE, !.qty = q]
  <2>0. "app" \in Procs /\ job["app"].pc = "retrying" /\ (Become("app", j) \/ Become("app", Idle))
    BY <1>9 DEF RetryRoute
  <2>1. l \in Legs
    BY <2>0 DEF ReviewOK
  <2>2. q \in [Legs -> Nat]
    BY <2>1 DEF TypeOK, Row
  <2>3. j \in Job /\ j.pc = "validated"
    BY <1>0, <2>1, <2>2 DEF Job
  <2>4. JobFits("app", j)
    BY <2>3 DEF JobFits
  <2>5. \A k \in Legs : seen'[k] = NoRow
    BY <1>9, <2>0 DEF RetryRoute, ReviewOK
  <2> QED
    BY <1>0, <1>9, <2>0, <2>3, <2>4, <2>5, NullTypes, JobKept DEF RetryRoute, TypeOK
<1>10. CASE DeadlinePasses
  BY <1>10, JobUnmoved DEF DeadlinePasses, TypeOK
<1>11. CASE ExpireScan
  <2>0. PICK both \in SUBSET {l \in missed : rec[l].status \notin Failed \cup {"none"}} :
           Become("app", [Idle EXCEPT !.pc = "expiring",
              !.todo = {l \in Legs : rec[l].status \in Failed \cup {"none"}} \cup both])
    BY <1>11 DEF ExpireScan
  <2>1. PICK legs \in SUBSET Legs : Become("app", [Idle EXCEPT !.pc = "expiring", !.todo = legs])
    BY <2>0 DEF TypeOK
  <2> DEFINE j == [Idle EXCEPT !.pc = "expiring", !.todo = legs]
  <2>2. j \in Job /\ j.pc = "expiring" /\ JobFits("app", j)
    BY <1>0 DEF Job, JobFits
  <2> QED
    BY <1>11, <2>1, <2>2, JobKept DEF ExpireScan, TypeOK
<1>12. ASSUME NEW l \in Legs, ExpireMark(l) PROVE TypeOK' /\ JobOK' /\ ReviewOK'
  <2> DEFINE j == [job["app"] EXCEPT !.todo = @ \ {l}]
  <2>1. j \in Job /\ j.pc = "expiring" /\ JobFits("app", j)
    BY <1>0, <1>12 DEF ExpireMark, Job, JobFits
  <2> QED
    BY <1>12, <2>1, JobKept DEF ExpireMark, TypeOK
<1>13. CASE ExpireClose
  BY <1>0, <1>13, JobKept DEF ExpireClose, Finish, TypeOK
<1> QED
  BY <1>1, <1>2, <1>3, <1>4, <1>5, <1>6, <1>7, <1>8, <1>9, <1>10, <1>11, <1>12, <1>13
     DEF Managing, Expiring

\* Fill sync, crashes and the broker keep the types.
LEMMA BrokerType ==
    ASSUME TypeOK, JobOK, ReviewOK,
           Filling \/ AtBroker \/ DropSession \/ \E p \in Procs : Crash(p)
    PROVE  TypeOK' /\ JobOK' /\ ReviewOK'
<1>1. CASE FetchFills
  <2>1. ASSUME NEW l \in Legs, NEW o \in Executed(l), NEW c \in BOOLEAN
        PROVE  [source |-> o, n |-> ord[o].done, conflict |-> c] \in Feed
    BY DEF Executed, TypeOK, Order, Feed, Oids
  <2>2. feed' \in [Legs -> Feed]
    BY <1>1, <2>1, NullTypes DEF FetchFills
  <2> QED
    BY <1>1, <2>2, JobUnmoved DEF FetchFills, TypeOK
<1>2. ASSUME NEW l \in Legs, MergeFills(l) PROVE TypeOK' /\ JobOK' /\ ReviewOK'
  <2>1. rec' \in [Legs -> Row] /\ feed' \in [Legs -> Feed]
    BY <1>2, MergedType, NullTypes DEF MergeFills, TypeOK
  <2> QED
    BY <1>2, <2>1, JobUnmoved DEF MergeFills, TypeOK
<1>3. ASSUME NEW p \in Procs, Crash(p) PROVE TypeOK' /\ JobOK' /\ ReviewOK'
  <2>1. Idle \in Job /\ JobFits(p, Idle) /\ Idle.pc = "idle" /\ Become(p, Idle)
    BY <1>3, NullTypes, IdleFits DEF Crash, Finish, Idle
  <2>2. job[p].pc \in {"syncing", "reviewed"} => p = "app"
    BY DEF JobOK, JobFits
  <2>3. job' \in [Procs -> Job] /\ JobOK' /\ ReviewOK'
    BY <1>3, <2>1, <2>2, JobKept DEF Crash
  <2> QED
    BY <1>3, <2>3, NullTypes DEF Crash, Finish, TypeOK
<1>4. ASSUME NEW o \in Oids, ord' \in [Oids -> Order], Broker PROVE TypeOK' /\ JobOK' /\ ReviewOK'
  BY <1>4, JobUnmoved DEF Broker, TypeOK
<1>5. ASSUME NEW o \in Oids,
             \/ BrokerAccepts(o) \/ BrokerRefuses(o) \/ BrokerFills(o)
             \/ BrokerCancels(o) \/ BrokerAmends(o) \/ BrokerCorrects(o)
      PROVE  ord' \in [Oids -> Order] /\ Broker
  <2>1. ord[o] \in Order
    BY DEF TypeOK
  <2>2. ord' \in [Oids -> Order]
    <3>1. CASE BrokerAccepts(o)
      BY <2>1, <3>1 DEF BrokerAccepts, Order, OrderState, TypeOK
    <3>2. CASE BrokerRefuses(o)
      BY <2>1, <3>2 DEF BrokerRefuses, Order, OrderState, TypeOK
    <3>3. CASE BrokerFills(o)
      <4> DEFINE d == ord[o].done + 1
                 st == IF ord[o].done + 1 >= ord[o].qty THEN "filled" ELSE ord[o].state
      <4>1. d \in Nat /\ st \in OrderState
        BY <2>1 DEF Order, OrderState
      <4>2. ord' = [ord EXCEPT ![o] = [ord[o] EXCEPT !.done = d, !.state = st]]
        BY <2>1, <3>3 DEF BrokerFills, Order, TypeOK
      <4>3. [ord[o] EXCEPT !.done = d, !.state = st] \in Order
        BY <2>1, <4>1 DEF Order
      <4> QED
        BY <4>2, <4>3 DEF TypeOK
    <3>4. CASE BrokerCancels(o)
      BY <2>1, <3>4 DEF BrokerCancels, Order, OrderState, TypeOK
    <3>5. CASE BrokerAmends(o)
      BY <2>1, <3>5 DEF BrokerAmends, Order, OrderState, TypeOK
    <3>6. CASE BrokerCorrects(o)
      BY <2>1, <3>6 DEF BrokerCorrects, Order, OrderState, TypeOK
    <3> QED
      BY <1>5, <3>1, <3>2, <3>3, <3>4, <3>5, <3>6
  <2> QED
    BY <1>5, <2>2 DEF BrokerAccepts, BrokerRefuses, BrokerFills, BrokerCancels, BrokerAmends,
       BrokerCorrects
<1>6. CASE DropSession
  BY <1>6, JobUnmoved DEF DropSession, TypeOK
<1> QED
  BY <1>1, <1>2, <1>3, <1>4, <1>5, <1>6 DEF Filling, AtBroker

\* Every step keeps the types.
LEMMA TypeStep ==
    ASSUME TypeOK, JobOK, ReviewOK, [Next]_vars
    PROVE  TypeOK' /\ JobOK' /\ ReviewOK'
<1>1. CASE UNCHANGED vars
  BY <1>1 DEF vars, TypeOK, JobOK, ReviewOK
<1> QED
  BY <1>1, RoutingType, ManagingType, BrokerType DEF Next

\* The type invariant holds in every reachable state.
THEOREM TypeCorrect == Spec => []TypeOK
<1>1. TypeOK /\ JobOK /\ ReviewOK /\ [Next]_vars => TypeOK' /\ JobOK' /\ ReviewOK'
  BY TypeStep
<1> QED
  BY TypeInit, <1>1, PTL DEF Spec

--------------------------------------------------------------------------------
(* One live order per intent. *)

\* What the broker and the steps that do not send leave true of the orders.
OrdersEvolve ==
    \A o \in Oids :
        /\ ord'[o].leg = ord[o].leg
        /\ ord'[o].state = "unused" <=> ord[o].state = "unused"
        /\ ord'[o].state \in LiveState => ord[o].state \in LiveState
        /\ ord[o].state \in {"working", "cancelling", "cancelled", "filled"} =>
              ord'[o].state \in {"working", "cancelling", "cancelled", "filled"}
        /\ ord[o].state \in {"cancelled", "refused"} => ord'[o].state = ord[o].state
\* No process reserves a leg.
JobsRelease ==
    \A p \in Procs : job'[p].pc \in {"reserved", "waiting", "outcome"} =>
        /\ job[p].pc \in {"reserved", "waiting", "outcome"}
        /\ job'[p].leg = job[p].leg /\ job'[p].oid = job[p].oid
        /\ job'[p].pc = "outcome" /\ job'[p].result = "rejected" =>
              ord'[job[p].oid].state = "refused"
\* No row changes hands or is closed.
RowStays(l) ==
    /\ rec'[l].oid = rec[l].oid
    /\ rec[l].status \notin Failed \cup {"none"} => rec'[l].status \notin Failed \cup {"none"}
    /\ rec'[l].obs.state # "none" =>
          \/ rec[l].obs.state # "none"
          \/ /\ OnlyLive(l, rec[l].oid)
             /\ \A p \in Procs : Holds(p, l) => p # "app"
    /\ rec'[l].status = "none" =>
          rec[l].status = "none" /\ rec'[l].filled = rec[l].filled /\ feed'[l] = NoFeed
RowsStay == \A l \in Legs : RowStays(l)

\* A step that neither reserves, sends, saves nor applies an observation.
LEMMA QuietStep ==
    ASSUME TypeOK, JobOK, Core, OrdersEvolve, JobsRelease, RowsStay
    PROVE  OrderOK' /\ EmptyRow' /\ LiveIsOpen' /\ Held' /\ HeldOnce' /\ Tracked' /\ SingleLiveOrder'
<1> USE DEF Live, LiveState, Observable, Holds, OnlyLive
<1>1. OrderOK'
  BY DEF Core, OrderOK, OrdersEvolve
<1>2. EmptyRow'
  BY DEF Core, EmptyRow, OrdersEvolve, RowsStay, RowStays
<1>3. LiveIsOpen'
  BY DEF Core, LiveIsOpen, OrderOK, OrdersEvolve, RowsStay, RowStays, Open
<1>4. Held'
  <2> SUFFICES ASSUME NEW l \in Legs, NEW p \in Procs, Holds(p, l)'
      PROVE  /\ p = "app" => Open(l)' /\ (rec'[l].obs.state # "none" => rec'[l].oid = job'[p].oid)
             /\ ~Observable(job[p].oid)' =>
                   /\ Open(l)' /\ OnlyLive(l, job[p].oid)'
                   /\ p # "app" => rec'[l].oid = job'[p].oid
             /\ job'[p].pc = "outcome" /\ job'[p].result = "rejected" =>
                   ord'[job'[p].oid].state = "refused"
    BY DEF Held
  <2>1. Holds(p, l) /\ job'[p].oid = job[p].oid /\ job[p].oid \in Oids
    BY DEF JobsRelease, JobOK, JobFits
  <2>2. p = "app" => Open(l)' /\ (rec'[l].obs.state # "none" => rec'[l].oid = job'[p].oid)
    BY <2>1 DEF Core, Held, RowsStay, RowStays, Open
  <2>3. ~Observable(job[p].oid)' => ~Observable(job[p].oid)
    BY <2>1 DEF OrdersEvolve
  <2>4. ~Observable(job[p].oid)' => OnlyLive(l, job[p].oid)'
    BY <2>1, <2>3 DEF Core, Held, OrdersEvolve
  <2>5. ~Observable(job[p].oid)' => Open(l)' /\ (p # "app" => rec'[l].oid = job'[p].oid)
    BY <2>1, <2>3 DEF Core, Held, RowsStay, RowStays, Open
  <2>6. job'[p].pc = "outcome" /\ job'[p].result = "rejected" => ord'[job'[p].oid].state = "refused"
    BY <2>1 DEF JobsRelease
  <2> QED
    BY <2>2, <2>4, <2>5, <2>6
<1>5. HeldOnce'
  <2> SUFFICES ASSUME NEW l \in Legs, NEW p \in Procs, NEW q \in Procs, p # q, q # "app",
                      Holds(p, l)', Holds(q, l)'
      PROVE  Observable(job[q].oid)'
    BY DEF HeldOnce
  <2>1. Holds(p, l) /\ Holds(q, l) /\ job'[q].oid = job[q].oid /\ job[q].oid \in Oids
    BY DEF JobsRelease, JobOK, JobFits
  <2> QED
    BY <2>1 DEF Core, HeldOnce, OrdersEvolve
<1>6. Tracked'
  BY DEF Core, Tracked, RowsStay, RowStays, OrdersEvolve
<1>7. SingleLiveOrder'
  BY DEF Core, SingleLiveOrder, OrdersEvolve
<1> QED
  BY <1>1, <1>2, <1>3, <1>4, <1>5, <1>6, <1>7

\* The snapshot ages with the orders.
LEMMA QuietSnapshot ==
    ASSUME TypeOK, JobOK, Core, OrdersEvolve, JobsRelease, RowsStay,
           \A l \in Legs : seen'[l] \in {seen[l], NoRow}
    PROVE  Snapshot'
<1> USE DEF Live, LiveState, Observable, Holds, OnlyLive
<1> SUFFICES ASSUME NEW l \in Legs, seen'[l] # NoRow
    PROVE  /\ seen'[l].oid \in Oids /\ Observable(seen[l].oid)' /\ ord'[seen'[l].oid].leg = l
           /\ seen'[l].state = "cancelled" => ord'[seen'[l].oid].state = "cancelled"
           /\ rec'[l].oid = seen'[l].oid => OnlyLive(l, seen[l].oid)'
           /\ \A p \in Procs : Holds(p, l)' /\ job'[p].oid = seen'[l].oid => OnlyLive(l, seen[l].oid)'
  BY DEF Snapshot
<1>1. seen'[l] = seen[l] /\ seen[l] # NoRow /\ seen[l].oid \in Oids
  BY DEF Core, Snapshot
<1>2. Observable(seen[l].oid)' /\ ord'[seen'[l].oid].leg = l
      /\ (seen'[l].state = "cancelled" => ord'[seen'[l].oid].state = "cancelled")
  BY <1>1 DEF Core, Snapshot, OrdersEvolve
<1>3. rec'[l].oid = seen'[l].oid => OnlyLive(l, seen[l].oid)'
  BY <1>1 DEF Core, Snapshot, RowsStay, RowStays, OrdersEvolve
<1>4. ASSUME NEW p \in Procs, Holds(p, l)', job'[p].oid = seen'[l].oid PROVE OnlyLive(l, seen[l].oid)'
  BY <1>1, <1>4 DEF Core, Snapshot, JobsRelease, OrdersEvolve
<1> QED
  BY <1>1, <1>2, <1>3, <1>4

\* A process that moves without touching its reservation releases it or keeps it.
LEMMA JobMoves ==
    ASSUME TypeOK, NEW p \in Procs, NEW j \in Job, Become(p, j), OrdersEvolve, Held, JobOK,
           j.pc \in {"reserved", "waiting", "outcome"} =>
              /\ job[p].pc \in {"reserved", "waiting", "outcome"}
              /\ j.leg = job[p].leg /\ j.oid = job[p].oid
              /\ j.pc = "outcome" /\ j.result = "rejected" => ord[job[p].oid].state = "refused"
    PROVE  JobsRelease
<1>1. job'[p] = j /\ \A q \in Procs \ {p} : job'[q] = job[q]
  BY JobUpdate
<1>2. ASSUME NEW q \in Procs, job'[q].pc \in {"reserved", "waiting", "outcome"}
      PROVE  /\ job[q].pc \in {"reserved", "waiting", "outcome"}
             /\ job'[q].leg = job[q].leg /\ job'[q].oid = job[q].oid
             /\ job'[q].pc = "outcome" /\ job'[q].result = "rejected" =>
                   ord'[job[q].oid].state = "refused"
  <2>1. CASE q = p
    BY <1>1, <1>2, <2>1 DEF OrdersEvolve, JobOK, JobFits
  <2>2. CASE q # p
    BY <1>1, <1>2, <2>2 DEF OrdersEvolve, JobOK, JobFits, Held, Holds
  <2> QED
    BY <2>1, <2>2
<1> QED
  BY <1>2 DEF JobsRelease

\* A row that does not change stays.
LEMMA SameRow ==
    ASSUME NEW l \in Legs, rec'[l] = rec[l], rec[l].status = "none" => feed'[l] = NoFeed
    PROVE  RowStays(l)
BY DEF RowStays

\* Steps that leave rows, orders or processes alone.
LEMMA Standstill ==
    ASSUME JobOK, Core
    PROVE  /\ UNCHANGED ord => OrdersEvolve
           /\ UNCHANGED job /\ OrdersEvolve => JobsRelease
           /\ UNCHANGED <<rec, feed>> => RowsStay
<1>1. UNCHANGED ord => OrdersEvolve
  BY DEF OrdersEvolve
<1>2. UNCHANGED job /\ OrdersEvolve => JobsRelease
  BY DEF OrdersEvolve, JobsRelease, Core, Held, Holds, JobOK, JobFits
<1>3. UNCHANGED <<rec, feed>> => RowsStay
  <2>1. \A l \in Legs : rec[l].status = "none" => feed[l] = NoFeed
    BY DEF Core, EmptyRow
  <2> QED
    BY <2>1, SameRow DEF RowsStay
<1> QED
  BY <1>1, <1>2, <1>3

\* What a quiet step keeps.
LEMMA Quiet ==
    ASSUME TypeOK, JobOK, Core, OrdersEvolve, JobsRelease, RowsStay,
           \A l \in Legs : seen'[l] \in {seen[l], NoRow}
    PROVE  Core'
BY QuietStep, QuietSnapshot DEF Core

\* Router steps other than reserving, sending and saving.
LEMMA RoutingQuiet ==
    ASSUME TypeOK, JobOK, Core, NEW p \in Procs,
           \/ Validate(p) \/ Connect(p) \/ ConnectFails(p) \/ ReserveRefused(p) \/ BatchDone(p)
           \/ Acknowledged(p) \/ DefinitelyRejected(p) \/ Uncertain(p)
    PROVE  Core'
<1>0. job[p] \in Job /\ Idle \in Job /\ Idle.pc = "idle" /\ Held
  BY NullTypes DEF TypeOK, Idle, Core
<1>1. UNCHANGED <<rec, ord, seen, feed>>
  BY DEF Validate, Connect, ConnectFails, ReserveRefused, BatchDone, Acknowledged,
     DefinitelyRejected, Uncertain
<1>2. OrdersEvolve /\ RowsStay
  BY <1>1, Standstill
<1>3. CASE Validate(p)
  <2>1. PICK allow \in BOOLEAN : \E legs \in {Legs} \cup (IF allow /\ p = "app" THEN {Retryable} ELSE {}) :
           Become(p, [Idle EXCEPT !.pc = "validated", !.todo = legs, !.allow = allow])
    BY <1>3 DEF Validate
  <2>2. PICK legs \in SUBSET Legs :
           Become(p, [Idle EXCEPT !.pc = "validated", !.todo = legs, !.allow = allow])
    BY <2>1 DEF Retryable
  <2> DEFINE j == [Idle EXCEPT !.pc = "validated", !.todo = legs, !.allow = allow]
  <2>3. j \in Job /\ j.pc = "validated"
    BY <1>0 DEF Job
  <2>4. JobsRelease
    BY <1>0, <1>2, <2>2, <2>3, JobMoves
  <2> QED
    BY <1>1, <1>2, <2>4, Quiet
<1>4. CASE Connect(p)
  <2>1. PICK first \in Oids : Become(p, [job[p] EXCEPT !.pc = "routing", !.oid = first])
    BY <1>4 DEF Connect
  <2> DEFINE j == [job[p] EXCEPT !.pc = "routing", !.oid = first]
  <2>2. first \in 0..(MaxOid + 1)
    BY DEF Oids
  <2>3. j \in Job /\ j.pc = "routing"
    BY <1>0, <2>2 DEF Job
  <2>4. JobsRelease
    BY <1>0, <1>2, <2>1, <2>3, JobMoves
  <2> QED
    BY <1>1, <1>2, <2>4, Quiet
<1>5. CASE ConnectFails(p) \/ ReserveRefused(p) \/ BatchDone(p)
  <2>1. Become(p, Idle)
    BY <1>5 DEF ConnectFails, ReserveRefused, BatchDone, Finish
  <2>2. JobsRelease
    BY <1>0, <1>2, <2>1, JobMoves
  <2> QED
    BY <1>1, <1>2, <2>2, Quiet
<1>6. CASE Acknowledged(p) \/ DefinitelyRejected(p) \/ Uncertain(p)
  <2>1. PICK res \in {"submitted", "rejected", "pending_submit"} :
           /\ Become(p, [job[p] EXCEPT !.pc = "outcome", !.result = res])
           /\ job[p].pc = "waiting"
           /\ res = "rejected" => ord[job[p].oid].state = "refused"
    BY <1>6 DEF Acknowledged, DefinitelyRejected, Uncertain
  <2> DEFINE j == [job[p] EXCEPT !.pc = "outcome", !.result = res]
  <2>2. j \in Job /\ j.pc = "outcome" /\ j.result = res /\ j.leg = job[p].leg /\ j.oid = job[p].oid
    BY <1>0 DEF Job
  <2>3. JobsRelease
    BY <1>0, <1>2, <2>1, <2>2, JobMoves
  <2> QED
    BY <1>1, <1>2, <2>3, Quiet
<1> QED
  BY <1>3, <1>4, <1>5, <1>6

\* Sync, management and expiry steps other than taking a snapshot, applying it
\* and claiming.
LEMMA ManagingQuiet ==
    ASSUME TypeOK, JobOK, ReviewOK, Core,
           \/ CloseSync \/ ReviewStale \/ Change \/ RetryRoute \/ DeadlinePasses
           \/ ExpireScan \/ ExpireClose \/ DropSession
           \/ \E l \in Legs : OpenResubmit(l) \/ ExpireMark(l)
    PROVE  Core'
<1>0. /\ Idle \in Job /\ Idle.pc = "idle" /\ Held
      /\ "app" \in Procs => job["app"] \in Job
  BY NullTypes DEF TypeOK, Idle, Core
<1>1. UNCHANGED <<rec, feed>> /\ RowsStay
  BY Standstill DEF CloseSync, ReviewStale, Change, RetryRoute, DeadlinePasses, ExpireScan,
     ExpireClose, DropSession, OpenResubmit, ExpireMark
<1>2. \A l \in Legs : seen'[l] \in {seen[l], NoRow}
  BY DEF CloseSync, ReviewStale, Change, RetryRoute, DeadlinePasses, ExpireScan,
     ExpireClose, DropSession, OpenResubmit, ExpireMark
<1>3. OrdersEvolve
  <2>1. CASE Change
    BY <2>1 DEF Change, OrdersEvolve, TypeOK, Order, LiveState
  <2>2. CASE ~Change
    BY <2>2, Standstill DEF CloseSync, ReviewStale, RetryRoute, DeadlinePasses, ExpireScan,
       ExpireClose, DropSession, OpenResubmit, ExpireMark
  <2> QED
    BY <2>1, <2>2
<1>4. JobsRelease
  <2>1. CASE DeadlinePasses \/ DropSession
    BY <1>3, <2>1, Standstill DEF DeadlinePasses, DropSession
  <2>2. CASE CloseSync \/ ReviewStale \/ Change \/ ExpireClose
    <3>1. "app" \in Procs /\ Become("app", Idle)
      BY <2>2 DEF CloseSync, ReviewStale, Change, ExpireClose, Finish
    <3> QED
      BY <1>0, <1>3, <3>1, JobMoves
  <2>3. CASE RetryRoute
    <3> DEFINE l == review.leg
               q == [Approved EXCEPT ![l] = rec[l].qty]
               j == [Idle EXCEPT !.pc = "validated", !.todo = {l}, !.allow = TRUE, !.qty = q]
    <3>1. "app" \in Procs /\ job["app"].pc = "retrying" /\ (Become("app", j) \/ Become("app", Idle))
      BY <2>3 DEF RetryRoute
    <3>2. l \in Legs
      BY <3>1 DEF ReviewOK
    <3>3. q \in [Legs -> Nat]
      BY <3>2 DEF TypeOK, Row
    <3>4. j \in Job /\ j.pc = "validated"
      BY <1>0, <3>2, <3>3 DEF Job
    <3> QED
      BY <1>0, <1>3, <3>1, <3>4, JobMoves
  <2>4. CASE ExpireScan
    <3>1. PICK both \in SUBSET {l \in missed : rec[l].status \notin Failed \cup {"none"}} :
             Become("app", [Idle EXCEPT !.pc = "expiring",
                !.todo = {l \in Legs : rec[l].status \in Failed \cup {"none"}} \cup both])
      BY <2>4 DEF ExpireScan
    <3>2. PICK legs \in SUBSET Legs : Become("app", [Idle EXCEPT !.pc = "expiring", !.todo = legs])
      BY <3>1 DEF TypeOK
    <3> DEFINE j == [Idle EXCEPT !.pc = "expiring", !.todo = legs]
    <3>3. "app" \in Procs /\ j \in Job /\ j.pc = "expiring"
      BY <1>0, <2>4 DEF Job, ExpireScan
    <3> QED
      BY <1>0, <1>3, <3>2, <3>3, JobMoves
  <2>5. ASSUME NEW l \in Legs, ExpireMark(l) PROVE JobsRelease
    <3> DEFINE j == [job["app"] EXCEPT !.todo = @ \ {l}]
    <3>1. "app" \in Procs /\ Become("app", j) /\ j \in Job /\ j.pc = "expiring"
      BY <1>0, <2>5 DEF ExpireMark, Job
    <3> QED
      BY <1>0, <1>3, <3>1, JobMoves
  <2>6. ASSUME NEW l \in Legs, OpenResubmit(l) PROVE JobsRelease
    <3> DEFINE j == [Idle EXCEPT !.pc = "retrying"]
    <3>1. "app" \in Procs /\ Become("app", j) /\ j \in Job /\ j.pc = "retrying"
      BY <1>0, <2>6 DEF OpenResubmit, Job
    <3> QED
      BY <1>0, <1>3, <3>1, JobMoves
  <2> QED
    BY <2>1, <2>2, <2>3, <2>4, <2>5, <2>6
<1> QED
  BY <1>1, <1>2, <1>3, <1>4, Quiet

\* Fill sync, crashes and the broker.
LEMMA BrokerQuiet ==
    ASSUME TypeOK, JobOK, ReviewOK, Core,
           Filling \/ AtBroker \/ \E p \in Procs : Crash(p)
    PROVE  Core'
<1>0. Idle \in Job /\ Idle.pc = "idle" /\ Held
  BY NullTypes DEF Idle, Core
<1>1. CASE FetchFills
  <2>1. ASSUME NEW l \in Legs, rec[l].status = "none" PROVE feed'[l] = NoFeed
    <3>1. Executed(l) = {}
      BY <2>1 DEF Executed, Core, EmptyRow, OrderOK, TypeOK, Order
    <3> QED
      BY <1>1, <3>1 DEF FetchFills
  <2>2. RowsStay
    BY <1>1, <2>1, SameRow DEF FetchFills, RowsStay
  <2> QED
    BY <1>1, <2>2, Standstill, Quiet DEF FetchFills
<1>2. ASSUME NEW l \in Legs, MergeFills(l) PROVE Core'
  <2>1. rec' = [rec EXCEPT ![l] = Merged(rec[l], feed[l])] /\ feed' = [feed EXCEPT ![l] = NoFeed]
    BY <1>2 DEF MergeFills
  <2>2. /\ Merged(rec[l], feed[l]).oid = rec[l].oid
        /\ Merged(rec[l], feed[l]).obs = rec[l].obs
        /\ Open(l) => Merged(rec[l], feed[l]).status \notin Failed \cup {"none"}
        /\ Merged(rec[l], feed[l]).status = "none" => rec[l].status = "none"
    <3>1. rec[l] \in Row /\ feed[l] \in Feed
      BY DEF TypeOK
    <3> QED
      BY <3>1 DEF Merged, Row, Open, Failed
  <2>3. rec[l].status # "none"
    BY <1>2 DEF MergeFills, Core, EmptyRow
  <2>4. RowsStay
    <3> SUFFICES ASSUME NEW k \in Legs PROVE RowStays(k)
      BY DEF RowsStay
    <3>1. CASE k = l
      BY <2>1, <2>2, <2>3, <3>1 DEF TypeOK, RowStays, Open
    <3>2. CASE k # l
      BY <2>1, <3>2, SameRow DEF TypeOK, Core, EmptyRow
    <3> QED
      BY <3>1, <3>2
  <2> QED
    BY <1>2, <2>4, Standstill, Quiet DEF MergeFills
<1>3. ASSUME NEW p \in Procs, Crash(p) PROVE Core'
  <2>1. OrdersEvolve
    BY <1>3, Standstill DEF Crash
  <2>2. JobsRelease
    BY <1>0, <1>3, <2>1, JobMoves DEF Crash, Finish
  <2>3. RowsStay
    BY <1>3, SameRow DEF Crash, RowsStay, Core, EmptyRow
  <2>4. \A l \in Legs : seen'[l] \in {seen[l], NoRow}
    BY <1>3 DEF Crash
  <2> QED
    BY <2>1, <2>2, <2>3, <2>4, Quiet
<1>4. ASSUME NEW o \in Oids,
             \/ BrokerAccepts(o) \/ BrokerRefuses(o) \/ BrokerFills(o)
             \/ BrokerCancels(o) \/ BrokerAmends(o) \/ BrokerCorrects(o)
      PROVE  Core'
  <2>1. Broker
    BY <1>4 DEF BrokerAccepts, BrokerRefuses, BrokerFills, BrokerCancels, BrokerAmends,
       BrokerCorrects
  <2>2. OrdersEvolve
    <3>0. ord[o] \in Order
      BY DEF TypeOK
    <3>1. CASE BrokerAccepts(o)
      BY <3>0, <3>1 DEF BrokerAccepts, OrdersEvolve, LiveState, Order, TypeOK
    <3>2. CASE BrokerRefuses(o)
      BY <3>0, <3>2 DEF BrokerRefuses, OrdersEvolve, LiveState, Order, TypeOK
    <3>3. CASE BrokerFills(o)
      BY <3>0, <3>3 DEF BrokerFills, OrdersEvolve, LiveState, Order, TypeOK
    <3>4. CASE BrokerCancels(o)
      BY <3>0, <3>4 DEF BrokerCancels, OrdersEvolve, LiveState, Order, TypeOK
    <3>5. CASE BrokerAmends(o)
      BY <3>0, <3>5 DEF BrokerAmends, OrdersEvolve, LiveState, Order, TypeOK
    <3>6. CASE BrokerCorrects(o)
      BY <3>0, <3>6 DEF BrokerCorrects, OrdersEvolve, LiveState, Order, TypeOK
    <3> QED
      BY <1>4, <3>1, <3>2, <3>3, <3>4, <3>5, <3>6
  <2> QED
    BY <2>1, <2>2, Standstill, Quiet DEF Broker
<1> QED
  BY <1>1, <1>2, <1>3, <1>4 DEF Filling, AtBroker

\* A reservation: the row was one that may be replaced, so nothing is alive on
\* its leg and nobody else is waiting for the broker there.
LEMMA ReserveCore ==
    ASSUME TypeOK, JobOK, ReviewOK, Core, NEW p \in Procs, Reserve(p)
    PROVE  Core'
<1> USE DEF Live, LiveState, Observable, Holds, OnlyLive
<1>1. PICK l \in job[p].todo :
         /\ CanReserve(p, l)
         /\ rec' = [rec EXCEPT ![l] = Preserve(rec[l], "pending_submit", job[p].oid, job[p].qty[l])]
         /\ Become(p, [job[p] EXCEPT !.pc = "reserved", !.leg = l, !.todo = @ \ {l}])
  BY DEF Reserve
<1>2. /\ job[p] \in Job /\ l \in Legs /\ job[p].oid \in Oids /\ job[p].pc = "routing"
      /\ rec[l] \in Row /\ UNCHANGED <<ord, seen, feed>>
  BY DEF TypeOK, Job, Reserve
<1> DEFINE j == [job[p] EXCEPT !.pc = "reserved", !.leg = l, !.todo = @ \ {l}]
           r == Preserve(rec[l], "pending_submit", job[p].oid, job[p].qty[l])
<1>3. j.pc = "reserved" /\ j.leg = l /\ j.oid = job[p].oid
  BY <1>2 DEF Job
<1>4. /\ job'[p].pc = "reserved" /\ job'[p].leg = l /\ job'[p].oid = job[p].oid
      /\ \A q \in Procs \ {p} : job'[q] = job[q]
  <2>1. job'[p] = j /\ \A q \in Procs \ {p} : job'[q] = job[q]
    BY <1>1 DEF Become, TypeOK
  <2> QED
    BY <1>3, <2>1
<1> HIDE DEF j
<1>5. rec'[l] = r /\ \A k \in Legs \ {l} : rec'[k] = rec[k]
  BY <1>1, <1>2 DEF TypeOK
<1>6. ~Open(l) /\ rec[l].filled = 0
  BY <1>1, <1>2 DEF CanReserve, Reroutable, Open, Failed, Core, EmptyRow
<1>7. r.status = "pending_submit" /\ r.oid = job[p].oid
      /\ (r.obs.state # "none" => rec[l].obs.state # "none")
  BY <1>2, <1>6 DEF Preserve, Row, NoObs
<1> HIDE DEF r
<1>17. \A q \in Procs : \A k \in Legs : Holds(q, k)' =>
          (q = p /\ k = l) \/ (q # p /\ Holds(q, k) /\ job'[q] = job[q])
  BY <1>2, <1>4
<1>8. \A o \in Oids : ord[o].state \in LiveState => ord[o].leg # l
  BY <1>6 DEF Core, LiveIsOpen, Open
<1>9. \A q \in Procs : Holds(q, l) => q # "app" /\ Observable(job[q].oid)
  BY <1>2, <1>6 DEF Core, Held, Open
<1>10. OrderOK' /\ SingleLiveOrder'
  BY <1>2 DEF Core, OrderOK, SingleLiveOrder
<1>11. EmptyRow'
  BY <1>2, <1>5, <1>7 DEF Core, EmptyRow
<1>12. LiveIsOpen'
  BY <1>2, <1>5, <1>7 DEF Core, LiveIsOpen, Open, Failed, OrderOK
<1>13. Held'
  <2> SUFFICES ASSUME NEW k \in Legs, NEW q \in Procs, Holds(q, k)'
      PROVE  /\ q = "app" => Open(k)' /\ (rec'[k].obs.state # "none" => rec'[k].oid = job'[q].oid)
             /\ ~Observable(job[q].oid)' =>
                   /\ Open(k)' /\ OnlyLive(k, job[q].oid)'
                   /\ q # "app" => rec'[k].oid = job'[q].oid
             /\ job'[q].pc = "outcome" /\ job'[q].result = "rejected" =>
                   ord'[job'[q].oid].state = "refused"
    BY DEF Held
  <2>1. CASE q = p
    <3>1. k = l /\ job'[q].oid = job[p].oid /\ job'[q].pc = "reserved" /\ Open(k)'
      BY <1>4, <1>5, <1>7, <2>1 DEF Open, Failed
    <3>2. OnlyLive(k, job[q].oid)'
      BY <1>2, <1>8, <3>1
    <3> QED
      BY <1>5, <1>7, <3>1, <3>2
  <2>2. CASE q # p /\ k # l
    BY <1>2, <1>4, <1>5, <2>2 DEF Core, Held, Open
  <2>3. CASE q # p /\ k = l
    <3>1. Holds(q, l) /\ job'[q] = job[q] /\ q # "app" /\ Observable(job[q].oid)
      BY <1>9, <1>17, <2>3
    <3>2. job[q].pc = "outcome" /\ job[q].result = "rejected" => ord[job[q].oid].state = "refused"
      BY <1>2, <3>1 DEF Core, Held
    <3> QED
      BY <1>2, <3>1, <3>2
  <2> QED
    BY <2>1, <2>2, <2>3
<1>14. HeldOnce'
  <2> SUFFICES ASSUME NEW k \in Legs, NEW q1 \in Procs, NEW q2 \in Procs, q1 # q2, q2 # "app",
                      Holds(q1, k)', Holds(q2, k)'
      PROVE  Observable(job[q2].oid)'
    BY DEF HeldOnce
  <2>1. CASE q1 # p /\ q2 # p
    BY <1>2, <1>4, <2>1 DEF Core, HeldOnce
  <2>2. CASE q1 = p
    BY <1>2, <1>9, <1>17, <2>2
  <2>3. CASE q2 = p
    <3>1. q1 = "app" /\ k = l /\ Holds(q1, l)
      BY <1>17, <2>3, ProcsAssumption
    <3> QED
      BY <1>9, <3>1
  <2> QED
    BY <2>1, <2>2, <2>3
<1>15. Snapshot'
  <2> SUFFICES ASSUME NEW k \in Legs, seen'[k] # NoRow
      PROVE  /\ seen'[k].oid \in Oids /\ Observable(seen[k].oid)' /\ ord'[seen'[k].oid].leg = k
             /\ seen'[k].state = "cancelled" => ord'[seen'[k].oid].state = "cancelled"
             /\ rec'[k].oid = seen'[k].oid => OnlyLive(k, seen[k].oid)'
             /\ \A q \in Procs : Holds(q, k)' /\ job'[q].oid = seen'[k].oid =>
                   OnlyLive(k, seen[k].oid)'
    BY DEF Snapshot
  <2>1. CASE k = l
    BY <1>2, <1>8, <2>1 DEF Core, Snapshot
  <2>2. CASE k # l
    <3>1. \A q \in Procs : Holds(q, k)' => Holds(q, k) /\ job'[q] = job[q]
      BY <1>17, <2>2
    <3> QED
      BY <1>2, <1>5, <2>2, <3>1 DEF Core, Snapshot
  <2> QED
    BY <2>1, <2>2
<1>16. Tracked'
  BY <1>2, <1>5, <1>8 DEF Core, Tracked
<1> QED
  BY <1>10, <1>11, <1>12, <1>13, <1>14, <1>15, <1>16 DEF Core

\* An order goes out: its leg had no other live order, and its row says so.
LEMMA SendCore ==
    ASSUME TypeOK, JobOK, ReviewOK, Core, NEW p \in Procs, Send(p)
    PROVE  Core'
<1> USE DEF Live, LiveState, Observable, Holds, OnlyLive
<1> DEFINE l == job[p].leg
           o == job[p].oid
           j == [job[p] EXCEPT !.pc = "waiting"]
<1>1. /\ job[p] \in Job /\ l \in Legs /\ o \in Oids /\ job[p].pc = "reserved" /\ Become(p, j)
      /\ UNCHANGED <<rec, seen, feed>>
  BY DEF TypeOK, JobOK, JobFits, Send
<1>2. j \in Job /\ j.pc = "waiting" /\ j.leg = l /\ j.oid = o
  BY <1>1 DEF Job
<1>3. CASE UNCHANGED ord
  <2>1. OrdersEvolve /\ RowsStay
    BY <1>1, <1>3, Standstill
  <2>2. JobsRelease
    BY <1>1, <1>2, <2>1, JobMoves DEF Core
  <2> QED
    BY <1>1, <2>1, <2>2, Quiet
<1>4. CASE ~UNCHANGED ord
  <2>1. /\ ord[o].state = "unused"
        /\ ord' = [ord EXCEPT ![o] = [Unused EXCEPT !.leg = l, !.state = "transit",
                                                    !.qty = job[p].qty[l]]]
    BY <1>4 DEF Send
  <2>2. /\ ord'[o].state = "transit" /\ ord'[o].leg = l
        /\ \A k \in Oids \ {o} : ord'[k] = ord[k]
    BY <1>1, <2>1 DEF TypeOK, Unused
  <2>3. /\ job'[p].pc = "waiting" /\ job'[p].leg = l /\ job'[p].oid = o
        /\ \A q \in Procs \ {p} : job'[q] = job[q]
    <3>1. job'[p] = j /\ \A q \in Procs \ {p} : job'[q] = job[q]
      BY <1>1 DEF Become, TypeOK
    <3> QED
      BY <1>2, <3>1
  <2> HIDE DEF j
  <2>14. \A q \in Procs : \A k \in Legs : Holds(q, k)' =>
            /\ Holds(q, k) /\ job'[q].oid = job[q].oid /\ job[q].oid \in Oids
            /\ (q # p => job'[q] = job[q]) /\ (q = p => k = l /\ job'[q].pc = "waiting")
    BY <1>1, <2>3 DEF JobOK, JobFits
  <2>4. Open(l) /\ OnlyLive(l, o) /\ (p # "app" => rec[l].oid = o)
        /\ (p = "app" /\ rec[l].obs.state # "none" => rec[l].oid = o)
    BY <1>1, <2>1 DEF Core, Held
  <2>5. ASSUME NEW q \in Procs, Holds(q, l) PROVE q = p \/ Observable(job[q].oid)
    <3>1. CASE q # p /\ q # "app"
      BY <1>1, <2>5, <3>1 DEF Core, HeldOnce
    <3>2. CASE q = "app" /\ q # p
      BY <1>1, <2>1, <2>5, <3>2 DEF Core, HeldOnce
    <3> QED
      BY <3>1, <3>2
  <2>6. OrderOK'
    BY <1>1, <2>2 DEF Core, OrderOK
  <2>7. EmptyRow'
    BY <1>1, <2>2, <2>4 DEF Core, EmptyRow, Open
  <2>8. LiveIsOpen'
    BY <1>1, <2>2, <2>4 DEF Core, LiveIsOpen, Open
  <2>9. SingleLiveOrder'
    BY <2>2, <2>4 DEF Core, SingleLiveOrder
  <2>10. Held'
    <3> SUFFICES ASSUME NEW k \in Legs, NEW q \in Procs, Holds(q, k)'
        PROVE  /\ q = "app" => Open(k)' /\ (rec'[k].obs.state # "none" => rec'[k].oid = job'[q].oid)
               /\ ~Observable(job[q].oid)' =>
                     /\ Open(k)' /\ OnlyLive(k, job[q].oid)'
                     /\ q # "app" => rec'[k].oid = job'[q].oid
               /\ job'[q].pc = "outcome" /\ job'[q].result = "rejected" =>
                     ord'[job'[q].oid].state = "refused"
      BY DEF Held
    <3>1. Holds(q, k) /\ job'[q].oid = job[q].oid /\ job[q].oid \in Oids
          /\ (q # p => job'[q] = job[q]) /\ (q = p => k = l /\ job'[q].pc = "waiting")
      BY <2>14
    <3>2. q = "app" => Open(k)' /\ (rec'[k].obs.state # "none" => rec'[k].oid = job'[q].oid)
      BY <1>1, <3>1 DEF Core, Held, Open
    <3>3. ~Observable(job[q].oid)' => ~Observable(job[q].oid)
      BY <2>1, <2>2, <3>1
    <3>4. ~Observable(job[q].oid)' => Open(k)' /\ (q # "app" => rec'[k].oid = job'[q].oid)
      BY <1>1, <3>1, <3>3 DEF Core, Held, Open
    <3>5. ~Observable(job[q].oid)' => OnlyLive(k, job[q].oid)'
      <4>1. CASE k = l
        BY <2>2, <2>4, <2>5, <3>1, <3>3, <4>1
      <4>2. CASE k # l
        <5>1. ~Observable(job[q].oid)' => OnlyLive(k, job[q].oid)
          BY <3>1, <3>3 DEF Core, Held
        <5> QED
          BY <2>2, <3>1, <4>2, <5>1
      <4> QED
        BY <4>1, <4>2
    <3>6. job'[q].pc = "outcome" /\ job'[q].result = "rejected" => ord'[job'[q].oid].state = "refused"
      <4>1. CASE q = p
        BY <3>1, <4>1
      <4>2. CASE q # p
        <5>1. job'[q].pc = "outcome" /\ job'[q].result = "rejected" => ord[job[q].oid].state = "refused"
          BY <3>1, <4>2 DEF Core, Held
        <5> QED
          BY <2>1, <2>2, <3>1, <5>1
      <4> QED
        BY <4>1, <4>2
    <3> QED
      BY <3>2, <3>4, <3>5, <3>6
  <2>11. HeldOnce'
    <3> SUFFICES ASSUME NEW k \in Legs, NEW q1 \in Procs, NEW q2 \in Procs, q1 # q2, q2 # "app",
                        Holds(q1, k)', Holds(q2, k)'
        PROVE  Observable(job[q2].oid)'
      BY DEF HeldOnce
    <3>1. Holds(q1, k) /\ Holds(q2, k) /\ job'[q2].oid = job[q2].oid /\ job[q2].oid \in Oids
      BY <2>14
    <3>2. Observable(job[q2].oid)
      BY <3>1 DEF Core, HeldOnce
    <3> QED
      BY <2>1, <2>2, <3>1, <3>2
  <2>12. Snapshot'
    <3> SUFFICES ASSUME NEW k \in Legs, seen'[k] # NoRow
        PROVE  /\ seen'[k].oid \in Oids /\ Observable(seen[k].oid)' /\ ord'[seen'[k].oid].leg = k
               /\ seen'[k].state = "cancelled" => ord'[seen'[k].oid].state = "cancelled"
               /\ rec'[k].oid = seen'[k].oid => OnlyLive(k, seen[k].oid)'
               /\ \A q \in Procs : Holds(q, k)' /\ job'[q].oid = seen'[k].oid =>
                     OnlyLive(k, seen[k].oid)'
      BY DEF Snapshot
    <3>1. /\ seen'[k] = seen[k] /\ seen[k].oid \in Oids /\ Observable(seen[k].oid)
          /\ seen[k].oid # o
      BY <1>1, <2>1 DEF Core, Snapshot
    <3>2. p # "app" /\ \A q \in Procs : Holds(q, l) => q = p
      BY <1>1, <3>1, ProcsAssumption DEF ReviewOK
    <3>3. Observable(seen[k].oid)' /\ ord'[seen'[k].oid].leg = k
          /\ (seen'[k].state = "cancelled" => ord'[seen'[k].oid].state = "cancelled")
      BY <1>1, <2>2, <3>1 DEF Core, Snapshot
    <3>4. rec'[k].oid = seen'[k].oid => OnlyLive(k, seen[k].oid)'
      BY <1>1, <2>2, <2>4, <3>1, <3>2 DEF Core, Snapshot
    <3>5. ASSUME NEW q \in Procs, Holds(q, k)', job'[q].oid = seen'[k].oid
          PROVE  OnlyLive(k, seen[k].oid)'
      <4>1. Holds(q, k) /\ job'[q].oid = job[q].oid /\ q # p
        <5>1. Holds(q, k) /\ job'[q].oid = job[q].oid
          BY <2>14, <3>5
        <5>2. q # p
          BY <2>3, <3>1, <3>5
        <5> QED
          BY <5>1, <5>2
      <4>2. k # l
        BY <3>2, <4>1
      <4>3. OnlyLive(k, seen[k].oid)
        <5>1. Holds(q, k) /\ job[q].oid = seen[k].oid /\ seen[k] # NoRow
          BY <3>1, <3>5, <4>1
        <5>2. Snapshot
          BY DEF Core
        <5> HIDE DEF Holds, OnlyLive, Observable, Live, LiveState
        <5> QED
          BY <5>1, <5>2 DEF Snapshot
      <4> QED
        BY <2>2, <3>1, <4>2, <4>3
    <3> QED
      BY <3>1, <3>3, <3>4, <3>5
  <2>13. Tracked'
    BY <1>1, <2>2, <2>4 DEF Core, Tracked
  <2> QED
    BY <2>6, <2>7, <2>8, <2>9, <2>10, <2>11, <2>12, <2>13 DEF Core
<1> QED
  BY <1>3, <1>4

\* Saving the outcome of a reservation.  It closes the row of an order that may
\* be alive only if the broker refused it, and then nothing else is alive or
\* still waiting on the leg.
LEMMA SaveCore ==
    ASSUME TypeOK, JobOK, ReviewOK, Core, NEW p \in Procs, SaveOutcome(p)
    PROVE  Core'
<1> USE DEF Live, LiveState, Observable, Holds, OnlyLive
<1>0. PICK l \in Legs, o \in Oids : l = job[p].leg /\ o = job[p].oid
  BY DEF JobOK, JobFits, SaveOutcome
<1> DEFINE r == Preserve(rec[l], job[p].result, o, job[p].qty[l])
<1>1. /\ job[p] \in Job /\ job[p].leg = l /\ job[p].oid = o /\ job[p].pc = "outcome"
      /\ job[p].result \in {"submitted", "pending_submit", "rejected"}
      /\ rec[l] \in Row /\ rec' = [rec EXCEPT ![l] = r] /\ UNCHANGED <<ord, seen, feed>>
  BY <1>0 DEF TypeOK, Job, JobOK, JobFits, SaveOutcome
<1>2. job'[p].pc \in {"idle", "routing"} /\ \A q \in Procs \ {p} : job'[q] = job[q]
  <2>1. CASE job[p].result = "pending_submit"
    <3>1. Become(p, Idle)
      BY <2>1 DEF SaveOutcome, Finish
    <3> QED
      BY <3>1 DEF Become, TypeOK, Idle
  <2>2. CASE job[p].result # "pending_submit"
    <3>1. Become(p, [job[p] EXCEPT !.pc = "routing", !.leg = 0, !.result = "none", !.oid = @ + 1])
      BY <2>2 DEF SaveOutcome
    <3> QED
      BY <1>1, <3>1 DEF Become, TypeOK, Job
  <2> QED
    BY <2>1, <2>2
<1>3. \A q \in Procs : \A k \in Legs : Holds(q, k)' => q # p /\ Holds(q, k) /\ job'[q] = job[q]
  BY <1>2
<1>4. rec'[l] = r /\ \A k \in Legs \ {l} : rec'[k] = rec[k]
  BY <1>1 DEF TypeOK
<1>5. /\ r.oid = o /\ r.status # "none"
      /\ r.obs.state # "none" => rec[l].oid = o /\ rec[l].obs.state # "none"
      /\ r.status \in Failed => rec[l].status \in Failed \/ job[p].result = "rejected"
  BY <1>1 DEF Preserve, Row, NoObs, Core, EmptyRow, Failed
<1> HIDE DEF r
<1>6. job[p].result = "rejected" => ord[o].state = "refused"
  BY <1>1 DEF Core, Held
<1>7. ord[o].state = "refused" => \A k \in Oids : ord[k].state \in LiveState => ord[k].leg # l
  BY <1>1 DEF Core, Held
<1>8. ~Open(l)' => \A k \in Oids : ord[k].state \in LiveState => ord[k].leg # l
  BY <1>1, <1>4, <1>5, <1>6, <1>7 DEF Core, LiveIsOpen, Open
<1>9. ASSUME NEW q \in Procs \ {p}, Holds(q, l)
      PROVE  /\ q # "app" => Observable(job[q].oid)
             /\ q = "app" => Observable(o)
  BY <1>1, <1>9, ProcsAssumption DEF Core, HeldOnce
<1>10. ASSUME NEW q \in Procs \ {p}, Holds(q, l), q = "app" PROVE Open(l)'
  <2>1. Open(l) /\ job[p].result # "rejected"
    BY <1>1, <1>6, <1>9, <1>10 DEF Core, Held
  <2> QED
    BY <1>4, <1>5, <2>1 DEF Open
<1>11. OrderOK' /\ SingleLiveOrder'
  BY <1>1 DEF Core, OrderOK, SingleLiveOrder
<1>12. EmptyRow'
  BY <1>1, <1>4, <1>5 DEF Core, EmptyRow
<1>13. LiveIsOpen'
  BY <1>1, <1>4, <1>8 DEF Core, LiveIsOpen, Open
<1>14. Held'
  <2> SUFFICES ASSUME NEW k \in Legs, NEW q \in Procs, Holds(q, k)'
      PROVE  /\ q = "app" => Open(k)' /\ (rec'[k].obs.state # "none" => rec'[k].oid = job'[q].oid)
             /\ ~Observable(job[q].oid)' =>
                   /\ Open(k)' /\ OnlyLive(k, job[q].oid)'
                   /\ q # "app" => rec'[k].oid = job'[q].oid
             /\ job'[q].pc = "outcome" /\ job'[q].result = "rejected" =>
                   ord'[job'[q].oid].state = "refused"
    BY DEF Held
  <2>1. q # p /\ Holds(q, k) /\ job'[q] = job[q]
    BY <1>3
  <2>2. CASE k # l
    BY <1>1, <1>4, <2>1, <2>2 DEF Core, Held, Open
  <2>3. CASE k = l
    <3>1. q = "app" => Open(k)'
      BY <1>10, <2>1, <2>3
    <3>2. q = "app" /\ rec'[k].obs.state # "none" => rec'[k].oid = job'[q].oid
      BY <1>1, <1>4, <1>5, <2>1, <2>3 DEF Core, Held
    <3>3. ~Observable(job[q].oid)' => q = "app" /\ OnlyLive(k, job[q].oid)'
      BY <1>1, <1>9, <2>1, <2>3 DEF Core, Held
    <3>4. job[q].pc = "outcome" /\ job[q].result = "rejected" => ord[job[q].oid].state = "refused"
      BY <1>1, <2>1, <2>3 DEF Core, Held
    <3> QED
      BY <1>1, <2>1, <3>1, <3>2, <3>3, <3>4
  <2> QED
    BY <2>2, <2>3
<1>15. HeldOnce'
  <2> SUFFICES ASSUME NEW k \in Legs, NEW q1 \in Procs, NEW q2 \in Procs, q1 # q2, q2 # "app",
                      Holds(q1, k)', Holds(q2, k)'
      PROVE  Observable(job[q2].oid)'
    BY DEF HeldOnce
  <2> QED
    BY <1>1, <1>3 DEF Core, HeldOnce
<1>16. Snapshot'
  <2> SUFFICES ASSUME NEW k \in Legs, seen'[k] # NoRow
      PROVE  /\ seen'[k].oid \in Oids /\ Observable(seen[k].oid)' /\ ord'[seen'[k].oid].leg = k
             /\ seen'[k].state = "cancelled" => ord'[seen'[k].oid].state = "cancelled"
             /\ rec'[k].oid = seen'[k].oid => OnlyLive(k, seen[k].oid)'
             /\ \A q \in Procs : Holds(q, k)' /\ job'[q].oid = seen'[k].oid =>
                   OnlyLive(k, seen[k].oid)'
    BY DEF Snapshot
  <2>1. rec'[k].oid = seen[k].oid => OnlyLive(k, seen[k].oid)
    <3>1. CASE k = l
      BY <1>1, <1>4, <1>5, <3>1 DEF Core, Snapshot
    <3>2. CASE k # l
      BY <1>1, <1>4, <3>2 DEF Core, Snapshot
    <3> QED
      BY <3>1, <3>2
  <2>2. ASSUME NEW q \in Procs, Holds(q, k)', job'[q].oid = seen'[k].oid
        PROVE  OnlyLive(k, seen[k].oid)
    <3>1. Holds(q, k) /\ job[q].oid = seen[k].oid
      BY <1>1, <1>3, <2>2
    <3> QED
      BY <1>1, <3>1 DEF Core, Snapshot
  <2> QED
    BY <1>1, <2>1, <2>2 DEF Core, Snapshot
<1>17. Tracked'
  BY <1>1, <1>4, <1>5 DEF Core, Tracked
<1> QED
  BY <1>11, <1>12, <1>13, <1>14, <1>15, <1>16, <1>17 DEF Core

\* What the Gateway snapshot says of a row it matches.
LEMMA MatchedRow ==
    ASSUME TypeOK, Core, NEW l \in Legs, NEW counted \in BOOLEAN, Matched(l)
    PROVE  /\ BrokerRow(l, counted).oid = rec[l].oid
           /\ BrokerRow(l, counted).state = ord[rec[l].oid].state
           /\ rec[l].oid \in Oids /\ Observable(rec[l].oid) /\ ord[rec[l].oid].leg = l
           /\ OnlyLive(l, rec[l].oid)
<1>1. rec[l].oid \in Oids /\ Observable(rec[l].oid) /\ ord[rec[l].oid].leg = l
  BY DEF Matched, Observable
<1>2. OnlyLive(l, rec[l].oid)
  <2>1. CASE rec[l].obs.state # "none"
    BY <2>1 DEF Core, Tracked
  <2>2. CASE rec[l].obs.state = "none"
    BY <1>1, <2>2 DEF Matched, Core, SingleLiveOrder, OnlyLive, Live, LiveState
  <2> QED
    BY <2>1, <2>2
<1> QED
  BY <1>1, <1>2 DEF BrokerRow

\* Taking a snapshot.
LEMMA OpenCore ==
    ASSUME TypeOK, JobOK, ReviewOK, Core,
           OpenSync \/ \E l \in Legs : OpenCancel(l) \/ OpenAmend(l)
    PROVE  Core'
<1>1. "app" \in Procs /\ job["app"].pc = "idle" /\ UNCHANGED <<ord, rec, feed>>
  BY DEF OpenSync, OpenCancel, OpenAmend
<1>2. PICK pc \in {"syncing", "reviewed"} : Become("app", [Idle EXCEPT !.pc = pc])
  BY DEF OpenSync, OpenCancel, OpenAmend
<1>3. OrdersEvolve /\ RowsStay
  BY <1>1, Standstill
<1>4. JobsRelease
  <2> DEFINE j == [Idle EXCEPT !.pc = pc]
  <2>1. j \in Job /\ j.pc \in {"syncing", "reviewed"} /\ Held
    BY NullTypes DEF Job, Core
  <2> QED
    BY <1>1, <1>2, <1>3, <2>1, JobMoves
<1>5. ASSUME NEW k \in Legs, seen'[k] # NoRow
      PROVE  Matched(k) /\ \E counted \in BOOLEAN : seen'[k] = BrokerRow(k, counted)
  <2>1. CASE OpenSync
    BY <1>5, <2>1 DEF OpenSync
  <2>2. ASSUME NEW l \in Legs, OpenCancel(l) \/ OpenAmend(l)
        PROVE  Matched(k) /\ \E counted \in BOOLEAN : seen'[k] = BrokerRow(k, counted)
    <3>1. seen[k] = NoRow
      BY <1>1 DEF ReviewOK
    <3>2. Matched(l) /\ \E counted \in BOOLEAN : seen' = [seen EXCEPT ![l] = BrokerRow(l, counted)]
      BY <2>2 DEF OpenCancel, OpenAmend, MayManage
    <3> QED
      BY <1>5, <3>1, <3>2 DEF TypeOK
  <2> QED
    BY <2>1, <2>2
<1>6. Snapshot'
  <2> SUFFICES ASSUME NEW k \in Legs, seen'[k] # NoRow
      PROVE  /\ seen'[k].oid \in Oids /\ Observable(seen[k].oid)' /\ ord'[seen'[k].oid].leg = k
             /\ seen'[k].state = "cancelled" => ord'[seen'[k].oid].state = "cancelled"
             /\ OnlyLive(k, seen[k].oid)'
    BY DEF Snapshot
  <2>1. PICK counted \in BOOLEAN : Matched(k) /\ seen'[k] = BrokerRow(k, counted)
    BY <1>5
  <2>2. /\ seen'[k].oid = rec[k].oid /\ seen'[k].state = ord[rec[k].oid].state
        /\ rec[k].oid \in Oids /\ Observable(rec[k].oid) /\ ord[rec[k].oid].leg = k
        /\ OnlyLive(k, rec[k].oid)
    BY <2>1, MatchedRow
  <2> QED
    BY <1>1, <2>2 DEF Observable, OnlyLive, Live
<1>7. OrderOK' /\ EmptyRow' /\ LiveIsOpen' /\ Held' /\ HeldOnce' /\ Tracked' /\ SingleLiveOrder'
  BY <1>3, <1>4, QuietStep
<1> QED
  BY <1>6, <1>7 DEF Core

\* Applying a snapshot row closes the row only for a cancelled order, and then
\* nothing is alive on the leg and nobody waits there for the broker.
LEMMA ApplyCore ==
    ASSUME TypeOK, JobOK, ReviewOK, Core, NEW l \in Legs, ApplyObservation(l)
    PROVE  Core'
<1> USE DEF Live, LiveState, Observable, Holds, OnlyLive
<1> DEFINE r == IF rec[l].oid = seen[l].oid THEN Observed(rec[l], seen[l]) ELSE rec[l]
<1>1. /\ "app" \in Procs /\ job["app"].pc = "syncing" /\ seen[l] # NoRow
      /\ rec[l] \in Row /\ seen[l] \in Seen /\ UNCHANGED <<ord, job, feed>>
  BY DEF ApplyObservation, TypeOK
<1>2. rec'[l] = r /\ \A k \in Legs \ {l} : rec'[k] = rec[k]
  BY DEF ApplyObservation, TypeOK
<1>3. seen'[l] = NoRow /\ \A k \in Legs \ {l} : seen'[k] = seen[k]
  BY DEF ApplyObservation, TypeOK
<1>4. /\ r.oid = rec[l].oid /\ r.filled = rec[l].filled
      /\ r.obs.state # "none" => rec[l].obs.state # "none" \/ rec[l].oid = seen[l].oid
      /\ r.status = "none" => rec[l].status = "none"
      /\ r.status \in Failed => rec[l].status \in Failed
            \/ (rec[l].oid = seen[l].oid /\ seen[l].state = "cancelled")
  BY <1>1 DEF Observed, Row, Seen, Failed
<1> HIDE DEF r
<1>5. /\ seen[l].state = "cancelled" => ord[seen[l].oid].state = "cancelled"
      /\ rec[l].oid = seen[l].oid => OnlyLive(l, seen[l].oid)
      /\ Observable(seen[l].oid)
  BY <1>1 DEF Core, Snapshot
<1>6. ~Open(l)' => ~Open(l) \/ (rec[l].oid = seen[l].oid /\ ord[seen[l].oid].state = "cancelled")
  BY <1>2, <1>4, <1>5 DEF Open
<1>7. ~Open(l)' => \A k \in Oids : ord[k].state \in LiveState => ord[k].leg # l
  BY <1>5, <1>6 DEF Core, LiveIsOpen, Open
<1>8. OrderOK' /\ SingleLiveOrder'
  BY <1>1 DEF Core, OrderOK, SingleLiveOrder
<1>9. EmptyRow'
  BY <1>1, <1>2, <1>4 DEF Core, EmptyRow
<1>10. LiveIsOpen'
  <2> SUFFICES ASSUME NEW k \in Oids, ord'[k].state \in LiveState PROVE Open(ord[k].leg)'
    BY DEF LiveIsOpen
  <2>1. ord[k].state \in LiveState /\ ord'[k].leg = ord[k].leg /\ ord[k].leg \in Legs
    BY <1>1 DEF Core, OrderOK
  <2>2. Open(ord[k].leg)
    BY <2>1 DEF Core, LiveIsOpen
  <2>3. CASE ord[k].leg = l
    <3>1. Open(l)'
      BY <1>7, <2>1, <2>3
    <3> QED
      BY <2>1, <2>3, <3>1 DEF Open
  <2>4. CASE ord[k].leg # l
    BY <1>2, <2>1, <2>2, <2>4 DEF Open
  <2> QED
    BY <2>3, <2>4
<1>11. ASSUME NEW k \in Legs, NEW q \in Procs, Holds(q, k)
       PROVE  /\ q = "app" => Open(k)' /\ (rec'[k].obs.state # "none" => rec'[k].oid = job'[q].oid)
              /\ ~Observable(job[q].oid)' =>
                    /\ Open(k)' /\ OnlyLive(k, job[q].oid)'
                    /\ q # "app" => rec'[k].oid = job'[q].oid
              /\ job'[q].pc = "outcome" /\ job'[q].result = "rejected" =>
                    ord'[job'[q].oid].state = "refused"
  <2>1. CASE k # l
    BY <1>1, <1>2, <1>11, <2>1 DEF Core, Held, Open
  <2>2. CASE k = l
    <3>1. q # "app"
      BY <1>1, <1>11
    <3>2. ~Observable(job[q].oid) => Open(l) /\ OnlyLive(l, job[q].oid) /\ rec[l].oid = job[q].oid
      <4>1. Held /\ Holds(q, l)
        BY <1>11, <2>2 DEF Core
      <4> HIDE DEF Holds, OnlyLive, Observable, Live
      <4> QED
        BY <3>1, <4>1 DEF Held
    <3>3. ~Observable(job[q].oid) => Open(l)'
      BY <1>5, <1>6, <3>2
    <3>4. job[q].pc = "outcome" /\ job[q].result = "rejected" => ord[job[q].oid].state = "refused"
      BY <1>11, <2>2 DEF Core, Held
    <3> QED
      BY <1>1, <1>2, <1>4, <2>2, <3>1, <3>2, <3>3, <3>4
  <2> QED
    BY <2>1, <2>2
<1>12. Held'
  BY <1>1, <1>11 DEF Held
<1>13. HeldOnce'
  BY <1>1 DEF Core, HeldOnce
<1>14. Snapshot'
  BY <1>1, <1>2, <1>3 DEF Core, Snapshot
<1>15. Tracked'
  BY <1>1, <1>2, <1>4, <1>5 DEF Core, Tracked
<1> QED
  BY <1>8, <1>9, <1>10, <1>12, <1>13, <1>14, <1>15 DEF Core

\* The claim of a reviewed action takes its observation from the snapshot.
LEMMA ClaimCore ==
    ASSUME TypeOK, JobOK, ReviewOK, Core, Claim
    PROVE  Core'
<1>1. /\ "app" \in Procs /\ job["app"].pc = "reviewed" /\ UNCHANGED <<ord, feed>>
      /\ Become("app", [job["app"] EXCEPT !.pc = "claimed"])
  BY DEF Claim
<1>2. PICK l \in Legs : l = review.leg
  BY <1>1 DEF ReviewOK
<1>3. /\ rec[l] = review.row /\ seen[l] # NoRow /\ seen[l].oid = rec[l].oid
      /\ \A k \in Legs : seen'[k] \in {seen[k], NoRow}
  BY <1>1, <1>2 DEF Claim, ReviewOK, TypeOK
<1>4. /\ rec'[l].status = rec[l].status /\ rec'[l].oid = rec[l].oid
      /\ rec'[l].filled = rec[l].filled
      /\ \A k \in Legs \ {l} : rec'[k] = rec[k]
  BY <1>2 DEF Claim, TypeOK, Row
<1>5. OnlyLive(l, rec[l].oid)
  BY <1>3 DEF Core, Snapshot
<1>6. OrdersEvolve
  BY <1>1, Standstill
<1>7. JobsRelease
  <2> DEFINE j == [job["app"] EXCEPT !.pc = "claimed"]
  <2>1. job["app"] \in Job /\ Held
    BY <1>1 DEF TypeOK, Core
  <2>2. j \in Job /\ j.pc = "claimed"
    BY <2>1 DEF Job
  <2> QED
    BY <1>1, <1>6, <2>1, <2>2, JobMoves
<1>8. RowsStay
  <2> SUFFICES ASSUME NEW k \in Legs PROVE RowStays(k)
    BY DEF RowsStay
  <2>1. rec[k].status = "none" => feed'[k] = NoFeed
    BY <1>1 DEF Core, EmptyRow
  <2>2. CASE k = l
    <3>1. \A p \in Procs : Holds(p, l) => p # "app"
      BY <1>1 DEF Holds
    <3> QED
      BY <1>4, <1>5, <2>1, <2>2, <3>1 DEF RowStays
  <2>3. CASE k # l
    BY <1>4, <2>1, <2>3, SameRow
  <2> QED
    BY <2>2, <2>3
<1> QED
  BY <1>3, <1>6, <1>7, <1>8, Quiet

\* Before anything is routed the safety part of the invariant holds.
LEMMA CoreInit == Init => Core
<1> SUFFICES ASSUME Init PROVE Core
  OBVIOUS
<1>1. /\ \A o \in Oids : ord[o].state = "unused" /\ ord[o].leg \notin Legs
      /\ \A l \in Legs : rec[l] = NoRecord /\ feed[l] = NoFeed /\ seen[l] = NoRow
      /\ \A p \in Procs : job[p].pc = "idle"
  BY DEF Init, Unused, Idle, Legs
<1> QED
  BY <1>1 DEF Core, OrderOK, EmptyRow, LiveIsOpen, Held, HeldOnce, Snapshot, Tracked,
     SingleLiveOrder, Live, LiveState, Holds, NoRecord, NoObs, OnlyLive

\* Every step of Next preserves the safety part of the invariant.
LEMMA CoreStep ==
    ASSUME IInv, [Next]_vars
    PROVE  IInv'
<1> USE DEF IInv
<1>1. TypeOK' /\ JobOK' /\ ReviewOK'
  BY TypeStep
<1>2. Core'
  <2>1. CASE UNCHANGED vars
    <3>1. UNCHANGED <<rec, ord, job, seen, feed>>
      BY <2>1 DEF vars
    <3> QED
      BY <3>1, Standstill, Quiet
  <2>2. ASSUME NEW p \in Procs, Routing(p) PROVE Core'
    BY <2>2, RoutingQuiet, ReserveCore, SendCore, SaveCore DEF Routing
  <2>3. CASE Managing
    BY <2>3, ManagingQuiet, OpenCore, ApplyCore, ClaimCore DEF Managing
  <2>4. CASE Expiring \/ DropSession
    BY <2>4, ManagingQuiet DEF Expiring
  <2>5. CASE Filling \/ AtBroker \/ \E p \in Procs : Crash(p)
    BY <2>5, BrokerQuiet
  <2> QED
    BY <2>1, <2>2, <2>3, <2>4, <2>5 DEF Next
<1> QED
  BY <1>1, <1>2

\* However claims, resubmissions, crashes and late saves of the processes
\* interleave, one order intent never has two orders alive at the broker.
THEOREM SingleLive == Spec => []SingleLiveOrder
<1>1. Init => IInv
  BY TypeInit, CoreInit DEF IInv
<1>2. IInv /\ [Next]_vars => IInv'
  BY CoreStep
<1>3. IInv => SingleLiveOrder
  BY DEF IInv, Core
<1> QED
  BY <1>1, <1>2, <1>3, PTL DEF Spec

\* While an order is alive at the broker, its row never says that there is none or
\* that it was cancelled or rejected, so its leg is neither retryable nor expirable
\* (all of ClosedRowNotLive but that the row does not say filled).
THEOREM LiveLegIsHeld == Spec => []LiveIsOpen
<1>1. Init => IInv
  BY TypeInit, CoreInit DEF IInv
<1>2. IInv /\ [Next]_vars => IInv'
  BY CoreStep
<1>3. IInv => LiveIsOpen
  BY DEF IInv, Core
<1> QED
  BY <1>1, <1>2, <1>3, PTL DEF Spec

--------------------------------------------------------------------------------
(* What is recorded stays recorded. *)

\* One row against the same row later.
Keeps(r, s) == s.filled >= r.filled /\ (r.issue => s.issue)

\* Neither a row computed before an order was sent nor an observation touches the
\* executions of the stored row; a merge only adds to them.
LEMMA WritersKeep ==
    ASSUME NEW r \in Row
    PROVE  /\ Keeps(r, r)
           /\ \A status, oid, qty : Keeps(r, Preserve(r, status, oid, qty))
           /\ \A s : Keeps(r, Observed(r, s))
           /\ \A f \in Feed : Keeps(r, Merged(r, f))
<1>1. Keeps(r, r)
  BY DEF Keeps, Row
<1>2. ASSUME NEW status, NEW oid, NEW qty PROVE Keeps(r, Preserve(r, status, oid, qty))
  BY DEF Keeps, Preserve, Row
<1>3. ASSUME NEW s PROVE Keeps(r, Observed(r, s))
  BY DEF Keeps, Observed, Row
<1>4. ASSUME NEW f \in Feed PROVE Keeps(r, Merged(r, f))
  BY DEF Keeps, Merged, Conflicting, Row, Feed
<1> QED
  BY <1>1, <1>2, <1>3, <1>4

\* Every step writes a row by one of the writers or leaves it as it is.
LEMMA RowsKept ==
    ASSUME TypeOK, [Next]_vars, NEW l \in Legs
    PROVE  Keeps(rec[l], rec'[l])
<1> USE DEF TypeOK
<1>1. rec[l] \in Row /\ feed[l] \in Feed
  OBVIOUS
<1>2. CASE rec' = rec
  BY <1>1, <1>2, WritersKeep
<1>3. ASSUME NEW p \in Procs, Reserve(p) PROVE Keeps(rec[l], rec'[l])
  <2>1. PICK k \in Legs :
          rec' = [rec EXCEPT ![k] = Preserve(rec[k], "pending_submit", job[p].oid, job[p].qty[k])]
    BY <1>3 DEF Reserve, Job
  <2> QED
    BY <1>1, <2>1, WritersKeep
<1>4. ASSUME NEW p \in Procs, SaveOutcome(p) PROVE Keeps(rec[l], rec'[l])
  <2> DEFINE k == job[p].leg
  <2>1. rec' = [rec EXCEPT ![k] = Preserve(rec[k], job[p].result, job[p].oid, job[p].qty[k])]
    BY <1>4 DEF SaveOutcome
  <2> QED
    BY <1>1, <2>1, WritersKeep
<1>5. ASSUME NEW k \in Legs, ApplyObservation(k) PROVE Keeps(rec[l], rec'[l])
  <2>1. rec'[l] = rec[l] \/ rec'[l] = Observed(rec[l], seen[l])
    BY <1>5 DEF ApplyObservation
  <2> QED
    BY <1>1, <2>1, WritersKeep
<1>6. CASE Claim
  <2>1. rec'[l].filled = rec[l].filled /\ rec'[l].issue = rec[l].issue
    BY <1>1, <1>6 DEF Claim, Row
  <2> QED
    BY <1>1, <2>1 DEF Keeps, Row
<1>7. ASSUME NEW k \in Legs, MergeFills(k) PROVE Keeps(rec[l], rec'[l])
  <2>1. rec'[l] = rec[l] \/ rec'[l] = Merged(rec[l], feed[l])
    BY <1>7 DEF MergeFills
  <2> QED
    BY <1>1, <2>1, WritersKeep
<1>8. CASE UNCHANGED vars
  BY <1>2, <1>8 DEF vars
<1>9. ASSUME NEW p \in Procs, Routing(p) \/ Crash(p) PROVE Keeps(rec[l], rec'[l])
  <2>1. Validate(p) => rec' = rec
    BY Zenon DEF Validate
  <2>2. Connect(p) => rec' = rec
    BY Zenon DEF Connect
  <2>3. ConnectFails(p) => rec' = rec
    BY Zenon DEF ConnectFails
  <2>4. ReserveRefused(p) \/ BatchDone(p) => rec' = rec
    BY DEF ReserveRefused, BatchDone
  <2>5. Send(p) \/ Acknowledged(p) \/ DefinitelyRejected(p) \/ Uncertain(p) \/ Crash(p) => rec' = rec
    BY DEF Send, Acknowledged, DefinitelyRejected, Uncertain, Crash
  <2> QED
    BY <1>2, <1>3, <1>4, <1>9, <2>1, <2>2, <2>3, <2>4, <2>5 DEF Routing
<1>10. CASE Managing
  <2>1. OpenSync \/ CloseSync \/ ReviewStale => rec' = rec
    BY DEF OpenSync, CloseSync, ReviewStale
  <2>2. Change \/ RetryRoute => rec' = rec
    BY DEF Change, RetryRoute
  <2>3. ASSUME NEW k \in Legs, OpenCancel(k) \/ OpenAmend(k) \/ OpenResubmit(k) PROVE rec' = rec
    BY <2>3 DEF OpenCancel, OpenAmend, OpenResubmit
  <2> QED
    BY <1>2, <1>5, <1>6, <1>10, <2>1, <2>2, <2>3 DEF Managing
<1>11. CASE Expiring \/ Filling \/ DropSession
  <2>1. DeadlinePasses \/ ExpireClose \/ DropSession => rec' = rec
    BY DEF DeadlinePasses, ExpireClose, DropSession
  <2>2. ExpireScan => rec' = rec
    BY Zenon DEF ExpireScan
  <2>3. ASSUME NEW k \in Legs, ExpireMark(k) PROVE rec' = rec
    BY <2>3 DEF ExpireMark
  <2>4. FetchFills => rec' = rec
    BY Zenon DEF FetchFills
  <2> QED
    BY <1>2, <1>7, <1>11, <2>1, <2>2, <2>3, <2>4 DEF Expiring, Filling
<1>12. CASE AtBroker
  BY <1>2, <1>12 DEF AtBroker, BrokerAccepts, BrokerRefuses, BrokerFills, BrokerCancels, BrokerAmends,
     BrokerCorrects, Broker
<1> QED
  BY <1>8, <1>9, <1>10, <1>11, <1>12 DEF Next

\* No write of any process, however old the row it was computed from, takes recorded
\* executions or a durable execution issue away again (preserve_execution_evidence).
THEOREM EvidenceKept == Spec => EvidenceNeverErased
<1>1. TypeOK /\ [Next]_vars =>
        [\A l \in Legs : /\ rec'[l].filled >= rec[l].filled
                         /\ rec[l].issue => rec'[l].issue]_vars
  BY RowsKept DEF Keeps
<1> QED
  BY <1>1, TypeCorrect, PTL DEF Spec, EvidenceNeverErased

--------------------------------------------------------------------------------
(* Executions and terms: what a leg executes over all its attempts. *)

\* The order can still execute, or has executed.
Busy(o) == Live(o) \/ ord[o].done > 0
OnlyBusy(l, o) == \A k \in Oids : Busy(k) /\ ord[k].leg = l => k = o
NoneBusy(l) == \A k \in Oids : Busy(k) => ord[k].leg # l
SingleBusy ==
    \A o1, o2 \in Oids : Busy(o1) /\ Busy(o2) /\ ord[o1].leg = ord[o2].leg => o1 = o2

\* No order asks for more than was approved, and none for nothing.
OrderSized(o) ==
    /\ ord[o].state # "unused" =>
          /\ 0 < ord[o].qty /\ ord[o].qty <= Approved[ord[o].leg]
          /\ ord[o].ask <= Approved[ord[o].leg]
    /\ ord[o].done <= ord[o].qty
    /\ Live(o) => ord[o].done < ord[o].qty
    /\ ord[o].done > 0 => Observable(o)
    /\ ord[o].state = "filled" => ord[o].done > 0

\* The command-line router never retries with amended terms.
JobSized(p) ==
    \A l \in Legs : /\ 0 < job[p].qty[l] /\ job[p].qty[l] <= Approved[l]
                    /\ p # "app" => job[p].qty[l] = Approved[l]

RowSized(l) ==
    /\ rec[l].status = "none" => rec[l].oid = 0
    /\ rec[l].status # "none" => 0 < rec[l].qty /\ rec[l].qty <= Approved[l]
    /\ rec[l].pending.action = "amend" =>
          0 < rec[l].pending.qty /\ rec[l].pending.qty < rec[l].qty

\* The terms of a live order are those of the row that names it, but for an amendment
\* the row has a claim for.  A late save that put another id on the row put the
\* approved quantity there too.
Agrees(l, o) ==
    IF rec[l].oid # o THEN rec[l].qty = Approved[l]
    ELSE IF rec[l].pending.action = "amend"
    THEN \/ ord[o].qty = rec[l].qty /\ (ord[o].ask = 0 \/ ord[o].ask = rec[l].pending.qty)
         \/ ord[o].qty = rec[l].pending.qty /\ ord[o].ask = 0
    ELSE ord[o].qty = rec[l].qty /\ ord[o].ask = 0

\* Recorded executions happened, and a filled row is at its end; a row that may be
\* replaced has no order that executes or did; what was observed is of the only
\* order that can be busy.
RowHolds(l) ==
    /\ rec[l].filled > 0 => \E o \in Oids : ord[o].leg = l /\ ord[o].done > 0
    /\ rec[l].status = "filled" => rec[l].filled > 0 /\ NoneLive(l)
    /\ Reroutable(rec[l]) => NoneBusy(l)
    /\ rec[l].status \in Failed /\ rec[l].filled = 0 =>
          rec[l].oid \in Oids /\ ord[rec[l].oid].state # "unused"
    /\ rec[l].obs.state # "none" => OnlyBusy(l, rec[l].oid)
    /\ \A o \in Oids : Live(o) /\ ord[o].leg = l => Agrees(l, o)

\* What was fetched happened.
FeedHolds(l) ==
    feed[l] # NoFeed => /\ feed[l].source \in Oids /\ ord[feed[l].source].leg = l
                        /\ 0 < feed[l].n /\ feed[l].n <= ord[feed[l].source].done

\* Nothing but the order in hand is busy on a leg in hand, unless it is the script
\* that holds it and its order has been taken on.  The row of the script names its order
\* while that is alive; the app amends none while it routes.
HandHolds(p, l) ==
    Holds(p, l) =>
        /\ p = "app" \/ ~Observable(job[p].oid) => OnlyBusy(l, job[p].oid)
        /\ Live(job[p].oid) /\ ord[job[p].oid].leg = l =>
              /\ p = "app" => ord[job[p].oid].qty = job[p].qty[l] /\ ord[job[p].oid].ask = 0
              /\ p # "app" => rec[l].oid = job[p].oid
        /\ ord[job[p].oid].state = "unused" =>
              IF rec[l].oid = job[p].oid
              THEN rec[l].qty = job[p].qty[l] /\ rec[l].pending.action = "none"
              ELSE rec[l].qty = Approved[l]

\* A snapshot that says an order ended or was amended is right when it is applied.
SeenHolds(l) ==
    seen[l] # NoRow =>
        /\ seen[l].state # "none"
        /\ seen[l].state = "cancelled" =>
              seen[l].filled = -1 \/ seen[l].filled = ord[seen[l].oid].done
        /\ seen[l].state = "filled" =>
              ord[seen[l].oid].state = "filled" /\ seen[l].filled # 0
        /\ \/ rec[l].oid = seen[l].oid
           \/ \E p \in Procs : Holds(p, l) /\ job[p].oid = seen[l].oid
           => OnlyBusy(l, seen[l].oid)
        /\ rec[l].oid = seen[l].oid =>
              /\ seen[l].state = "cancelling" => Open(l) \/ rec[l].filled > 0
              /\ Live(seen[l].oid) /\ rec[l].pending.action = "amend" =>
                    seen[l].qty = rec[l].qty \/ seen[l].qty = ord[seen[l].oid].qty

\* A reviewed action is about an order of its leg; a claim on a live order holds until
\* the Gateway is asked.
ReviewHolds ==
    "app" \in Procs =>
        /\ job["app"].pc \in {"reviewed", "claimed"} =>
              /\ review.row.oid \in Oids /\ Observable(review.row.oid)
              /\ ord[review.row.oid].leg = review.leg
              /\ review.action \in {"cancel", "amend"}
              /\ review.action = "amend" =>
                    /\ 0 < review.qty /\ review.qty < review.row.qty
                    /\ review.row.qty <= Approved[review.leg]
        /\ job["app"].pc = "reviewed" => review.row.pending.action = "none"
        /\ job["app"].pc = "retrying" => review.row.status # "none"
        /\ job["app"].pc = "claimed" /\ rec[review.leg].oid = review.row.oid
              /\ Live(review.row.oid) =>
              /\ rec[review.leg].pending = [action |-> review.action, qty |-> review.qty]
              /\ ord[review.row.oid].qty = rec[review.leg].qty
              /\ ord[review.row.oid].ask = 0

\* The part of the invariant that is about executions and terms
AtBrokerOK == SingleBusy /\ \A o \in Oids : OrderSized(o)
RowsOK == \A l \in Legs : RowSized(l) /\ RowHolds(l) /\ FeedHolds(l)
HandsOK == \A p \in Procs : JobSized(p) /\ \A l \in Legs : HandHolds(p, l)
SeenOK == \A l \in Legs : SeenHolds(l)
Executions == AtBrokerOK /\ RowsOK /\ HandsOK /\ SeenOK /\ ReviewHolds

\* The numbers that are compared are natural.
LEMMA Numbers ==
    ASSUME TypeOK
    PROVE  /\ \A o \in Oids : ord[o].qty \in Nat /\ ord[o].done \in Nat /\ ord[o].ask \in Nat
           /\ \A l \in Legs : /\ rec[l].qty \in Nat /\ rec[l].filled \in Nat
                              /\ rec[l].pending.qty \in Nat /\ rec[l].oid \in 0..MaxOid
                              /\ feed[l].n \in Nat /\ Approved[l] \in Nat \ {0}
           /\ \A p \in Procs : \A l \in Legs : job[p].qty[l] \in Nat
BY DEF TypeOK, Order, Row, Pending, Feed, Job

\* What the broker does to the orders, or a step that leaves them alone.
Proceeds(o) ==
    /\ ord'[o].leg = ord[o].leg
    /\ ord'[o].state = "unused" <=> ord[o].state = "unused"
    /\ Live(o)' => Live(o)
    /\ Observable(o) => Observable(o)'
    /\ ord[o].state \in {"cancelled", "filled"} =>
          ord'[o].state = ord[o].state /\ ord'[o].done = ord[o].done
    /\ ord[o].done <= ord'[o].done
    /\ ord'[o].done > 0 => Busy(o)
    /\ \/ ord'[o].qty = ord[o].qty /\ (ord'[o].ask = ord[o].ask \/ ord'[o].ask = 0)
       \/ ord[o].ask # 0 /\ ord'[o].ask = 0 /\ ord'[o].qty = ord[o].ask
OrdersProceed == \A o \in Oids : Proceeds(o)

\* No process takes a leg into its hands, or another order for one.
HandsKept ==
    \A p \in Procs : \A l \in Legs : Holds(p, l)' =>
        Holds(p, l) /\ job'[p].oid = job[p].oid /\ job'[p].qty = job[p].qty

\* The broker makes nothing busy on a leg that was not.
LEMMA BusyProceeds ==
    ASSUME TypeOK, TypeOK', OrdersProceed
    PROVE  /\ \A o \in Oids : Busy(o)' => Busy(o)
           /\ \A o \in Oids : ord'[o].leg = ord[o].leg
           /\ SingleBusy => SingleBusy'
           /\ \A l \in Legs : \A o : OnlyBusy(l, o) => OnlyBusy(l, o)'
           /\ \A l \in Legs : NoneBusy(l) => NoneBusy(l)'
           /\ \A l \in Legs : NoneLive(l) => NoneLive(l)'
<1>1. \A o \in Oids : (Busy(o)' => Busy(o)) /\ ord'[o].leg = ord[o].leg /\ (Live(o)' => Live(o))
  BY DEF OrdersProceed, Proceeds, Busy
<1>2. SingleBusy => SingleBusy'
  BY <1>1 DEF SingleBusy
<1>3. ASSUME NEW l \in Legs, NEW o, OnlyBusy(l, o) PROVE OnlyBusy(l, o)'
  BY <1>1, <1>3 DEF OnlyBusy
<1>4. ASSUME NEW l \in Legs, NoneBusy(l) PROVE NoneBusy(l)'
  BY <1>1, <1>4 DEF NoneBusy
<1>5. ASSUME NEW l \in Legs, NoneLive(l) PROVE NoneLive(l)'
  BY <1>1, <1>5 DEF NoneLive
<1> QED
  BY <1>1, <1>2, <1>3, <1>4, <1>5

\* While the broker proceeds, the rows that do not change stay true.
LEMMA RowsProceed ==
    ASSUME IInv, IInv', Executions, OrdersProceed, UNCHANGED rec,
           \A l \in Legs : feed'[l] \in {feed[l], NoFeed}
    PROVE  RowsOK'
<1>1. TypeOK /\ TypeOK'
  BY DEF IInv
<1> SUFFICES ASSUME NEW l \in Legs PROVE (RowSized(l) /\ RowHolds(l) /\ FeedHolds(l))'
  BY DEF RowsOK
<1>2. RowSized(l) /\ RowHolds(l) /\ FeedHolds(l)
  BY DEF Executions, RowsOK
<1>9. \A o \in Oids : /\ ord'[o].leg = ord[o].leg /\ ord[o].done <= ord'[o].done
                     /\ ord[o].done \in Nat /\ ord'[o].done \in Nat
  BY <1>1 DEF OrdersProceed, Proceeds, TypeOK, Order
<1>3. RowSized(l)'
  BY <1>2 DEF RowSized
<1>4. FeedHolds(l)'
  <2> SUFFICES ASSUME feed[l] # NoFeed, feed'[l] = feed[l] PROVE FeedHolds(l)'
    BY DEF FeedHolds
  <2>1. feed[l].n \in Nat
    BY <1>1 DEF TypeOK, Feed
  <2> QED
    BY <1>2, <1>9, <2>1 DEF FeedHolds
<1>5. rec[l].filled > 0 => \E o \in Oids : ord'[o].leg = l /\ ord'[o].done > 0
  <2> SUFFICES ASSUME rec[l].filled > 0 PROVE \E o \in Oids : ord'[o].leg = l /\ ord'[o].done > 0
    OBVIOUS
  <2>1. PICK o \in Oids : ord[o].leg = l /\ ord[o].done > 0
    BY <1>2 DEF RowHolds
  <2> QED
    BY <1>9, <2>1
<1>6. ASSUME NEW o \in Oids, Live(o)', ord'[o].leg = l PROVE Agrees(l, o)'
  <2>1. Live(o) /\ ord[o].leg = l /\ Agrees(l, o)
    BY <1>2, <1>6 DEF OrdersProceed, Proceeds, RowHolds
  <2> QED
    BY <2>1 DEF Agrees, OrdersProceed, Proceeds
<1>7. rec[l].oid \in Oids /\ ord[rec[l].oid].state # "unused" => ord'[rec[l].oid].state # "unused"
  BY DEF OrdersProceed, Proceeds
<1>8. RowHolds(l)'
  <2>1. UNCHANGED rec[l]
    OBVIOUS
  <2>2. /\ NoneLive(l) => NoneLive(l)'
        /\ NoneBusy(l) => NoneBusy(l)'
        /\ OnlyBusy(l, rec[l].oid) => OnlyBusy(l, rec[l].oid)'
    BY <1>1, <2>1, BusyProceeds DEF OnlyBusy
  <2> QED
    BY <1>2, <1>5, <1>6, <1>7, <2>2 DEF RowHolds, Reroutable
<1> QED
  BY <1>3, <1>4, <1>8
\* What is in hand stays true while the broker proceeds.
LEMMA HandsProceed ==
    ASSUME IInv, IInv', Executions, OrdersProceed, UNCHANGED rec, HandsKept,
           NEW p \in Procs, NEW l \in Legs
    PROVE  HandHolds(p, l)'
<1>1. TypeOK /\ TypeOK' /\ JobOK
  BY DEF IInv
<1> SUFFICES ASSUME Holds(p, l)' PROVE HandHolds(p, l)'
  BY DEF HandHolds
<1>2. Holds(p, l) /\ job'[p].oid = job[p].oid /\ job'[p].qty = job[p].qty
  BY DEF HandsKept
<1>3. PICK o \in Oids : o = job[p].oid
  BY <1>1, <1>2 DEF Holds, JobOK, JobFits
<1>4. HandHolds(p, l)
  BY DEF Executions, HandsOK
<1>5. Proceeds(o) /\ (OnlyBusy(l, o) => OnlyBusy(l, o)')
  BY <1>1, BusyProceeds DEF OrdersProceed
<1>6. p = "app" \/ ~Observable(o)' => OnlyBusy(l, o)'
  BY <1>2, <1>3, <1>4, <1>5 DEF HandHolds, Proceeds
<1>7. Live(o)' /\ ord'[o].leg = l =>
        /\ p = "app" => ord'[o].qty = job[p].qty[l] /\ ord'[o].ask = 0
        /\ p # "app" => rec[l].oid = o
  BY <1>2, <1>3, <1>4, <1>5 DEF HandHolds, Proceeds
<1>8. ord'[o].state = "unused" => ord[o].state = "unused"
  BY <1>5 DEF Proceeds
<1>9. /\ Observable(job[p].oid)' <=> Observable(o)'
      /\ OnlyBusy(l, job[p].oid)' <=> OnlyBusy(l, o)'
      /\ Live(job[p].oid)' <=> Live(o)'
      /\ job'[p].oid = o
  BY <1>2, <1>3 DEF Observable, OnlyBusy, Live
<1> QED
  BY <1>2, <1>3, <1>4, <1>6, <1>7, <1>8, <1>9 DEF HandHolds

\* What the app saw stays true while the broker proceeds.
LEMMA SeenProceeds ==
    ASSUME IInv, IInv', Executions, OrdersProceed, UNCHANGED rec, HandsKept,
           NEW l \in Legs, seen'[l] \in {seen[l], NoRow}
    PROVE  SeenHolds(l)'
<1>1. TypeOK /\ TypeOK' /\ Snapshot
  BY DEF IInv, Core
<1> SUFFICES ASSUME seen'[l] # NoRow, seen'[l] = seen[l] PROVE SeenHolds(l)'
  BY DEF SeenHolds
<1>2. PICK o \in Oids : o = seen[l].oid
  BY <1>1 DEF Snapshot
<1>3. SeenHolds(l) /\ Observable(o) /\ ord[o].leg = l
      /\ (seen[l].state = "cancelled" => ord[o].state = "cancelled")
  BY <1>1, <1>2 DEF Executions, SeenOK, Snapshot, Observable
<1>4. Proceeds(o) /\ (OnlyBusy(l, o) => OnlyBusy(l, o)')
  BY <1>1, BusyProceeds DEF OrdersProceed
<1>5. rec[l].oid = o \/ (\E p \in Procs : Holds(p, l)' /\ job'[p].oid = o) => OnlyBusy(l, o)'
  <2>1. (\E p \in Procs : Holds(p, l)' /\ job'[p].oid = o) => \E p \in Procs : Holds(p, l) /\ job[p].oid = o
    BY DEF HandsKept
  <2> QED
    BY <1>2, <1>3, <1>4, <2>1 DEF SeenHolds
<1>6. rec[l].oid = o /\ Live(o)' /\ rec[l].pending.action = "amend" =>
        seen[l].qty = rec[l].qty \/ seen[l].qty = ord'[o].qty
  <2> SUFFICES ASSUME rec[l].oid = o, Live(o)', rec[l].pending.action = "amend"
      PROVE  seen[l].qty = rec[l].qty \/ seen[l].qty = ord'[o].qty
    OBVIOUS
  <2>1. Live(o) /\ (seen[l].qty = rec[l].qty \/ seen[l].qty = ord[o].qty)
    BY <1>2, <1>3, <1>4 DEF SeenHolds, Proceeds
  <2>2. Agrees(l, o)
    BY <1>3, <2>1 DEF Executions, RowsOK, RowHolds
  <2> QED
    BY <1>4, <2>1, <2>2 DEF Agrees, Proceeds
<1>7. /\ seen[l].state = "cancelled" => seen[l].filled = -1 \/ seen[l].filled = ord'[o].done
      /\ seen[l].state = "filled" => ord'[o].state = "filled" /\ seen[l].filled # 0
  BY <1>2, <1>3, <1>4 DEF SeenHolds, Proceeds
<1>8. /\ OnlyBusy(l, seen[l].oid)' <=> OnlyBusy(l, o)'
      /\ Live(seen[l].oid)' <=> Live(o)'
      /\ Open(l)' <=> Open(l)
      /\ seen'[l].oid = o
  BY <1>2 DEF OnlyBusy, Live, Open
<1> QED
  BY <1>2, <1>3, <1>5, <1>6, <1>7, <1>8 DEF SeenHolds

\* So does the action under review, while the app does not move on in it.
LEMMA ReviewProceeds ==
    ASSUME Executions, OrdersProceed, UNCHANGED rec,
           "app" \in Procs => job'["app"].pc \notin {"reviewed", "claimed", "retrying"}
                              \/ UNCHANGED <<review, job["app"]>>
    PROVE  ReviewHolds'
<1> SUFFICES ASSUME "app" \in Procs, UNCHANGED <<review, job["app"]>> PROVE ReviewHolds'
  BY DEF ReviewHolds
<1>1. ReviewHolds
  BY DEF Executions
<1>2. review.row.oid \in Oids => Proceeds(review.row.oid)
  BY DEF OrdersProceed
<1>3. job["app"].pc \in {"reviewed", "claimed"} => review.row.oid \in Oids /\ Observable(review.row.oid)
  BY <1>1 DEF ReviewHolds
<1>4. /\ Observable(review.row.oid)' <=> ord'[review.row.oid].state \in {"working", "cancelling", "cancelled", "filled"}
      /\ Live(review.row.oid)' <=> ord'[review.row.oid].state \in LiveState
  BY DEF Observable, Live
<1> QED
  BY <1>1, <1>2, <1>3, <1>4 DEF ReviewHolds, Proceeds, Observable, Live
\* A step that writes no row and lets the broker proceed
LEMMA StillHolds ==
    ASSUME IInv, IInv', Executions, OrdersProceed, UNCHANGED rec, HandsKept,
           \A o \in Oids : OrderSized(o)', \A p \in Procs : JobSized(p)', ReviewHolds',
           \A l \in Legs : seen'[l] \in {seen[l], NoRow} /\ feed'[l] \in {feed[l], NoFeed}
    PROVE  Executions'
<1>1. AtBrokerOK'
  <2>1. SingleBusy'
    BY BusyProceeds DEF IInv, Executions, AtBrokerOK
  <2> QED
    BY <2>1 DEF AtBrokerOK
<1>2. RowsOK'
  BY RowsProceed
<1>3. HandsOK'
  BY HandsProceed DEF HandsOK
<1>4. SeenOK'
  BY SeenProceeds DEF SeenOK
<1> QED
  BY <1>1, <1>2, <1>3, <1>4 DEF Executions

\* No step of the orders at all.
LEMMA OrdersRest ==
    ASSUME IInv, Executions, UNCHANGED ord
    PROVE  OrdersProceed /\ \A o \in Oids : OrderSized(o)'
<1>1. \A o \in Oids : ord[o].done \in Nat /\ OrderSized(o)
  BY DEF IInv, TypeOK, Order, Executions, AtBrokerOK
<1>2. ASSUME NEW o \in Oids PROVE Proceeds(o)
  BY <1>1 DEF Proceeds, Busy, Live, Observable, OrderSized
<1>3. ASSUME NEW o \in Oids PROVE OrderSized(o)'
  BY <1>1 DEF OrderSized, Live, Observable
<1> QED
  BY <1>2, <1>3 DEF OrdersProceed

\* Each step of the broker, and the request of a cancellation
LEMMA BrokerProceeds ==
    ASSUME IInv, Executions, NEW o \in Oids,
           \/ BrokerAccepts(o) \/ BrokerRefuses(o) \/ BrokerFills(o) \/ BrokerCancels(o)
           \/ BrokerAmends(o) \/ BrokerCorrects(o)
           \/ ord[o].state = "working" /\ ord' = [ord EXCEPT ![o].state = "cancelling"]
    PROVE  OrdersProceed /\ \A k \in Oids : OrderSized(k)'
<1>1. /\ ord \in [Oids -> Order] /\ ord[o] \in Order /\ OrderSized(o)
      /\ \A k \in Oids : ord[k].done \in Nat /\ OrderSized(k)
  BY DEF IInv, TypeOK, Order, Executions, AtBrokerOK
<1>2. \A k \in Oids \ {o} : ord'[k] = ord[k]
  BY <1>1 DEF BrokerAccepts, BrokerRefuses, BrokerFills, BrokerCancels, BrokerAmends, BrokerCorrects
<1>3. ASSUME NEW k \in Oids \ {o} PROVE Proceeds(k) /\ OrderSized(k)'
  BY <1>1, <1>2 DEF Proceeds, Busy, Live, Observable, OrderSized
<1>4. Proceeds(o) /\ OrderSized(o)'
  <2> USE <1>1 DEF Proceeds, Busy, Live, LiveState, Observable, OrderSized, Order
  <2>1. CASE BrokerAccepts(o)
    BY <2>1 DEF BrokerAccepts
  <2>2. CASE BrokerRefuses(o)
    BY <2>2 DEF BrokerRefuses
  <2>3. CASE BrokerFills(o)
    BY <2>3 DEF BrokerFills
  <2>4. CASE BrokerCancels(o)
    BY <2>4 DEF BrokerCancels
  <2>5. CASE BrokerAmends(o)
    <3>1. /\ ord'[o].leg = ord[o].leg /\ ord'[o].state = ord[o].state
          /\ ord'[o].done = ord[o].done /\ ord'[o].ask = 0 /\ ord[o].ask # 0
      BY <2>5 DEF BrokerAmends
    <3>2. \/ ord'[o].qty = ord[o].qty
          \/ ord[o].state = "working" /\ ord[o].ask > ord[o].done /\ ord'[o].qty = ord[o].ask
      BY <2>5 DEF BrokerAmends
    <3>3. Proceeds(o)
      BY <3>1, <3>2
    <3>4. ord[o].state # "unused" => 0 < ord'[o].qty /\ ord'[o].qty <= Approved[ord[o].leg]
      BY <3>2
    <3>5. ord'[o].done <= ord'[o].qty /\ (Live(o) => ord'[o].done < ord'[o].qty)
      BY <3>1, <3>2
    <3>6. ord[o].state # "unused" => ord[o].ask <= Approved[ord[o].leg] /\ 0 <= Approved[ord[o].leg]
      <4>1. ord[o].state # "unused" => Approved[ord[o].leg] \in Nat
        BY DEF IInv, Core, OrderOK
      <4> QED
        BY <4>1
    <3> QED
      BY <3>1, <3>3, <3>4, <3>5, <3>6
  <2>6. CASE BrokerCorrects(o)
    BY <2>6 DEF BrokerCorrects
  <2>7. CASE ord[o].state = "working" /\ ord' = [ord EXCEPT ![o].state = "cancelling"]
    BY <2>7
  <2> QED
    BY <2>1, <2>2, <2>3, <2>4, <2>5, <2>6, <2>7
<1> QED
  BY <1>3, <1>4 DEF OrdersProceed
\* A process that takes no leg into its hands keeps what the others hold.
LEMMA HandMoves ==
    ASSUME IInv, Executions, NEW p \in Procs, NEW j, Become(p, j),
           j.pc \in {"reserved", "waiting", "outcome"} =>
              /\ job[p].pc \in {"reserved", "waiting", "outcome"}
              /\ j.leg = job[p].leg /\ j.oid = job[p].oid /\ j.qty = job[p].qty,
           j.qty = job[p].qty \/ j.qty = Approved
    PROVE  /\ HandsKept /\ \A q \in Procs : JobSized(q)'
           /\ job'[p] = j /\ \A q \in Procs \ {p} : job'[q] = job[q]
<1>1. job'[p] = j /\ \A q \in Procs \ {p} : job'[q] = job[q]
  BY DEF Become, IInv, TypeOK
<1>2. HandsKept
  BY <1>1 DEF HandsKept, Holds
<1>3. ASSUME NEW q \in Procs PROVE JobSized(q)'
  <2>1. job'[q].qty = job[q].qty \/ job'[q].qty = Approved
    BY <1>1
  <2>2. JobSized(q) /\ \A l \in Legs : Approved[l] \in Nat \ {0}
    BY DEF Executions, HandsOK
  <2> QED
    BY <2>1, <2>2 DEF JobSized
<1> QED
  BY <1>1, <1>2, <1>3

\* It may also forget what it fetched, saw or reviewed.
LEMMA MoveHolds ==
    ASSUME IInv, IInv', Executions, UNCHANGED <<rec, ord>>, NEW p \in Procs, NEW j, Become(p, j),
           j.pc \in {"reserved", "waiting", "outcome"} =>
              /\ job[p].pc \in {"reserved", "waiting", "outcome"}
              /\ j.leg = job[p].leg /\ j.oid = job[p].oid /\ j.qty = job[p].qty,
           j.qty = job[p].qty \/ j.qty = Approved,
           IF p = "app" THEN j.pc \notin {"reviewed", "claimed", "retrying"} ELSE UNCHANGED review,
           \A l \in Legs : seen'[l] \in {seen[l], NoRow} /\ feed'[l] \in {feed[l], NoFeed}
    PROVE  Executions'
<1>1. OrdersProceed /\ \A o \in Oids : OrderSized(o)'
  BY OrdersRest
<1>2. /\ HandsKept /\ \A q \in Procs : JobSized(q)'
      /\ job'[p] = j /\ \A q \in Procs \ {p} : job'[q] = job[q]
  BY HandMoves
<1>3. ReviewHolds'
  BY <1>1, <1>2, ReviewProceeds
<1> QED
  BY <1>1, <1>2, <1>3, StillHolds

\* A step of no process
LEMMA RestHolds ==
    ASSUME IInv, IInv', Executions, OrdersProceed, UNCHANGED <<rec, job, review>>,
           \A o \in Oids : OrderSized(o)',
           \A l \in Legs : seen'[l] \in {seen[l], NoRow} /\ feed'[l] \in {feed[l], NoFeed}
    PROVE  Executions'
<1>1. HandsKept /\ \A q \in Procs : JobSized(q)'
  BY DEF HandsKept, Holds, Executions, HandsOK, JobSized
<1>2. ReviewHolds'
  BY ReviewProceeds
<1> QED
  BY <1>1, <1>2, StillHolds

\* Router steps other than reserving, sending and saving
LEMMA RoutingHolds ==
    ASSUME IInv, IInv', Executions, NEW p \in Procs,
           \/ Validate(p) \/ Connect(p) \/ ConnectFails(p) \/ ReserveRefused(p) \/ BatchDone(p)
           \/ Acknowledged(p) \/ DefinitelyRejected(p) \/ Uncertain(p)
    PROVE  Executions'
<1>0. job[p] \in Job /\ Idle.pc = "idle" /\ Idle.qty = Approved
  BY DEF IInv, TypeOK, Idle
<1>1. UNCHANGED <<rec, ord, seen, feed, review>>
  BY DEF Validate, Connect, ConnectFails, ReserveRefused, BatchDone, Acknowledged,
     DefinitelyRejected, Uncertain
<1>2. CASE Validate(p)
  <2>1. PICK allow \in BOOLEAN : \E legs \in {Legs} \cup (IF allow /\ p = "app" THEN {Retryable} ELSE {}) :
           Become(p, [Idle EXCEPT !.pc = "validated", !.todo = legs, !.allow = allow])
    BY <1>2 DEF Validate
  <2>2. PICK legs : Become(p, [Idle EXCEPT !.pc = "validated", !.todo = legs, !.allow = allow])
    BY <2>1
  <2> DEFINE j == [Idle EXCEPT !.pc = "validated", !.todo = legs, !.allow = allow]
  <2>3. j.pc = "validated" /\ j.qty = Approved
    BY DEF Idle
  <2> QED
    BY <1>1, <2>2, <2>3, MoveHolds
<1>3. CASE Connect(p)
  <2>1. PICK first \in Oids : Become(p, [job[p] EXCEPT !.pc = "routing", !.oid = first])
    BY <1>3 DEF Connect
  <2> DEFINE j == [job[p] EXCEPT !.pc = "routing", !.oid = first]
  <2>2. j.pc = "routing" /\ j.qty = job[p].qty
    BY <1>0 DEF Job
  <2> QED
    BY <1>1, <2>1, <2>2, MoveHolds
<1>4. CASE ConnectFails(p) \/ ReserveRefused(p) \/ BatchDone(p)
  <2>1. Become(p, Idle)
    BY <1>4 DEF ConnectFails, ReserveRefused, BatchDone, Finish
  <2> QED
    BY <1>0, <1>1, <2>1, MoveHolds
<1>5. CASE Acknowledged(p) \/ DefinitelyRejected(p) \/ Uncertain(p)
  <2>1. PICK res : Become(p, [job[p] EXCEPT !.pc = "outcome", !.result = res]) /\ job[p].pc = "waiting"
    BY <1>5 DEF Acknowledged, DefinitelyRejected, Uncertain
  <2> DEFINE j == [job[p] EXCEPT !.pc = "outcome", !.result = res]
  <2>2. j.pc = "outcome" /\ j.leg = job[p].leg /\ j.oid = job[p].oid /\ j.qty = job[p].qty
    BY <1>0 DEF Job
  <2> QED
    BY <1>1, <2>1, <2>2, MoveHolds
<1> QED
  BY <1>2, <1>3, <1>4, <1>5
\* A retry routes the leg with the terms of its row.
LEMMA RetryHolds ==
    ASSUME IInv, IInv', Executions, RetryRoute
    PROVE  Executions'
<1>1. /\ "app" \in Procs /\ job["app"].pc = "retrying" /\ rec[review.leg] = review.row
      /\ UNCHANGED <<rec, ord, seen, feed>>
  BY DEF RetryRoute
<1>2. PICK l \in Legs : l = review.leg
  BY <1>1 DEF IInv, ReviewOK
<1> DEFINE q == [Approved EXCEPT ![l] = rec[l].qty]
           j == [Idle EXCEPT !.pc = "validated", !.todo = {l}, !.allow = TRUE, !.qty = q]
<1>3. Become("app", j) \/ Become("app", Idle)
  BY <1>2 DEF RetryRoute
<1>4. j.pc = "validated" /\ j.qty = q /\ Idle.pc = "idle" /\ Idle.qty = Approved
  BY DEF Idle
<1>5. rec[l].status # "none" /\ RowSized(l)
  BY <1>1, <1>2 DEF Executions, ReviewHolds, RowsOK
<1>6. \A k \in Legs : 0 < q[k] /\ q[k] <= Approved[k]
  BY <1>5 DEF RowSized
<1>7. CASE Become("app", Idle)
  BY <1>1, <1>4, <1>7, MoveHolds
<1>8. CASE Become("app", j)
  <2> HIDE DEF j, q
  <2>1. job'["app"] = j /\ \A p \in Procs \ {"app"} : job'[p] = job[p]
    BY <1>1, <1>8 DEF Become, IInv, TypeOK
  <2>2. HandsKept
    BY <1>4, <2>1 DEF HandsKept, Holds
  <2>3. ASSUME NEW p \in Procs PROVE JobSized(p)'
    BY <1>4, <1>6, <2>1 DEF JobSized, Executions, HandsOK
  <2>4. OrdersProceed /\ \A o \in Oids : OrderSized(o)'
    BY <1>1, OrdersRest
  <2>5. ReviewHolds'
    BY <1>1, <1>4, <2>1, <2>4, ReviewProceeds
  <2> QED
    BY <1>1, <2>2, <2>3, <2>4, <2>5, StillHolds
<1> QED
  BY <1>3, <1>7, <1>8

\* A resubmission is reviewed on a row that was written.
LEMMA ResubmitHolds ==
    ASSUME IInv, IInv', Executions, NEW l \in Legs, OpenResubmit(l)
    PROVE  Executions'
<1> DEFINE j == [Idle EXCEPT !.pc = "retrying"]
<1>1. /\ "app" \in Procs /\ Become("app", j) /\ UNCHANGED <<rec, ord, seen, feed>>
      /\ review' = [leg |-> l, row |-> rec[l], action |-> "resubmit", qty |-> 0]
      /\ rec[l].status # "none"
  BY DEF OpenResubmit, MayManage
<1>2. j.pc = "retrying" /\ j.qty = Approved
  BY DEF Idle
<1> HIDE DEF j
<1>3. /\ HandsKept /\ \A q \in Procs : JobSized(q)'
      /\ job'["app"] = j
  BY <1>1, <1>2, HandMoves
<1>4. OrdersProceed /\ \A o \in Oids : OrderSized(o)'
  BY <1>1, OrdersRest
<1>5. ReviewHolds'
  BY <1>1, <1>2, <1>3 DEF ReviewHolds
<1> QED
  BY <1>1, <1>3, <1>4, <1>5, StillHolds

\* Sync, management and expiry steps other than taking a snapshot, applying it,
\* claiming and asking the Gateway; and crashes
LEMMA ManagingHolds ==
    ASSUME IInv, IInv', Executions,
           \/ CloseSync \/ ReviewStale \/ DeadlinePasses \/ ExpireScan \/ ExpireClose \/ DropSession
           \/ (\E l \in Legs : ExpireMark(l)) \/ \E p \in Procs : Crash(p)
    PROVE  Executions'
<1>0. Idle.pc = "idle" /\ Idle.qty = Approved
  BY DEF Idle
<1>1. CASE DeadlinePasses \/ DropSession
  <2>1. UNCHANGED <<rec, ord, job, review, seen, feed>>
    BY <1>1 DEF DeadlinePasses, DropSession
  <2> QED
    BY <2>1, OrdersRest, RestHolds
<1>2. CASE CloseSync \/ ReviewStale \/ ExpireClose
  <2>1. /\ "app" \in Procs /\ Become("app", Idle) /\ UNCHANGED <<rec, ord, feed>>
        /\ \A l \in Legs : seen'[l] \in {seen[l], NoRow}
    BY <1>2 DEF CloseSync, ReviewStale, ExpireClose, Finish
  <2> QED
    BY <1>0, <2>1, MoveHolds
<1>3. CASE ExpireScan
  <2>1. PICK both \in SUBSET {l \in missed : rec[l].status \notin Failed \cup {"none"}} :
           Become("app", [Idle EXCEPT !.pc = "expiring",
              !.todo = {l \in Legs : rec[l].status \in Failed \cup {"none"}} \cup both])
    BY <1>3 DEF ExpireScan
  <2>2. PICK legs : Become("app", [Idle EXCEPT !.pc = "expiring", !.todo = legs])
    BY <2>1
  <2> DEFINE j == [Idle EXCEPT !.pc = "expiring", !.todo = legs]
  <2>3. j.pc = "expiring" /\ j.qty = Approved
    BY DEF Idle
  <2>4. "app" \in Procs /\ UNCHANGED <<rec, ord, seen, feed>>
    BY <1>3 DEF ExpireScan
  <2> QED
    BY <2>2, <2>3, <2>4, MoveHolds
<1>4. ASSUME NEW l \in Legs, ExpireMark(l) PROVE Executions'
  <2> DEFINE j == [job["app"] EXCEPT !.todo = @ \ {l}]
  <2>1. /\ "app" \in Procs /\ job["app"] \in Job /\ job["app"].pc = "expiring"
        /\ Become("app", j) /\ UNCHANGED <<rec, ord, seen, feed>>
    BY <1>4 DEF ExpireMark, IInv, TypeOK
  <2>2. j.pc = "expiring" /\ j.qty = job["app"].qty
    BY <2>1 DEF Job
  <2> QED
    BY <2>1, <2>2, MoveHolds
<1>5. ASSUME NEW p \in Procs, Crash(p) PROVE Executions'
  <2>1. /\ Become(p, Idle) /\ UNCHANGED <<rec, ord>> /\ (p # "app" => UNCHANGED review)
        /\ \A l \in Legs : seen'[l] \in {seen[l], NoRow} /\ feed'[l] \in {feed[l], NoFeed}
    BY <1>5 DEF Crash, Finish
  <2> QED
    BY <1>0, <2>1, MoveHolds
<1> QED
  BY <1>1, <1>2, <1>3, <1>4, <1>5
\* Asking the Gateway: the claim of the row says what was asked for.
LEMMA ChangeHolds ==
    ASSUME IInv, IInv', Executions, Change
    PROVE  Executions'
<1> DEFINE o == review.row.oid
           l == review.leg
<1>1. /\ "app" \in Procs /\ job["app"].pc = "claimed" /\ Become("app", Idle) /\ review' = NoReview
      /\ UNCHANGED <<rec, seen, feed>> /\ Idle.pc = "idle" /\ Idle.qty = Approved
  BY DEF Change, Finish, Idle
<1>2. /\ o \in Oids /\ l \in Legs /\ ord[o].leg = l /\ review.action \in {"cancel", "amend"}
      /\ ReviewHolds
  BY <1>1 DEF Executions, ReviewHolds, IInv, ReviewOK
<1>3. /\ HandsKept /\ (\A q \in Procs : JobSized(q)') /\ job'["app"] = Idle
      /\ \A q \in Procs \ {"app"} : job'[q] = job[q]
  BY <1>1, HandMoves
<1>4. ReviewHolds'
  BY <1>1, <1>3 DEF ReviewHolds
<1>5. CASE UNCHANGED ord \/ (ord[o].state = "working" /\ ord' = [ord EXCEPT ![o].state = "cancelling"])
  <2>1. OrdersProceed /\ \A k \in Oids : OrderSized(k)'
    BY <1>2, <1>5, OrdersRest, BrokerProceeds
  <2> QED
    BY <1>1, <1>3, <1>4, <2>1, StillHolds
<1>6. CASE /\ review.action = "amend" /\ ord[o].state = "working"
           /\ ord' = [ord EXCEPT ![o].ask = review.qty]
  <2>1. /\ ord \in [Oids -> Order] /\ ord[o] \in Order /\ review.qty \in Nat
    BY <1>2 DEF IInv, TypeOK, Review
  <2>2. /\ ord'[o].ask = review.qty
        /\ \A k \in Oids : /\ ord'[k].state = ord[k].state /\ ord'[k].leg = ord[k].leg
                           /\ ord'[k].qty = ord[k].qty /\ ord'[k].done = ord[k].done
                           /\ k # o => ord'[k].ask = ord[k].ask
    BY <1>2, <1>6, <2>1 DEF Order
  <2>3. /\ \A k \in Oids : /\ Live(k)' <=> Live(k)
                           /\ Busy(k)' <=> Busy(k)
                           /\ Observable(k)' <=> Observable(k)
        /\ Live(o)
    BY <1>2, <1>6, <2>2 DEF Live, LiveState, Busy, Observable
  <2>4. /\ 0 < review.qty /\ review.qty < review.row.qty /\ review.row.qty <= Approved[l]
        /\ review.row.qty \in Nat /\ Approved[l] \in Nat
    BY <1>1, <1>2, <1>6 DEF ReviewHolds, IInv, TypeOK, Review, Row
  <2>5. AtBrokerOK'
    <3>1. SingleBusy'
      BY <2>2, <2>3 DEF Executions, AtBrokerOK, SingleBusy
    <3>2. ASSUME NEW k \in Oids PROVE OrderSized(k)'
      <4>1. OrderSized(k)
        BY DEF Executions, AtBrokerOK
      <4>2. k = o => ord'[k].ask <= Approved[ord'[k].leg]
        BY <1>2, <2>1, <2>2, <2>4
      <4>3. k # o => ord'[k].ask = ord[k].ask
        BY <2>2
      <4> QED
        BY <2>2, <2>3, <4>1, <4>2, <4>3 DEF OrderSized
    <3> QED
      BY <3>1, <3>2 DEF AtBrokerOK
  <2>6. ASSUME NEW k \in Legs PROVE (RowSized(k) /\ RowHolds(k) /\ FeedHolds(k))'
    <3>1. RowSized(k) /\ RowHolds(k) /\ FeedHolds(k)
      BY DEF Executions, RowsOK
    <3>2. RowSized(k)' /\ FeedHolds(k)'
      BY <1>1, <2>2, <3>1 DEF RowSized, FeedHolds
    <3>3. ASSUME NEW x \in Oids, Live(x)', ord'[x].leg = k PROVE Agrees(k, x)'
      <4>1. Agrees(k, x)
        BY <2>2, <2>3, <3>1, <3>3 DEF RowHolds
      <4>2. CASE x # o
        BY <1>1, <2>2, <4>1, <4>2 DEF Agrees
      <4>3. CASE x = o
        <5>1. k = l
          BY <1>2, <2>2, <3>3, <4>3
        <5>2. rec[l].oid = o =>
                /\ rec[l].pending = [action |-> review.action, qty |-> review.qty]
                /\ ord[o].qty = rec[l].qty
          BY <1>1, <1>2, <2>3 DEF ReviewHolds
        <5> QED
          BY <1>1, <1>2, <1>6, <2>2, <4>1, <4>3, <5>1, <5>2 DEF Agrees
      <4> QED
        BY <4>2, <4>3
    <3>4. /\ NoneLive(k) => NoneLive(k)'
          /\ NoneBusy(k) => NoneBusy(k)'
          /\ OnlyBusy(k, rec[k].oid) => OnlyBusy(k, rec[k].oid)'
      BY <1>1, <2>2, <2>3 DEF NoneLive, NoneBusy, OnlyBusy
    <3>5. RowHolds(k)'
      BY <1>1, <2>2, <3>1, <3>3, <3>4 DEF RowHolds, Reroutable
    <3> QED
      BY <3>2, <3>5
  <2>7. ASSUME NEW p \in Procs, NEW k \in Legs PROVE HandHolds(p, k)'
    <3> SUFFICES ASSUME Holds(p, k)' PROVE HandHolds(p, k)'
      BY DEF HandHolds
    <3>1. p # "app" /\ Holds(p, k) /\ job'[p] = job[p]
      BY <1>1, <1>3 DEF Holds
    <3>2. PICK x \in Oids : x = job[p].oid
      BY <3>1 DEF Holds, IInv, JobOK, JobFits
    <3>3. HandHolds(p, k)
      BY DEF Executions, HandsOK
    <3>4. /\ OnlyBusy(k, x) => OnlyBusy(k, x)'
          /\ (Observable(job[p].oid)' <=> Observable(x)') /\ (Live(job[p].oid)' <=> Live(x)')
          /\ OnlyBusy(k, job[p].oid)' <=> OnlyBusy(k, x)'
      BY <2>2, <2>3, <3>1, <3>2 DEF OnlyBusy, Observable, Live
    <3> QED
      BY <1>1, <2>2, <2>3, <3>1, <3>2, <3>3, <3>4 DEF HandHolds
  <2>8. SeenOK'
    BY <1>1 DEF IInv, ReviewOK, SeenOK, SeenHolds
  <2> QED
    BY <1>3, <1>4, <2>5, <2>6, <2>7, <2>8 DEF Executions, RowsOK, HandsOK
<1> QED
  BY <1>2, <1>5, <1>6 DEF Change

\* Fetching executions
LEMMA FetchHolds ==
    ASSUME IInv, IInv', Executions, FetchFills
    PROVE  Executions'
<1>1. UNCHANGED <<rec, ord, job, seen, review>>
  BY Zenon DEF FetchFills
<1>2. OrdersProceed /\ \A o \in Oids : OrderSized(o)'
  BY <1>1, OrdersRest
<1>3. ASSUME NEW l \in Legs PROVE FeedHolds(l)'
  <2> SUFFICES ASSUME feed'[l] # NoFeed PROVE FeedHolds(l)'
    BY DEF FeedHolds
  <2>1. Executed(l) # {}
    BY DEF FetchFills
  <2> DEFINE o == CHOOSE o \in Executed(l) : TRUE
  <2>2. o \in Executed(l)
    BY <2>1
  <2>3. feed'[l].source = o /\ feed'[l].n = ord[o].done
    BY <2>1 DEF FetchFills
  <2> HIDE DEF o
  <2>4. o \in Oids /\ ord[o].leg = l /\ 0 < ord[o].done /\ ord[o].done \in Nat
    BY <2>2 DEF Executed, IInv, TypeOK, Order
  <2> QED
    BY <1>1, <2>3, <2>4 DEF FeedHolds
<1>4. AtBrokerOK' /\ SeenOK' /\ HandsOK' /\ ReviewHolds'
  <2>1. AtBrokerOK'
    BY <1>2, BusyProceeds DEF IInv, Executions, AtBrokerOK
  <2>2. HandsKept
    BY <1>1 DEF HandsKept, Holds
  <2>3. SeenOK'
    BY <1>1, <1>2, <2>2, SeenProceeds DEF SeenOK
  <2>4. HandsOK'
    <3>1. \A p \in Procs : JobSized(p)'
      BY <1>1 DEF Executions, HandsOK, JobSized
    <3> QED
      BY <1>1, <1>2, <2>2, <3>1, HandsProceed DEF HandsOK
  <2>5. ReviewHolds'
    BY <1>1, <1>2, ReviewProceeds
  <2> QED
    BY <2>1, <2>3, <2>4, <2>5
<1>5. ASSUME NEW l \in Legs PROVE RowSized(l)' /\ RowHolds(l)'
  <2>1. RowSized(l) /\ RowHolds(l)
    BY DEF Executions, RowsOK
  <2> QED
    BY <1>1, <2>1 DEF RowSized, RowHolds, NoneLive, NoneBusy, OnlyBusy, Busy, Live, Agrees
<1> QED
  BY <1>3, <1>4, <1>5 DEF Executions, RowsOK

\* The broker's own steps
LEMMA BrokerHolds ==
    ASSUME IInv, IInv', Executions, AtBroker
    PROVE  Executions'
<1>1. PICK o \in Oids :
         \/ BrokerAccepts(o) \/ BrokerRefuses(o) \/ BrokerFills(o) \/ BrokerCancels(o)
         \/ BrokerAmends(o) \/ BrokerCorrects(o)
  BY DEF AtBroker
<1>2. OrdersProceed /\ \A k \in Oids : OrderSized(k)'
  BY <1>1, BrokerProceeds
<1>3. UNCHANGED <<rec, job, review, seen, feed>>
  BY <1>1 DEF BrokerAccepts, BrokerRefuses, BrokerFills, BrokerCancels, BrokerAmends,
     BrokerCorrects, Broker
<1> QED
  BY <1>2, <1>3, RestHolds
\* A step that writes the row of one leg and nothing at the broker
LEMMA OneRow ==
    ASSUME IInv, Executions, UNCHANGED ord, NEW l \in Legs,
           \A k \in Legs \ {l} : rec'[k] = rec[k],
           \A k \in Legs : feed'[k] \in {feed[k], NoFeed},
           RowSized(l)', RowHolds(l)'
    PROVE  AtBrokerOK' /\ RowsOK'
<1>1. AtBrokerOK'
  <2>1. SingleBusy'
    BY DEF Executions, AtBrokerOK, SingleBusy, Busy, Live
  <2> QED
    BY <2>1, OrdersRest DEF AtBrokerOK
<1>2. ASSUME NEW k \in Legs PROVE (RowSized(k) /\ RowHolds(k) /\ FeedHolds(k))'
  <2>1. RowSized(k) /\ RowHolds(k) /\ FeedHolds(k)
    BY DEF Executions, RowsOK
  <2>2. FeedHolds(k)'
    BY <2>1 DEF FeedHolds
  <2>3. CASE k # l
    <3>1. rec'[k] = rec[k]
      BY <2>3
    <3> QED
      BY <2>1, <2>2, <3>1 DEF RowSized, RowHolds, NoneLive, NoneBusy, OnlyBusy, Busy, Live, Agrees
  <2>4. CASE k = l
    BY <2>2, <2>4
  <2> QED
    BY <2>3, <2>4
<1> QED
  BY <1>1, <1>2 DEF RowsOK

\* What is in hand on a leg whose row keeps its id and terms
LEMMA HandSame ==
    ASSUME Executions, UNCHANGED ord, NEW p \in Procs, NEW l \in Legs,
           Holds(p, l)' => Holds(p, l) /\ job'[p].oid = job[p].oid /\ job'[p].qty = job[p].qty,
           rec'[l].oid = rec[l].oid, rec'[l].qty = rec[l].qty, rec'[l].pending = rec[l].pending
    PROVE  HandHolds(p, l)'
BY DEF HandHolds, Observable, OnlyBusy, Busy, Live, Executions, HandsOK

\* What was seen of it, if the row is not closed meanwhile
LEMMA SeenSame ==
    ASSUME Executions, UNCHANGED ord, HandsKept, NEW l \in Legs, seen'[l] \in {seen[l], NoRow},
           rec'[l].oid = rec[l].oid, rec'[l].qty = rec[l].qty, rec'[l].pending = rec[l].pending,
           Open(l) => Open(l)', rec[l].filled > 0 => rec'[l].filled > 0
    PROVE  SeenHolds(l)'
<1> SUFFICES ASSUME seen'[l] # NoRow, seen'[l] = seen[l] PROVE SeenHolds(l)'
  BY DEF SeenHolds
<1>1. SeenHolds(l)
  BY DEF Executions, SeenOK
<1>2. (\E p \in Procs : Holds(p, l)' /\ job'[p].oid = seen[l].oid)
      => \E p \in Procs : Holds(p, l) /\ job[p].oid = seen[l].oid
  BY DEF HandsKept
<1>3. /\ OnlyBusy(l, seen[l].oid)' <=> OnlyBusy(l, seen[l].oid)
      /\ Live(seen[l].oid)' <=> Live(seen[l].oid)
  BY DEF OnlyBusy, Busy, Live
<1> QED
  BY <1>1, <1>2, <1>3 DEF SeenHolds

\* A merge fills a row only when its order is at its end.
LEMMA MergeHolds ==
    ASSUME IInv, IInv', Executions, NEW l \in Legs, MergeFills(l)
    PROVE  Executions'
<1> DEFINE r == Merged(rec[l], feed[l])
           s == feed[l].source
           n == feed[l].n
<1>1. /\ feed[l] # NoFeed /\ rec[l] \in Row /\ feed[l] \in Feed /\ UNCHANGED <<ord, job, seen, review>>
      /\ rec'[l] = r /\ \A k \in Legs \ {l} : rec'[k] = rec[k]
      /\ \A k \in Legs : feed'[k] \in {feed[k], NoFeed}
  BY DEF MergeFills, IInv, TypeOK
<1>2. /\ s \in Oids /\ ord[s].leg = l /\ 0 < n /\ n <= ord[s].done
      /\ RowSized(l) /\ RowHolds(l)
  BY <1>1 DEF Executions, RowsOK, FeedHolds
<1>3. /\ n \in Nat /\ ord[s].done \in Nat /\ ord[s].qty \in Nat /\ rec[l].qty \in Nat
      /\ rec[l].filled \in Nat /\ rec[l].pending.qty \in Nat /\ Approved[l] \in Nat
      /\ OrderSized(s) /\ OrderOK
  BY <1>1, <1>2, Numbers DEF IInv, Core, Executions, AtBrokerOK
<1>4. /\ r.oid = rec[l].oid /\ r.qty = rec[l].qty /\ r.pending = rec[l].pending /\ r.obs = rec[l].obs
      /\ \/ r.filled = rec[l].filled /\ r.status = rec[l].status
         \/ /\ r.filled = n
            /\ \/ r.status = "filled" /\ n = rec[l].qty
               \/ r.status = "partially_filled" /\ rec[l].status \notin Failed
               \/ r.status = rec[l].status /\ rec[l].status \in Failed
  BY <1>1 DEF Merged, Conflicting, Row
<1> HIDE DEF r
<1>5. n = rec[l].qty => NoneLive(l)
  <2> SUFFICES ASSUME n = rec[l].qty, NEW k \in Oids, Live(k), ord[k].leg = l PROVE FALSE
    BY DEF NoneLive
  <2>1. Busy(k) /\ Busy(s)
    BY <1>2, <1>3 DEF Busy
  <2>2. k = s
    BY <1>2, <2>1 DEF Executions, AtBrokerOK, SingleBusy
  <2>3. Agrees(l, s) /\ ord[s].done < ord[s].qty /\ ord[s].qty <= Approved[l]
    BY <1>2, <1>3, <2>2 DEF RowHolds, OrderSized, Live, LiveState
  <2>4. ord[s].qty <= rec[l].qty
    BY <1>2, <1>3, <2>3 DEF Agrees, RowSized
  <2> QED
    BY <1>2, <1>3, <2>3, <2>4
<1>6. rec[l].status # "none"
  BY <1>1 DEF IInv, Core, EmptyRow
<1>7. RowSized(l)'
  BY <1>1, <1>2, <1>4, <1>6 DEF RowSized
<1>8. RowHolds(l)'
  <2>1. r.filled > 0 => \E o \in Oids : ord[o].leg = l /\ ord[o].done > 0
    <3>1. ord[s].done > 0
      BY <1>2, <1>3
    <3> QED
      BY <1>2, <3>1
  <2>2. r.status = "filled" => r.filled > 0 /\ NoneLive(l)
    BY <1>2, <1>4, <1>5 DEF RowHolds, Failed
  <2>3. Reroutable(r) => NoneBusy(l)
    BY <1>2, <1>3, <1>4 DEF RowHolds, Reroutable
  <2>4. r.status \in Failed /\ r.filled = 0 => r.oid \in Oids /\ ord[r.oid].state # "unused"
    BY <1>2, <1>3, <1>4 DEF RowHolds
  <2>5. ASSUME NEW o \in Oids, Live(o), ord[o].leg = l PROVE Agrees(l, o)'
    <3>1. Agrees(l, o)
      BY <1>2, <2>5 DEF RowHolds
    <3> QED
      BY <1>1, <1>4, <3>1 DEF Agrees
  <2> QED
    BY <1>1, <1>2, <1>4, <2>1, <2>2, <2>3, <2>4, <2>5
    DEF RowHolds, NoneLive, NoneBusy, OnlyBusy, Busy, Live
<1>9. HandsKept /\ ReviewHolds'
  <2>1. ReviewHolds
    BY DEF Executions
  <2>2. "app" \in Procs /\ job["app"].pc = "claimed" => review.leg \in Legs
    BY DEF IInv, ReviewOK
  <2>3. \A k \in Legs : rec'[k].oid = rec[k].oid /\ rec'[k].qty = rec[k].qty /\ rec'[k].pending = rec[k].pending
    BY <1>1, <1>4
  <2>4. ReviewHolds'
    BY <1>1, <2>1, <2>2, <2>3 DEF ReviewHolds, Observable, Live
  <2> QED
    BY <1>1, <2>4 DEF HandsKept, Holds
<1>10. AtBrokerOK' /\ RowsOK'
  BY <1>1, <1>7, <1>8, OneRow
<1>11. \A k \in Legs : /\ rec'[k].oid = rec[k].oid /\ rec'[k].qty = rec[k].qty
                       /\ rec'[k].pending = rec[k].pending /\ (Open(k) => Open(k)')
                       /\ (rec[k].filled > 0 => rec'[k].filled > 0)
  BY <1>1, <1>2, <1>4 DEF Open, Failed
<1>12. HandsOK'
  <2>1. \A p \in Procs : JobSized(p)'
    BY <1>1 DEF Executions, HandsOK, JobSized
  <2>2. ASSUME NEW p \in Procs, NEW k \in Legs PROVE HandHolds(p, k)'
    <3>1. Holds(p, k)' => Holds(p, k) /\ job'[p].oid = job[p].oid /\ job'[p].qty = job[p].qty
      BY <1>1 DEF Holds
    <3>2. /\ rec'[k].oid = rec[k].oid /\ rec'[k].qty = rec[k].qty /\ rec'[k].pending = rec[k].pending
          /\ UNCHANGED ord
      BY <1>1, <1>11
    <3> QED
      BY <3>1, <3>2, HandSame
  <2> QED
    BY <2>1, <2>2 DEF HandsOK
<1>13. SeenOK'
  <2>1. ASSUME NEW k \in Legs PROVE SeenHolds(k)'
    <3>1. /\ rec'[k].oid = rec[k].oid /\ rec'[k].qty = rec[k].qty /\ rec'[k].pending = rec[k].pending
          /\ (Open(k) => Open(k)') /\ (rec[k].filled > 0 => rec'[k].filled > 0)
          /\ seen'[k] \in {seen[k], NoRow} /\ UNCHANGED ord
      BY <1>1, <1>11
    <3> QED
      BY <1>9, <3>1, SeenSame
  <2> QED
    BY <2>1 DEF SeenOK
<1> QED
  BY <1>9, <1>10, <1>12, <1>13 DEF Executions

\* Taking a snapshot: what it says of a row is what the broker says, and the order it
\* matches is the only one of its leg that can be busy.
LEMMA OpenHolds ==
    ASSUME IInv, IInv', Executions,
           OpenSync \/ \E l \in Legs : OpenCancel(l) \/ OpenAmend(l)
    PROVE  Executions'
<1>1. "app" \in Procs /\ job["app"].pc = "idle" /\ UNCHANGED <<ord, rec, feed>>
  BY DEF OpenSync, OpenCancel, OpenAmend
<1>2. PICK pc \in {"syncing", "reviewed"} :
         /\ Become("app", [Idle EXCEPT !.pc = pc])
         /\ pc = "syncing" \/ \E l \in Legs : OpenCancel(l) \/ OpenAmend(l)
  BY DEF OpenSync, OpenCancel, OpenAmend
<1> DEFINE j == [Idle EXCEPT !.pc = pc]
<1>3. j.pc = pc /\ j.qty = Approved
  BY DEF Idle
<1> HIDE DEF j
<1>4. /\ HandsKept /\ \A q \in Procs : JobSized(q)'
      /\ job'["app"] = j
  <2>1. Become("app", j)
    BY <1>2 DEF j
  <2> QED
    BY <1>1, <1>2, <1>3, <2>1, HandMoves
<1>5. OrdersProceed /\ \A o \in Oids : OrderSized(o)'
  BY <1>1, OrdersRest
<1>6. ASSUME NEW k \in Legs, seen'[k] # NoRow
      PROVE  Matched(k) /\ \E counted \in BOOLEAN : seen'[k] = BrokerRow(k, counted)
  <2>1. CASE OpenSync
    BY <1>6, <2>1 DEF OpenSync
  <2>2. ASSUME NEW l \in Legs, OpenCancel(l) \/ OpenAmend(l)
        PROVE  Matched(k) /\ \E counted \in BOOLEAN : seen'[k] = BrokerRow(k, counted)
    <3>1. seen[k] = NoRow
      BY <1>1 DEF IInv, ReviewOK
    <3>2. Matched(l) /\ \E counted \in BOOLEAN : seen' = [seen EXCEPT ![l] = BrokerRow(l, counted)]
      BY <2>2 DEF OpenCancel, OpenAmend, MayManage
    <3> QED
      BY <1>6, <3>1, <3>2 DEF IInv, TypeOK
  <2> QED
    BY <2>1, <2>2
<1>7. ASSUME NEW k \in Legs PROVE SeenHolds(k)'
  <2> SUFFICES ASSUME seen'[k] # NoRow PROVE SeenHolds(k)'
    BY DEF SeenHolds
  <2>1. PICK counted \in BOOLEAN : Matched(k) /\ seen'[k] = BrokerRow(k, counted)
    BY <1>6
  <2>2. PICK o \in Oids : o = rec[k].oid
    BY <2>1 DEF Matched
  <2>3. /\ ord[o].leg = k /\ Observable(o)
        /\ ord[o].state \in {"cancelled", "filled"} => rec[k].obs.state # "none"
        /\ seen'[k].oid = o /\ seen'[k].state = ord[o].state /\ seen'[k].qty = ord[o].qty
        /\ seen'[k].filled = -1 \/ seen'[k].filled = ord[o].done
    BY <2>1, <2>2 DEF Matched, BrokerRow, Observable
  <2>4. OrderSized(o) /\ ord[o].done \in Nat /\ RowHolds(k) /\ SingleBusy /\ LiveIsOpen
    BY Numbers DEF IInv, Core, Executions, AtBrokerOK, RowsOK
  <2>5. OnlyBusy(k, o)
    <3>1. CASE rec[k].obs.state # "none"
      BY <2>2, <2>4, <3>1 DEF RowHolds
    <3>2. CASE rec[k].obs.state = "none"
      BY <2>3, <2>4, <3>2 DEF Busy, Live, LiveState, Observable, OnlyBusy, SingleBusy
    <3> QED
      BY <3>1, <3>2
  <2>6. seen'[k].state = "cancelling" => Open(k)
    BY <2>3, <2>4 DEF LiveIsOpen, Live, LiveState
  <2>7. seen'[k].state = "filled" => seen'[k].filled # 0
    BY <2>3, <2>4 DEF OrderSized
  <2>8. /\ OnlyBusy(k, seen[k].oid)' <=> OnlyBusy(k, o)
        /\ Open(k)' <=> Open(k)
    BY <1>1, <2>3 DEF OnlyBusy, Busy, Live, Open
  <2> QED
    BY <1>1, <2>3, <2>5, <2>6, <2>7, <2>8 DEF SeenHolds, Observable
<1>8. ReviewHolds'
  <2>1. CASE pc = "syncing"
    BY <1>3, <1>4, <2>1 DEF ReviewHolds
  <2>2. ASSUME NEW l \in Legs, OpenCancel(l) \/ OpenAmend(l), pc = "reviewed" PROVE ReviewHolds'
    <3>1. PICK q : /\ review' = [leg |-> l, row |-> rec[l],
                                 action |-> IF OpenCancel(l) THEN "cancel" ELSE "amend", qty |-> q]
                   /\ ~OpenCancel(l) => q \in 1..(rec[l].qty - 1)
      BY <2>2 DEF OpenCancel, OpenAmend
    <3>2. /\ rec[l].status # "none" /\ rec[l].pending.action = "none" /\ Matched(l)
          /\ ord[rec[l].oid].state = "working"
      BY <2>2 DEF OpenCancel, OpenAmend, MayManage
    <3>3. rec[l].qty \in Nat /\ rec[l].qty <= Approved[l]
      BY <3>2, Numbers DEF IInv, Executions, RowsOK, RowSized
    <3>4. rec[l].oid \in Oids /\ ord[rec[l].oid].leg = l
      BY <3>2 DEF Matched
    <3>5. /\ review'.leg = l /\ review'.row = rec[l] /\ review'.qty = q
          /\ review'.action \in {"cancel", "amend"}
          /\ review'.action = "amend" => 0 < q /\ q < rec[l].qty
      BY <3>1, <3>3
    <3>6. Observable(review.row.oid)'
      BY <1>1, <3>2, <3>5 DEF Observable
    <3> QED
      BY <1>1, <1>3, <1>4, <2>2, <3>2, <3>3, <3>4, <3>5, <3>6 DEF ReviewHolds
  <2> QED
    BY <1>2, <2>1, <2>2
<1>9. AtBrokerOK'
  BY <1>5, BusyProceeds DEF IInv, Executions, AtBrokerOK
<1>10. RowsOK'
  BY <1>1, <1>5, RowsProceed
<1>11. HandsOK'
  BY <1>1, <1>4, <1>5, HandsProceed DEF HandsOK
<1> QED
  BY <1>7, <1>8, <1>9, <1>10, <1>11 DEF Executions, SeenOK

\* A claim is about the order that was seen, on a row that had none.
LEMMA ClaimHolds ==
    ASSUME IInv, IInv', Executions, Claim
    PROVE  Executions'
<1>1. /\ "app" \in Procs /\ job["app"].pc = "reviewed" /\ UNCHANGED <<ord, feed, review>>
      /\ Become("app", [job["app"] EXCEPT !.pc = "claimed"])
  BY DEF Claim
<1>2. PICK l \in Legs : l = review.leg
  BY <1>1 DEF IInv, ReviewOK
<1>3. /\ rec[l] = review.row /\ seen[l] # NoRow /\ seen[l].oid = rec[l].oid
      /\ \A k \in Legs : seen'[k] = NoRow
      /\ \A k \in Legs \ {l} : rec'[k] = rec[k]
      /\ rec[l] \in Row
  BY <1>1, <1>2 DEF Claim, IInv, ReviewOK, TypeOK
<1>4. /\ rec'[l].status = rec[l].status /\ rec'[l].oid = rec[l].oid /\ rec'[l].qty = rec[l].qty
      /\ rec'[l].filled = rec[l].filled
      /\ rec'[l].pending = [action |-> review.action, qty |-> review.qty]
  BY <1>2, <1>3 DEF Claim, IInv, TypeOK, Row
<1>5. PICK o \in Oids : o = rec[l].oid
  BY <1>1, <1>2, <1>3 DEF Executions, ReviewHolds
<1>6. /\ Observable(o) /\ ord[o].leg = l /\ review.action \in {"cancel", "amend"}
      /\ review.action = "amend" => 0 < review.qty /\ review.qty < rec[l].qty
      /\ rec[l].pending.action = "none"
      /\ review.action = "amend" => review.row.qty <= Approved[l]
  BY <1>1, <1>2, <1>3, <1>5 DEF Executions, ReviewHolds, Observable
<1>7. RowSized(l) /\ RowHolds(l) /\ OnlyBusy(l, o)
  BY <1>3, <1>5 DEF Executions, RowsOK, SeenOK, SeenHolds
<1>8. RowSized(l)'
  BY <1>4, <1>6, <1>7 DEF RowSized
<1>9. ASSUME NEW x \in Oids, Live(x), ord[x].leg = l PROVE Agrees(l, x)'
  <2>1. Agrees(l, x)
    BY <1>7, <1>9 DEF RowHolds
  <2> QED
    BY <1>1, <1>4, <1>6, <2>1 DEF Agrees
<1>10. RowHolds(l)'
  <2>1. ~Reroutable(rec[l])'
    BY <1>4, <1>6 DEF Reroutable
  <2>2. /\ OnlyBusy(l, rec[l].oid)' <=> OnlyBusy(l, o)
        /\ NoneLive(l)' <=> NoneLive(l)
        /\ \A x \in Oids : Live(x)' <=> Live(x)
    BY <1>1, <1>4, <1>5 DEF OnlyBusy, NoneLive, Busy, Live
  <2> QED
    BY <1>1, <1>4, <1>7, <1>9, <2>1, <2>2 DEF RowHolds
<1>11. AtBrokerOK' /\ RowsOK'
  BY <1>1, <1>3, <1>8, <1>10, OneRow
<1> DEFINE j == [job["app"] EXCEPT !.pc = "claimed"]
<1>12. j.pc = "claimed" /\ j.qty = job["app"].qty
  BY <1>1 DEF IInv, TypeOK, Job
<1>13. /\ HandsKept /\ \A q \in Procs : JobSized(q)'
       /\ job'["app"] = j /\ \A q \in Procs \ {"app"} : job'[q] = job[q]
  BY <1>1, <1>12, HandMoves
<1> HIDE DEF j
<1>14. ASSUME NEW p \in Procs, NEW k \in Legs PROVE HandHolds(p, k)'
  <2>1. Holds(p, k)' => Holds(p, k) /\ job'[p].oid = job[p].oid /\ job'[p].qty = job[p].qty
    BY <1>13 DEF HandsKept
  <2>2. CASE k # l
    BY <1>1, <1>3, <2>1, <2>2, HandSame
  <2>3. CASE k = l
    <3> SUFFICES ASSUME Holds(p, l)' PROVE HandHolds(p, l)'
      BY <2>3 DEF HandHolds
    <3>1. p # "app" /\ Holds(p, l) /\ job'[p].oid = job[p].oid /\ job'[p].qty = job[p].qty
      BY <1>12, <1>13, <2>1, <2>3 DEF Holds
    <3>2. HandHolds(p, l)
      BY DEF Executions, HandsOK
    <3>3. ord[job[p].oid].state = "unused" => rec[l].oid # job[p].oid
      BY <1>5, <1>6 DEF Observable
    <3>4. /\ Observable(job[p].oid)' <=> Observable(job[p].oid)
          /\ OnlyBusy(l, job[p].oid)' <=> OnlyBusy(l, job[p].oid)
          /\ Live(job[p].oid)' <=> Live(job[p].oid)
      BY <1>1, <3>1 DEF Observable, OnlyBusy, Busy, Live
    <3> QED
      BY <1>1, <1>4, <3>1, <3>2, <3>3, <3>4 DEF HandHolds
  <2> QED
    BY <2>2, <2>3
<1>15. SeenOK'
  BY <1>3 DEF SeenOK, SeenHolds
<1>16. ReviewHolds'
  <2>1. Live(o) => ord[o].qty = rec[l].qty /\ ord[o].ask = 0
    <3>1. Live(o) => Agrees(l, o)
      BY <1>6, <1>7 DEF RowHolds
    <3> QED
      BY <1>5, <1>6, <3>1 DEF Agrees
  <2>2. /\ Observable(review.row.oid)' <=> Observable(o)
        /\ Live(review.row.oid)' <=> Live(o)
    BY <1>1, <1>3, <1>5 DEF Observable, Live
  <2> QED
    BY <1>1, <1>2, <1>3, <1>4, <1>5, <1>6, <1>12, <1>13, <2>1, <2>2 DEF ReviewHolds
<1> QED
  BY <1>11, <1>13, <1>14, <1>15, <1>16 DEF Executions, HandsOK

\* An applied observation frees a leg for another attempt only when its order ended
\* without an execution, and settles a claim only on the terms that are in force.
LEMMA ApplyHolds ==
    ASSUME IInv, IInv', Executions, NEW l \in Legs, ApplyObservation(l)
    PROVE  Executions'
<1>1. /\ "app" \in Procs /\ job["app"].pc = "syncing" /\ seen[l] # NoRow
      /\ rec[l] \in Row /\ seen[l] \in Seen /\ UNCHANGED <<ord, job, review, feed>>
      /\ rec'[l] = IF rec[l].oid = seen[l].oid THEN Observed(rec[l], seen[l]) ELSE rec[l]
      /\ \A k \in Legs \ {l} : rec'[k] = rec[k]
      /\ seen'[l] = NoRow /\ \A k \in Legs \ {l} : seen'[k] = seen[k]
      /\ rec \in [Legs -> Row] /\ rec' \in [Legs -> Row]
  BY DEF ApplyObservation, IInv, TypeOK
<1>2. CASE rec[l].oid # seen[l].oid
  <2>1. UNCHANGED rec
    BY <1>1, <1>2
  <2>2. OrdersProceed /\ \A o \in Oids : OrderSized(o)'
    BY <1>1, OrdersRest
  <2> QED
    BY <1>1, <2>1, <2>2, RestHolds
<1>3. CASE rec[l].oid = seen[l].oid
  <2> DEFINE s == seen[l]
             T == TermsInForce(rec[l], s)
  <2>1. PICK o \in Oids : o = s.oid
    BY <1>1 DEF IInv, Core, Snapshot
  <2>2. /\ rec[l].oid = o /\ Observable(o) /\ ord[o].leg = l
        /\ s.state = "cancelled" => ord[o].state = "cancelled"
        /\ s.state \in {"working", "cancelling", "cancelled", "filled"}
    BY <1>1, <1>3, <2>1 DEF IInv, Core, Snapshot, Observable, Executions, SeenOK, SeenHolds, Seen, ObsState
  <2>3. /\ OnlyBusy(l, o)
        /\ s.state = "cancelled" => s.filled = -1 \/ s.filled = ord[o].done
        /\ s.state = "filled" => ord[o].state = "filled" /\ s.filled # 0
        /\ s.state = "cancelling" => Open(l) \/ rec[l].filled > 0
        /\ Live(o) /\ rec[l].pending.action = "amend" =>
              s.qty = rec[l].qty \/ s.qty = ord[o].qty
    BY <1>1, <1>3, <2>1 DEF Executions, SeenOK, SeenHolds
  <2>4. /\ RowSized(l) /\ RowHolds(l) /\ rec[l].qty \in Nat /\ rec[l].pending.qty \in Nat
        /\ rec[l].filled \in Nat /\ Approved[l] \in Nat /\ ord[o].done \in Nat
    BY Numbers DEF IInv, Executions, RowsOK
  <2>5. rec[l].status # "none"
    BY <2>2, <2>4 DEF RowSized, Oids
  <2>6. /\ rec'[l].oid = o /\ rec'[l].filled = rec[l].filled
        /\ rec'[l].obs.state = s.state /\ rec'[l].obs.filled = s.filled
        /\ rec'[l].qty = IF T THEN rec[l].pending.qty ELSE rec[l].qty
        /\ rec'[l].pending = IF T \/ s.state \in {"cancelled", "filled"} THEN NoPending
                             ELSE rec[l].pending
    BY <1>1, <1>3, <2>2 DEF Observed, Row
  <2>7. \/ rec'[l].status = "cancelled" /\ s.state = "cancelled"
        \/ rec'[l].status = "acknowledged" /\ s.state = "working" /\ rec[l].filled = 0
        \/ /\ rec'[l].status = rec[l].status
           /\ s.state = "working" => rec[l].filled # 0
    <3>1. rec'[l].status =
             IF s.state = "cancelled" /\ ~(rec[l].filled > 0 /\ rec[l].filled >= rec[l].qty)
             THEN "cancelled"
             ELSE IF s.state = "working" /\ rec[l].filled = 0 THEN "acknowledged"
             ELSE rec[l].status
      BY <1>1, <1>3 DEF Observed, Row
    <3> QED
      BY <3>1
  <2>8. T => rec[l].pending.action = "amend" /\ s.qty = rec[l].pending.qty
    BY DEF TermsInForce
  <2> HIDE DEF T, s
  <2>9. RowSized(l)'
    <3>1. rec'[l].status # "none"
      BY <2>5, <2>7
    <3>2. rec'[l].pending.action = "amend" => ~T /\ rec'[l].pending = rec[l].pending
      BY <2>6 DEF NoPending
    <3> QED
      BY <2>4, <2>5, <2>6, <2>8, <3>1, <3>2 DEF RowSized
  <2>10. Live(o) => Agrees(l, o)'
    <3> SUFFICES ASSUME Live(o) PROVE Agrees(l, o)'
      OBVIOUS
    <3>1. Agrees(l, o) /\ ord[o].qty \in Nat
      BY <2>2, <2>4, Numbers DEF RowHolds, IInv
    <3>2. s.state \notin {"cancelled", "filled"}
      BY <2>2, <2>3 DEF Live, LiveState
    <3>3. CASE T
      <4>1. rec[l].pending.qty < rec[l].qty /\ s.qty = rec[l].pending.qty
            /\ rec[l].pending.action = "amend"
        BY <2>4, <2>8, <3>3 DEF RowSized
      <4>2. s.qty = ord[o].qty
        BY <2>3, <2>4, <4>1
      <4>3. ord[o].qty = rec[l].pending.qty /\ ord[o].ask = 0
        BY <2>2, <2>4, <3>1, <4>1, <4>2 DEF Agrees
      <4> QED
        BY <1>1, <2>6, <3>3, <4>3 DEF Agrees, NoPending
    <3>4. CASE ~T
      BY <1>1, <2>2, <2>6, <3>1, <3>2, <3>4 DEF Agrees
    <3> QED
      BY <3>3, <3>4
  <2>11. Reroutable(rec[l])' => NoneBusy(l)
    <3> SUFFICES ASSUME Reroutable(rec[l])' PROVE ~Busy(o)
      BY <2>2, <2>3 DEF OnlyBusy, NoneBusy
    <3>1. rec'[l].status \in Failed /\ rec[l].filled = 0 /\ s.filled = 0
      BY <2>2, <2>6 DEF Reroutable
    <3>2. s.state # "working"
      BY <2>4, <2>7, <3>1 DEF Failed
    <3>3. s.state # "cancelling"
      BY <2>3, <2>4, <2>7, <3>1 DEF Open
    <3>4. s.state = "cancelled"
      BY <2>2, <2>3, <3>1, <3>2, <3>3
    <3> QED
      BY <2>2, <2>3, <2>4, <3>1, <3>4 DEF Busy, Live, LiveState
  <2>12. RowHolds(l)'
    <3>1. /\ OnlyBusy(l, rec[l].oid)' <=> OnlyBusy(l, o)
          /\ NoneLive(l)' <=> NoneLive(l)
          /\ NoneBusy(l)' <=> NoneBusy(l)
          /\ \A x \in Oids : Live(x)' <=> Live(x)
      BY <1>1, <2>6 DEF OnlyBusy, NoneLive, NoneBusy, Busy, Live
    <3>2. rec'[l].status = "filled" => rec'[l].filled > 0 /\ NoneLive(l)
      BY <2>4, <2>6, <2>7 DEF RowHolds
    <3>3. ord'[rec'[l].oid].state # "unused"
      BY <1>1, <2>2, <2>6 DEF Observable
    <3>4. \A x \in Oids : Live(x) /\ ord[x].leg = l => Agrees(l, x)'
      BY <2>3, <2>10 DEF OnlyBusy, Busy
    <3> QED
      BY <1>1, <2>3, <2>4, <2>6, <2>11, <3>1, <3>2, <3>3, <3>4 DEF RowHolds
  <2>13. AtBrokerOK' /\ RowsOK'
    BY <1>1, <2>9, <2>12, OneRow
  <2>14. HandsKept
    BY <1>1 DEF HandsKept, Holds
  <2>15. ASSUME NEW p \in Procs, NEW k \in Legs PROVE HandHolds(p, k)'
    <3>1. Holds(p, k)' => Holds(p, k) /\ job'[p].oid = job[p].oid /\ job'[p].qty = job[p].qty
      BY <2>14 DEF HandsKept
    <3>2. CASE k # l
      BY <1>1, <3>1, <3>2, HandSame
    <3>3. CASE k = l
      <4> SUFFICES ASSUME Holds(p, l)' PROVE HandHolds(p, l)'
        BY <3>3 DEF HandHolds
      <4>1. p # "app" /\ Holds(p, l)
        BY <1>1, <3>1, <3>3 DEF Holds
      <4>2. HandHolds(p, l)
        BY DEF Executions, HandsOK
      <4>3. ord[job[p].oid].state # "unused"
        BY <2>2, <4>1 DEF IInv, Core, Held, Observable
      <4>4. /\ Observable(job[p].oid)' <=> Observable(job[p].oid)
            /\ OnlyBusy(l, job[p].oid)' <=> OnlyBusy(l, job[p].oid)
            /\ Live(job[p].oid)' <=> Live(job[p].oid)
        BY <1>1 DEF Observable, OnlyBusy, Busy, Live
      <4> QED
        BY <1>1, <2>2, <2>6, <4>1, <4>2, <4>3, <4>4 DEF HandHolds
    <3> QED
      BY <3>2, <3>3
  <2>16. ASSUME NEW k \in Legs PROVE SeenHolds(k)'
    <3>1. CASE k = l
      BY <1>1, <3>1 DEF SeenHolds
    <3>2. CASE k # l
      <4>1. rec'[k] = rec[k] /\ seen'[k] = seen[k] /\ (Open(k) => Open(k)')
        BY <1>1, <3>2 DEF Open
      <4> QED
        BY <1>1, <2>14, <4>1, SeenSame
    <3> QED
      BY <3>1, <3>2
  <2>17. ReviewHolds'
    BY <1>1 DEF ReviewHolds
  <2>18. \A p \in Procs : JobSized(p)'
    BY <1>1 DEF Executions, HandsOK, JobSized
  <2> QED
    BY <2>13, <2>15, <2>16, <2>17, <2>18 DEF Executions, HandsOK, SeenOK
<1> QED
  BY <1>2, <1>3

\* A reservation: the row was one that may be replaced, so nothing of its leg is busy.
LEMMA ReserveHolds ==
    ASSUME IInv, IInv', Executions, NEW p \in Procs, Reserve(p)
    PROVE  Executions'
<1>1. PICK l \in job[p].todo :
         /\ CanReserve(p, l)
         /\ rec' = [rec EXCEPT ![l] = Preserve(rec[l], "pending_submit", job[p].oid, job[p].qty[l])]
         /\ Become(p, [job[p] EXCEPT !.pc = "reserved", !.leg = l, !.todo = @ \ {l}])
  BY DEF Reserve
<1>2. PICK o \in Oids : o = job[p].oid
  BY DEF Reserve
<1>3. /\ job[p] \in Job /\ l \in Legs /\ job[p].pc = "routing" /\ rec[l] \in Row
      /\ UNCHANGED <<ord, seen, feed, review>>
      /\ rec'[l] = Preserve(rec[l], "pending_submit", o, job[p].qty[l])
      /\ \A k \in Legs \ {l} : rec'[k] = rec[k]
  BY <1>1, <1>2 DEF IInv, TypeOK, Job, Reserve
<1>4. /\ job'[p].pc = "reserved" /\ job'[p].leg = l /\ job'[p].oid = o /\ job'[p].qty = job[p].qty
      /\ \A q \in Procs \ {p} : job'[q] = job[q]
  <2> DEFINE j == [job[p] EXCEPT !.pc = "reserved", !.leg = l, !.todo = @ \ {l}]
  <2>1. j.pc = "reserved" /\ j.leg = l /\ j.oid = job[p].oid /\ j.qty = job[p].qty
    BY <1>3 DEF Job
  <2>2. job'[p] = j /\ \A q \in Procs \ {p} : job'[q] = job[q]
    BY <1>1 DEF Become, IInv, TypeOK
  <2> HIDE DEF j
  <2> QED
    BY <1>2, <2>1, <2>2
<1>5. /\ RowSized(l) /\ RowHolds(l) /\ JobSized(p) /\ rec[l].filled \in Nat
      /\ rec[l].status = "none" \/ Reroutable(rec[l])
  BY <1>1, <1>3, Numbers DEF CanReserve, IInv, Executions, RowsOK, HandsOK
<1>6. ~Open(l) /\ rec[l].filled = 0
  BY <1>3, <1>5 DEF Reroutable, Open, Failed, IInv, Core, EmptyRow
<1>7. NoneBusy(l)
  <2>1. CASE rec[l].status = "none"
    <3>1. \A x \in Oids : Busy(x) => ord[x].state # "unused"
      BY DEF Executions, AtBrokerOK, OrderSized, Busy, Live, LiveState, Observable
    <3> QED
      BY <1>3, <2>1, <3>1 DEF IInv, Core, EmptyRow, NoneBusy
  <2>2. CASE Reroutable(rec[l])
    BY <1>5, <2>2 DEF RowHolds
  <2> QED
    BY <1>5, <2>1, <2>2
<1>8. rec[l].oid = o => rec[l].status # "none" /\ rec[l].pending.action = "none"
                        /\ ord[o].state # "unused"
  BY <1>5, <1>6 DEF RowSized, RowHolds, Reroutable, Oids
<1>9. /\ rec'[l].status = "pending_submit" /\ rec'[l].oid = o /\ rec'[l].filled = 0
      /\ rec'[l].qty = IF rec[l].oid = o THEN rec[l].qty ELSE job[p].qty[l]
      /\ rec'[l].pending.action = "none"
  BY <1>3, <1>6, <1>8 DEF Preserve, Row, NoPending
<1>10. RowSized(l)'
  BY <1>3, <1>5, <1>8, <1>9 DEF RowSized, JobSized
<1>11. /\ NoneBusy(l)' <=> NoneBusy(l)
       /\ \A x : OnlyBusy(l, x)'
       /\ \A x \in Oids : Live(x)' <=> Live(x)
       /\ \A x \in Oids : Live(x) => ord[x].leg # l
  BY <1>3, <1>7 DEF NoneBusy, OnlyBusy, Busy, Live
<1>12. RowHolds(l)'
  <2>1. OnlyBusy(l, rec[l].oid)'
    BY <1>3, <1>7 DEF OnlyBusy, NoneBusy, Busy, Live
  <2> QED
    BY <1>3, <1>9, <1>11, <2>1 DEF RowHolds, Reroutable, Failed
<1>13. AtBrokerOK' /\ RowsOK'
  BY <1>3, <1>10, <1>12, OneRow
<1>14. ASSUME NEW q \in Procs PROVE JobSized(q)'
  <2>1. job'[q].qty = job[q].qty
    BY <1>4
  <2> QED
    BY <2>1 DEF JobSized, Executions, HandsOK
<1>15. \A q \in Procs : \A k \in Legs : Holds(q, k)' =>
          (q = p /\ k = l) \/ (q # p /\ Holds(q, k) /\ job'[q] = job[q])
  BY <1>3, <1>4 DEF Holds
<1>16. ASSUME NEW q \in Procs, NEW k \in Legs PROVE HandHolds(q, k)'
  <2> SUFFICES ASSUME Holds(q, k)' PROVE HandHolds(q, k)'
    BY DEF HandHolds
  <2>1. CASE q = p
    <3>1. k = l /\ job'[q].oid = o /\ job'[q].qty = job[p].qty
      BY <1>4, <1>15, <2>1
    <3>2. OnlyBusy(l, job[q].oid)'
      BY <1>3, <1>7 DEF OnlyBusy, NoneBusy, Busy, Live
    <3>3. ~(Live(job[q].oid)' /\ ord'[job'[q].oid].leg = l)
      BY <1>3, <1>11, <3>1 DEF Live
    <3>4. ord[o].state = "unused" => rec'[l].qty = job[p].qty[l]
      BY <1>8, <1>9
    <3> QED
      BY <1>3, <1>9, <3>1, <3>2, <3>3, <3>4 DEF HandHolds
  <2>2. CASE q # p /\ k # l
    BY <1>3, <1>15, <2>2, HandSame
  <2>3. CASE q # p /\ k = l
    <3>1. Holds(q, l) /\ job'[q] = job[q]
      BY <1>15, <2>3
    <3>2. q # "app" /\ Observable(job[q].oid) /\ job[q].oid \in Oids
      BY <1>3, <1>6, <3>1 DEF IInv, Core, Held, Open, JobOK, JobFits, Holds
    <3>3. Observable(job[q].oid)' /\ ~(Live(job[q].oid)' /\ ord'[job'[q].oid].leg = l)
      BY <1>3, <1>11, <3>1, <3>2 DEF Observable, Live
    <3> QED
      BY <2>3, <3>2, <3>3 DEF HandHolds, Observable
  <2> QED
    BY <2>1, <2>2, <2>3
<1>17. ASSUME NEW k \in Legs PROVE SeenHolds(k)'
  <2> SUFFICES ASSUME seen'[k] # NoRow PROVE SeenHolds(k)'
    BY DEF SeenHolds
  <2>1. SeenHolds(k) /\ seen'[k] = seen[k] /\ seen[k].oid \in Oids /\ ord[seen[k].oid].leg = k
    BY <1>3 DEF Executions, SeenOK, IInv, Core, Snapshot
  <2>2. CASE k = l
    <3>1. OnlyBusy(l, seen[l].oid)' /\ Open(l)' /\ ~Live(seen[l].oid)'
      <4>1. OnlyBusy(l, seen[l].oid)'
        BY <1>3, <1>7 DEF OnlyBusy, NoneBusy, Busy, Live
      <4>2. Open(l)'
        BY <1>9 DEF Open, Failed
      <4>3. ~Live(seen[l].oid)'
        BY <1>3, <1>11, <2>1, <2>2 DEF Live
      <4> QED
        BY <4>1, <4>2, <4>3
    <3> QED
      BY <1>3, <2>1, <2>2, <3>1 DEF SeenHolds
  <2>3. CASE k # l
    <3>1. rec'[k] = rec[k] /\ (Open(k)' <=> Open(k)) /\ (Live(seen[k].oid)' <=> Live(seen[k].oid))
          /\ (OnlyBusy(k, seen[k].oid)' <=> OnlyBusy(k, seen[k].oid))
      BY <1>3, <2>3 DEF Open, Live, OnlyBusy, Busy
    <3>2. (\E q \in Procs : Holds(q, k)' /\ job'[q].oid = seen[k].oid)
          => \E q \in Procs : Holds(q, k) /\ job[q].oid = seen[k].oid
      BY <1>15, <2>3
    <3> QED
      BY <1>3, <2>1, <3>1, <3>2 DEF SeenHolds
  <2> QED
    BY <2>2, <2>3
<1>18. ReviewHolds'
  <2>1. CASE p = "app"
    BY <1>4, <2>1 DEF ReviewHolds
  <2>2. CASE p # "app"
    <3> SUFFICES ASSUME "app" \in Procs PROVE ReviewHolds'
      BY DEF ReviewHolds
    <3>1. ReviewHolds /\ job'["app"] = job["app"]
          /\ (job["app"].pc \in {"reviewed", "claimed"} => review.leg \in Legs /\ review.row.oid \in Oids)
      BY <1>4, <2>2 DEF Executions, IInv, ReviewOK, ReviewHolds
    <3>2. /\ Observable(review.row.oid)' <=> Observable(review.row.oid)
          /\ Live(review.row.oid)' <=> Live(review.row.oid)
      BY <1>3 DEF Observable, Live
    <3>3. job["app"].pc \in {"reviewed", "claimed"} /\ Live(review.row.oid) => review.leg # l
      BY <1>11, <3>1 DEF ReviewHolds
    <3> QED
      BY <1>3, <3>1, <3>2, <3>3 DEF ReviewHolds
  <2> QED
    BY <2>1, <2>2
<1> QED
  BY <1>13, <1>14, <1>16, <1>17, <1>18 DEF Executions, HandsOK, SeenOK

\* An order goes out: nothing else of its leg is busy, its row is not settled, and
\* it asks for what the row says or the row holds the approved terms.
LEMMA SendHolds ==
    ASSUME IInv, IInv', Executions, NEW p \in Procs, Send(p)
    PROVE  Executions'
<1>1. PICK l \in Legs, o \in Oids : l = job[p].leg /\ o = job[p].oid
  BY DEF Send, IInv, JobOK, JobFits
<1> DEFINE j == [job[p] EXCEPT !.pc = "waiting"]
<1>2. /\ job[p] \in Job /\ job[p].pc = "reserved" /\ Become(p, j) /\ Holds(p, l)
      /\ UNCHANGED <<rec, seen, feed, review>>
  BY <1>1 DEF IInv, TypeOK, Send, Holds
<1>3. j.pc = "waiting" /\ j.leg = l /\ j.oid = o /\ j.qty = job[p].qty
  BY <1>1, <1>2 DEF Job
<1> HIDE DEF j
<1>4. CASE UNCHANGED ord
  BY <1>1, <1>2, <1>3, <1>4, MoveHolds
<1>5. CASE ~UNCHANGED ord
  <2>1. /\ ord[o].state = "unused" /\ ord \in [Oids -> Order]
        /\ ord' = [ord EXCEPT ![o] = [Unused EXCEPT !.leg = l, !.state = "transit",
                                                    !.qty = job[p].qty[l]]]
    BY <1>1, <1>5 DEF Send, IInv, TypeOK
  <2>2. /\ ord'[o].state = "transit" /\ ord'[o].leg = l /\ ord'[o].qty = job[p].qty[l]
        /\ ord'[o].done = 0 /\ ord'[o].ask = 0
        /\ \A k \in Oids \ {o} : ord'[k] = ord[k]
    BY <2>1 DEF Unused
  <2>3. /\ HandsKept /\ \A q \in Procs : JobSized(q)'
        /\ job'[p] = j /\ \A q \in Procs \ {p} : job'[q] = job[q]
    BY <1>1, <1>2, <1>3, HandMoves
  <2>4. /\ OrderSized(o) /\ ord[o].done \in Nat /\ HandHolds(p, l) /\ JobSized(p)
        /\ Approved[l] \in Nat /\ job[p].qty[l] \in Nat /\ rec[l].filled \in Nat
    BY Numbers DEF IInv, Executions, AtBrokerOK, HandsOK
  <2>5. ~Busy(o) /\ ~Observable(o) /\ Busy(o)' /\ Live(o)'
    BY <2>1, <2>2, <2>4 DEF Busy, Live, LiveState, Observable, OrderSized
  <2>6. OnlyBusy(l, o) /\ NoneBusy(l)
    BY <1>1, <1>2, <2>4, <2>5 DEF HandHolds, OnlyBusy, NoneBusy
  <2>7. IF rec[l].oid = o THEN rec[l].qty = job[p].qty[l] /\ rec[l].pending.action = "none"
        ELSE rec[l].qty = Approved[l]
    BY <1>1, <1>2, <2>1, <2>4 DEF HandHolds
  <2>8. Open(l) /\ (p # "app" => rec[l].oid = o) /\ (rec[l].obs.state # "none" => rec[l].oid = o)
    BY <1>1, <1>2, <2>5 DEF IInv, Core, Held, Observable
  <2>9. \A k \in Oids \ {o} : /\ Busy(k)' <=> Busy(k)
                              /\ Live(k)' <=> Live(k)
                              /\ Observable(k)' <=> Observable(k)
    BY <2>2 DEF Busy, Live, Observable
  <2>10. OnlyBusy(l, o)'
    BY <2>2, <2>6, <2>9 DEF OnlyBusy, NoneBusy
  <2>11. ASSUME NEW k \in Legs, k # l
         PROVE  /\ NoneLive(k) => NoneLive(k)'
                /\ NoneBusy(k) => NoneBusy(k)'
                /\ \A x : OnlyBusy(k, x) => OnlyBusy(k, x)'
    BY <2>2, <2>9, <2>11 DEF NoneLive, NoneBusy, OnlyBusy
  <2>12. AtBrokerOK'
    <3>1. SingleBusy'
      <4> SUFFICES ASSUME NEW o1 \in Oids, NEW o2 \in Oids, Busy(o1)', Busy(o2)',
                          ord'[o1].leg = ord'[o2].leg
          PROVE  o1 = o2
        BY DEF SingleBusy
      <4>1. CASE ord'[o1].leg = l
        BY <2>10, <4>1 DEF OnlyBusy
      <4>2. CASE ord'[o1].leg # l
        BY <2>2, <2>9, <4>2 DEF Executions, AtBrokerOK, SingleBusy
      <4> QED
        BY <4>1, <4>2
    <3>2. OrderSized(o)'
      BY <2>2, <2>4 DEF OrderSized, JobSized
    <3>3. ASSUME NEW k \in Oids \ {o} PROVE OrderSized(k)'
      BY <2>2, <2>9 DEF OrderSized, Executions, AtBrokerOK
    <3> QED
      BY <3>1, <3>2, <3>3 DEF AtBrokerOK
  <2>13. \A k \in Oids : ord[k].done > 0 => k # o /\ ord'[k] = ord[k]
    BY <2>2, <2>5 DEF Busy
  <2>14. ASSUME NEW k \in Legs PROVE (RowSized(k) /\ RowHolds(k) /\ FeedHolds(k))'
    <3>1. RowSized(k) /\ RowHolds(k) /\ FeedHolds(k) /\ feed[k].n \in Nat
      BY Numbers DEF IInv, Executions, RowsOK
    <3>2. RowSized(k)' /\ UNCHANGED rec[k]
      BY <1>2, <3>1 DEF RowSized
    <3>3. FeedHolds(k)'
      <4> SUFFICES ASSUME feed[k] # NoFeed PROVE FeedHolds(k)'
        BY <1>2 DEF FeedHolds
      <4>1. PICK x \in Oids : x = feed[k].source
        BY <3>1 DEF FeedHolds
      <4>2. ord[x].leg = k /\ 0 < feed[k].n /\ feed[k].n <= ord[x].done /\ ord[x].done \in Nat
        BY <3>1, <4>1, Numbers DEF FeedHolds, IInv
      <4>3. ord'[x] = ord[x]
        BY <2>13, <3>1, <4>2
      <4> QED
        BY <1>2, <4>1, <4>2, <4>3 DEF FeedHolds
    <3>4. CASE k = l
      <4>1. rec[l].filled = 0 /\ rec[l].status # "filled"
        BY <2>4, <2>6, <3>1, <3>4 DEF RowHolds, NoneBusy, Busy
      <4>2. rec[l].status \notin Failed
        BY <2>8 DEF Open
      <4>3. Agrees(l, o)'
        BY <1>2, <2>2, <2>7 DEF Agrees
      <4>4. \A x \in Oids : Live(x)' /\ ord'[x].leg = l => x = o
        BY <2>10 DEF OnlyBusy, Busy
      <4>5. rec[l].obs.state # "none" => OnlyBusy(l, rec[l].oid)'
        BY <1>2, <2>8, <2>10 DEF OnlyBusy
      <4>6. RowHolds(l)'
        BY <1>2, <4>1, <4>2, <4>3, <4>4, <4>5 DEF RowHolds, Reroutable
      <4> QED
        BY <3>2, <3>3, <3>4, <4>6
    <3>5. CASE k # l
      <4>1. /\ NoneLive(k) => NoneLive(k)'
            /\ NoneBusy(k) => NoneBusy(k)'
            /\ OnlyBusy(k, rec[k].oid) => OnlyBusy(k, rec[k].oid)'
        <5>1. NoneLive(k) => NoneLive(k)'
          BY <2>11, <3>5
        <5>2. NoneBusy(k) => NoneBusy(k)'
          BY <2>11, <3>5
        <5>3. OnlyBusy(k, rec[k].oid) => OnlyBusy(k, rec[k].oid)'
          <6>1. rec'[k].oid = rec[k].oid
            BY <1>2
          <6> SUFFICES ASSUME OnlyBusy(k, rec[k].oid), NEW x \in Oids, Busy(x)', ord'[x].leg = k
                       PROVE  x = rec[k].oid
            BY <6>1 DEF OnlyBusy
          <6>2. x # o
            BY <2>2, <3>5
          <6> QED
            BY <2>2, <2>9, <6>2 DEF OnlyBusy
        <5> QED
          BY <5>1, <5>2, <5>3
      <4>2. ASSUME NEW x \in Oids, Live(x)', ord'[x].leg = k PROVE Agrees(k, x)'
        <5>1. x # o
          BY <2>2, <3>5, <4>2
        <5>2. Agrees(k, x)
          BY <2>2, <2>9, <3>1, <4>2, <5>1 DEF RowHolds
        <5> QED
          BY <1>2, <2>2, <5>1, <5>2 DEF Agrees
      <4>3. rec[k].filled > 0 => \E x \in Oids : ord'[x].leg = k /\ ord'[x].done > 0
        BY <2>13, <3>1 DEF RowHolds
      <4>4. rec[k].oid \in Oids /\ ord[rec[k].oid].state # "unused" => ord'[rec[k].oid].state # "unused"
        BY <2>1, <2>2
      <4>5. RowHolds(k)'
        BY <1>2, <3>1, <4>1, <4>2, <4>3, <4>4 DEF RowHolds, Reroutable
      <4> QED
        BY <3>2, <3>3, <4>5
    <3> QED
      BY <3>4, <3>5
  <2>15. ASSUME NEW q \in Procs, NEW k \in Legs PROVE HandHolds(q, k)'
    <3> SUFFICES ASSUME Holds(q, k)' PROVE HandHolds(q, k)'
      BY DEF HandHolds
    <3>1. Holds(q, k) /\ job'[q].oid = job[q].oid /\ job'[q].qty = job[q].qty
      BY <2>3 DEF HandsKept
    <3>2. PICK x \in Oids : x = job[q].oid
      BY <3>1 DEF Holds, IInv, JobOK, JobFits
    <3>3. /\ Observable(job[q].oid)' <=> Observable(x)'
          /\ OnlyBusy(k, job[q].oid)' <=> OnlyBusy(k, x)'
          /\ Live(job[q].oid)' <=> Live(x)'
      BY <3>1, <3>2 DEF Observable, OnlyBusy, Live
    <3>4. HandHolds(q, k)
      BY DEF Executions, HandsOK
    <3>5. CASE q = p
      <4>1. k = l /\ x = o
        BY <1>1, <1>2, <3>1, <3>2, <3>5 DEF Holds
      <4> QED
        BY <1>2, <2>2, <2>8, <2>10, <3>1, <3>2, <3>3, <3>5, <4>1 DEF HandHolds
    <3>6. CASE q # p /\ k = l
      <4>1. q # "app" /\ Observable(x)
        <5>1. q # "app"
          BY <1>1, <1>2, <2>5, <3>1, <3>6, ProcsAssumption DEF IInv, Core, HeldOnce, Observable
        <5> QED
          BY <1>2, <3>1, <3>2, <3>6, <5>1 DEF IInv, Core, HeldOnce, Observable
      <4>2. x # o
        BY <2>5, <4>1
      <4>3. ord'[x] = ord[x] /\ Observable(x)' /\ ~(Live(x)' /\ ord[x].leg = l)
        BY <2>2, <2>6, <2>9, <4>1, <4>2 DEF NoneBusy, Busy
      <4> QED
        BY <3>1, <3>2, <3>3, <3>6, <4>1, <4>3 DEF HandHolds, Observable
    <3>7. CASE q # p /\ k # l
      <4>1. OnlyBusy(k, x) => OnlyBusy(k, x)'
        BY <2>11, <3>7
      <4>2. CASE x = o
        BY <1>2, <2>2, <2>5, <3>1, <3>2, <3>3, <3>4, <3>7, <4>1, <4>2 DEF HandHolds
      <4>3. CASE x # o
        <5>1. ord'[x] = ord[x] /\ (Observable(x)' <=> Observable(x)) /\ (Live(x)' <=> Live(x))
          BY <2>2, <2>9, <4>3
        <5> QED
          BY <1>2, <3>1, <3>2, <3>3, <3>4, <4>1, <5>1 DEF HandHolds
      <4> QED
        BY <4>2, <4>3
    <3> QED
      BY <3>5, <3>6, <3>7
  <2>16. ASSUME NEW k \in Legs PROVE SeenHolds(k)'
    <3> SUFFICES ASSUME seen'[k] # NoRow PROVE SeenHolds(k)'
      BY DEF SeenHolds
    <3>1. PICK x \in Oids : x = seen[k].oid
      BY <1>2 DEF IInv, Core, Snapshot
    <3>2. SeenHolds(k) /\ seen[k] # NoRow /\ Observable(x)
      BY <1>2, <3>1 DEF Executions, SeenOK, IInv, Core, Snapshot, Observable
    <3>3. x # o /\ ord'[x] = ord[x]
      BY <2>2, <2>5, <3>2
    <3>4. /\ OnlyBusy(k, seen[k].oid)' <=> OnlyBusy(k, x)'
          /\ Live(seen[k].oid)' <=> Live(x)
          /\ Open(k)' <=> Open(k)
      BY <1>2, <3>1, <3>3 DEF OnlyBusy, Live, Open
    <3>5. rec[k].oid = x \/ (\E q \in Procs : Holds(q, k)' /\ job'[q].oid = x) => OnlyBusy(k, x)'
      <4>1. CASE k # l
        <5>1. (\E q \in Procs : Holds(q, k)' /\ job'[q].oid = x)
              => \E q \in Procs : Holds(q, k) /\ job[q].oid = x
          BY <2>3 DEF HandsKept
        <5>2. OnlyBusy(k, x) => OnlyBusy(k, x)'
          BY <2>11, <4>1
        <5> QED
          BY <3>1, <3>2, <5>1, <5>2 DEF SeenHolds
      <4>2. CASE k = l
        <5>1. "app" \in Procs /\ job["app"].pc \in {"syncing", "reviewed"}
          BY <3>2 DEF IInv, ReviewOK
        <5>2. p # "app" /\ rec[l].oid = o
          BY <1>2, <2>8, <5>1
        <5>3. ASSUME NEW q \in Procs, Holds(q, k)' PROVE job'[q].oid = o
          <6>1. Holds(q, k) /\ job'[q].oid = job[q].oid
            BY <2>3, <5>3 DEF HandsKept
          <6>2. q = p
            BY <5>1, <5>2, <6>1, ProcsAssumption DEF Holds
          <6> QED
            BY <1>1, <6>1, <6>2
        <5> QED
          BY <3>3, <4>2, <5>2, <5>3
      <4> QED
        BY <4>1, <4>2
    <3> QED
      BY <1>2, <3>1, <3>2, <3>3, <3>4, <3>5 DEF SeenHolds
  <2>17. ReviewHolds'
    <3>1. CASE p = "app"
      BY <1>3, <2>3, <3>1 DEF ReviewHolds
    <3>2. CASE p # "app"
      <4> SUFFICES ASSUME "app" \in Procs PROVE ReviewHolds'
        BY DEF ReviewHolds
      <4>1. ReviewHolds /\ job'["app"] = job["app"]
        BY <2>3, <3>2 DEF Executions
      <4>2. job["app"].pc \in {"reviewed", "claimed"} =>
              /\ review.row.oid \in Oids \ {o} /\ ord'[review.row.oid] = ord[review.row.oid]
              /\ Observable(review.row.oid)' <=> Observable(review.row.oid)
              /\ Live(review.row.oid)' <=> Live(review.row.oid)
        <5> SUFFICES ASSUME job["app"].pc \in {"reviewed", "claimed"}
            PROVE  /\ review.row.oid \in Oids \ {o} /\ ord'[review.row.oid] = ord[review.row.oid]
                   /\ Observable(review.row.oid)' <=> Observable(review.row.oid)
                   /\ Live(review.row.oid)' <=> Live(review.row.oid)
          OBVIOUS
        <5>1. review.row.oid \in Oids /\ ord[review.row.oid].state # "unused"
          BY <4>1 DEF ReviewHolds, Observable
        <5>2. ord'[review.row.oid] = ord[review.row.oid]
          BY <2>1, <2>2, <5>1
        <5> QED
          BY <1>2, <2>1, <5>1, <5>2 DEF Observable, Live
      <4> QED
        BY <1>2, <4>1, <4>2 DEF ReviewHolds
    <3> QED
      BY <3>1, <3>2
  <2> QED
    BY <2>3, <2>12, <2>14, <2>15, <2>16, <2>17 DEF Executions, RowsOK, HandsOK, SeenOK
<1> QED
  BY <1>4, <1>5

\* Saving an outcome: a rejection closes the row only when nothing of the leg is busy,
\* and a save that changes the id of the row puts the terms of its own order there.
LEMMA SaveHolds ==
    ASSUME IInv, IInv', Executions, NEW p \in Procs, SaveOutcome(p)
    PROVE  Executions'
<1>1. PICK l \in Legs, o \in Oids : l = job[p].leg /\ o = job[p].oid
  BY DEF SaveOutcome, IInv, JobOK, JobFits
<1> DEFINE R == job[p].result
           q == job[p].qty[l]
<1>2. /\ job[p] \in Job /\ job[p].pc = "outcome" /\ Holds(p, l) /\ rec[l] \in Row
      /\ R \in {"submitted", "pending_submit", "rejected"} /\ UNCHANGED <<ord, seen, feed, review>>
      /\ rec'[l] = Preserve(rec[l], R, o, q)
      /\ \A k \in Legs \ {l} : rec'[k] = rec[k]
  BY <1>1 DEF IInv, TypeOK, Job, JobOK, JobFits, SaveOutcome, Holds
<1>3. /\ HandsKept /\ (\A z \in Procs : JobSized(z)') /\ job'[p].pc \in {"idle", "routing"}
      /\ \A z \in Procs \ {p} : job'[z] = job[z]
  <2>1. CASE R = "pending_submit"
    <3>1. Become(p, Idle) /\ Idle.pc = "idle" /\ Idle.qty = Approved
      BY <2>1 DEF SaveOutcome, Finish, Idle
    <3> QED
      BY <3>1, HandMoves
  <2>2. CASE R # "pending_submit"
    <3> DEFINE j == [job[p] EXCEPT !.pc = "routing", !.leg = 0, !.result = "none", !.oid = @ + 1]
    <3>1. Become(p, j) /\ j.pc = "routing" /\ j.qty = job[p].qty
      BY <1>2, <2>2 DEF SaveOutcome, Job
    <3> HIDE DEF j
    <3> QED
      BY <3>1, HandMoves
  <2> QED
    BY <2>1, <2>2
<1>4. \A z \in Procs : \A k \in Legs : Holds(z, k)' => z # p /\ Holds(z, k) /\ job'[z] = job[z]
  BY <1>3 DEF Holds
<1>5. /\ rec'[l].oid = o /\ rec'[l].filled = rec[l].filled
      /\ \/ rec'[l].status = R
         \/ rec'[l].status = rec[l].status /\ rec[l].filled > 0
      /\ rec'[l].qty = IF rec[l].oid = o THEN rec[l].qty ELSE q
      /\ rec'[l].pending = IF rec[l].oid = o THEN rec[l].pending ELSE NoPending
      /\ rec'[l].obs.state # "none" => rec[l].oid = o /\ rec[l].obs.state # "none"
  BY <1>2 DEF Preserve, Row, NoObs
<1>6. /\ RowSized(l) /\ RowHolds(l) /\ HandHolds(p, l) /\ JobSized(p) /\ OrderSized(o)
      /\ rec[l].filled \in Nat /\ ord[o].done \in Nat /\ rec[l].qty \in Nat
  BY Numbers DEF IInv, Executions, AtBrokerOK, RowsOK, HandsOK
<1>7. /\ p = "app" \/ ~Observable(o) => OnlyBusy(l, o)
      /\ Live(o) /\ ord[o].leg = l =>
            /\ p = "app" => ord[o].qty = q /\ ord[o].ask = 0
            /\ p # "app" => rec[l].oid = o
      /\ p # "app" => q = Approved[l]
  BY <1>1, <1>2, <1>6 DEF HandHolds, JobSized
<1>8. R = "rejected" => ord[o].state = "refused" /\ ~Observable(o) /\ NoneBusy(l)
  <2> SUFFICES ASSUME R = "rejected" PROVE ord[o].state = "refused" /\ ~Observable(o) /\ NoneBusy(l)
    OBVIOUS
  <2>1. ord[o].state = "refused" /\ ~Observable(o)
    BY <1>1, <1>2 DEF IInv, Core, Held, Observable
  <2>2. ~Busy(o)
    BY <1>6, <2>1 DEF Busy, Live, LiveState, OrderSized
  <2> QED
    BY <1>7, <2>1, <2>2 DEF OnlyBusy, NoneBusy
<1> HIDE DEF R, q
<1>9. rec[l].oid = o => rec[l].status # "none"
  BY <1>6 DEF RowSized, Oids
<1>10. RowSized(l)'
  <2>1. rec'[l].status # "none"
    BY <1>2, <1>5, <1>6 DEF IInv, Core, EmptyRow
  <2>2. 0 < q /\ q <= Approved[l]
    BY <1>6 DEF JobSized, q
  <2> QED
    BY <1>5, <1>6, <1>9, <2>1, <2>2 DEF RowSized, NoPending
<1>11. ASSUME NEW x \in Oids, Live(x), ord[x].leg = l PROVE Agrees(l, x)'
  <2>1. Agrees(l, x)
    BY <1>6, <1>11 DEF RowHolds
  <2>2. CASE rec[l].oid = o
    BY <1>2, <1>5, <2>1, <2>2 DEF Agrees
  <2>3. CASE rec[l].oid # o /\ p = "app"
    <3>1. x = o
      BY <1>7, <1>11, <2>3 DEF OnlyBusy, Busy
    <3> QED
      BY <1>2, <1>5, <1>7, <1>11, <2>3, <3>1 DEF Agrees, NoPending
  <2>4. CASE rec[l].oid # o /\ p # "app"
    <3>1. x # o
      BY <1>7, <1>11, <2>4
    <3> QED
      BY <1>5, <1>7, <2>4, <3>1 DEF Agrees
  <2> QED
    BY <2>2, <2>3, <2>4
<1>12. RowHolds(l)'
  <2>1. /\ OnlyBusy(l, rec[l].oid)' <=> OnlyBusy(l, o)
        /\ NoneLive(l)' <=> NoneLive(l)
        /\ NoneBusy(l)' <=> NoneBusy(l)
        /\ \A x \in Oids : Live(x)' <=> Live(x)
    BY <1>2, <1>5 DEF OnlyBusy, NoneLive, NoneBusy, Busy, Live
  <2>2. rec'[l].status = "filled" => rec'[l].filled > 0 /\ NoneLive(l)
    BY <1>2, <1>5, <1>6 DEF RowHolds
  <2>3. rec'[l].status \in Failed /\ rec'[l].filled = 0 => R = "rejected"
    BY <1>2, <1>5, <1>6 DEF Failed
  <2>4. Reroutable(rec[l])' => NoneBusy(l)
    BY <1>8, <2>3 DEF Reroutable
  <2>5. rec'[l].status \in Failed /\ rec'[l].filled = 0 => ord'[rec'[l].oid].state # "unused"
    BY <1>2, <1>5, <1>8, <2>3
  <2>6. rec'[l].obs.state # "none" => OnlyBusy(l, o)
    BY <1>5, <1>6 DEF RowHolds
  <2> QED
    BY <1>2, <1>5, <1>6, <1>11, <2>1, <2>2, <2>4, <2>5, <2>6 DEF RowHolds
<1>13. AtBrokerOK' /\ RowsOK'
  BY <1>2, <1>10, <1>12, OneRow
<1>14. ASSUME NEW z \in Procs, NEW k \in Legs PROVE HandHolds(z, k)'
  <2> SUFFICES ASSUME Holds(z, k)' PROVE HandHolds(z, k)'
    BY DEF HandHolds
  <2>1. z # p /\ Holds(z, k) /\ job'[z] = job[z]
    BY <1>4
  <2>2. CASE k # l
    BY <1>2, <2>1, <2>2, HandSame
  <2>3. CASE k = l
    <3>1. PICK x \in Oids : x = job[z].oid
      BY <2>1 DEF Holds, IInv, JobOK, JobFits
    <3>2. HandHolds(z, l)
      BY DEF Executions, HandsOK
    <3>3. /\ Observable(job[z].oid)' <=> Observable(x)
          /\ OnlyBusy(l, job[z].oid)' <=> OnlyBusy(l, x)
          /\ Live(job[z].oid)' <=> Live(x)
      BY <1>2, <2>1, <3>1 DEF Observable, OnlyBusy, Busy, Live
    <3>4. Live(x) /\ ord[x].leg = l /\ z # "app" => x = o
      <4>1. z # "app" => p = "app"
        BY <2>1, ProcsAssumption
      <4> QED
        BY <1>7, <4>1 DEF OnlyBusy, Busy
    <3>5. ord[x].state = "unused" =>
             IF rec'[l].oid = x
             THEN rec'[l].qty = job[z].qty[l] /\ rec'[l].pending.action = "none"
             ELSE rec'[l].qty = Approved[l]
      <4> SUFFICES ASSUME ord[x].state = "unused"
          PROVE  rec'[l].oid # x /\ rec'[l].qty = Approved[l]
        OBVIOUS
      <4>1. ~Observable(x)
        BY DEF Observable
      <4>2. z = "app" /\ p # "app"
        BY <1>2, <2>1, <2>3, <3>1, <4>1 DEF IInv, Core, HeldOnce, Observable
      <4>3. Observable(o)
        BY <1>1, <1>2, <2>1, <2>3, <4>2 DEF IInv, Core, HeldOnce, Observable
      <4>4. x # o
        BY <4>1, <4>3
      <4>5. rec[l].oid = o => rec[l].qty = Approved[l]
        BY <2>1, <2>3, <3>1, <3>2, <4>4 DEF HandHolds
      <4> QED
        BY <1>5, <1>7, <4>2, <4>4, <4>5
    <3> QED
      BY <1>2, <1>5, <2>1, <2>3, <3>1, <3>2, <3>3, <3>4, <3>5 DEF HandHolds
  <2> QED
    BY <2>2, <2>3
<1>15. ASSUME NEW k \in Legs PROVE SeenHolds(k)'
  <2>1. CASE k # l
    <3>1. rec'[k] = rec[k] /\ (Open(k) => Open(k)') /\ seen'[k] = seen[k]
      BY <1>2, <2>1 DEF Open
    <3> QED
      BY <1>2, <1>3, <3>1, SeenSame
  <2>2. CASE k = l
    <3> SUFFICES ASSUME seen'[l] # NoRow PROVE SeenHolds(l)'
      BY <2>2 DEF SeenHolds
    <3>1. PICK x \in Oids : x = seen[l].oid
      BY <1>2 DEF IInv, Core, Snapshot
    <3>2. SeenHolds(l) /\ seen[l] # NoRow /\ seen'[l] = seen[l] /\ Observable(x)
      BY <1>2, <3>1 DEF Executions, SeenOK, IInv, Core, Snapshot, Observable
    <3>3. ~\E z \in Procs : Holds(z, l)'
      <4>1. "app" \in Procs /\ job["app"].pc \in {"syncing", "reviewed"}
        BY <3>2 DEF IInv, ReviewOK
      <4>2. p # "app" /\ ~Holds("app", l)
        BY <1>2, <4>1 DEF Holds
      <4>3. ASSUME NEW z \in Procs, Holds(z, l)' PROVE FALSE
        <5>1. z # p /\ Holds(z, l)
          BY <1>4, <4>3
        <5>2. z = "app"
          BY <4>2, <5>1, ProcsAssumption
        <5> QED
          BY <4>2, <5>1, <5>2
      <4> QED
        BY <4>3
    <3>4. o = x => OnlyBusy(l, x)
      BY <1>1, <1>2, <3>1, <3>2 DEF SeenHolds
    <3>5. o = x => Open(l)' \/ rec'[l].filled > 0
      BY <1>2, <1>5, <1>8, <3>2 DEF Open, Failed
    <3>6. o = x /\ Live(x) /\ rec'[l].pending.action = "amend" =>
             seen[l].qty = rec'[l].qty \/ seen[l].qty = ord[x].qty
      BY <1>5, <3>1, <3>2 DEF SeenHolds, NoPending
    <3>7. /\ OnlyBusy(l, seen[l].oid)' <=> OnlyBusy(l, x)
          /\ Live(seen[l].oid)' <=> Live(x)
      BY <1>2, <3>1, <3>2 DEF OnlyBusy, Busy, Live
    <3> QED
      BY <1>2, <1>5, <3>1, <3>2, <3>3, <3>4, <3>5, <3>6, <3>7 DEF SeenHolds
  <2> QED
    BY <2>1, <2>2
<1>16. ReviewHolds'
  <2>1. CASE p = "app"
    BY <1>3, <2>1 DEF ReviewHolds
  <2>2. CASE p # "app"
    <3> SUFFICES ASSUME "app" \in Procs PROVE ReviewHolds'
      BY DEF ReviewHolds
    <3>1. ReviewHolds /\ job'["app"] = job["app"]
          /\ (job["app"].pc \in {"reviewed", "claimed"} => review.leg \in Legs /\ review.row.oid \in Oids)
      BY <1>3, <2>2 DEF Executions, IInv, ReviewOK, ReviewHolds
    <3>2. /\ Observable(review.row.oid)' <=> Observable(review.row.oid)
          /\ Live(review.row.oid)' <=> Live(review.row.oid)
      BY <1>2 DEF Observable, Live
    <3>3. /\ job["app"].pc \in {"reviewed", "claimed"} /\ review.leg = l
          /\ rec'[l].oid = review.row.oid /\ Live(review.row.oid)
          => rec[l].oid = o /\ o = review.row.oid
      <4> SUFFICES ASSUME job["app"].pc \in {"reviewed", "claimed"}, review.leg = l,
                          rec'[l].oid = review.row.oid, Live(review.row.oid)
          PROVE  rec[l].oid = o /\ o = review.row.oid
        OBVIOUS
      <4>1. o = review.row.oid /\ ord[review.row.oid].leg = l
        BY <1>5, <3>1 DEF ReviewHolds
      <4>2. Live(o) /\ ord[o].leg = l
        BY <4>1 DEF Live
      <4> QED
        BY <1>7, <2>2, <4>1, <4>2
    <3>4. rec[l].oid = o => rec'[l].qty = rec[l].qty /\ rec'[l].pending = rec[l].pending
      BY <1>5
    <3>5. job["app"].pc = "claimed" /\ rec'[review.leg].oid = review.row.oid /\ Live(review.row.oid) =>
             /\ rec[review.leg].oid = review.row.oid
             /\ rec'[review.leg].qty = rec[review.leg].qty
             /\ rec'[review.leg].pending = rec[review.leg].pending
      BY <1>2, <3>1, <3>3, <3>4
    <3> QED
      BY <1>2, <3>1, <3>2, <3>5 DEF ReviewHolds
  <2> QED
    BY <2>1, <2>2
<1> QED
  BY <1>3, <1>13, <1>14, <1>15, <1>16 DEF Executions, HandsOK, SeenOK

\* Before anything is routed nothing is busy, and no row or job says otherwise.
LEMMA ExecutionsInit == Init => Executions
<1> SUFFICES ASSUME Init PROVE Executions
  OBVIOUS
<1>1. /\ \A o \in Oids : /\ ord[o].state = "unused" /\ ord[o].leg = 0 /\ ord[o].qty = 0
                         /\ ord[o].done = 0 /\ ord[o].ask = 0
      /\ \A l \in Legs : /\ rec[l] = NoRecord /\ feed[l] = NoFeed /\ seen[l] = NoRow
                         /\ Approved[l] \in Nat \ {0}
      /\ \A p \in Procs : job[p].pc = "idle" /\ job[p].qty = Approved
  BY DEF Init, Unused, Idle
<1>2. /\ NoRecord.status = "none" /\ NoRecord.oid = 0 /\ NoRecord.filled = 0
      /\ NoRecord.pending.action = "none" /\ NoRecord.obs.state = "none"
  BY DEF NoRecord, NoPending, NoObs
<1>3. \A o \in Oids : ~Live(o) /\ ~Busy(o)
  BY <1>1 DEF Live, LiveState, Busy
<1>4. AtBrokerOK
  BY <1>1, <1>3 DEF AtBrokerOK, SingleBusy, OrderSized
<1>5. ASSUME NEW l \in Legs PROVE RowSized(l) /\ RowHolds(l) /\ FeedHolds(l)
  <2>1. RowSized(l) /\ FeedHolds(l)
    BY <1>1, <1>2 DEF RowSized, FeedHolds
  <2>2. RowHolds(l)
    BY <1>1, <1>2, <1>3 DEF RowHolds, Reroutable, Failed
  <2> QED
    BY <2>1, <2>2
<1>6. HandsOK
  BY <1>1 DEF HandsOK, JobSized, HandHolds, Holds
<1>7. SeenOK
  BY <1>1 DEF SeenOK, SeenHolds
<1>8. ReviewHolds
  BY <1>1 DEF ReviewHolds
<1> QED
  BY <1>4, <1>5, <1>6, <1>7, <1>8 DEF Executions, RowsOK

\* Every step of Next preserves what is said of executions and terms.
LEMMA ExecutionsStep ==
    ASSUME IInv, Executions, [Next]_vars
    PROVE  IInv' /\ Executions'
<1>1. IInv'
  BY CoreStep
<1>2. CASE UNCHANGED vars
  <2>1. UNCHANGED <<rec, ord, job, review, seen, feed>>
    BY <1>2 DEF vars
  <2>2. OrdersProceed /\ \A o \in Oids : OrderSized(o)'
    BY <2>1, OrdersRest
  <2> QED
    BY <1>1, <2>1, <2>2, RestHolds
<1>3. ASSUME NEW p \in Procs, Routing(p) PROVE Executions'
  BY <1>1, <1>3, RoutingHolds, ReserveHolds, SendHolds, SaveHolds DEF Routing
<1>4. CASE Managing
  <2>1. CASE OpenSync \/ \E l \in Legs : OpenCancel(l) \/ OpenAmend(l)
    BY <1>1, <2>1, OpenHolds
  <2>2. CASE CloseSync \/ ReviewStale
    BY <1>1, <2>2, ManagingHolds
  <2>3. CASE Claim \/ Change \/ RetryRoute
    BY <1>1, <2>3, ClaimHolds, ChangeHolds, RetryHolds
  <2>4. ASSUME NEW l \in Legs, ApplyObservation(l) \/ OpenResubmit(l) PROVE Executions'
    BY <1>1, <2>4, ApplyHolds, ResubmitHolds
  <2> QED
    BY <1>1, <1>4, <2>1, <2>2, <2>3, <2>4 DEF Managing
<1>5. CASE Expiring \/ DropSession \/ \E p \in Procs : Crash(p)
  BY <1>1, <1>5, ManagingHolds DEF Expiring
<1>6. CASE Filling \/ AtBroker
  BY <1>1, <1>6, FetchHolds, MergeHolds, BrokerHolds DEF Filling
<1> QED
  BY <1>1, <1>2, <1>3, <1>4, <1>5, <1>6 DEF Next

\* The whole invariant holds in every state.
LEMMA ExecutionsInvariant == Spec => [](IInv /\ Executions)
<1>1. Init => IInv /\ Executions
  BY TypeInit, CoreInit, ExecutionsInit DEF IInv
<1>2. IInv /\ Executions /\ [Next]_vars => IInv' /\ Executions'
  BY ExecutionsStep
<1> QED
  BY <1>1, <1>2, PTL DEF Spec

\* However the two routers, the operator, the syncs, crashes and late saves interleave,
\* the broker never executes more than was approved for a leg, over all the orders sent
\* for it: an attempt is replaced only after it ended without an execution
\* (reserve_broker_order_record), and no amendment raises the quantity (manage_order).
THEOREM ExecutedAsApproved == Spec => []ExecutedWithinApproval
<1>1. IInv /\ Executions => ExecutedWithinApproval
  <2> SUFFICES ASSUME IInv, Executions, NEW o \in Oids, ord[o].done > 0
      PROVE  /\ ord[o].done <= Approved[ord[o].leg]
             /\ \A k \in Oids \ {o} : ord[k].leg = ord[o].leg => ord[k].done = 0 /\ ~Live(k)
    BY DEF ExecutedWithinApproval
  <2>1. OrderSized(o) /\ SingleBusy
    BY DEF Executions, AtBrokerOK
  <2>2. ord[o].state # "unused"
    BY <2>1 DEF OrderSized, Observable
  <2>3. /\ ord[o].leg \in Legs /\ ord[o].done \in Nat /\ ord[o].qty \in Nat
        /\ Approved[ord[o].leg] \in Nat
    BY <2>2, Numbers DEF IInv, Core, OrderOK
  <2>4. ord[o].done <= Approved[ord[o].leg]
    BY <2>1, <2>2, <2>3 DEF OrderSized
  <2>5. ASSUME NEW k \in Oids \ {o}, ord[k].leg = ord[o].leg
        PROVE  ord[k].done = 0 /\ ~Live(k)
    <3>1. ~Busy(k)
      BY <2>1, <2>5 DEF SingleBusy, Busy
    <3>2. ord[k].done \in Nat
      BY Numbers DEF IInv
    <3> QED
      BY <3>1, <3>2 DEF Busy
  <2> QED
    BY <2>4, <2>5
<1> QED
  BY <1>1, ExecutionsInvariant, PTL

\* While an order is alive at the broker, the row of its leg never says that there is
\* none or that it was cancelled, rejected or filled, whichever of the two processes wrote
\* the row last and however old the row was that it computed from.
THEOREM LiveRowNotClosed == Spec => []ClosedRowNotLive
<1>1. IInv /\ Executions => ClosedRowNotLive
  <2> SUFFICES ASSUME IInv, Executions, NEW o \in Oids, Live(o)
      PROVE  rec[ord[o].leg].status \notin {"none", "cancelled", "rejected", "filled"}
    BY DEF ClosedRowNotLive
  <2>1. ord[o].leg \in Legs
    BY DEF Live, LiveState, IInv, Core, OrderOK
  <2>2. Open(ord[o].leg)
    BY DEF IInv, Core, LiveIsOpen
  <2>3. rec[ord[o].leg].status # "filled"
    BY <2>1 DEF Executions, RowsOK, RowHolds, NoneLive
  <2> QED
    BY <2>2, <2>3 DEF Open, Failed
<1> QED
  BY <1>1, ExecutionsInvariant, PTL
================================================================================
