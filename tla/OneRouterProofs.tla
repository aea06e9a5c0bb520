---------------------------- MODULE OneRouterProofs ----------------------------
(* Theorems about OrderLedger where the app is the only router, for every       *)
(* number of legs, every approved quantity and every bound on the ids: no save  *)
(* is late, so the row of a leg always names its live order and keeps a claim   *)
(* until the broker has settled it, and an unknown outcome stops the routing.   *)
EXTENDS OrderLedgerProofs

OneRouter == Procs = {"app"}
J == job["app"]

\* The row of a leg in hand has the id in hand.
InHand == \A l \in Legs : Holds("app", l) => rec[l].oid = J.oid

\* A row without a claim has no claimed quantity; a leg without a row has no claim, and
\* one with executions is not waiting for an outcome.
Tidy ==
    \A l \in Legs : /\ rec[l].pending.action = "none" => rec[l].pending = NoPending
                    /\ rec[l].status = "none" => rec[l].pending.action = "none"
                    /\ rec[l].filled > 0 => rec[l].status # "pending_submit"

\* While the app routes, no leg but the one in hand waits for an outcome.
NoneUncertain ==
    /\ J.pc \in {"validated", "routing"} => \A l \in Legs : rec[l].status # "pending_submit"
    /\ J.pc \in {"reserved", "waiting", "outcome"} =>
          \A l \in Legs \ {J.leg} : rec[l].status # "pending_submit"

AppInv == LiveOrderTracked /\ InHand /\ Tidy /\ NoneUncertain

USE NumLegsAssumption, MaxOidAssumption, ApprovedAssumption, ProcsAssumption

--------------------------------------------------------------------------------
(* What a step does to rows, orders and the hand of the app. *)

\* The one router's ways to write the row of a leg.
WriteOf(l) ==
    \/ rec'[l] = rec[l]
    \/ /\ Reserve("app") /\ J'.leg = l /\ (rec[l].status = "none" \/ Reroutable(rec[l]))
       /\ rec'[l] = Preserve(rec[l], "pending_submit", J.oid, J.qty[l])
    \/ SaveOutcome("app") /\ l = J.leg /\ rec'[l] = Preserve(rec[l], J.result, J.oid, J.qty[l])
    \/ ApplyObservation(l) /\ rec'[l] = Observed(rec[l], seen[l])
    \/ /\ Claim /\ rec'[l].pending.action = review.action
       /\ rec'[l].status = rec[l].status /\ rec'[l].filled = rec[l].filled
    \/ MergeFills(l) /\ rec'[l] = Merged(rec[l], feed[l])

\* There is no other.
LEMMA RowWrites ==
    ASSUME OneRouter, TypeOK, JobOK, ReviewOK, [Next]_vars, NEW l \in Legs
    PROVE  WriteOf(l)
<1> USE DEF TypeOK
<1>1. rec[l] \in Row /\ feed[l] \in Feed /\ "app" \in Procs /\ J \in Job
  BY DEF OneRouter, J
<1>2. CASE rec' = rec
  BY <1>2 DEF WriteOf
<1>3. CASE Reserve("app")
  <2>1. PICK k \in J.todo :
          /\ CanReserve("app", k)
          /\ rec' = [rec EXCEPT ![k] = Preserve(rec[k], "pending_submit", J.oid, J.qty[k])]
          /\ Become("app", [J EXCEPT !.pc = "reserved", !.leg = k, !.todo = @ \ {k}])
    BY <1>3 DEF Reserve, J
  <2>2. J' = [J EXCEPT !.pc = "reserved", !.leg = k, !.todo = @ \ {k}]
    BY <1>1, <2>1 DEF Become, J
  <2>3. J'.leg = k
    BY <1>1, <2>2 DEF Job
  <2> QED
    BY <1>1, <1>3, <2>1, <2>3 DEF WriteOf, CanReserve
<1>4. CASE SaveOutcome("app")
  <2>1. rec' = [rec EXCEPT ![J.leg] = Preserve(rec[J.leg], J.result, J.oid, J.qty[J.leg])]
    BY <1>4 DEF SaveOutcome, J
  <2> QED
    BY <1>1, <1>4, <2>1 DEF WriteOf
<1>5. ASSUME NEW k \in Legs, ApplyObservation(k) PROVE WriteOf(l)
  <2>1. rec'[l] = rec[l] \/ (k = l /\ rec'[l] = Observed(rec[l], seen[l]))
    BY <1>5 DEF ApplyObservation
  <2> QED
    BY <1>5, <2>1 DEF WriteOf
<1>6. CASE Claim
  <2>1. \/ rec'[l] = rec[l]
        \/ /\ rec'[l].pending.action = review.action
           /\ rec'[l].status = rec[l].status /\ rec'[l].filled = rec[l].filled
    BY <1>1, <1>6 DEF Claim, Row
  <2> QED
    BY <1>6, <2>1 DEF WriteOf
<1>7. ASSUME NEW k \in Legs, MergeFills(k) PROVE WriteOf(l)
  <2>1. rec'[l] = rec[l] \/ (k = l /\ rec'[l] = Merged(rec[l], feed[l]))
    BY <1>7 DEF MergeFills
  <2> QED
    BY <1>7, <2>1 DEF WriteOf
<1>8. CASE UNCHANGED vars
  BY <1>2, <1>8 DEF vars
<1>9. CASE Routing("app") \/ Crash("app")
  <2>1. \/ rec' = rec \/ Reserve("app") \/ SaveOutcome("app")
    BY <1>9 DEF Routing, Validate, Connect, ConnectFails, ReserveRefused, BatchDone, Send,
                Acknowledged, DefinitelyRejected, Uncertain, Crash
  <2> QED
    BY <1>2, <1>3, <1>4, <2>1
<1>10. CASE Managing
  <2>1. \/ rec' = rec \/ Claim \/ \E k \in Legs : ApplyObservation(k)
    BY <1>10 DEF Managing, OpenSync, CloseSync, ReviewStale, Change, RetryRoute, OpenCancel,
                 OpenAmend, OpenResubmit
  <2> QED
    BY <1>2, <1>5, <1>6, <2>1
<1>11. CASE Expiring \/ Filling \/ DropSession
  <2>1. \/ rec' = rec \/ \E k \in Legs : MergeFills(k)
    BY <1>11 DEF Expiring, Filling, DeadlinePasses, ExpireScan, ExpireMark, ExpireClose,
                 FetchFills, DropSession
  <2> QED
    BY <1>2, <1>7, <2>1
<1>12. CASE AtBroker
  BY <1>2, <1>12 DEF AtBroker, BrokerAccepts, BrokerRefuses, BrokerFills, BrokerCancels, BrokerAmends,
     BrokerCorrects, Broker
<1> QED
  BY <1>8, <1>9, <1>10, <1>11, <1>12 DEF Next, OneRouter

\* An order comes alive only when the app sends it.
LEMMA Sends ==
    ASSUME OneRouter, IInv, [Next]_vars, NEW o \in Oids, Live(o)'
    PROVE  \/ Live(o) /\ ord'[o].leg = ord[o].leg
           \/ Send("app") /\ J.pc = "reserved" /\ J.leg \in Legs /\ o = J.oid /\ ord'[o].leg = J.leg
<1>1. "app" \in Procs /\ ord \in [Oids -> Order] /\ ord[o] \in Order
  BY DEF OneRouter, IInv, TypeOK
<1>2. CASE ord' = ord
  BY <1>2 DEF Live
<1>3. CASE AtBroker
  BY <1>1, <1>3 DEF AtBroker, BrokerAccepts, BrokerRefuses, BrokerFills, BrokerCancels, BrokerAmends,
     BrokerCorrects, Order, Live, LiveState
<1>4. CASE Change
  BY <1>1, <1>4 DEF Change, Order, Live, LiveState
<1>5. CASE Send("app")
  <2>1. J.pc = "reserved" /\ J.leg \in Legs
    BY <1>5 DEF Send, J, OneRouter, IInv, JobOK, JobFits
  <2>2. ord' = ord \/ ord' = [ord EXCEPT ![J.oid] =
           [Unused EXCEPT !.leg = J.leg, !.state = "transit", !.qty = J.qty[J.leg]]]
    BY <1>5 DEF Send, J
  <2>3. ord'[o] = ord[o] \/ (o = J.oid /\ ord'[o].leg = J.leg)
    BY <1>1, <2>2 DEF Unused
  <2> QED
    BY <1>5, <2>1, <2>3 DEF Live
<1>6. CASE Routing("app") \/ Crash("app")
  <2>1. Send("app") \/ ord' = ord
    BY <1>6 DEF Routing, Crash, Validate, Connect, ConnectFails, Reserve, ReserveRefused,
       BatchDone, Acknowledged, DefinitelyRejected, Uncertain, SaveOutcome
  <2> QED
    BY <1>2, <1>5, <2>1
<1>7. CASE Managing
  <2>1. Change \/ ord' = ord
    BY <1>7 DEF Managing, OpenSync, CloseSync, Claim, ReviewStale, RetryRoute,
       ApplyObservation, OpenCancel, OpenAmend, OpenResubmit
  <2> QED
    BY <1>2, <1>4, <2>1
<1>8. CASE Expiring \/ Filling \/ DropSession \/ UNCHANGED vars
  BY <1>2, <1>8 DEF Expiring, Filling, DeadlinePasses, ExpireScan, ExpireMark, ExpireClose,
     FetchFills, MergeFills, DropSession, vars
<1> QED
  BY <1>3, <1>6, <1>7, <1>8 DEF Next, OneRouter

\* Where the app has a leg in hand.
Hold == {"reserved", "waiting", "outcome"}

\* A leg comes into the hand of the app only by a reservation, which puts the id there.
LEMMA Takes ==
    ASSUME OneRouter, IInv, [Next]_vars, NEW l \in Legs, Holds("app", l)'
    PROVE  \/ Holds("app", l) /\ J'.oid = J.oid
           \/ Reserve("app") /\ rec'[l].oid = J'.oid
<1>1. /\ "app" \in Procs /\ J \in Job /\ job \in [Procs -> Job] /\ rec \in [Legs -> Row]
      /\ Idle.pc = "idle" /\ J'.pc \in Hold /\ J'.leg = l
  BY DEF OneRouter, IInv, TypeOK, J, Idle, Holds, Hold
<1>2. ASSUME NEW j, Become("app", j)
      PROVE  J' = j
  BY <1>1, <1>2 DEF Become, J
<1>3. CASE J' = J
  BY <1>1, <1>3 DEF Holds, Hold, J
<1>4. CASE Reserve("app")
  <2>1. PICK k \in J.todo :
          /\ rec' = [rec EXCEPT ![k] = Preserve(rec[k], "pending_submit", J.oid, J.qty[k])]
          /\ Become("app", [J EXCEPT !.pc = "reserved", !.leg = k, !.todo = @ \ {k}])
    BY <1>4 DEF Reserve, J
  <2>2. J' = [J EXCEPT !.pc = "reserved", !.leg = k, !.todo = @ \ {k}]
    BY <1>2, <2>1
  <2>3. k = l /\ J'.oid = J.oid
    BY <1>1, <2>2 DEF Job
  <2>4. rec'[l] = Preserve(rec[l], "pending_submit", J.oid, J.qty[l]) /\ rec[l] \in Row
    BY <1>1, <2>1, <2>3
  <2> QED
    BY <1>4, <2>3, <2>4 DEF Preserve, Row
<1>5. CASE Send("app") \/ Acknowledged("app") \/ DefinitelyRejected("app") \/ Uncertain("app")
  <2>1. \/ J' = [J EXCEPT !.pc = "waiting"]
        \/ J' = [J EXCEPT !.pc = "outcome", !.result = "submitted"]
        \/ J' = [J EXCEPT !.pc = "outcome", !.result = "rejected"]
        \/ J' = [J EXCEPT !.pc = "outcome", !.result = "pending_submit"]
    BY <1>2, <1>5 DEF Send, Acknowledged, DefinitelyRejected, Uncertain, J
  <2>2. J'.oid = J.oid /\ J'.leg = J.leg
    BY <1>1, <2>1 DEF Job
  <2>3. J.pc \in Hold
    BY <1>5 DEF Send, Acknowledged, DefinitelyRejected, Uncertain, J, Hold
  <2> QED
    BY <1>1, <2>2, <2>3 DEF Holds, Hold, J
<1>6. CASE J' = Idle
  BY <1>1, <1>6 DEF Hold
<1>7. CASE J'.pc \in {"validated", "routing", "syncing", "reviewed", "claimed", "retrying", "expiring"}
  BY <1>1, <1>7 DEF Hold
<1>8. CASE Routing("app")
  <2>1. CASE Validate("app")
    <3>1. PICK legs, allow : J' = [Idle EXCEPT !.pc = "validated", !.todo = legs, !.allow = allow]
      BY <1>2, <2>1 DEF Validate
    <3> QED
      BY <1>7, <3>1 DEF Idle
  <2>2. CASE Connect("app")
    <3>1. PICK first : J' = [J EXCEPT !.pc = "routing", !.oid = first]
      BY <1>2, <2>2 DEF Connect, J
    <3> QED
      BY <1>1, <1>7, <3>1 DEF Job
  <2>3. CASE ConnectFails("app") \/ ReserveRefused("app") \/ BatchDone("app")
    BY <1>2, <1>6, <2>3 DEF ConnectFails, ReserveRefused, BatchDone, Finish
  <2>4. CASE SaveOutcome("app")
    <3>1. \/ J' = Idle
          \/ J' = [J EXCEPT !.pc = "routing", !.leg = 0, !.result = "none", !.oid = @ + 1]
      BY <1>2, <2>4 DEF SaveOutcome, Finish, J
    <3> QED
      BY <1>1, <1>6, <1>7, <3>1 DEF Job
  <2> QED
    BY <1>4, <1>5, <1>8, <2>1, <2>2, <2>3, <2>4 DEF Routing
<1>9. CASE Crash("app")
  BY <1>2, <1>6, <1>9 DEF Crash, Finish
<1>10. CASE Managing
  <2>1. CASE RetryRoute
    <3> DEFINE q == [Approved EXCEPT ![review.leg] = rec[review.leg].qty]
    <3>1. J' = Idle \/ J' = [Idle EXCEPT !.pc = "validated", !.todo = {review.leg}, !.allow = TRUE,
                                         !.qty = q]
      BY <1>2, <2>1 DEF RetryRoute
    <3> HIDE DEF q
    <3> QED
      BY <1>6, <1>7, <3>1 DEF Idle
  <2>2. CASE OpenSync \/ Claim \/ \E k \in Legs : OpenCancel(k) \/ OpenAmend(k) \/ OpenResubmit(k)
    <3>1. \/ J' = [Idle EXCEPT !.pc = "syncing"] \/ J' = [J EXCEPT !.pc = "claimed"]
          \/ J' = [Idle EXCEPT !.pc = "reviewed"] \/ J' = [Idle EXCEPT !.pc = "retrying"]
      BY <1>2, <2>2 DEF OpenSync, Claim, OpenCancel, OpenAmend, OpenResubmit, J
    <3> QED
      BY <1>1, <1>7, <3>1 DEF Idle, Job
  <2>3. CASE CloseSync \/ ReviewStale \/ Change
    BY <1>2, <1>6, <2>3 DEF CloseSync, ReviewStale, Change, Finish
  <2>4. CASE \E k \in Legs : ApplyObservation(k)
    BY <1>3, <2>4 DEF ApplyObservation, J
  <2> QED
    BY <1>10, <2>1, <2>2, <2>3, <2>4 DEF Managing
<1>11. CASE Expiring
  <2>1. CASE ExpireScan
    <3>1. PICK todo : J' = [Idle EXCEPT !.pc = "expiring", !.todo = todo]
      BY <1>2, <2>1 DEF ExpireScan
    <3> QED
      BY <1>7, <3>1 DEF Idle
  <2>2. CASE \E k \in Legs : ExpireMark(k)
    <3>1. PICK k \in Legs : J.pc = "expiring" /\ J' = [J EXCEPT !.todo = @ \ {k}]
      BY <1>2, <2>2 DEF ExpireMark, J
    <3> QED
      BY <1>1, <1>7, <3>1 DEF Job
  <2>3. CASE DeadlinePasses \/ ExpireClose
    BY <1>2, <1>3, <1>6, <2>3 DEF DeadlinePasses, ExpireClose, Finish, J
  <2> QED
    BY <1>11, <2>1, <2>2, <2>3 DEF Expiring
<1>12. CASE Filling \/ DropSession \/ AtBroker \/ UNCHANGED vars
  <2>1. job' = job
    BY <1>12 DEF Filling, FetchFills, MergeFills, DropSession, vars, AtBroker, BrokerAccepts,
       BrokerRefuses, BrokerFills, BrokerCancels, BrokerAmends, BrokerCorrects, Broker
  <2> QED
    BY <1>3, <2>1 DEF J
<1> QED
  BY <1>8, <1>9, <1>10, <1>11, <1>12 DEF Next, OneRouter

--------------------------------------------------------------------------------
(* The invariant. *)

\* A row changes its id only in a reservation, when nothing of its leg is alive.
LEMMA NamedStep ==
    ASSUME OneRouter, IInv, LiveOrderTracked, InHand, [Next]_vars
    PROVE  LiveOrderTracked' /\ InHand'
<1>1. ASSUME NEW l \in Legs
      PROVE  rec'[l].oid = rec[l].oid \/ (Reserve("app") /\ J'.leg = l /\ NoneLive(l))
  <2>1. rec[l] \in Row /\ WriteOf(l)
    BY RowWrites DEF IInv, TypeOK
  <2>2. CASE /\ Reserve("app") /\ J'.leg = l /\ (rec[l].status = "none" \/ Reroutable(rec[l]))
             /\ rec'[l] = Preserve(rec[l], "pending_submit", J.oid, J.qty[l])
    BY <2>2 DEF IInv, Core, LiveIsOpen, Open, Reroutable, NoneLive
  <2>3. CASE SaveOutcome("app") /\ l = J.leg /\ rec'[l] = Preserve(rec[l], J.result, J.oid, J.qty[l])
    <3>1. rec[l].oid = J.oid
      BY <2>3 DEF InHand, Holds, SaveOutcome, J
    <3> QED
      BY <2>1, <2>3, <3>1 DEF Preserve, Row
  <2>4. CASE ApplyObservation(l) /\ rec'[l] = Observed(rec[l], seen[l])
    BY <2>1, <2>4 DEF Observed, Row
  <2>5. CASE Claim
    BY <2>1, <2>5 DEF Claim, IInv, TypeOK, Row
  <2>6. CASE rec'[l] = Merged(rec[l], feed[l])
    BY <2>1, <2>6 DEF Merged, Row
  <2> QED
    BY <2>1, <2>2, <2>3, <2>4, <2>5, <2>6 DEF WriteOf
<1>2. Send("app") => ~Reserve("app") /\ UNCHANGED rec
  BY DEF Send, Reserve
<1>3. LiveOrderTracked'
  <2> SUFFICES ASSUME NEW o \in Oids, Live(o)' PROVE rec'[ord'[o].leg].oid = o
    BY DEF LiveOrderTracked
  <2>1. CASE Live(o) /\ ord'[o].leg = ord[o].leg
    <3>1. ord[o].leg \in Legs /\ rec[ord[o].leg].oid = o
      BY <2>1 DEF LiveOrderTracked, IInv, Core, OrderOK, Live, LiveState
    <3> QED
      BY <1>1, <2>1, <3>1 DEF NoneLive
  <2>2. CASE Send("app") /\ J.pc = "reserved" /\ J.leg \in Legs /\ o = J.oid /\ ord'[o].leg = J.leg
    BY <1>2, <2>2 DEF InHand, Holds, J
  <2> QED
    BY <2>1, <2>2, Sends
<1>4. InHand'
  <2> SUFFICES ASSUME NEW l \in Legs, Holds("app", l)' PROVE rec'[l].oid = J'.oid
    BY DEF InHand
  <2>1. CASE Holds("app", l) /\ J'.oid = J.oid
    <3>1. ~Reserve("app")
      BY <2>1 DEF Holds, Reserve
    <3> QED
      BY <1>1, <2>1, <3>1 DEF InHand
  <2> QED
    BY <2>1, Takes
<1> QED
  BY <1>3, <1>4

\* Every write leaves the row tidy.
LEMMA TidyStep ==
    ASSUME OneRouter, IInv, Tidy, [Next]_vars
    PROVE  Tidy'
<1> SUFFICES ASSUME NEW l \in Legs
    PROVE  /\ rec'[l].pending.action = "none" => rec'[l].pending = NoPending
           /\ rec'[l].status = "none" => rec'[l].pending.action = "none"
           /\ rec'[l].filled > 0 => rec'[l].status # "pending_submit"
  BY DEF Tidy
<1> DEFINE r == rec[l]
<1>1. /\ r \in Row /\ feed[l] \in Feed /\ seen[l] \in Seen
      /\ r.pending.action = "none" => r.pending = NoPending
      /\ r.status = "none" => r.pending.action = "none"
      /\ r.filled > 0 => r.status # "pending_submit"
  BY DEF Tidy, IInv, TypeOK
<1>2. WriteOf(l)
  BY RowWrites DEF IInv
<1>3. CASE rec'[l] = r
  BY <1>1, <1>3
<1>4. CASE /\ r.status = "none" \/ Reroutable(r)
           /\ rec'[l] = Preserve(r, "pending_submit", J.oid, J.qty[l])
  <2>1. r.filled = 0
    BY <1>4 DEF Reroutable, IInv, Core, EmptyRow
  <2> QED
    BY <1>1, <1>4, <2>1 DEF Preserve, Row, NoPending
<1>5. CASE SaveOutcome("app") /\ rec'[l] = Preserve(r, J.result, J.oid, J.qty[l])
  <2>1. J.result # "none"
    BY <1>5 DEF SaveOutcome, J, OneRouter, IInv, JobOK, JobFits
  <2> QED
    BY <1>1, <1>5, <2>1 DEF Preserve, Row, NoPending
<1>6. CASE rec'[l] = Observed(r, seen[l])
  BY <1>1, <1>6 DEF Observed, Row, NoPending
<1>7. CASE Claim /\ rec'[l].pending.action = review.action
  <2>1. review.action \in {"cancel", "amend"} /\ rec[review.leg].status # "none"
    <3>1. review.action \in {"cancel", "amend"} /\ review.leg \in Legs /\ seen[review.leg] # NoRow
      BY <1>7 DEF IInv, ReviewOK, Claim
    <3>2. \E o \in Oids : Observable(o) /\ ord[o].leg = review.leg
      BY <3>1 DEF IInv, Core, Snapshot, Observable
    <3> QED
      BY <3>1, <3>2 DEF IInv, Core, EmptyRow, Observable
  <2>2. rec'[l] = r \/ (l = review.leg /\ rec'[l].status = r.status /\ rec'[l].filled = r.filled)
    BY <1>1, <1>7 DEF Claim, IInv, TypeOK, Row
  <2> QED
    BY <1>1, <1>7, <2>1, <2>2
<1>8. CASE rec'[l] = Merged(r, feed[l])
  BY <1>1, <1>8 DEF Merged, Failed, Row
<1> QED
  BY <1>2, <1>3, <1>4, <1>5, <1>6, <1>7, <1>8 DEF WriteOf

\* No row but the one in hand becomes uncertain while the app routes.
LEMMA CertainStep ==
    ASSUME OneRouter, IInv, Tidy, NoneUncertain, [Next]_vars
    PROVE  NoneUncertain'
<1>1. /\ "app" \in Procs /\ J \in Job /\ TypeOK /\ JobOK /\ ReviewOK
      /\ Idle.pc = "idle" /\ rec \in [Legs -> Row] /\ feed \in [Legs -> Feed]
  BY DEF OneRouter, IInv, TypeOK, J, Idle
<1>2. ASSUME NEW j, Become("app", j)
      PROVE  J' = j
  BY <1>1, <1>2 DEF Become, TypeOK, J
<1>3. CASE J'.pc \notin {"validated", "routing", "reserved", "waiting", "outcome"}
  BY <1>3 DEF NoneUncertain
<1>4. CASE J' = J /\ rec' = rec
  BY <1>4 DEF NoneUncertain
<1>5. CASE rec' = rec /\ J'.pc = "validated" /\ \A l \in Legs : rec[l].status # "pending_submit"
  BY <1>5 DEF NoneUncertain
<1>6. CASE Routing("app")
  <2>1. CASE Validate("app")
    <3>1. rec' = rec /\ \A l \in Legs : rec[l].status # "pending_submit"
      BY <2>1 DEF Validate, CanRoute
    <3>2. J'.pc = "validated"
      BY <1>1, <2>1 DEF Validate, Become, TypeOK, J, Idle
    <3> QED
      BY <1>5, <3>1, <3>2
  <2>2. CASE ConnectFails("app") \/ ReserveRefused("app") \/ BatchDone("app")
    BY <1>1, <1>2, <1>3, <2>2 DEF ConnectFails, ReserveRefused, BatchDone, Finish
  <2>3. CASE Connect("app")
    <3>1. J'.pc = "routing" /\ J.pc = "validated" /\ rec' = rec
      BY <1>1, <2>3 DEF Connect, Become, TypeOK, J, Job
    <3> QED
      BY <3>1 DEF NoneUncertain
  <2>4. CASE Reserve("app")
    <3>1. PICK l \in J.todo :
            /\ CanReserve("app", l)
            /\ rec' = [rec EXCEPT ![l] = Preserve(rec[l], "pending_submit", J.oid, J.qty[l])]
            /\ Become("app", [J EXCEPT !.pc = "reserved", !.leg = l, !.todo = @ \ {l}])
      BY <2>4 DEF Reserve, J
    <3>2. J' = [J EXCEPT !.pc = "reserved", !.leg = l, !.todo = @ \ {l}]
      BY <1>2, <3>1
    <3>3. J.pc = "routing" /\ J'.pc = "reserved" /\ J'.leg = l
      BY <1>1, <2>4, <3>2 DEF Reserve, Job, J
    <3>4. \A k \in Legs \ {l} : rec'[k] = rec[k]
      BY <1>1, <3>1
    <3> QED
      BY <3>3, <3>4 DEF NoneUncertain
  <2>5. CASE Send("app") \/ Acknowledged("app") \/ DefinitelyRejected("app") \/ Uncertain("app")
    <3>1. /\ rec' = rec /\ J.pc \in {"reserved", "waiting"}
          /\ J'.pc \in {"waiting", "outcome"} /\ J'.leg = J.leg
      <4>1. \/ J' = [J EXCEPT !.pc = "waiting"]
            \/ J' = [J EXCEPT !.pc = "outcome", !.result = "submitted"]
            \/ J' = [J EXCEPT !.pc = "outcome", !.result = "rejected"]
            \/ J' = [J EXCEPT !.pc = "outcome", !.result = "pending_submit"]
        BY <1>1, <2>5 DEF Send, Acknowledged, DefinitelyRejected, Uncertain, Become, TypeOK, J
      <4>2. J'.pc \in {"waiting", "outcome"} /\ J'.leg = J.leg
        BY <1>1, <4>1 DEF Job
      <4>3. rec' = rec /\ J.pc \in {"reserved", "waiting"}
        BY <2>5 DEF Send, Acknowledged, DefinitelyRejected, Uncertain, J
      <4> QED
        BY <4>2, <4>3
    <3> QED
      BY <3>1 DEF NoneUncertain
  <2>6. CASE SaveOutcome("app")
    <3> DEFINE l == J.leg
               r == Preserve(rec[l], J.result, J.oid, J.qty[l])
    <3>1. J.pc = "outcome" /\ l \in Legs /\ rec' = [rec EXCEPT ![l] = r]
      BY <1>1, <2>6 DEF SaveOutcome, J, JobOK, JobFits
    <3>2. CASE J.result = "pending_submit"
      BY <1>1, <1>2, <1>3, <2>6, <3>2 DEF SaveOutcome, Finish, J
    <3>3. CASE J.result # "pending_submit"
      <4>1. J' = [J EXCEPT !.pc = "routing", !.leg = 0, !.result = "none", !.oid = @ + 1]
        BY <1>1, <2>6, <3>3 DEF SaveOutcome, Become, TypeOK, J
      <4>2. J'.pc = "routing"
        BY <1>1, <4>1 DEF Job
      <4>3. r.status # "pending_submit"
        BY <1>1, <3>1, <3>3 DEF Preserve, Tidy, Row
      <4>4. \A k \in Legs : rec'[k].status # "pending_submit"
        BY <1>1, <3>1, <4>3 DEF NoneUncertain
      <4> QED
        BY <4>2, <4>4 DEF NoneUncertain
    <3> QED
      BY <3>2, <3>3
  <2> QED
    BY <1>6, <2>1, <2>2, <2>3, <2>4, <2>5, <2>6 DEF Routing
<1>7. CASE Crash("app")
  BY <1>1, <1>2, <1>3, <1>7 DEF Crash, Finish
<1>8. CASE Managing
  <2>1. CASE RetryRoute
    <3> DEFINE j == [Idle EXCEPT !.pc = "validated", !.todo = {review.leg}, !.allow = TRUE,
                                 !.qty = [Approved EXCEPT ![review.leg] = rec[review.leg].qty]]
    <3>1. CASE CanRoute({review.leg}, TRUE)
      <4>1. J' = j /\ rec' = rec
        BY <1>2, <2>1, <3>1 DEF RetryRoute
      <4>2. j.pc = "validated"
        BY DEF Idle
      <4> HIDE DEF j
      <4> QED
        BY <1>5, <3>1, <4>1, <4>2 DEF CanRoute
    <3>2. CASE ~CanRoute({review.leg}, TRUE)
      BY <1>1, <1>2, <1>3, <2>1, <3>2 DEF RetryRoute
    <3> QED
      BY <3>1, <3>2
  <2>2. CASE OpenSync \/ Claim \/ \E l \in Legs : OpenCancel(l) \/ OpenAmend(l) \/ OpenResubmit(l)
    <3>1. J'.pc \in {"syncing", "claimed", "reviewed", "retrying"}
      <4>1. \/ J' = [Idle EXCEPT !.pc = "syncing"] \/ J' = [J EXCEPT !.pc = "claimed"]
            \/ J' = [Idle EXCEPT !.pc = "reviewed"] \/ J' = [Idle EXCEPT !.pc = "retrying"]
        BY <1>1, <2>2 DEF OpenSync, Claim, OpenCancel, OpenAmend, OpenResubmit, Become, TypeOK, J
      <4> QED
        BY <1>1, <4>1 DEF Idle, Job
    <3> QED
      BY <1>3, <3>1
  <2>3. CASE CloseSync \/ ReviewStale \/ Change
    BY <1>1, <1>2, <1>3, <2>3 DEF CloseSync, ReviewStale, Change, Finish
  <2>4. CASE \E l \in Legs : ApplyObservation(l)
    BY <1>3, <2>4 DEF ApplyObservation, J
  <2> QED
    BY <1>8, <2>1, <2>2, <2>3, <2>4 DEF Managing
<1>9. CASE Expiring
  <2>1. CASE DeadlinePasses
    BY <1>4, <2>1 DEF DeadlinePasses, J
  <2>2. CASE ExpireScan \/ \E l \in Legs : ExpireMark(l)
    <3>1. J'.pc = "expiring"
      <4>1. CASE ExpireScan
        <5>1. PICK todo : J' = [Idle EXCEPT !.pc = "expiring", !.todo = todo]
          BY <1>1, <4>1 DEF ExpireScan, Become, TypeOK, J
        <5> QED
          BY <5>1 DEF Idle
      <4>2. CASE \E l \in Legs : ExpireMark(l)
        <5>1. PICK l \in Legs : J.pc = "expiring" /\ J' = [J EXCEPT !.todo = @ \ {l}]
          BY <1>1, <4>2 DEF ExpireMark, Become, TypeOK, J
        <5> QED
          BY <1>1, <5>1 DEF Job
      <4> QED
        BY <2>2, <4>1, <4>2
    <3> QED
      BY <1>3, <3>1
  <2>3. CASE ExpireClose
    BY <1>1, <1>2, <1>3, <2>3 DEF ExpireClose, Finish
  <2> QED
    BY <1>9, <2>1, <2>2, <2>3 DEF Expiring
<1>10. CASE FetchFills \/ DropSession \/ AtBroker \/ UNCHANGED vars
  <2>1. job' = job /\ rec' = rec
    BY <1>10 DEF FetchFills, DropSession, vars, AtBroker, BrokerAccepts, BrokerRefuses, BrokerFills,
                 BrokerCancels, BrokerAmends, BrokerCorrects, Broker
  <2> QED
    BY <1>4, <2>1 DEF J
<1>11. CASE \E l \in Legs : MergeFills(l)
  <2>1. PICK l \in Legs : MergeFills(l)
    BY <1>11
  <2>2. rec' = [rec EXCEPT ![l] = Merged(rec[l], feed[l])] /\ J' = J
    BY <2>1 DEF MergeFills, J
  <2>3. Merged(rec[l], feed[l]).status = "pending_submit" => rec[l].status = "pending_submit"
    BY <1>1 DEF Merged, Row, Failed
  <2>4. \A k \in Legs : rec'[k].status = "pending_submit" => rec[k].status = "pending_submit"
    BY <1>1, <2>2, <2>3
  <2> QED
    BY <2>2, <2>4 DEF NoneUncertain
<1> QED
  BY <1>6, <1>7, <1>8, <1>9, <1>10, <1>11 DEF Next, Filling, OneRouter

\* The invariant of the one router, with the one of either set of processes
LEMMA AppInvariant ==
    ASSUME OneRouter
    PROVE  Spec => [](IInv /\ Executions /\ AppInv)
<1>1. Init => IInv /\ AppInv
  <2> SUFFICES ASSUME Init PROVE IInv /\ AppInv
    OBVIOUS
  <2>1. /\ J.pc = "idle" /\ \A o \in Oids : ord[o].state = "unused"
        /\ \A l \in Legs : /\ rec[l].status = "none" /\ rec[l].filled = 0
                           /\ rec[l].pending = NoPending /\ NoPending.action = "none"
    BY DEF Init, OneRouter, J, Idle, Unused, NoRecord, NoPending
  <2>2. AppInv
    BY <2>1 DEF AppInv, LiveOrderTracked, Live, LiveState, InHand, Holds, J, Tidy, NoneUncertain
  <2> QED
    BY <2>2, TypeInit, CoreInit DEF IInv
<1>2. IInv /\ AppInv /\ [Next]_vars => IInv' /\ AppInv'
  BY CoreStep, NamedStep, TidyStep, CertainStep DEF AppInv
<1> QED
  BY <1>1, <1>2, ExecutionsInvariant, PTL DEF Spec

--------------------------------------------------------------------------------
(* Theorems. *)

\* With the app as the only router an order that is alive at the broker is always
\* the one its row names: no write, crash, retry or late save makes the row point
\* elsewhere, so sync and cancellation reach the order.
THEOREM LiveOrderNamed ==
    ASSUME OneRouter
    PROVE  Spec => []LiveOrderTracked
<1>1. AppInv => LiveOrderTracked
  BY DEF AppInv
<1> QED
  BY <1>1, AppInvariant, PTL

\* With the app as the only router a management claim is cleared only once the broker
\* order it is about has ended or has taken the claimed quantity (apply_observation).
THEOREM ClaimKept ==
    ASSUME OneRouter
    PROVE  Spec => ClaimResolvedByBroker
<1>1. IInv /\ Executions /\ AppInv /\ [Next]_vars =>
        [\A l \in Legs :
            rec[l].pending # NoPending /\ rec'[l].pending = NoPending =>
               \/ ord[rec[l].oid].state \in {"cancelled", "filled"}
               \/ rec[l].pending.action = "amend" /\ ord[rec[l].oid].qty = rec[l].pending.qty]_vars
  <2> SUFFICES ASSUME IInv, Executions, AppInv, [Next]_vars, NEW l \in Legs,
                      rec[l].pending # NoPending, rec'[l].pending = NoPending
      PROVE  \/ ord[rec[l].oid].state \in {"cancelled", "filled"}
             \/ rec[l].pending.action = "amend" /\ ord[rec[l].oid].qty = rec[l].pending.qty
    OBVIOUS
  <2> DEFINE r == rec[l]
  <2>1. /\ r \in Row /\ feed[l] \in Feed /\ seen[l] \in Seen /\ r.pending.action # "none"
        /\ NoPending.action = "none" /\ WriteOf(l)
    BY RowWrites DEF AppInv, IInv, TypeOK, Tidy, NoPending
  <2>2. rec'[l] # r
    OBVIOUS
  <2>3. r.status # "none" /\ ~Reroutable(r)
    BY <2>1 DEF AppInv, Tidy, Reroutable
  <2>4. CASE SaveOutcome("app") /\ l = J.leg /\ rec'[l] = Preserve(r, J.result, J.oid, J.qty[l])
    <3>1. r.oid = J.oid
      BY <2>4 DEF AppInv, InHand, Holds, SaveOutcome, J
    <3> QED
      BY <2>1, <2>4, <3>1 DEF Preserve, Row
  <2>5. CASE ApplyObservation(l) /\ rec'[l] = Observed(r, seen[l])
    <3>1. \/ seen[l].state \in {"cancelled", "filled"}
          \/ r.pending.action = "amend" /\ seen[l].qty = r.pending.qty
      BY <2>1, <2>5 DEF Observed, TermsInForce, Row
    <3>2. seen[l] # NoRow
      BY <2>5 DEF ApplyObservation
    <3>3. /\ seen[l].oid \in Oids /\ Observable(seen[l].oid) /\ ord[seen[l].oid].leg = l
          /\ seen[l].state = "cancelled" => ord[seen[l].oid].state = "cancelled"
          /\ seen[l].state = "filled" => ord[seen[l].oid].state = "filled"
      BY <3>2 DEF IInv, Core, Snapshot, Executions, SeenOK, SeenHolds
    <3>4. r.oid = seen[l].oid
      BY <2>2, <2>5 DEF ApplyObservation, IInv, TypeOK
    <3>5. Live(r.oid) /\ r.pending.action = "amend" /\ seen[l].qty = r.pending.qty =>
             ord[r.oid].qty = r.pending.qty
      <4>1. r.pending.action = "amend" => r.pending.qty < r.qty /\ r.pending.qty \in Nat /\ r.qty \in Nat
        BY Numbers DEF IInv, Executions, RowsOK, RowSized
      <4> QED
        BY <3>2, <3>4, <4>1 DEF Executions, SeenOK, SeenHolds
    <3> QED
      BY <3>1, <3>3, <3>4, <3>5 DEF Observable, Live, LiveState
  <2>6. CASE Claim /\ rec'[l].pending.action = review.action
    <3>1. review.action \in {"cancel", "amend"}
      BY <2>6 DEF IInv, ReviewOK, Claim
    <3> QED
      BY <2>1, <2>6, <3>1
  <2>7. CASE rec'[l] = Merged(r, feed[l])
    BY <2>1, <2>7 DEF Merged, Row
  <2> QED
    BY <2>1, <2>2, <2>3, <2>4, <2>5, <2>6, <2>7 DEF WriteOf
<1> QED
  BY <1>1, AppInvariant, PTL DEF Spec, ClaimResolvedByBroker

\* With the app as the only router no order of the proposal is sent while the row of
\* another leg still says pending_submit.
THEOREM UncertainBlocks ==
    ASSUME OneRouter
    PROVE  Spec => UncertainBlocksRouting
<1>1. IInv /\ AppInv /\ [Next]_vars =>
        [\A o \in Oids : ord[o].state = "unused" /\ ord'[o].state = "transit" =>
            \A k \in Legs \ {ord'[o].leg} : rec[k].status # "pending_submit"]_vars
  <2> SUFFICES ASSUME IInv, AppInv, [Next]_vars, NEW o \in Oids,
                      ord[o].state = "unused", ord'[o].state = "transit",
                      NEW k \in Legs, k # ord'[o].leg
      PROVE  rec[k].status # "pending_submit"
    OBVIOUS
  <2>1. Live(o)' /\ ~Live(o)
    BY DEF Live, LiveState
  <2>2. J.pc = "reserved" /\ ord'[o].leg = J.leg
    BY <2>1, Sends
  <2> QED
    BY <2>2 DEF AppInv, NoneUncertain
<1> QED
  BY <1>1, AppInvariant, PTL DEF Spec, UncertainBlocksRouting
================================================================================
