----------------------- MODULE RebalanceIntentProofs ------------------------
(* Theorems of RebalanceIntent, for every lineage bound, target and set of  *)
(* routers.                                                                 *)
EXTENDS RebalanceIntent, TLAPS

\* The types of the variables by themselves, as the proofs use them
ProposalType == [status : Statuses, quantity : Units, account : Nat]
RowType == [status : RowStatuses, filled : Units, seen : BOOLEAN]
OrderType == [state : {"none", "live", "ended"}, filled : Units]
PolicyType == [enabled : BOOLEAN, claims : [Attempts -> Claims], since : SUBSET Attempts]
ReportType == [fresh : BOOLEAN, matched : BOOLEAN, position : Nat, covers : SUBSET Attempts]
ReconType == [running : BOOLEAN, matched : BOOLEAN, covers : SUBSET Attempts]
JobType == [step : Steps, task : Tasks, attempt : Attempts, sent : BOOLEAN,
            lapsed : 0..MaxAttempts]

\* TypeOK, with the names of the types
Typed ==
    /\ proposals \in [Attempts -> ProposalType]
    /\ approvals \subseteq Attempts
    /\ due \subseteq Attempts
    /\ rows \in [Attempts -> RowType]
    /\ orders \in [Attempts -> OrderType]
    /\ held \in Nat
    /\ intent \in {"none", "outstanding"} \cup Closed
    /\ newer \in {"none", "pending", "adopted"}
    /\ policy \in PolicyType
    /\ report \in ReportType
    /\ recon \in ReconType
    /\ job \in [Routers -> JobType]
    /\ crashes \in 0..MaxCrashes

\* TypeOK, one conjunct per variable.
LEMMA Types == TypeOK <=> Typed
BY DEF TypeOK, Typed, ProposalType, RowType, OrderType, PolicyType, ReportType, ReconType, JobType

\* Attempt 1 exists, and zero and the target are quantities.
LEMMA Constants ==
    /\ 1 \in Attempts /\ Attempts \subseteq 0..MaxAttempts /\ 0 \in 0..MaxAttempts
    /\ 0 \in Units /\ Target \in Units /\ Units \subseteq Nat
    /\ "app" \in Routers /\ MaxCrashes \in Nat /\ 0 \in 0..MaxCrashes
BY AttemptsAssumption, TargetAssumption, CrashAssumption, RoutersAssumption DEF Attempts, Units

\* The initial states are well typed.
LEMMA InitTyped == Init => Typed
<1> SUFFICES ASSUME Init PROVE Typed
    OBVIOUS
<1>1. proposals \in [Attempts -> ProposalType]
    BY Constants DEF Init, ProposalType, Statuses
<1>2. rows \in [Attempts -> RowType] /\ orders \in [Attempts -> OrderType]
    BY Constants DEF Init, NoRow, RowType, RowStatuses, OrderType
<1>3. policy \in PolicyType
    BY Constants DEF Init, PolicyType, Claims
<1>4. report \in ReportType /\ recon \in ReconType
    BY Constants DEF Init, ReportType, ReconType
<1>5. job \in [Routers -> JobType]
    BY Constants DEF Init, Idle, Doing, JobType, Steps, Tasks
<1> QED
    BY <1>1, <1>2, <1>3, <1>4, <1>5, Constants DEF Init, Typed

\* What Become and Goto make of the jobs is well typed.
LEMMA BecomeTyped ==
    ASSUME job \in [Routers -> JobType], NEW p \in Routers, NEW step \in Steps,
           NEW task \in Tasks, NEW a \in Attempts, Become(p, step, task, a)
    PROVE  job' \in [Routers -> JobType]
<1>1. Doing(step, task, a, 0) \in JobType
    BY Constants DEF Doing, JobType
<1> QED
    BY <1>1 DEF Become

\* Goto leaves the jobs well typed.
LEMMA GotoTyped ==
    ASSUME job \in [Routers -> JobType], NEW p \in Routers, NEW step \in Steps, Goto(p, step)
    PROVE  job' \in [Routers -> JobType]
<1>1. [job[p] EXCEPT !.step = step] \in JobType
    BY DEF JobType
<1> QED
    BY <1>1 DEF Goto

\* Touch leaves the reports well typed.
LEMMA TouchTyped ==
    ASSUME report \in ReportType, recon \in ReconType, NEW a \in Attempts, Touch(a)
    PROVE  report' \in ReportType /\ recon' \in ReconType
BY DEF Touch, ReportType, ReconType

\* So is the job after routing.
LEMMA AfterRoutingTyped ==
    ASSUME job \in [Routers -> JobType], NEW p \in Routers, NEW sent \in BOOLEAN,
           AfterRouting(p, sent)
    PROVE  job' \in [Routers -> JobType]
<1>1. CASE job[p].task = "tick"
    <2>1. [job[p] EXCEPT !.step = "outcome", !.sent = sent] \in JobType
        BY DEF JobType, Steps
    <2> QED
        BY <1>1, <2>1 DEF AfterRouting
<1>2. CASE job[p].task # "tick"
    BY <1>2, BecomeTyped, Constants DEF AfterRouting, Steps, Tasks
<1> QED
    BY <1>1, <1>2

\* The status of an objective is one of the known ones.
LEMMA IntentTyped ==
    ASSUME intent \in {"none", "outstanding"} \cup Closed, SyncIntent
    PROVE  intent' \in {"none", "outstanding"} \cup Closed
<1>1. \A a \in Attempts : IntentOf(a) \in {"none", "outstanding"} \cup Closed
    BY DEF IntentOf, Closed
<1> QED
    BY <1>1 DEF SyncIntent

\* Where the scan of expired proposals leaves the app: at the next one that lapsed, or
\* where the request goes on.
ExpireJob(task, a) ==
    /\ \A p \in Routers \ {"app"} : job'[p] = job[p]
    /\ \/ \E b \in Attempts :
             Lapses(b) /\ job'["app"] = Doing("expire", task, a, b) /\ intent' = intent
       \/ task \in Decisions /\ job'["app"] = Doing("decide", task, a, 0) /\ intent' = intent
       \/ /\ task \notin Decisions /\ SyncIntent
          /\ \/ task = "tick" /\ job'["app"] = Doing("renew", task, a, 0)
             \/ job'["app"] = Doing("idle", "none", 1, 0)

\* What the app is doing then: expiring something that lapsed, or out of the scan.
LEMMA ExpireFields ==
    ASSUME NEW task, NEW a, ExpireJob(task, a)
    PROVE  /\ \/ \E b \in Attempts :
                    Lapses(b) /\ job'["app"].step = "expire" /\ job'["app"].lapsed = b
              \/ job'["app"].step \in {"decide", "renew", "idle"}
           /\ job'["app"].task \in {task, "none"}
<1>1. \A step, what, c, b : /\ Doing(step, what, c, b).step = step
                             /\ Doing(step, what, c, b).task = what
                             /\ Doing(step, what, c, b).lapsed = b
    BY DEF Doing
<1> QED
    BY <1>1 DEF ExpireJob

\* It leaves the app nowhere else, and the jobs well typed.
LEMMA ExpireJobs ==
    ASSUME job \in [Routers -> JobType], NEW last, NEW task \in Tasks, NEW a \in Attempts,
           Expire(last, task, a)
    PROVE  ExpireJob(task, a) /\ job' \in [Routers -> JobType]
<1> USE Constants
<1>1. ASSUME NEW step, NEW what, NEW c, NEW b,
             job' = [job EXCEPT !["app"] = Doing(step, what, c, b)]
      PROVE  /\ \A p \in Routers \ {"app"} : job'[p] = job[p]
             /\ job'["app"] = Doing(step, what, c, b)
    BY <1>1
<1>2. ExpireJob(task, a)
    <2>1. ASSUME NEW b \in Attempts, FirstLapsed(b, last),
                 job' = [job EXCEPT !["app"] = Doing("expire", task, a, b)], intent' = intent
          PROVE  ExpireJob(task, a)
        BY <1>1, <2>1 DEF ExpireJob, FirstLapsed
    <2>2. ASSUME AfterExpiry(task, a) PROVE ExpireJob(task, a)
        <3>1. CASE task \in Decisions
            BY <1>1, <2>2, <3>1 DEF AfterExpiry, Become, ExpireJob
        <3>2. CASE task \notin Decisions /\ task = "tick" /\ policy.enabled
            BY <1>1, <2>2, <3>2 DEF AfterExpiry, Become, ExpireJob
        <3>3. CASE task \notin Decisions /\ ~(task = "tick" /\ policy.enabled)
            BY <1>1, <2>2, <3>3 DEF AfterExpiry, Become, ExpireJob
        <3> QED
            BY <3>1, <3>2, <3>3
    <2> QED
        BY <2>1, <2>2 DEF Expire
<1>3. /\ \A b \in Attempts : Doing("expire", task, a, b) \in JobType
      /\ Doing("decide", task, a, 0) \in JobType /\ Doing("renew", task, a, 0) \in JobType
      /\ Doing("idle", "none", 1, 0) \in JobType
    BY DEF Doing, JobType, Steps, Tasks
<1>4. job'["app"] \in JobType
    BY <1>2, <1>3 DEF ExpireJob
<1>5. \A p \in Routers : job'[p] \in JobType
    BY <1>2, <1>4 DEF ExpireJob
<1>6. DOMAIN job' = Routers /\ job' = [p \in DOMAIN job' |-> job'[p]]
    BY DEF Expire, AfterExpiry, Become
<1> QED
    BY <1>2, <1>5, <1>6

\* What a request that first expires asks of the app
HeadTask == Decisions \cup {"sweep", "tick"}

\* The requests begin with the scan.
LEMMA HeadTyped ==
    ASSUME Typed, NEW task \in HeadTask, NEW a \in Attempts, Head(task, a)
    PROVE  Typed'
<1>1. task \in Tasks
    BY DEF HeadTask, Tasks
<1>2. ExpireJob(task, a) /\ job' \in [Routers -> JobType]
    BY <1>1, ExpireJobs DEF Typed, Head
<1>3. intent' \in {"none", "outstanding"} \cup Closed
    BY <1>2, IntentTyped DEF ExpireJob, Typed
<1> QED
    BY <1>2, <1>3 DEF Head, market, Typed

\* Recording a miss changes a status only.
LEMMA MissTyped ==
    ASSUME Typed, Miss
    PROVE  Typed'
<1> DEFINE b == job["app"].lapsed
<1>1. job["app"].task \in Tasks /\ job["app"].attempt \in Attempts
    BY Constants DEF Typed, JobType
<1>2. ExpireJob(job["app"].task, job["app"].attempt) /\ job' \in [Routers -> JobType]
    BY <1>1, ExpireJobs DEF Typed, Miss
<1>3. intent' \in {"none", "outstanding"} \cup Closed
    BY <1>2, IntentTyped DEF ExpireJob, Typed
<1>4. proposals' \in [Attempts -> ProposalType]
    <2>1. \A a \in Attempts : [proposals[a] EXCEPT !.status = "missed"] \in ProposalType
        BY DEF Typed, ProposalType, Statuses
    <2> QED
        BY <2>1 DEF Miss, Typed
<1> QED
    BY <1>2, <1>3, <1>4 DEF Miss, market, Typed

\* A successor asks for what the report says is missing.
LEMMA SuccessorTyped ==
    ASSUME Typed, NEW a \in Attempts, NEW automatic \in BOOLEAN,
           Refreshable(a, automatic), QueueSuccessor(a, automatic)
    PROVE  proposals' \in [Attempts -> ProposalType] /\ policy' \in PolicyType
<1>1. Target - report.position \in Units
    BY Constants, TargetAssumption DEF Refreshable, Units, ReportType, Typed
<1>2. [status |-> "pending", quantity |-> Target - report.position,
       account |-> report.position] \in ProposalType
    BY <1>1 DEF ProposalType, ReportType, Statuses, Typed
<1>3. proposals' \in [Attempts -> ProposalType]
    BY <1>2 DEF QueueSuccessor, Typed
<1>4. policy' \in PolicyType
    BY DEF QueueSuccessor, PolicyType, Typed
<1> QED
    BY <1>3, <1>4

-----------------------------------------------------------------------------
(* Type correctness: one lemma per group of steps. *)

\* Jobs of the app
LEMMA AppTyped ==
    ASSUME Typed, AppStep \/ Request
    PROVE  Typed'
<1> USE Constants DEF Typed
<1>1. ASSUME NothingToClaim \/ RenewLater PROVE Typed'
    <2>1. job' \in [Routers -> JobType]
        BY <1>1, BecomeTyped, GotoTyped DEF NothingToClaim, RenewLater, Steps, Tasks
    <2> QED
        BY <1>1, <2>1 DEF NothingToClaim, RenewLater, book, market
<1>2. ASSUME ApproveClaim PROVE Typed'
    <2> DEFINE a == job["app"].attempt
    <2>1. a \in Attempts
        BY DEF JobType
    <2>2. [proposals[a] EXCEPT !.status = "approved"] \in ProposalType
        BY <2>1 DEF ProposalType, Statuses
    <2>3. proposals' \in [Attempts -> ProposalType]
        BY <1>2, <2>2 DEF ApproveClaim
    <2>4. job' \in [Routers -> JobType]
        BY <1>2, GotoTyped DEF ApproveClaim, Steps
    <2> QED
        BY <1>2, <2>1, <2>3, <2>4 DEF ApproveClaim, market
<1>3. ASSUME EnterRouter PROVE Typed'
    <2>1. policy' \in PolicyType
        BY <1>3 DEF EnterRouter, PolicyType, Claims
    <2>2. job' \in [Routers -> JobType]
        BY <1>3, GotoTyped DEF EnterRouter, Steps
    <2> QED
        BY <1>3, <2>1, <2>2 DEF EnterRouter, market
<1>4. ASSUME RecordClaim PROVE Typed'
    <2>1. policy' \in PolicyType
        BY <1>4 DEF RecordClaim, PolicyType, Claims
    <2>2. job' \in [Routers -> JobType]
        BY <1>4, BecomeTyped DEF RecordClaim, Steps, Tasks
    <2> QED
        BY <1>4, <2>1, <2>2 DEF RecordClaim, market
<1>5. ASSUME Decide PROVE Typed'
    <2> DEFINE a == job["app"].attempt
    <2>1. a \in Attempts
        BY DEF JobType
    <2>2. \A s \in {"approved", "rejected"} : [proposals[a] EXCEPT !.status = s] \in ProposalType
        BY <2>1 DEF ProposalType, Statuses
    <2>3. proposals' \in [Attempts -> ProposalType]
        BY <1>5, <2>2 DEF Decide
    <2>4. approvals' \subseteq Attempts
        BY <1>5, <2>1, ZenonT(40) DEF Decide
    <2>5. job' \in [Routers -> JobType]
        BY <1>5, BecomeTyped, GotoTyped DEF Decide, Steps, Tasks
    <2> QED
        BY <1>5, <2>3, <2>4, <2>5 DEF Decide, market
<1>6. ASSUME NEW a \in Attempts, Renew(a) PROVE Typed'
    <2>1. proposals' \in [Attempts -> ProposalType] /\ policy' \in PolicyType
        BY <1>6, SuccessorTyped DEF Renew
    <2>2. job' \in [Routers -> JobType]
        BY <1>6, GotoTyped DEF Renew, Steps
    <2>3. intent' \in {"none", "outstanding"} \cup Closed
        BY <1>6 DEF Renew, Closed
    <2> QED
        BY <1>6, <2>1, <2>2, <2>3 DEF Renew, market
<1>7. ASSUME NEW a \in Attempts, Claim(a) PROVE Typed'
    <2>1. policy' \in PolicyType
        BY <1>7 DEF Claim, PolicyType, Claims
    <2>2. job' \in [Routers -> JobType]
        BY <1>7, BecomeTyped DEF Claim, Steps, Tasks
    <2> QED
        BY <1>7, <2>1, <2>2 DEF Claim, market
<1>8. ASSUME Miss PROVE Typed'
    BY <1>8, MissTyped
<1>9. ASSUME Sweep \/ Tick PROVE Typed'
    BY <1>9, HeadTyped DEF Sweep, Tick, HeadTask
<1>10. ASSUME CancelIntent PROVE Typed'
    BY <1>10 DEF CancelIntent, market, Closed
<1>11. ASSUME NEW task \in Decisions, NEW a \in Attempts, Ask(task, a) PROVE Typed'
    BY <1>11, HeadTyped DEF Ask, HeadTask
<1>12. ASSUME NEW a \in Attempts, Refresh(a) PROVE Typed'
    <2>1. proposals' \in [Attempts -> ProposalType] /\ policy' \in PolicyType
        BY <1>12, SuccessorTyped DEF Refresh
    <2> QED
        BY <1>12, <2>1 DEF Refresh, market
<1>13. ASSUME NEW on \in BOOLEAN, Configure(on) PROVE Typed'
    <2>1. policy' \in PolicyType
        BY <1>13 DEF Configure, PolicyType
    <2> QED
        BY <1>13, <2>1 DEF Configure, market
<1> QED
    BY <1>1, <1>2, <1>3, <1>4, <1>5, <1>6, <1>7, <1>8, <1>9, <1>10, <1>11, <1>12, <1>13
    DEF AppStep, Request

\* Routing by either process, and crashes
LEMMA RoutingTyped ==
    ASSUME Typed,
           \/ \E a \in Attempts : RunScript(a)
           \/ \E p \in Routers : Routing(p) \/ Crash(p)
    PROVE  Typed'
<1> USE Constants DEF Typed
<1>1. ASSUME NEW a \in Attempts, RunScript(a) PROVE Typed'
    <2>1. job' \in [Routers -> JobType]
        BY <1>1, BecomeTyped DEF RunScript, Steps, Tasks
    <2> QED
        BY <1>1, <2>1 DEF RunScript, book, market
<1>2. ASSUME NEW p \in Routers, Validate(p) \/ Connect(p) \/ ConnectFails(p) PROVE Typed'
    <2>1. job' \in [Routers -> JobType]
        BY <1>2, GotoTyped, AfterRoutingTyped DEF Validate, Connect, ConnectFails, Steps
    <2> QED
        BY <1>2, <2>1 DEF Validate, Connect, ConnectFails, book, market
<1>3. ASSUME NEW p \in Routers, Reserve(p) PROVE Typed'
    <2>1. job[p].attempt \in Attempts
        BY DEF JobType
    <2>2. [NoRow EXCEPT !.status = "pending_submit"] \in RowType
        BY DEF NoRow, RowType, RowStatuses
    <2>3. rows' \in [Attempts -> RowType]
        BY <1>3, <2>1, <2>2 DEF Reserve
    <2>4. report' \in ReportType /\ recon' \in ReconType
        BY <1>3, <2>1, TouchTyped DEF Reserve
    <2>5. job' \in [Routers -> JobType]
        BY <1>3, GotoTyped, AfterRoutingTyped DEF Reserve, Steps
    <2> QED
        BY <1>3, <2>3, <2>4, <2>5 DEF Reserve, book, market
<1>4. ASSUME NEW p \in Routers, Send(p) PROVE Typed'
    <2>1. job[p].attempt \in Attempts
        BY DEF JobType
    <2>2. [state |-> "live", filled |-> 0] \in OrderType
        BY DEF OrderType
    <2>3. orders' \in [Attempts -> OrderType]
        BY <1>4, <2>1, <2>2 DEF Send
    <2>4. \A sent \in BOOLEAN : [job[p] EXCEPT !.step = "save", !.sent = sent] \in JobType
        BY DEF JobType, Steps
    <2>5. job' \in [Routers -> JobType]
        BY <1>4, <2>4 DEF Send
    <2> QED
        BY <1>4, <2>3, <2>5 DEF Send, book
<1>5. ASSUME NEW p \in Routers, SaveOutcome(p) PROVE Typed'
    <2>1. job[p].attempt \in Attempts /\ job[p].sent \in BOOLEAN
        BY DEF JobType
    <2>2. [rows[job[p].attempt] EXCEPT !.status = "submitted"] \in RowType
        BY <2>1 DEF RowType, RowStatuses
    <2>3. rows' \in [Attempts -> RowType]
        BY <1>5, <2>2 DEF SaveOutcome
    <2>4. report' \in ReportType /\ recon' \in ReconType
        BY <1>5, <2>1, TouchTyped DEF SaveOutcome
    <2>5. job' \in [Routers -> JobType]
        BY <1>5, <2>1, AfterRoutingTyped DEF SaveOutcome
    <2> QED
        BY <1>5, <2>3, <2>4, <2>5 DEF SaveOutcome, book, market
<1>6. ASSUME NEW p \in Routers, Crash(p) PROVE Typed'
    <2>1. job' \in [Routers -> JobType]
        BY <1>6, BecomeTyped DEF Crash, Steps, Tasks
    <2>2. crashes' \in 0..MaxCrashes
        BY <1>6 DEF Crash
    <2> QED
        BY <1>6, <2>1, <2>2 DEF Crash, book, market
<1> QED
    BY <1>1, <1>2, <1>3, <1>4, <1>5, <1>6 DEF Routing

\* A merged row counts what the order has executed.
LEMMA MergedTyped ==
    ASSUME rows \in [Attempts -> RowType], orders \in [Attempts -> OrderType],
           NEW a \in Attempts
    PROVE  Merged(a) \in RowType
<1>1. \A s \in {"filled", "cancelled", "submitted"} :
          [rows[a] EXCEPT !.filled = orders[a].filled, !.status = s] \in RowType
    BY DEF RowType, RowStatuses, OrderType
<1> QED
    BY <1>1 DEF Merged

\* The broker, time and evidence
LEMMA EnvironmentTyped ==
    ASSUME Typed, Environment
    PROVE  Typed'
<1> USE Constants DEF Typed
<1>1. ASSUME NEW a \in Attempts, Execute(a) PROVE Typed'
    <2>1. orders[a].filled + 1 \in Units
        BY <1>1 DEF Execute, Units, OrderType, ProposalType
    <2>2. \A s \in {"live", "ended"} :
              [orders[a] EXCEPT !.filled = orders[a].filled + 1, !.state = s] \in OrderType
        BY <2>1 DEF OrderType
    <2>3. orders' \in [Attempts -> OrderType]
        BY <1>1, <2>1, <2>2 DEF Execute, OrderType
    <2>4. report' \in ReportType /\ recon' \in ReconType
        BY <1>1 DEF Execute, ReportType, ReconType
    <2> QED
        BY <1>1, <2>3, <2>4 DEF Execute, book
<1>2. ASSUME NEW a \in Attempts, EndOrder(a) PROVE Typed'
    <2>1. [orders[a] EXCEPT !.state = "ended"] \in OrderType
        BY DEF OrderType
    <2>2. orders' \in [Attempts -> OrderType]
        BY <1>2, <2>1 DEF EndOrder
    <2> QED
        BY <1>2, <2>2 DEF EndOrder, book
<1>3. ASSUME NEW a \in Attempts, DeadlinePasses(a) PROVE Typed'
    BY <1>3 DEF DeadlinePasses, book
<1>4. ASSUME NEW a \in Attempts, Observe(a) PROVE Typed'
    <2>1. /\ [rows[a] EXCEPT !.seen = TRUE, !.status = "submitted"] \in RowType
          /\ [rows[a] EXCEPT !.status = "cancelled"] \in RowType
        BY DEF RowType, RowStatuses
    <2>2. rows' \in [Attempts -> RowType]
        BY <1>4, <2>1 DEF Observe
    <2>3. report' \in ReportType /\ recon' \in ReconType
        BY <1>4, TouchTyped DEF Observe
    <2> QED
        BY <1>4, <2>2, <2>3 DEF Observe, book, market
<1>5. ASSUME SyncExecutions PROVE Typed'
    <2>1. rows' \in [Attempts -> RowType]
        BY <1>5, MergedTyped DEF SyncExecutions
    <2> QED
        BY <1>5, <2>1 DEF SyncExecutions, book, market
<1>6. ASSUME StartReconcile PROVE Typed'
    <2>1. rows' \in [Attempts -> RowType]
        BY <1>6, MergedTyped DEF StartReconcile
    <2>2. recon' \in ReconType
        BY <1>6 DEF StartReconcile, ReconType
    <2> QED
        BY <1>6, <2>1, <2>2 DEF StartReconcile, book, market
<1>7. ASSUME FinishReconcile PROVE Typed'
    <2>1. report' \in ReportType /\ recon' \in ReconType
        BY <1>7 DEF FinishReconcile, ReportType, ReconType
    <2> QED
        BY <1>7, <2>1 DEF FinishReconcile, book, market
<1>8. ASSUME ReportAges PROVE Typed'
    <2>1. report' \in ReportType
        BY <1>8 DEF ReportAges, ReportType
    <2> QED
        BY <1>8, <2>1 DEF ReportAges, book, market
<1>9. ASSUME NewerObjective PROVE Typed'
    BY <1>9 DEF NewerObjective, book, market
<1> QED
    BY <1>1, <1>2, <1>3, <1>4, <1>5, <1>6, <1>7, <1>8, <1>9 DEF Environment

\* A step that changes nothing keeps the types.
LEMMA StutterTyped == Typed /\ UNCHANGED vars => Typed'
BY DEF vars, Typed

\* The proposals, rows, orders, the policy file, the reports and the jobs of the
\* two routers keep their types; a successor never asks for less than nothing or
\* more than the target, and an order never executes beyond its quantity.
THEOREM TypeCorrect == Spec => []TypeOK
<1>1. Init => Typed
    BY InitTyped
<1>2. Typed /\ [Next]_vars => Typed'
    BY AppTyped, RoutingTyped, EnvironmentTyped, StutterTyped DEF Next
<1> QED
    BY <1>1, <1>2, Types, PTL DEF Spec

-----------------------------------------------------------------------------
(* Expiry and routing do not overtake each other. *)

\* The order of an attempt that has no row, or whose row says that it ended, is
\* not live; without a row there is no order.
RowTellsOrder ==
    \A a \in Attempts :
        /\ rows[a].status \in {"none", "cancelled"} => orders[a].state # "live"
        /\ rows[a].status = "none" => orders[a].state = "none" /\ orders[a].filled = 0

\* Only what was decided on has a row.
RowNeedsDecision ==
    \A a \in Attempts : proposals[a].status \in {"none", "pending"} => rows[a].status = "none"

\* Where the app is the only router, what was recorded as missed is neither reserved
\* nor worked, and neither is what the scan is about to record.  The script may reserve
\* it between the two steps.
MissesAreQuiet ==
    Routers = {"app"} =>
        /\ MissedHasNoOrder
        /\ \A a \in Attempts : rows[a].status = "pending_submit" => proposals[a].status # "missed"
        /\ job["app"].step = "expire" =>
              LET b == job["app"].lapsed
              IN b \in Attempts /\ rows[b].status # "pending_submit" /\ orders[b].state # "live"

\* A process about to reserve has a proposal that was decided on; one about to
\* send holds the reservation of an order that does not exist.
RouterHolds ==
    \A p \in Routers :
        LET a == job[p].attempt
        IN /\ job[p].step \in {"connect", "reserve"} => proposals[a].status \notin {"none", "pending"}
           /\ job[p].step = "send" =>
                 /\ rows[a].status = "pending_submit"
                 /\ orders[a].state # "live" /\ orders[a].filled = 0

\* One process is connected at a time.
OneConnected ==
    \A p, q \in Routers : Connected(p) /\ Connected(q) => p = q

ExpiryInv ==
    /\ Typed /\ RowTellsOrder /\ RowNeedsDecision /\ RouterHolds /\ OneConnected
    /\ MissesAreQuiet

\* What the parts of the invariant are about; the rest of the state is free.
Disturbed == <<proposals, rows, orders>>

\* Whatever jobs do in the step, none of them gets to the broker or finds what lapsed.
NoRoutingStarts ==
    \A p \in Routers :
        \/ job'[p] = job[p]
        \/ job'[p].step \notin {"connect", "reserve", "send", "save", "expire"}

\* Steps that leave proposals, rows and orders alone, and start no routing
LEMMA QuietStep ==
    ASSUME ExpiryInv, Typed', UNCHANGED Disturbed,
           NoRoutingStarts
    PROVE  ExpiryInv'
<1>1. RowTellsOrder' /\ RowNeedsDecision'
    BY DEF ExpiryInv, Disturbed, RowTellsOrder, RowNeedsDecision
<1>2. RouterHolds'
    BY DEF ExpiryInv, Disturbed, RouterHolds, NoRoutingStarts
<1>3. OneConnected'
    BY DEF ExpiryInv, OneConnected, Connected, NoRoutingStarts
<1>4. MissesAreQuiet'
    BY DEF ExpiryInv, Disturbed, MissesAreQuiet, MissedHasNoOrder, NoRoutingStarts
<1> QED
    BY <1>1, <1>2, <1>3, <1>4 DEF ExpiryInv

\* What lapses has no order that can execute, and no reservation.
LEMMA LapsedIsQuiet ==
    ASSUME ExpiryInv, NEW b \in Attempts, Lapses(b)
    PROVE  rows[b].status \in {"none", "cancelled"} /\ orders[b].state # "live"
<1>1. rows[b].status \in {"none", "cancelled"}
    BY DEF Lapses, Actionable, ExpiryInv, RowNeedsDecision
<1> QED
    BY <1>1 DEF ExpiryInv, RowTellsOrder

\* The scan only reads, also for the second router.
LEMMA ScanKeeps ==
    ASSUME ExpiryInv, Typed', UNCHANGED <<rows, orders>>,
           NEW task, NEW a, ExpireJob(task, a),
           \A c \in Attempts : proposals'[c].status \in {proposals[c].status, "missed"}
    PROVE  /\ RowTellsOrder' /\ RowNeedsDecision' /\ RouterHolds' /\ OneConnected'
           /\ job'["app"].step = "expire" =>
                 LET b == job'["app"].lapsed
                 IN b \in Attempts /\ rows'[b].status # "pending_submit" /\ orders'[b].state # "live"
<1>1. \/ \E b \in Attempts :
            Lapses(b) /\ job'["app"].step = "expire" /\ job'["app"].lapsed = b
      \/ job'["app"].step \in {"decide", "renew", "idle"}
    BY ExpireFields
<1>2. RowTellsOrder' /\ RowNeedsDecision'
    BY DEF ExpiryInv, RowTellsOrder, RowNeedsDecision
<1>3. RouterHolds'
    <2>1. \A p \in Routers : job'[p].step \in {"connect", "reserve", "send"} => job'[p] = job[p]
        BY <1>1 DEF ExpireJob
    <2>2. \A p \in Routers : job[p].attempt \in Attempts
        BY DEF ExpiryInv, Typed, JobType
    <2> QED
        BY <2>1, <2>2 DEF ExpiryInv, RouterHolds
<1>4. OneConnected'
    BY <1>1 DEF ExpireJob, ExpiryInv, OneConnected, Connected
<1> QED
    BY <1>1, <1>2, <1>3, <1>4, LapsedIsQuiet

\* The requests that begin with the scan
LEMMA HeadKeeps ==
    ASSUME ExpiryInv, Typed', NEW task \in HeadTask, NEW a \in Attempts, Head(task, a)
    PROVE  ExpiryInv'
<1>1. UNCHANGED Disturbed /\ ExpireJob(task, a)
    BY ExpireJobs DEF ExpiryInv, Typed, HeadTask, Tasks, Head, Disturbed, market
<1>2. /\ RowTellsOrder' /\ RowNeedsDecision' /\ RouterHolds' /\ OneConnected'
      /\ job'["app"].step = "expire" =>
            LET b == job'["app"].lapsed
            IN b \in Attempts /\ rows'[b].status # "pending_submit" /\ orders'[b].state # "live"
    BY <1>1, ScanKeeps DEF Disturbed
<1>3. MissesAreQuiet'
    BY <1>1, <1>2 DEF ExpiryInv, MissesAreQuiet, MissedHasNoOrder, Disturbed
<1> QED
    BY <1>2, <1>3 DEF ExpiryInv

\* What the app records as missed alone is what it found, and nobody has touched it.
LEMMA MissKeeps ==
    ASSUME ExpiryInv, Typed', Miss
    PROVE  ExpiryInv'
<1> DEFINE b == job["app"].lapsed
<1>1. job["app"].task \in Tasks /\ job["app"].attempt \in Attempts
    BY Constants DEF ExpiryInv, Typed, JobType
<1>2. UNCHANGED <<rows, orders>> /\ ExpireJob(job["app"].task, job["app"].attempt)
    BY <1>1, ExpireJobs DEF ExpiryInv, Typed, Miss, market
<1>3. /\ \A c \in Attempts : c # b => proposals'[c] = proposals[c]
      /\ \A c \in Attempts : c = b => proposals'[c].status = "missed"
    BY DEF ExpiryInv, Typed, ProposalType, Miss
<1>4. /\ RowTellsOrder' /\ RowNeedsDecision' /\ RouterHolds' /\ OneConnected'
      /\ job'["app"].step = "expire" =>
            LET c == job'["app"].lapsed
            IN c \in Attempts /\ rows'[c].status # "pending_submit" /\ orders'[c].state # "live"
    BY <1>2, <1>3, ScanKeeps
<1>5. MissesAreQuiet'
    <2> SUFFICES ASSUME Routers = {"app"} PROVE MissesAreQuiet'
        BY DEF MissesAreQuiet
    <2>1. b \in Attempts /\ rows[b].status # "pending_submit" /\ orders[b].state # "live"
        BY DEF Miss, ExpiryInv, MissesAreQuiet
    <2>2. MissedHasNoOrder'
        BY <1>2, <1>3, <2>1 DEF ExpiryInv, MissesAreQuiet, MissedHasNoOrder
    <2>3. \A c \in Attempts : rows'[c].status = "pending_submit" => proposals'[c].status # "missed"
        BY <1>2, <1>3, <2>1 DEF ExpiryInv, MissesAreQuiet
    <2> QED
        BY <1>4, <2>2, <2>3 DEF MissesAreQuiet
<1> QED
    BY <1>4, <1>5 DEF ExpiryInv

\* Decisions give attempts that are pending or decided on the status of a
\* decision, never of an expired attempt.
LEMMA DecisionStep ==
    ASSUME ExpiryInv, Typed', UNCHANGED <<rows, orders>>,
           \A a \in Attempts :
               \/ proposals'[a] = proposals[a]
               \/ proposals'[a].status \in {"approved", "rejected"},
           NoRoutingStarts
    PROVE  ExpiryInv'
<1>1. RowTellsOrder' /\ RowNeedsDecision' /\ MissesAreQuiet'
    BY DEF ExpiryInv, RowTellsOrder, RowNeedsDecision, MissesAreQuiet, MissedHasNoOrder,
        NoRoutingStarts
<1>2. RouterHolds'
    BY DEF ExpiryInv, RouterHolds, Typed, JobType, NoRoutingStarts
<1>3. OneConnected'
    BY DEF ExpiryInv, OneConnected, Connected, NoRoutingStarts
<1> QED
    BY <1>1, <1>2, <1>3 DEF ExpiryInv

\* A successor is a proposal that did not exist.
LEMMA QueueStep ==
    ASSUME ExpiryInv, Typed', UNCHANGED <<rows, orders>>,
           NEW a \in Attempts, NEW automatic \in BOOLEAN,
           Refreshable(a, automatic), QueueSuccessor(a, automatic),
           NoRoutingStarts
    PROVE  ExpiryInv'
<1>1. /\ a + 1 \in Attempts /\ proposals[a + 1].status = "none"
      /\ proposals'[a + 1].status = "pending"
      /\ \A b \in Attempts : b # a + 1 => proposals'[b] = proposals[b]
    BY DEF Refreshable, Leaf, Successor, Exists, QueueSuccessor, ExpiryInv, Typed
<1>2. RowTellsOrder'
    BY DEF ExpiryInv, RowTellsOrder
<1>3. RowNeedsDecision'
    BY <1>1 DEF ExpiryInv, RowNeedsDecision
<1>4. MissesAreQuiet'
    BY <1>1 DEF ExpiryInv, MissesAreQuiet, MissedHasNoOrder, NoRoutingStarts
<1>5. RouterHolds'
    BY <1>1 DEF ExpiryInv, RouterHolds, Typed, JobType, NoRoutingStarts
<1>6. OneConnected'
    BY DEF ExpiryInv, OneConnected, Connected, NoRoutingStarts
<1> QED
    BY <1>2, <1>3, <1>4, <1>5, <1>6 DEF ExpiryInv

\* Becoming idle, or going to a step of the loop
LEMMA BecomeApart ==
    ASSUME job \in [Routers -> JobType], NEW p \in Routers, NEW step, NEW task, NEW a,
           step \notin {"connect", "reserve", "send", "save", "expire"}, Become(p, step, task, a)
    PROVE  NoRoutingStarts
BY DEF Become, Doing, JobType, NoRoutingStarts

\* Goto starts no routing, unless it goes to a step of the routing.
LEMMA GotoApart ==
    ASSUME job \in [Routers -> JobType], NEW p \in Routers, NEW step,
           step \notin {"connect", "reserve", "send", "save", "expire"}, Goto(p, step)
    PROVE  NoRoutingStarts
BY DEF Goto, JobType, NoRoutingStarts

\* AfterRouting leaves the other routers alone and ends the routing.
LEMMA JobAfterRouting ==
    ASSUME job \in [Routers -> JobType], NEW p \in Routers, NEW sent, AfterRouting(p, sent)
    PROVE  /\ \A q \in Routers \ {p} : job'[q] = job[q]
           /\ job'[p].step \in {"outcome", "idle"}
BY DEF AfterRouting, Become, Doing, JobType

\* Jobs of the app
LEMMA AppKeeps ==
    ASSUME ExpiryInv, Typed', AppStep \/ Request
    PROVE  ExpiryInv'
<1> USE Constants DEF Disturbed, book, market
<1>0. job \in [Routers -> JobType]
    BY DEF ExpiryInv, Typed
<1>1. ASSUME NothingToClaim \/ RenewLater \/ EnterRouter \/ RecordClaim PROVE ExpiryInv'
    <2>1. NoRoutingStarts
        BY <1>0, <1>1, BecomeApart, GotoApart
        DEF NothingToClaim, RenewLater, EnterRouter, RecordClaim
    <2>2. UNCHANGED Disturbed
        BY <1>1 DEF NothingToClaim, RenewLater, EnterRouter, RecordClaim
    <2> QED
        BY <2>1, <2>2, QuietStep
<1>2. ASSUME NEW a \in Attempts, Claim(a) PROVE ExpiryInv'
    BY <1>0, <1>2, QuietStep, BecomeApart DEF Claim
<1>3. ASSUME CancelIntent PROVE ExpiryInv'
    BY <1>3, QuietStep DEF CancelIntent, NoRoutingStarts
<1>4. ASSUME NEW on \in BOOLEAN, Configure(on) PROVE ExpiryInv'
    BY <1>4, QuietStep DEF Configure, NoRoutingStarts
<1>5. ASSUME Miss PROVE ExpiryInv'
    BY <1>5, MissKeeps
<1>6. ASSUME Sweep \/ Tick PROVE ExpiryInv'
    BY <1>6, HeadKeeps DEF Sweep, Tick, HeadTask
<1>7. ASSUME NEW task \in Decisions, NEW a \in Attempts, Ask(task, a) PROVE ExpiryInv'
    BY <1>7, HeadKeeps DEF Ask, HeadTask
<1>8. ASSUME ApproveClaim PROVE ExpiryInv'
    <2>1. \A a \in Attempts :
              \/ proposals'[a] = proposals[a]
              \/ proposals'[a].status \in {"approved", "rejected"}
        BY <1>8 DEF ApproveClaim, ExpiryInv, Typed, ProposalType
    <2> QED
        BY <1>0, <1>8, <2>1, DecisionStep, GotoApart DEF ApproveClaim
<1>9. ASSUME Decide PROVE ExpiryInv'
    <2>1. \A a \in Attempts :
              \/ proposals'[a] = proposals[a]
              \/ proposals'[a].status \in {"approved", "rejected"}
        <3> DEFINE b == job["app"].attempt
        <3>1. b \in Attempts /\ proposals[b] \in ProposalType
            BY <1>0 DEF JobType, ExpiryInv, Typed
        <3>2. \/ proposals' = proposals
              \/ proposals' = [proposals EXCEPT ![b].status = "approved"]
              \/ proposals' = [proposals EXCEPT ![b].status = "rejected"]
            BY <1>9 DEF Decide
        <3> QED
            BY <3>1, <3>2 DEF ExpiryInv, Typed, ProposalType
    <2>2. NoRoutingStarts
        BY <1>0, <1>9, BecomeApart, GotoApart DEF Decide
    <2> QED
        BY <1>9, <2>1, <2>2, DecisionStep DEF Decide
<1>10. ASSUME NEW a \in Attempts, Renew(a) PROVE ExpiryInv'
    <2>1. NoRoutingStarts
        BY <1>0, <1>10, GotoApart DEF Renew
    <2>2. CASE report.position = Target
        BY <1>10, <2>1, <2>2, QuietStep DEF Renew
    <2>3. CASE report.position # Target
        BY <1>10, <2>1, <2>3, QueueStep DEF Renew
    <2> QED
        BY <2>2, <2>3
<1>11. ASSUME NEW a \in Attempts, Refresh(a) PROVE ExpiryInv'
    BY <1>11, QueueStep DEF Refresh, NoRoutingStarts
<1> QED
    BY <1>1, <1>2, <1>3, <1>4, <1>5, <1>6, <1>7, <1>8, <1>9, <1>10, <1>11 DEF AppStep, Request

\* A reservation takes a row that is free, of a proposal that has not expired.
LEMMA ReserveKeeps ==
    ASSUME ExpiryInv, Typed', NEW p \in Routers, Reserve(p)
    PROVE  ExpiryInv'
<1> DEFINE a == job[p].attempt
<1>1. /\ job \in [Routers -> JobType] /\ a \in Attempts /\ rows \in [Attempts -> RowType]
      /\ job[p].step = "reserve" /\ UNCHANGED <<proposals, orders>>
    BY DEF ExpiryInv, Typed, JobType, Reserve, book, market
<1>2. CASE ~Free(a, job[p].task)
    <2>1. AfterRouting(p, FALSE) /\ rows' = rows
        BY <1>2 DEF Reserve
    <2>2. NoRoutingStarts
        BY <1>1, <2>1, JobAfterRouting DEF NoRoutingStarts
    <2> QED
        BY <1>1, <2>1, <2>2, QuietStep DEF Disturbed
<1>3. CASE Free(a, job[p].task)
    <2>1. /\ rows'[a].status = "pending_submit"
          /\ \A b \in Attempts \ {a} : rows'[b] = rows[b]
        BY <1>1, <1>3 DEF Reserve, NoRow
    <2>2. /\ \A q \in Routers \ {p} : job'[q] = job[q]
          /\ job'[p].step = "send" /\ job'[p].attempt = a
        BY <1>1, <1>3 DEF Reserve, Goto, JobType
    <2>3. /\ proposals[a].status \notin {"none", "pending", "missed"}
          /\ orders[a].state # "live" /\ orders[a].filled = 0
        BY <1>1, <1>3 DEF Free, ExpiryInv, RouterHolds, RowTellsOrder
    <2>4. RowTellsOrder'
        BY <1>1, <2>1 DEF ExpiryInv, RowTellsOrder
    <2>5. RowNeedsDecision'
        BY <1>1, <2>1, <2>3 DEF ExpiryInv, RowNeedsDecision
    <2>6. MissesAreQuiet'
        BY <1>1, <2>1, <2>2, <2>3 DEF ExpiryInv, MissesAreQuiet, MissedHasNoOrder
    <2>7. OneConnected'
        BY <1>1, <2>2 DEF ExpiryInv, OneConnected, Connected
    <2>8. RouterHolds'
        <3> SUFFICES ASSUME NEW q \in Routers
                     PROVE  LET b == job'[q].attempt
                            IN /\ job'[q].step \in {"connect", "reserve"} =>
                                      proposals'[b].status \notin {"none", "pending"}
                               /\ job'[q].step = "send" =>
                                      /\ rows'[b].status = "pending_submit"
                                      /\ orders'[b].state # "live" /\ orders'[b].filled = 0
            BY DEF RouterHolds
        <3>1. CASE q = p
            BY <1>1, <2>1, <2>2, <2>3, <3>1
        <3>2. CASE q # p
            <4>1. job'[q] = job[q] /\ job[q].step # "send"
                BY <1>1, <2>2, <3>2 DEF ExpiryInv, OneConnected, Connected
            <4> QED
                BY <1>1, <4>1 DEF ExpiryInv, RouterHolds
        <3> QED
            BY <3>1, <3>2
    <2> QED
        BY <2>4, <2>5, <2>6, <2>7, <2>8 DEF ExpiryInv
<1> QED
    BY <1>2, <1>3

\* What is sent was reserved, hence has not expired.
LEMMA SendKeeps ==
    ASSUME ExpiryInv, Typed', NEW p \in Routers, Send(p)
    PROVE  ExpiryInv'
<1> DEFINE a == job[p].attempt
<1>1. /\ job \in [Routers -> JobType] /\ a \in Attempts /\ orders \in [Attempts -> OrderType]
      /\ job[p].step = "send" /\ UNCHANGED <<proposals, rows>>
    BY DEF ExpiryInv, Typed, JobType, Send, book
<1>2. rows[a].status = "pending_submit"
    BY <1>1 DEF ExpiryInv, RouterHolds
<1>3. \A b \in Attempts \ {a} : orders'[b] = orders[b]
    BY <1>1 DEF Send
<1>4. /\ \A q \in Routers \ {p} : job'[q] = job[q]
      /\ job'[p].step = "save"
    BY <1>1 DEF Send, JobType
<1>5. RowTellsOrder'
    BY <1>1, <1>2, <1>3 DEF ExpiryInv, RowTellsOrder
<1>6. RowNeedsDecision'
    BY <1>1 DEF ExpiryInv, RowNeedsDecision
<1>7. MissesAreQuiet'
    BY <1>1, <1>2, <1>3, <1>4 DEF ExpiryInv, MissesAreQuiet, MissedHasNoOrder
<1>8. OneConnected'
    BY <1>1, <1>4 DEF ExpiryInv, OneConnected, Connected
<1>9. RouterHolds'
    <2>1. \A q \in Routers : job'[q].step # "send"
        BY <1>1, <1>4 DEF ExpiryInv, OneConnected, Connected
    <2>2. \A q \in Routers : job'[q].step \in {"connect", "reserve"} => job'[q] = job[q]
        BY <1>4
    <2> QED
        BY <1>1, <2>1, <2>2 DEF ExpiryInv, RouterHolds
<1> QED
    BY <1>5, <1>6, <1>7, <1>8, <1>9 DEF ExpiryInv

\* A row whose order may be live never looks as if it had none.
LEMMA RowsStep ==
    ASSUME ExpiryInv, Typed', UNCHANGED <<proposals, orders>>,
           OneConnected',
           \A a \in Attempts :
               \/ rows'[a] = rows[a]
               \/ /\ rows[a].status # "none"
                  /\ rows'[a].status \notin {"none", "pending_submit"}
                  /\ rows'[a].status = "cancelled" => orders[a].state # "live",
           \A p \in Routers :
               \/ job'[p].step \notin {"connect", "reserve", "send", "expire"}
               \/ /\ job'[p] = job[p]
                  /\ job[p].step = "send" => rows'[job[p].attempt] = rows[job[p].attempt]
    PROVE  ExpiryInv'
<1>1. RowTellsOrder'
    BY DEF ExpiryInv, RowTellsOrder
<1>2. RowNeedsDecision'
    BY DEF ExpiryInv, RowNeedsDecision
<1>3. MissesAreQuiet'
    BY DEF ExpiryInv, MissesAreQuiet, MissedHasNoOrder
<1>4. RouterHolds'
    BY DEF ExpiryInv, RouterHolds
<1> QED
    BY <1>1, <1>2, <1>3, <1>4 DEF ExpiryInv

\* Validation and the command line let only approved proposals pass.
LEMMA ConnectKeeps ==
    ASSUME ExpiryInv, Typed', UNCHANGED Disturbed, NEW p \in Routers,
           \A q \in Routers \ {p} : job'[q] = job[q],
           \/ /\ job'[p].step = "connect"
              /\ proposals[job'[p].attempt].status = "approved"
           \/ /\ job[p].step = "connect" /\ job'[p].step = "reserve"
              /\ job'[p].attempt = job[p].attempt
              /\ \A q \in Routers \ {p} : ~Connected(q)
    PROVE  ExpiryInv'
<1>1. RowTellsOrder' /\ RowNeedsDecision'
    BY DEF ExpiryInv, Disturbed, RowTellsOrder, RowNeedsDecision
<1>2. RouterHolds'
    BY DEF ExpiryInv, Disturbed, RouterHolds
<1>3. OneConnected' /\ MissesAreQuiet'
    BY DEF ExpiryInv, OneConnected, Connected, MissesAreQuiet, MissedHasNoOrder, Disturbed
<1> QED
    BY <1>1, <1>2, <1>3 DEF ExpiryInv

\* Routing by either process, and crashes
LEMMA RoutingKeeps ==
    ASSUME ExpiryInv, Typed',
           \/ \E a \in Attempts : RunScript(a)
           \/ \E p \in Routers : Routing(p) \/ Crash(p)
    PROVE  ExpiryInv'
<1> USE DEF Disturbed, book, market
<1>0. job \in [Routers -> JobType]
    BY DEF ExpiryInv, Typed
<1>1. ASSUME NEW a \in Attempts, RunScript(a) PROVE ExpiryInv'
    <2>1. /\ "script" \in Routers /\ UNCHANGED Disturbed
          /\ \A q \in Routers \ {"script"} : job'[q] = job[q]
          /\ job'["script"].step = "connect" /\ job'["script"].attempt = a
        BY <1>0, <1>1 DEF RunScript, Become, Doing
    <2>2. proposals[a].status = "approved"
        BY <1>1 DEF RunScript, Routable
    <2> QED
        BY <2>1, <2>2, ConnectKeeps
<1>2. ASSUME NEW p \in Routers, Validate(p) PROVE ExpiryInv'
    <2>1. CASE Routable(job[p].attempt, job[p].task)
        <3>1. /\ \A q \in Routers \ {p} : job'[q] = job[q]
              /\ job'[p].step = "connect" /\ job'[p].attempt = job[p].attempt
            BY <1>0, <1>2, <2>1 DEF Validate, Goto, JobType
        <3>2. proposals[job[p].attempt].status = "approved" /\ UNCHANGED Disturbed
            BY <1>2, <2>1 DEF Validate, Routable
        <3> QED
            BY <3>1, <3>2, ConnectKeeps
    <2>2. CASE ~Routable(job[p].attempt, job[p].task)
        <3>1. NoRoutingStarts
            BY <1>0, <1>2, <2>2, JobAfterRouting DEF Validate, NoRoutingStarts
        <3> QED
            BY <1>2, <3>1, QuietStep DEF Validate
    <2> QED
        BY <2>1, <2>2
<1>3. ASSUME NEW p \in Routers, Connect(p) PROVE ExpiryInv'
    <2>1. /\ \A q \in Routers \ {p} : job'[q] = job[q]
          /\ job[p].step = "connect" /\ job'[p].step = "reserve"
          /\ job'[p].attempt = job[p].attempt
        BY <1>0, <1>3 DEF Connect, Goto, JobType
    <2>2. UNCHANGED Disturbed /\ \A q \in Routers \ {p} : ~Connected(q)
        BY <1>3 DEF Connect
    <2> QED
        BY <2>1, <2>2, ConnectKeeps
<1>4. ASSUME NEW p \in Routers, ConnectFails(p) PROVE ExpiryInv'
    <2>1. NoRoutingStarts
        BY <1>0, <1>4, JobAfterRouting DEF ConnectFails, NoRoutingStarts
    <2> QED
        BY <1>4, <2>1, QuietStep DEF ConnectFails
<1>5. ASSUME NEW p \in Routers, SaveOutcome(p) PROVE ExpiryInv'
    <2> DEFINE a == job[p].attempt
    <2>1. a \in Attempts /\ rows \in [Attempts -> RowType] /\ job[p].step = "save"
        BY <1>0, <1>5 DEF ExpiryInv, Typed, JobType, SaveOutcome
    <2>2. /\ \A q \in Routers \ {p} : job'[q] = job[q]
          /\ job'[p].step \in {"outcome", "idle"}
        BY <1>0, <1>5, JobAfterRouting DEF SaveOutcome
    <2>3. \A b \in Attempts :
              \/ rows'[b] = rows[b]
              \/ /\ rows[b].status # "none"
                 /\ rows'[b].status \notin {"none", "pending_submit"}
                 /\ rows'[b].status = "cancelled" => orders[b].state # "live"
        BY <1>5, <2>1 DEF SaveOutcome, RowType
    <2>4. OneConnected'
        BY <2>1, <2>2 DEF ExpiryInv, OneConnected, Connected
    <2>5. \A q \in Routers :
              \/ job'[q].step \notin {"connect", "reserve", "send", "expire"}
              \/ /\ job'[q] = job[q]
                 /\ job[q].step = "send" => rows'[job[q].attempt] = rows[job[q].attempt]
        BY <2>1, <2>2 DEF ExpiryInv, OneConnected, Connected
    <2> QED
        BY <1>5, <2>3, <2>4, <2>5, RowsStep DEF SaveOutcome
<1>6. ASSUME NEW p \in Routers, Crash(p) PROVE ExpiryInv'
    <2>1. NoRoutingStarts
        BY <1>0, <1>6, BecomeApart DEF Crash
    <2> QED
        BY <1>6, <2>1, QuietStep DEF Crash
<1> QED
    BY <1>1, <1>2, <1>3, <1>4, <1>5, <1>6, ReserveKeeps, SendKeeps DEF Routing

\* Merging leaves the row of an order that is being sent alone.
LEMMA MergeKeeps ==
    ASSUME ExpiryInv, Typed', UNCHANGED <<proposals, orders, job>>,
           rows' = [a \in Attempts |-> Merged(a)]
    PROVE  ExpiryInv'
<1>1. \A a \in Attempts :
          \/ rows'[a] = rows[a]
          \/ /\ rows[a].status # "none"
             /\ rows'[a].status \notin {"none", "pending_submit"}
             /\ rows'[a].status = "cancelled" => orders[a].state # "live"
    <2> SUFFICES ASSUME NEW a \in Attempts, rows'[a] # rows[a]
                 PROVE  /\ rows[a].status # "none"
                        /\ rows'[a].status \notin {"none", "pending_submit"}
                        /\ rows'[a].status = "cancelled" => orders[a].state # "live"
        OBVIOUS
    <2>1. rows[a] \in RowType /\ rows[a].status # "none"
        BY DEF Merged, ExpiryInv, Typed
    <2>2. \/ rows'[a].status \in {"filled", "submitted"}
          \/ rows'[a].status = "cancelled" /\ rows[a].status = "cancelled"
        BY <2>1 DEF Merged, RowType
    <2> QED
        BY <2>1, <2>2 DEF ExpiryInv, RowTellsOrder
<1>2. OneConnected'
    BY DEF ExpiryInv, OneConnected, Connected
<1>3. \A p \in Routers : job[p].step = "send" => rows'[job[p].attempt] = rows[job[p].attempt]
    BY DEF Merged, ExpiryInv, RouterHolds, Typed, JobType
<1> QED
    BY <1>1, <1>2, <1>3, RowsStep

\* An order that executes or ends was live, hence not about to be sent.
LEMMA OrderKeeps ==
    ASSUME ExpiryInv, Typed', UNCHANGED <<proposals, rows, job>>,
           NEW a \in Attempts, orders[a].state = "live",
           \A b \in Attempts \ {a} : orders'[b] = orders[b]
    PROVE  ExpiryInv'
<1>1. RowTellsOrder'
    BY DEF ExpiryInv, RowTellsOrder
<1>2. RowNeedsDecision'
    BY DEF ExpiryInv, RowNeedsDecision
<1>3. MissesAreQuiet'
    BY DEF ExpiryInv, MissesAreQuiet, MissedHasNoOrder
<1>4. RouterHolds'
    BY DEF ExpiryInv, RouterHolds, Typed, JobType
<1>5. OneConnected'
    BY DEF ExpiryInv, OneConnected, Connected
<1> QED
    BY <1>1, <1>2, <1>3, <1>4, <1>5 DEF ExpiryInv

\* The broker, time and evidence
LEMMA EnvironmentKeeps ==
    ASSUME ExpiryInv, Typed', Environment
    PROVE  ExpiryInv'
<1> USE DEF Disturbed, book, market
<1>1. ASSUME NEW a \in Attempts, Execute(a) \/ EndOrder(a) PROVE ExpiryInv'
    <2>1. orders[a].state = "live" /\ \A b \in Attempts \ {a} : orders'[b] = orders[b]
        BY <1>1 DEF Execute, EndOrder, ExpiryInv, Typed
    <2> QED
        BY <1>1, <2>1, OrderKeeps DEF Execute, EndOrder
<1>2. ASSUME NEW a \in Attempts, Observe(a) PROVE ExpiryInv'
    <2>1. \A p \in Routers : job[p].step # "send"
        BY <1>2 DEF Observe, Connected
    <2>2. \A b \in Attempts :
              \/ rows'[b] = rows[b]
              \/ /\ rows[b].status # "none"
                 /\ rows'[b].status \notin {"none", "pending_submit"}
                 /\ rows'[b].status = "cancelled" => orders[b].state # "live"
        BY <1>2 DEF Observe, Unsettled, ExpiryInv, Typed, RowType
    <2>3. OneConnected'
        BY <1>2 DEF Observe, ExpiryInv, OneConnected, Connected
    <2> QED
        BY <1>2, <2>1, <2>2, <2>3, RowsStep DEF Observe
<1>3. ASSUME SyncExecutions \/ StartReconcile PROVE ExpiryInv'
    BY <1>3, MergeKeeps DEF SyncExecutions, StartReconcile
<1>4. ASSUME FinishReconcile \/ ReportAges \/ NewerObjective PROVE ExpiryInv'
    BY <1>4, QuietStep DEF FinishReconcile, ReportAges, NewerObjective, NoRoutingStarts
<1>5. ASSUME NEW a \in Attempts, DeadlinePasses(a) PROVE ExpiryInv'
    BY <1>5, QuietStep DEF DeadlinePasses, NoRoutingStarts
<1> QED
    BY <1>1, <1>2, <1>3, <1>4, <1>5 DEF Environment

\* In the initial states no attempt was decided on and no order exists.
LEMMA InitExpiry == Init => ExpiryInv
<1> SUFFICES ASSUME Init PROVE ExpiryInv
    OBVIOUS
<1>1. Typed
    BY InitTyped
<1>2. RowTellsOrder /\ RowNeedsDecision
    BY DEF Init, NoRow, RowTellsOrder, RowNeedsDecision
<1>3. \A p \in Routers : job[p].step = "idle"
    BY DEF Init, Idle, Doing
<1>4. RouterHolds /\ OneConnected
    BY <1>3 DEF RouterHolds, OneConnected, Connected
<1>5. MissesAreQuiet
    BY <1>3, Constants DEF Init, NoRow, MissesAreQuiet, MissedHasNoOrder
<1> QED
    BY <1>1, <1>2, <1>4, <1>5 DEF ExpiryInv

\* The invariant of expiry holds.
LEMMA ExpiryHolds == Spec => []ExpiryInv
<1>1. Spec => []Typed
    BY TypeCorrect, Types, PTL
<1>2. ExpiryInv /\ Typed' /\ [Next]_vars => ExpiryInv'
    <2>1. ASSUME ExpiryInv, Typed', UNCHANGED vars PROVE ExpiryInv'
        BY <2>1, QuietStep DEF vars, Disturbed, NoRoutingStarts
    <2> QED
        BY <2>1, AppKeeps, RoutingKeeps, EnvironmentKeeps DEF Next
<1> QED
    BY <1>1, <1>2, InitExpiry, PTL DEF Spec

\* Where the app is the only router, no attempt recorded as missed has a live order: a
\* router does not send what has expired, and what the scan of expired proposals finds
\* is still without an order when it is recorded, however late that is.  (The script
\* takes no lock of the app's: it may reserve between the two.)
THEOREM MissedIsQuiet ==
    ASSUME Routers = {"app"}
    PROVE  Spec => []MissedHasNoOrder
<1>1. ExpiryInv => MissedHasNoOrder
    BY DEF ExpiryInv, MissesAreQuiet
<1> QED
    BY <1>1, ExpiryHolds, PTL

\* The policy claims before it approves, where no one else approves: a crash
\* between the two leaves a claim and no approval, never the reverse.
THEOREM ClaimFirst ==
    ASSUME Requests \cap {"approve", "approve_submit"} = {}
    PROVE  Spec => []ClaimPrecedesApproval
<1> DEFINE Inv == /\ Typed /\ ClaimPrecedesApproval
                  /\ job["app"].task \notin {"approve", "approve_submit"}
                  /\ job["app"].step = "approve" => policy.claims[job["app"].attempt] # "none"
<1>1. Init => Inv
    <2> SUFFICES ASSUME Init PROVE Inv
        OBVIOUS
    <2>1. job["app"] = Idle /\ approvals = {}
        BY Constants DEF Init
    <2>2. job["app"].step = "idle" /\ job["app"].task = "none"
        BY <2>1 DEF Idle, Doing
    <2>3. ClaimPrecedesApproval
        BY <2>1 DEF ClaimPrecedesApproval
    <2> QED
        BY <2>2, <2>3, InitTyped
<1>2. Spec => []Typed
    BY TypeCorrect, Types, PTL
<1>3. Inv /\ Typed' /\ [Next]_vars => Inv'
    <2> SUFFICES ASSUME Inv, Typed', [Next]_vars PROVE Inv'
        OBVIOUS
    <2> USE Constants DEF ClaimPrecedesApproval, book
    <2>0. /\ job \in [Routers -> JobType] /\ job["app"].attempt \in Attempts
          /\ policy \in PolicyType
        BY DEF Typed, JobType
    <2>1. ASSUME UNCHANGED <<approvals, policy>>, job'["app"] = job["app"] PROVE Inv'
        BY <2>1
    <2>2. ASSUME UNCHANGED <<approvals, policy>>, job'["app"].step # "approve",
                 job'["app"].task \notin {"approve", "approve_submit"}
          PROVE  Inv'
        BY <2>2
    <2>3. CASE ApproveClaim
        <3>1. approvals' = approvals \cup {job["app"].attempt} /\ policy' = policy
            BY <2>3 DEF ApproveClaim
        <3>2. job["app"].step = "approve" /\ job'["app"].step = "enter"
              /\ job'["app"].task = job["app"].task
            BY <2>0, <2>3 DEF ApproveClaim, Goto, JobType
        <3> QED
            BY <3>1, <3>2
    <2>4. CASE EnterRouter \/ RecordClaim
        <3>1. \A a \in Attempts : policy.claims[a] # "none" => policy'.claims[a] # "none"
            BY <2>0, <2>4 DEF EnterRouter, RecordClaim, PolicyType
        <3>2. /\ approvals' = approvals /\ job'["app"].step # "approve"
              /\ job'["app"].task \in {job["app"].task, "none"}
            BY <2>0, <2>4 DEF EnterRouter, RecordClaim, Goto, Become, Doing, JobType
        <3> QED
            BY <3>1, <3>2
    <2>5. CASE \E a \in Attempts : Claim(a)
        <3> SUFFICES ASSUME NEW a \in Attempts, Claim(a) PROVE Inv'
            BY <2>5
        <3>1. /\ policy'.claims[a] = "claimed"
              /\ \A b \in Attempts : policy.claims[b] # "none" => policy'.claims[b] # "none"
            BY <2>0 DEF Claim, PolicyType
        <3>2. /\ approvals' = approvals /\ job'["app"].attempt = a
              /\ job'["app"].task = "tick"
            BY <2>0 DEF Claim, Become, Doing
        <3> QED
            BY <3>1, <3>2
    <2>6. CASE Decide
        <3>1. approvals' = approvals /\ policy' = policy
            BY <2>6 DEF Decide
        <3>2. /\ job'["app"].step # "approve"
              /\ job'["app"].task \in {job["app"].task, "none"}
            <4>1. Goto("app", "validate") \/ Become("app", "idle", "none", 1)
                BY <2>6 DEF Decide
            <4> QED
                BY <2>0, <4>1 DEF Goto, Become, Doing, JobType
        <3> QED
            BY <3>1, <3>2
    <2>7. CASE NothingToClaim \/ RenewLater
        <3>1. UNCHANGED <<approvals, policy>>
            BY <2>7 DEF NothingToClaim, RenewLater
        <3>2. /\ job'["app"].step # "approve"
              /\ job'["app"].task \in {job["app"].task, "none"}
            BY <2>0, <2>7 DEF NothingToClaim, RenewLater, Goto, Become, Doing, JobType
        <3> QED
            BY <2>2, <3>1, <3>2
    <2>8. ASSUME policy'.claims = policy.claims, approvals' = approvals,
                 \/ job'["app"] = job["app"]
                 \/ /\ job'["app"].step # "approve"
                    /\ job'["app"].task = job["app"].task
          PROVE  Inv'
        BY <2>8
    <2>9. CASE \E a \in Attempts : Renew(a) \/ Refresh(a)
        <3> SUFFICES ASSUME NEW a \in Attempts, Renew(a) \/ Refresh(a) PROVE Inv'
            BY <2>9
        <3>1. policy'.claims = policy.claims /\ approvals' = approvals
            BY <2>0 DEF Renew, Refresh, QueueSuccessor, PolicyType
        <3>2. \/ job'["app"] = job["app"]
              \/ /\ job'["app"].step # "approve"
                 /\ job'["app"].task = job["app"].task
            <4>1. CASE Renew(a)
                <5>1. job' = [job EXCEPT !["app"].step = "pick"]
                    BY <4>1 DEF Renew, Goto
                <5> QED
                    BY <2>0, <5>1 DEF JobType
            <4>2. CASE Refresh(a)
                BY <4>2 DEF Refresh
            <4> QED
                BY <4>1, <4>2
        <3> QED
            BY <2>8, <3>1, <3>2
    <2>10. CASE \E on \in BOOLEAN : Configure(on)
        <3>1. policy'.claims = policy.claims /\ approvals' = approvals /\ job' = job
            BY <2>0, <2>10 DEF Configure, PolicyType
        <3> QED
            BY <2>8, <3>1
    <2>11. CASE Miss \/ Sweep \/ Tick \/ \E task \in Decisions, a \in Attempts : Ask(task, a)
        <3>1. UNCHANGED <<approvals, policy>>
            BY <2>11 DEF Miss, Sweep, Tick, Ask, Head
        <3>2. PICK task \in Tasks, a \in Attempts :
                  ExpireJob(task, a) /\ task \notin {"approve", "approve_submit"}
            <4>1. CASE Miss
                <5>1. job["app"].task \in Tasks
                    BY <2>0 DEF JobType
                <5> QED
                    BY <2>0, <4>1, <5>1, ExpireJobs DEF Miss
            <4>2. ASSUME NEW task \in HeadTask, NEW a \in Attempts, Head(task, a)
                  PROVE  /\ task \in Tasks /\ ExpireJob(task, a)
                         /\ task \notin {"approve", "approve_submit"}
                BY <2>0, <4>2, ExpireJobs DEF HeadTask, Tasks, Head
            <4>3. CASE Sweep \/ Tick
                BY <4>2, <4>3 DEF Sweep, Tick, HeadTask
            <4>4. CASE \E task \in Decisions, a \in Attempts : Ask(task, a)
                BY <4>2, <4>4 DEF Ask, HeadTask
            <4> QED
                BY <2>11, <4>1, <4>3, <4>4
        <3>3. job'["app"].step # "approve" /\ job'["app"].task \in {task, "none"}
            BY <3>2, ExpireFields
        <3> QED
            BY <2>2, <3>1, <3>2, <3>3
    <2>12. CASE CancelIntent \/ Environment \/ UNCHANGED vars
        <3>1. UNCHANGED <<approvals, policy, job>>
            BY <2>12 DEF CancelIntent, Environment, Execute, EndOrder, DeadlinePasses,
                Observe, SyncExecutions, StartReconcile, FinishReconcile, ReportAges,
                NewerObjective, vars
        <3> QED
            BY <2>1, <3>1
    <2>13. CASE \/ \E a \in Attempts : RunScript(a)
                \/ \E p \in Routers : Routing(p) \/ Crash(p)
        <3>1. UNCHANGED <<approvals, policy>>
            BY <2>13 DEF RunScript, Routing, Crash, Validate, Connect, ConnectFails, Reserve,
                Send, SaveOutcome
        <3>2. \/ job'["app"] = job["app"]
              \/ /\ job'["app"].step # "approve"
                 /\ job'["app"].task \in {job["app"].task, "none"}
            <4>1. ASSUME NEW p \in Routers, NEW sent \in BOOLEAN, AfterRouting(p, sent)
                  PROVE  \/ job'["app"] = job["app"]
                         \/ /\ job'["app"].step # "approve"
                            /\ job'["app"].task \in {job["app"].task, "none"}
                BY <2>0, <4>1 DEF AfterRouting, Become, Doing, JobType
            <4>2. ASSUME NEW p \in Routers, Routing(p)
                  PROVE  \/ job'["app"] = job["app"]
                         \/ /\ job'["app"].step # "approve"
                            /\ job'["app"].task \in {job["app"].task, "none"}
                <5>1. job[p].sent \in BOOLEAN
                    BY <2>0 DEF JobType
                <5>2. CASE \E sent \in BOOLEAN : AfterRouting(p, sent)
                    BY <4>1, <5>2
                <5>3. CASE \E step \in {"connect", "reserve", "send"} : Goto(p, step)
                    BY <2>0, <5>3 DEF Goto, JobType
                <5>4. CASE Send(p)
                    BY <2>0, <5>4 DEF Send, JobType
                <5> QED
                    BY <4>2, <5>1, <5>2, <5>3, <5>4
                    DEF Routing, Validate, Connect, ConnectFails, Reserve, SaveOutcome
            <4>3. ASSUME NEW p \in Routers, Crash(p)
                  PROVE  \/ job'["app"] = job["app"]
                         \/ job'["app"].step # "approve" /\ job'["app"].task = "none"
                BY <2>0, <4>3 DEF Crash, Become, Doing
            <4>4. ASSUME NEW a \in Attempts, RunScript(a) PROVE job'["app"] = job["app"]
                BY <2>0, <4>4 DEF RunScript, Become
            <4> QED
                BY <2>13, <4>2, <4>3, <4>4
        <3> QED
            BY <2>1, <2>2, <3>1, <3>2
    <2> QED
        BY <2>3, <2>4, <2>5, <2>6, <2>7, <2>9, <2>10, <2>11, <2>12, <2>13
        DEF Next, AppStep, Request
<1> QED
    BY <1>1, <1>2, <1>3, PTL DEF Spec
-----------------------------------------------------------------------------
(* The refinement: the app keeps the promise of RebalanceObjective. *)

\* What closes the objective or renews the proposal is asked for only where no second
\* router may be past its validation.
OneDecider ==
    Routers = {"app"} \/ Requests \cap {"sweep", "tick", "cancel", "refresh"} = {}

\* Validated, and not sent yet
Underway == {"connect", "reserve", "send"}

\* The variables of RebalanceObjective
WorkingUnits == [a \in Attempts |-> IF orders[a].state = "live"
                                    THEN proposals[a].quantity - orders[a].filled ELSE 0]
ObjectiveState == IF intent \in Closed THEN intent ELSE "open"

\* The attempts that exist are 1 to some n, of which n is the leaf.
Lineage == \E n \in Attempts : \A a \in Attempts : Exists(a) <=> a <= n

\* An attempt asks for what was missing when it was queued, and nothing was executed
\* since but by its own order.
AsksForMissing ==
    \A a \in Attempts :
        /\ Exists(a) => proposals[a].quantity + proposals[a].account = Target
        /\ Leaf(a) => held = proposals[a].account + orders[a].filled

\* Only the leaf has an order that can execute, and no order executes in excess.
OnlyLeafWorks ==
    \A a \in Attempts :
        /\ orders[a].filled <= proposals[a].quantity
        /\ orders[a].state = "live" => Leaf(a) /\ orders[a].filled < proposals[a].quantity
        /\ rows[a].status = "filled" => orders[a].filled = proposals[a].quantity

\* A report that accounts for every row shows the position as it is.
ReportTells ==
    (\A a \in Attempts : rows[a].status # "none" => a \in report.covers) => report.position = held

\* What was validated holds until the order is sent.
RouterCurrent ==
    \A p \in Routers : job[p].step \in Underway =>
        Leaf(job[p].attempt) /\ intent \notin Closed /\ proposals[job[p].attempt].quantity > 0

\* The app renews in a tick of the policy, and decides on what exists; it scans for
\* what it was asked for, and has found what exists.
AppCurrent ==
    /\ job["app"].step = "renew" => "tick" \in Requests
    /\ job["app"].step = "decide" => Exists(job["app"].attempt)
    /\ job["app"].step = "expire" =>
          /\ job["app"].lapsed \in Attempts /\ Exists(job["app"].lapsed)
          /\ job["app"].task \in HeadTask /\ job["app"].task \in Requests
          /\ job["app"].task \in Decisions => Exists(job["app"].attempt)

Pursuit ==
    /\ Lineage /\ AsksForMissing /\ OnlyLeafWorks /\ ReportTells /\ RouterCurrent
    /\ AppCurrent

\* The leaf is the last attempt that exists; the same of the next state.
LEMMA LatestIs ==
    ASSUME NEW n \in Attempts, \A a \in Attempts : Exists(a) <=> a <= n
    PROVE  LatestAttempt = n /\ \A a \in Attempts : Leaf(a) <=> a = n
<1>1. \A a \in Attempts : Leaf(a) <=> a = n
    BY AttemptsAssumption DEF Leaf, Successor, Attempts
<1> QED
    BY <1>1 DEF LatestAttempt

\* If the attempts up to n exist after a step, n is the latest then and the only leaf.
LEMMA LatestIsNext ==
    ASSUME NEW n \in Attempts, \A a \in Attempts : Exists(a)' <=> a <= n
    PROVE  LatestAttempt' = n /\ \A a \in Attempts : Leaf(a)' <=> a = n
<1>1. \A a \in Attempts : Leaf(a)' <=> a = n
    BY AttemptsAssumption DEF Leaf, Successor, Attempts
<1> QED
    BY <1>1 DEF LatestAttempt

\* Steps that ask for nothing new
SameAsk ==
    \A a \in Attempts :
        /\ proposals'[a].quantity = proposals[a].quantity
        /\ proposals'[a].account = proposals[a].account
        /\ Exists(a)' <=> Exists(a)

\* A step that asks for nothing new leaves the line of attempts as it is.
LEMMA LineageKept ==
    ASSUME Lineage, SameAsk
    PROVE  /\ Lineage' /\ LatestAttempt' = LatestAttempt
           /\ \A a \in Attempts : Leaf(a)' <=> Leaf(a)
<1>1. PICK n \in Attempts : \A a \in Attempts : Exists(a) <=> a <= n
    BY DEF Lineage
<1>2. \A a \in Attempts : Exists(a)' <=> a <= n
    BY <1>1 DEF SameAsk
<1>3. Lineage'
    BY <1>2 DEF Lineage
<1> QED
    BY <1>1, <1>2, <1>3, LatestIs, LatestIsNext

\* The leaf is one attempt, and nothing works when it does not.
LEMMA LeafIsOne ==
    ASSUME Pursuit, NEW a \in Attempts, Leaf(a)
    PROVE  LatestAttempt = a /\ \A b \in Attempts : Leaf(b) => b = a
BY LatestIs DEF Pursuit, Lineage

\* Without a live order the objective is quiet.
LEMMA NothingWorks ==
    ASSUME \A a \in Attempts : orders[a].state # "live"
    PROVE  Objective!Quiet
BY DEF Objective!Quiet, Objective!Attempts, Attempts

\* A row keeps existing, and is filled when its order is.
RowsFrame ==
    \A a \in Attempts :
        /\ rows'[a].status = "none" => rows[a].status = "none"
        /\ rows'[a].status = "filled" =>
              rows[a].status = "filled" \/ orders[a].filled = proposals[a].quantity

\* No process is past validation but by validation, or where it was.
JobFrame ==
    \A p \in Routers : job'[p].step \in Underway =>
        /\ intent' = intent
        /\ \/ job[p].step \in Underway /\ job'[p].attempt = job[p].attempt
           \/ Leaf(job'[p].attempt) /\ intent \notin Closed /\ proposals[job'[p].attempt].quantity > 0

\* Routing takes the app nowhere else.
AppFrame == job'["app"].step \in {"renew", "decide", "expire"} => job'["app"] = job["app"]

\* A step that changes neither orders nor what is asked for keeps the invariant, and
\* changes at most the state of the objective.
LEMMA Frame ==
    ASSUME Typed, Typed', Pursuit, SameAsk, UNCHANGED <<orders, held>>, RowsFrame, ReportTells', JobFrame,
           AppCurrent'
    PROVE  Pursuit' /\ UNCHANGED <<held, WorkingUnits, LatestAttempt>>
<1>1. /\ Lineage' /\ LatestAttempt' = LatestAttempt
      /\ \A a \in Attempts : Leaf(a)' <=> Leaf(a)
    BY LineageKept DEF Pursuit
<1>2. AsksForMissing'
    BY <1>1 DEF Pursuit, AsksForMissing, SameAsk
<1>3. OnlyLeafWorks'
    BY <1>1 DEF Pursuit, OnlyLeafWorks, SameAsk, RowsFrame
<1>4. RouterCurrent'
    <2>1. \A p \in Routers : job'[p].attempt \in Attempts
        BY DEF Typed, JobType
    <2> QED
        BY <1>1, <2>1 DEF Pursuit, RouterCurrent, SameAsk, JobFrame
<1>5. WorkingUnits' = WorkingUnits
    BY DEF WorkingUnits, SameAsk
<1> QED
    BY <1>1, <1>2, <1>3, <1>4, <1>5 DEF Pursuit

\* The report tells no less when it covers less.
LEMMA ReportFrame ==
    ASSUME ReportTells, RowsFrame, held' = held,
           report'.position = report.position, report'.covers \subseteq report.covers
    PROVE  ReportTells'
BY DEF ReportTells, RowsFrame

\* The app is where it was, about an attempt that exists as before.
LEMMA AppKept ==
    ASSUME Typed, AppCurrent, AppFrame, SameAsk
    PROVE  AppCurrent'
<1>1. job["app"].attempt \in Attempts
    BY Constants DEF Typed, JobType
<1> QED
    BY <1>1 DEF AppCurrent, AppFrame, SameAsk

\* Without a change of intent, a step of that kind is a stutter.
LEMMA Stutters ==
    ASSUME UNCHANGED <<held, WorkingUnits, LatestAttempt>>, ObjectiveState' = ObjectiveState
    PROVE  UNCHANGED Objective!vars
BY DEF Objective!vars, WorkingUnits, ObjectiveState
\* The routers by themselves: validation lets only the leaf of an open objective pass.
LEMMA RoutingPursues ==
    ASSUME Typed, Typed', Pursuit,
           \/ \E a \in Attempts : RunScript(a)
           \/ \E p \in Routers : \/ Validate(p) \/ Connect(p) \/ ConnectFails(p) \/ Reserve(p)
                                 \/ SaveOutcome(p) \/ Crash(p)
    PROVE  Pursuit' /\ UNCHANGED Objective!vars
<1> USE Constants
<1>0. job \in [Routers -> JobType] /\ rows \in [Attempts -> RowType] /\ report \in ReportType
    BY DEF Typed
<1>1. SameAsk /\ UNCHANGED <<orders, held, intent>>
    BY DEF RunScript, Validate, Connect, ConnectFails, Reserve, SaveOutcome, Crash, book, market,
        SameAsk, Exists
<1>2. ASSUME NEW a \in Attempts, NEW task, Routable(a, task)
      PROVE  Leaf(a) /\ intent \notin Closed /\ proposals[a].quantity > 0
    BY <1>2 DEF Routable, PreparedIssue, RouteIssue, Leaf, Exists
<1>3. ASSUME NEW p \in Routers, NEW sent, AfterRouting(p, sent)
      PROVE  JobFrame /\ AppFrame
    <2>1. \A q \in Routers : job'[q] = job[q] \/ job'[q].step \in {"idle", "outcome"}
        BY <1>0, <1>3, JobAfterRouting
    <2> QED
        BY <1>1, <2>1 DEF JobFrame, AppFrame, Underway
<1>4. JobFrame /\ AppFrame
    <2>1. ASSUME NEW a \in Attempts, RunScript(a)
          PROVE  JobFrame /\ AppFrame
        <3>1. /\ \A q \in Routers : q # "script" => job'[q] = job[q]
              /\ job'["script"].attempt = a /\ Routable(a, "script")
            BY <1>0, <2>1 DEF RunScript, Become, Doing
        <3> QED
            BY <1>1, <1>2, <3>1 DEF JobFrame, AppFrame
    <2>2. ASSUME NEW p \in Routers, Validate(p)
          PROVE  JobFrame /\ AppFrame
        <3>1. CASE Routable(job[p].attempt, job[p].task)
            <4>1. /\ \A q \in Routers \ {p} : job'[q] = job[q]
                  /\ job'[p].step = "connect" /\ job'[p].attempt = job[p].attempt
                BY <1>0, <2>2, <3>1 DEF Validate, Goto, JobType
            <4>2. job[p].attempt \in Attempts
                BY <1>0 DEF JobType
            <4> QED
                BY <1>1, <1>2, <3>1, <4>1, <4>2 DEF JobFrame, AppFrame
        <3> QED
            BY <1>3, <2>2, <3>1 DEF Validate
    <2>3. ASSUME NEW p \in Routers, NEW step \in {"reserve", "send"}, job[p].step \in Underway, Goto(p, step)
          PROVE  JobFrame /\ AppFrame
        <3>1. /\ \A q \in Routers \ {p} : job'[q] = job[q]
              /\ job'[p].step = step /\ job'[p].attempt = job[p].attempt
            BY <1>0, <2>3 DEF Goto, JobType
        <3> QED
            BY <1>1, <2>3, <3>1 DEF JobFrame, AppFrame
    <2>4. ASSUME NEW p \in Routers, Crash(p)
          PROVE  JobFrame /\ AppFrame
        <3>1. \A q \in Routers : job'[q] = job[q] \/ job'[q].step = "idle"
            BY <1>0, <2>4 DEF Crash, Become, Doing
        <3> QED
            BY <1>1, <3>1 DEF JobFrame, AppFrame, Underway
    <2>5. ASSUME NEW p \in Routers, Connect(p) \/ ConnectFails(p) \/ Reserve(p) \/ SaveOutcome(p)
          PROVE  JobFrame /\ AppFrame
        BY <1>3, <2>3, <2>5 DEF Connect, ConnectFails, Reserve, SaveOutcome, Underway
    <2> QED
        BY <2>1, <2>2, <2>4, <2>5
<1>5. RowsFrame /\ report'.position = report.position /\ report'.covers \subseteq report.covers
    <2>1. ASSUME rows' = rows, report' = report
          PROVE  RowsFrame /\ report'.position = report.position /\ report'.covers \subseteq report.covers
        BY <2>1 DEF RowsFrame
    <2>2. ASSUME NEW a \in Attempts, Touch(a)
          PROVE  report'.position = report.position /\ report'.covers \subseteq report.covers
        BY <1>0, <2>2 DEF Touch, ReportType
    <2>3. ASSUME NEW a \in Attempts, NEW r, rows' = [rows EXCEPT ![a] = r],
                 r.status \in {"pending_submit", "submitted"}
          PROVE  RowsFrame
        BY <1>0, <2>3 DEF RowsFrame
    <2>4. ASSUME NEW p \in Routers, Reserve(p)
          PROVE  RowsFrame /\ report'.position = report.position /\ report'.covers \subseteq report.covers
        <3>1. job[p].attempt \in Attempts /\ [NoRow EXCEPT !.status = "pending_submit"].status = "pending_submit"
            BY <1>0 DEF JobType, NoRow
        <3> QED
            BY <2>1, <2>2, <2>3, <2>4, <3>1 DEF Reserve
    <2>5. ASSUME NEW p \in Routers, SaveOutcome(p)
          PROVE  RowsFrame /\ report'.position = report.position /\ report'.covers \subseteq report.covers
        <3> DEFINE a == job[p].attempt
        <3>1. a \in Attempts /\ Touch(a)
            BY <1>0, <2>5 DEF JobType, SaveOutcome
        <3>2. rows' = rows \/ rows' = [rows EXCEPT ![a].status = "submitted"]
            BY <2>5 DEF SaveOutcome
        <3>3. RowsFrame
            BY <1>0, <3>1, <3>2 DEF RowsFrame, RowType
        <3> QED
            BY <2>2, <3>1, <3>3
    <2> QED
        BY <2>1, <2>4, <2>5 DEF RunScript, Validate, Connect, ConnectFails, Crash
<1>6. ReportTells'
    BY <1>1, <1>5, ReportFrame DEF Pursuit
<1>7. AppCurrent'
    BY <1>1, <1>4, AppKept DEF Pursuit
<1>8. Pursuit' /\ UNCHANGED <<held, WorkingUnits, LatestAttempt>>
    BY <1>1, <1>4, <1>5, <1>6, <1>7, Frame
<1> QED
    BY <1>1, <1>8, Stutters DEF ObjectiveState

\* What is sent is the order of the leaf, for what is missing, while nothing works.
LEMMA SendPursues ==
    ASSUME Typed, Typed', ExpiryInv, Pursuit, NEW p \in Routers, Send(p)
    PROVE  Pursuit' /\ [Objective!Next]_Objective!vars
<1> DEFINE a == job[p].attempt
           q == proposals[a].quantity
<1>0. /\ job \in [Routers -> JobType] /\ a \in Attempts /\ orders \in [Attempts -> OrderType]
      /\ proposals[a] \in ProposalType /\ held \in Nat
    BY DEF Typed, JobType
<1>1. /\ job[p].step = "send" /\ UNCHANGED <<proposals, rows, report, held, intent>>
      /\ orders' = orders \/ orders' = [orders EXCEPT ![a] = [state |-> "live", filled |-> 0]]
      /\ \A r \in Routers \ {p} : job'[r] = job[r]
      /\ job'[p].step = "save"
    BY <1>0 DEF Send, book, JobType
<1>2. /\ rows[a].status = "pending_submit" /\ orders[a].state # "live" /\ orders[a].filled = 0
      /\ Leaf(a) /\ intent \notin Closed /\ q > 0
    BY <1>0, <1>1 DEF ExpiryInv, RouterHolds, Pursuit, RouterCurrent, Underway
<1>3. SameAsk /\ RowsFrame /\ ReportTells' /\ JobFrame
    BY <1>1 DEF SameAsk, Exists, RowsFrame, Pursuit, ReportTells, JobFrame, Underway
<1>4. AppCurrent'
    <2>1. AppFrame
        BY <1>1, Constants DEF AppFrame
    <2> QED
        BY <1>3, <2>1, AppKept DEF Pursuit
<1>5. CASE orders' = orders
    <2>1. Pursuit' /\ UNCHANGED <<held, WorkingUnits, LatestAttempt>>
        BY <1>1, <1>3, <1>4, <1>5, Frame
    <2> QED
        BY <1>1, <2>1, Stutters DEF ObjectiveState
<1>6. CASE orders' = [orders EXCEPT ![a] = [state |-> "live", filled |-> 0]]
    <2>1. /\ Lineage' /\ LatestAttempt' = LatestAttempt /\ LatestAttempt = a
          /\ \A b \in Attempts : Leaf(b)' <=> Leaf(b)
          /\ \A b \in Attempts : Leaf(b) => b = a
        BY <1>0, <1>2, <1>3, LineageKept, LeafIsOne DEF Pursuit
    <2>2. /\ orders'[a].state = "live" /\ orders'[a].filled = 0
          /\ \A b \in Attempts \ {a} : orders'[b] = orders[b]
        BY <1>0, <1>6
    <2>3. AsksForMissing'
        BY <1>1, <1>2, <2>1, <2>2 DEF Pursuit, AsksForMissing, Exists
    <2>4. OnlyLeafWorks'
        BY <1>1, <1>2, <2>1, <2>2 DEF Pursuit, OnlyLeafWorks
    <2>5. RouterCurrent'
        <3>1. \A r \in Routers : job[r].attempt \in Attempts
            BY <1>0 DEF JobType
        <3> QED
            BY <1>1, <2>1, <3>1 DEF Pursuit, RouterCurrent, Underway
    <2>6. \A b \in Attempts : orders[b].state # "live"
        BY <1>2, <2>1 DEF Pursuit, OnlyLeafWorks
    <2>7. Objective!Quiet
        BY <2>6, NothingWorks
    <2>8. held + q <= Target /\ q \in 1..Target
        <3>1. q + proposals[a].account = Target /\ held = proposals[a].account + orders[a].filled
            BY <1>0, <1>2 DEF Pursuit, AsksForMissing, Leaf
        <3> QED
            BY <1>0, <1>2, <3>1, TargetAssumption DEF ProposalType, Units
    <2>9. WorkingUnits' = [WorkingUnits EXCEPT ![LatestAttempt] = q]
        <3>1. WorkingUnits'[a] = q
            <4>1. q \in Nat
                BY <1>0, Constants DEF ProposalType
            <4> QED
                BY <1>0, <1>1, <2>2, <4>1 DEF WorkingUnits
        <3>2. \A b \in Attempts \ {a} : WorkingUnits'[b] = WorkingUnits[b]
            BY <1>1, <2>2 DEF WorkingUnits
        <3>3. /\ WorkingUnits' = [b \in Attempts |-> WorkingUnits'[b]]
              /\ WorkingUnits = [b \in Attempts |-> WorkingUnits[b]]
            BY DEF WorkingUnits
        <3> HIDE DEF q
        <3> QED
            BY <2>1, <3>1, <3>2, <3>3
    <2>10. Objective!Place(q)
        BY <1>1, <1>2, <2>1, <2>7, <2>8, <2>9 DEF Objective!Place, WorkingUnits
    <2>11. Pursuit'
        BY <1>3, <1>4, <2>1, <2>3, <2>4, <2>5 DEF Pursuit
    <2>12. \E units \in 1..Target : Objective!Place(units)
        <3> HIDE DEF q
        <3> QED
            BY <2>8, <2>10 DEF Objective!Place
    <2> QED
        BY <2>11, <2>12 DEF Objective!Next
<1> QED
    BY <1>1, <1>5, <1>6

\* An execution is one of the order of the leaf, and no report covers it yet.
LEMMA ExecutePursues ==
    ASSUME Typed, Typed', ExpiryInv, Pursuit, NEW a \in Attempts, Execute(a)
    PROVE  Pursuit' /\ Objective!Next
<1>0. /\ orders \in [Attempts -> OrderType] /\ proposals[a] \in ProposalType /\ held \in Nat
      /\ report \in ReportType
    BY DEF Typed
<1>1. /\ orders[a].state = "live" /\ orders[a].filled < proposals[a].quantity
      /\ UNCHANGED <<proposals, rows, intent, job>> /\ held' = held + 1
      /\ report'.position = report.position /\ a \notin report'.covers
    BY <1>0 DEF Execute, book, ReportType
<1>2. /\ orders'[a].filled = orders[a].filled + 1
      /\ orders'[a].state = IF orders[a].filled + 1 = proposals[a].quantity THEN "ended" ELSE "live"
      /\ \A b \in Attempts \ {a} : orders'[b] = orders[b]
    BY <1>0, <1>1 DEF Execute, OrderType
<1>3. Leaf(a) /\ rows[a].status \notin {"none", "filled"}
    BY <1>0, <1>1 DEF Pursuit, OnlyLeafWorks, ExpiryInv, RowTellsOrder, OrderType, ProposalType, Units
<1>4. SameAsk
    BY <1>1 DEF SameAsk, Exists
<1>5. /\ Lineage' /\ LatestAttempt' = LatestAttempt
      /\ \A b \in Attempts : Leaf(b)' <=> Leaf(b)
      /\ \A b \in Attempts : Leaf(b) => b = a
    BY <1>3, <1>4, LineageKept, LeafIsOne DEF Pursuit
<1>6. orders[a].filled \in Nat /\ proposals[a].quantity \in Nat /\ proposals[a].account \in Nat
    BY <1>0, Constants DEF OrderType, ProposalType
<1>7. AsksForMissing'
    BY <1>0, <1>1, <1>2, <1>5, <1>6 DEF Pursuit, AsksForMissing, Exists
<1>8. OnlyLeafWorks'
    BY <1>1, <1>2, <1>3, <1>5, <1>6 DEF Pursuit, OnlyLeafWorks
<1>9. ReportTells'
    BY <1>1, <1>3 DEF ReportTells
<1>10. RouterCurrent'
    <2>1. \A p \in Routers : job[p].attempt \in Attempts
        BY DEF Typed, JobType
    <2> QED
        BY <1>1, <1>5, <2>1 DEF Pursuit, RouterCurrent
<1>11. Pursuit'
    BY <1>1, <1>5, <1>7, <1>8, <1>9, <1>10 DEF Pursuit, AppCurrent, Exists
<1>12. WorkingUnits[a] > 0 /\ WorkingUnits' = [WorkingUnits EXCEPT ![a] = WorkingUnits[a] - 1]
    <2>1. WorkingUnits[a] = proposals[a].quantity - orders[a].filled
        BY <1>1 DEF WorkingUnits
    <2>2. WorkingUnits'[a] = WorkingUnits[a] - 1
        BY <1>1, <1>2, <1>6, <2>1 DEF WorkingUnits
    <2>3. \A b \in Attempts \ {a} : WorkingUnits'[b] = WorkingUnits[b]
        BY <1>1, <1>2 DEF WorkingUnits
    <2>4. WorkingUnits' = [b \in Attempts |-> WorkingUnits'[b]] /\ WorkingUnits = [b \in Attempts |-> WorkingUnits[b]]
        BY DEF WorkingUnits
    <2> QED
        BY <1>1, <1>6, <2>1, <2>2, <2>3, <2>4
<1>13. Objective!Execute(a)
    BY <1>1, <1>5, <1>12 DEF Objective!Execute, WorkingUnits
<1> QED
    BY <1>11, <1>13 DEF Objective!Next, Objective!Attempts, Attempts

\* An order ends.
LEMMA EndPursues ==
    ASSUME Typed, Typed', Pursuit, NEW a \in Attempts, EndOrder(a)
    PROVE  Pursuit' /\ Objective!Next
<1>0. orders \in [Attempts -> OrderType]
    BY DEF Typed
<1>1. /\ UNCHANGED <<proposals, rows, intent, job, held, report>>
      /\ orders'[a].state = "ended" /\ orders'[a].filled = orders[a].filled
      /\ \A b \in Attempts \ {a} : orders'[b] = orders[b]
    BY <1>0 DEF EndOrder, book, OrderType
<1>2. SameAsk
    BY <1>1 DEF SameAsk, Exists
<1>3. /\ Lineage' /\ LatestAttempt' = LatestAttempt
      /\ \A b \in Attempts : Leaf(b)' <=> Leaf(b)
    BY <1>2, LineageKept DEF Pursuit
<1>4. AsksForMissing'
    BY <1>1, <1>3 DEF Pursuit, AsksForMissing, Exists
<1>5. OnlyLeafWorks'
    BY <1>1, <1>3 DEF Pursuit, OnlyLeafWorks
<1>6. RouterCurrent'
    <2>1. \A p \in Routers : job[p].attempt \in Attempts
        BY DEF Typed, JobType
    <2> QED
        BY <1>1, <1>3, <2>1 DEF Pursuit, RouterCurrent
<1>7. Pursuit'
    BY <1>1, <1>3, <1>4, <1>5, <1>6 DEF Pursuit, ReportTells, AppCurrent, Exists
<1>8. WorkingUnits' = [WorkingUnits EXCEPT ![a] = 0]
    BY <1>1 DEF WorkingUnits
<1>9. Objective!End(a)
    BY <1>1, <1>3, <1>8 DEF Objective!End, WorkingUnits
<1> QED
    BY <1>7, <1>9 DEF Objective!Next, Objective!Attempts, Attempts
\* Recording a miss changes the status of what exists.
LEMMA MissSame ==
    ASSUME Typed, Pursuit, Miss
    PROVE  SameAsk
<1> DEFINE b == job["app"].lapsed
<1>1. b \in Attempts /\ Exists(b) /\ proposals \in [Attempts -> ProposalType]
    BY DEF Miss, Pursuit, AppCurrent, Typed
<1>2. proposals' = [proposals EXCEPT ![b].status = "missed"]
    BY DEF Miss
<1> QED
    BY <1>1, <1>2 DEF SameAsk, Exists, ProposalType

\* A decision on a proposal asks for nothing new.
LEMMA DecisionSame ==
    ASSUME Typed, NEW a \in Attempts, Exists(a), NEW s \in {"approved", "rejected"},
           proposals' = [proposals EXCEPT ![a].status = s]
    PROVE  SameAsk
<1>1. proposals \in [Attempts -> ProposalType]
    BY DEF Typed
<1> QED
    BY <1>1 DEF SameAsk, Exists, ProposalType

\* What the loop and the operator do without deciding on the objective
LEMMA AppPursues ==
    ASSUME Typed, Typed', Pursuit,
           \/ NothingToClaim \/ RenewLater \/ ApproveClaim \/ EnterRouter \/ RecordClaim \/ Decide
           \/ \E a \in Attempts : Claim(a)
           \/ \E on \in BOOLEAN : Configure(on)
    PROVE  Pursuit' /\ UNCHANGED Objective!vars
<1> USE Constants
<1>0. /\ job \in [Routers -> JobType] /\ proposals \in [Attempts -> ProposalType]
      /\ job["app"].attempt \in Attempts
    BY DEF Typed, JobType
<1>1. UNCHANGED <<rows, orders, held, report, intent>>
    BY DEF NothingToClaim, RenewLater, ApproveClaim, EnterRouter, RecordClaim, Decide, Claim,
        Configure, book, market
<1>2. SameAsk
    <2>1. CASE proposals' = proposals
        BY <2>1 DEF SameAsk, Exists
    <2>2. CASE ApproveClaim
        BY <1>0, <2>2, DecisionSame DEF ApproveClaim, Exists
    <2>3. CASE Decide
        <3>1. Exists(job["app"].attempt)
            BY <2>3 DEF Decide, Pursuit, AppCurrent
        <3>2. \/ proposals' = proposals
              \/ proposals' = [proposals EXCEPT ![job["app"].attempt].status = "approved"]
              \/ proposals' = [proposals EXCEPT ![job["app"].attempt].status = "rejected"]
            BY <2>3 DEF Decide
        <3> QED
            BY <1>0, <2>1, <3>1, <3>2, DecisionSame
    <2> QED
        BY <2>1, <2>2, <2>3 DEF NothingToClaim, RenewLater, EnterRouter, RecordClaim, Claim, Configure, book
<1>3. /\ \A p \in Routers \ {"app"} : job'[p] = job[p]
      /\ job'["app"] = job["app"] \/ job'["app"].step \notin Underway \cup {"renew", "decide", "expire"}
    <2>1. ASSUME NEW step \in {"pick", "enter", "validate"}, Goto("app", step)
          PROVE  /\ \A p \in Routers \ {"app"} : job'[p] = job[p]
                 /\ job'["app"].step = step
        BY <1>0, <2>1 DEF Goto, JobType
    <2>2. ASSUME NEW step, NEW task, NEW a, Become("app", step, task, a)
          PROVE  /\ \A p \in Routers \ {"app"} : job'[p] = job[p]
                 /\ job'["app"].step = step
        BY <1>0, <2>2 DEF Become, Doing
    <2>3. CASE NothingToClaim \/ RecordClaim
        BY <2>2, <2>3 DEF NothingToClaim, RecordClaim, Underway
    <2>4. CASE RenewLater \/ ApproveClaim \/ EnterRouter
        BY <2>1, <2>4 DEF RenewLater, ApproveClaim, EnterRouter, Underway
    <2>5. CASE Decide
        <3>1. Goto("app", "validate") \/ Become("app", "idle", "none", 1)
            BY <2>5 DEF Decide
        <3> QED
            BY <2>1, <2>2, <3>1 DEF Underway
    <2>6. ASSUME NEW a \in Attempts, Claim(a)
          PROVE  /\ \A p \in Routers \ {"app"} : job'[p] = job[p]
                 /\ job'["app"].step = "approve"
        BY <2>2, <2>6 DEF Claim
    <2>7. CASE \E on \in BOOLEAN : Configure(on)
        BY <2>7 DEF Configure
    <2>8. CASE \E a \in Attempts : Claim(a)
        BY <2>6, <2>8 DEF Underway
    <2> QED
        BY <2>3, <2>4, <2>5, <2>7, <2>8
<1>4. RowsFrame /\ ReportTells' /\ JobFrame
    <2>1. RowsFrame /\ ReportTells'
        BY <1>1 DEF RowsFrame, ReportTells, Pursuit
    <2>2. JobFrame
        BY <1>1, <1>3 DEF JobFrame
    <2> QED
        BY <2>1, <2>2
<1>5. AppCurrent'
    BY <1>2, <1>3, AppKept DEF AppFrame, Pursuit
<1>6. Pursuit' /\ UNCHANGED <<held, WorkingUnits, LatestAttempt>>
    BY <1>1, <1>2, <1>4, <1>5, Frame
<1> QED
    BY <1>1, <1>6, Stutters DEF ObjectiveState

\* No router is under way while the objective is decided on.
LEMMA Undisturbed ==
    ASSUME OneDecider, job["app"].step \notin Underway,
           Requests \cap {"sweep", "tick", "cancel", "refresh"} # {}
    PROVE  \A p \in Routers : job[p].step \notin Underway
BY DEF OneDecider

\* Nor while it is renewed.
LEMMA RenewUndisturbed ==
    ASSUME OneDecider, Pursuit, NEW a \in Attempts, Renew(a) \/ Refresh(a)
    PROVE  \A p \in Routers : job[p].step \notin Underway
BY Undisturbed DEF Renew, Refresh, Pursuit, AppCurrent, Underway

\* An objective is completed when its leaf has executed all it asked for.
LEMMA ReachedTarget ==
    ASSUME Typed, Pursuit, NEW a \in Attempts, Leaf(a), Reached(a)
    PROVE  Objective!Quiet /\ held = Target
<1>0. /\ proposals[a].quantity \in Nat /\ proposals[a].account \in Nat /\ orders[a].filled \in Nat
      /\ held \in Nat
    BY Constants DEF Typed, ProposalType, OrderType
<1>1. orders[a].filled = proposals[a].quantity
    BY <1>0 DEF Reached, Pursuit, OnlyLeafWorks
<1>2. held = Target
    BY <1>0, <1>1, TargetAssumption DEF Pursuit, AsksForMissing, Leaf
<1>3. orders[a].state # "live"
    BY <1>0, <1>1 DEF Pursuit, OnlyLeafWorks
<1>4. \A b \in Attempts : orders[b].state # "live"
    BY <1>3, LeafIsOne DEF Pursuit, OnlyLeafWorks
<1> QED
    BY <1>2, <1>4, NothingWorks

\* A step of the scan asks for nothing new, and may go on to what it was for.
LEMMA ScanFacts ==
    ASSUME Typed, Pursuit,
           Miss \/ Sweep \/ Tick \/ \E task \in Decisions, a \in Attempts : Ask(task, a)
    PROVE  /\ SameAsk /\ UNCHANGED <<rows, orders, held, report>>
           /\ job["app"].step \notin Underway
           /\ \E task \in HeadTask, a \in Attempts :
                 ExpireJob(task, a) /\ task \in Requests /\ (task \in Decisions => Exists(a))
<1>0. /\ job \in [Routers -> JobType] /\ job["app"].attempt \in Attempts
    BY Constants DEF Typed, JobType
<1>1. CASE Miss
    <2>1. /\ job["app"].task \in HeadTask /\ job["app"].task \in Requests
          /\ job["app"].task \in Decisions => Exists(job["app"].attempt)
          /\ job["app"].step = "expire"
        BY <1>1 DEF Miss, Pursuit, AppCurrent
    <2>2. ExpireJob(job["app"].task, job["app"].attempt)
        BY <1>0, <1>1, <2>1, ExpireJobs DEF Miss, HeadTask, Tasks
    <2>3. UNCHANGED <<rows, orders, held, report>>
        BY <1>1 DEF Miss, market
    <2> QED
        BY <1>0, <1>1, <2>1, <2>2, <2>3, MissSame DEF Underway
<1>2. ASSUME NEW task \in HeadTask, NEW a \in Attempts, Head(task, a),
             task \in Decisions => Exists(a)
      PROVE  /\ SameAsk /\ UNCHANGED <<rows, orders, held, report>>
             /\ job["app"].step \notin Underway
             /\ ExpireJob(task, a) /\ task \in Requests
    <2>1. ExpireJob(task, a)
        BY <1>0, <1>2, ExpireJobs DEF Head, HeadTask, Tasks
    <2>2. UNCHANGED <<proposals, rows, orders, held, report>> /\ job["app"].step = "idle"
        BY <1>2 DEF Head, market
    <2> QED
        BY <1>2, <2>1, <2>2 DEF Head, SameAsk, Exists, Underway
<1>3. CASE Sweep \/ Tick
    <2>1. \E task \in {"sweep", "tick"} : Head(task, 1)
        BY <1>3 DEF Sweep, Tick
    <2> QED
        BY <1>2, <2>1, Constants DEF HeadTask, Decisions
<1>4. CASE \E task \in Decisions, a \in Attempts : Ask(task, a)
    BY <1>2, <1>4 DEF Ask, HeadTask
<1> QED
    BY <1>1, <1>3, <1>4

\* The sweep, the head of the tick and the operator close the objective.
LEMMA SyncPursues ==
    ASSUME Typed, Typed', Pursuit, OneDecider,
           \/ Miss \/ Sweep \/ Tick \/ CancelIntent
           \/ \E task \in Decisions, a \in Attempts : Ask(task, a)
    PROVE  Pursuit' /\ [Objective!Next]_Objective!vars
<1>0. job \in [Routers -> JobType]
    BY DEF Typed
<1>1. SameAsk /\ UNCHANGED <<rows, orders, held, report>> /\ job["app"].step \notin Underway
    BY ScanFacts DEF CancelIntent, market, SameAsk, Exists, Underway
<1>2. \/ CancelIntent /\ job' = job
      \/ \E task \in HeadTask, a \in Attempts :
            ExpireJob(task, a) /\ task \in Requests /\ (task \in Decisions => Exists(a))
    BY ScanFacts DEF CancelIntent
<1>3. \/ intent' = intent
      \/ /\ CancelIntent \/ SyncIntent
         /\ Requests \cap {"sweep", "tick", "cancel", "refresh"} # {}
    <2>1. CASE CancelIntent
        BY <2>1 DEF CancelIntent
    <2>2. ASSUME NEW task \in HeadTask, NEW a \in Attempts, ExpireJob(task, a), task \in Requests
          PROVE  \/ intent' = intent
                 \/ SyncIntent /\ Requests \cap {"sweep", "tick", "cancel", "refresh"} # {}
        BY <2>2 DEF ExpireJob, HeadTask
    <2> QED
        BY <1>2, <2>1, <2>2
<1>4. RowsFrame /\ ReportTells' /\ JobFrame
    <2>1. RowsFrame /\ ReportTells'
        BY <1>1 DEF RowsFrame, ReportTells, Pursuit
    <2>2. \A p \in Routers : job'[p] = job[p] \/ job'[p].step \notin Underway
        <3>1. CASE job' = job
            BY <3>1
        <3>2. ASSUME NEW task \in HeadTask, NEW a \in Attempts, ExpireJob(task, a)
              PROVE  \A p \in Routers : job'[p] = job[p] \/ job'[p].step \notin Underway
            <4>1. job'["app"].step \notin Underway
                BY <3>2, ExpireFields DEF Underway
            <4> QED
                BY <3>2, <4>1 DEF ExpireJob
        <3> QED
            BY <1>2, <3>1, <3>2
    <2>3. ASSUME intent' = intent PROVE JobFrame
        <3> SUFFICES ASSUME NEW p \in Routers, job'[p].step \in Underway
                     PROVE  job'[p] = job[p]
            BY <2>3 DEF JobFrame
        <3> QED
            BY <2>2
    <2>4. ASSUME intent' # intent PROVE JobFrame
        <3>1. \A p \in Routers : job[p].step \notin Underway
            BY <1>1, <1>3, <2>4, Undisturbed
        <3>2. \A p \in Routers : job'[p].step \notin Underway
            BY <2>2, <3>1
        <3> QED
            BY <3>2 DEF JobFrame
    <2> QED
        BY <2>1, <2>3, <2>4
<1>5. AppCurrent'
    <2>1. CASE job' = job
        BY <1>1, <2>1, AppKept DEF AppFrame, Pursuit
    <2>2. ASSUME NEW task \in HeadTask, NEW a \in Attempts, ExpireJob(task, a),
                 task \in Requests, task \in Decisions => Exists(a)
          PROVE  AppCurrent'
        <3>1. CASE \E b \in Attempts : Lapses(b) /\ job'["app"] = Doing("expire", task, a, b)
            <4>1. PICK b \in Attempts : Lapses(b) /\ job'["app"] = Doing("expire", task, a, b)
                BY <3>1
            <4>2. Exists(b)' /\ (task \in Decisions => Exists(a)')
                BY <1>1, <2>2, <4>1 DEF SameAsk, Lapses, Exists
            <4>3. /\ job'["app"].step = "expire" /\ job'["app"].task = task
                  /\ job'["app"].attempt = a /\ job'["app"].lapsed = b
                BY <4>1 DEF Doing
            <4> QED
                BY <2>2, <4>2, <4>3 DEF AppCurrent
        <3>2. CASE task \in Decisions /\ job'["app"] = Doing("decide", task, a, 0)
            <4>1. Exists(a)' /\ job'["app"].step = "decide" /\ job'["app"].attempt = a
                BY <1>1, <2>2, <3>2 DEF SameAsk, Doing
            <4> QED
                BY <4>1 DEF AppCurrent
        <3>3. CASE \/ task = "tick" /\ job'["app"] = Doing("renew", task, a, 0)
                   \/ job'["app"] = Doing("idle", "none", 1, 0)
            BY <2>2, <3>3 DEF AppCurrent, Doing
        <3> QED
            BY <2>2, <3>1, <3>2, <3>3 DEF ExpireJob
    <2> QED
        BY <1>2, <2>1, <2>2
<1>6. Pursuit' /\ UNCHANGED <<held, WorkingUnits, LatestAttempt>>
    BY <1>1, <1>2, <1>4, <1>5, Frame
<1>7. CASE ObjectiveState' = ObjectiveState
    BY <1>6, <1>7, Stutters
<1>8. CASE ObjectiveState' # ObjectiveState
    <2>1. intent \notin Closed /\ intent' \in Closed
        <3>1. CASE CancelIntent
            BY <1>8, <3>1 DEF CancelIntent, ObjectiveState, Closed
        <3>2. CASE SyncIntent
            BY <1>8, <3>2 DEF SyncIntent, ObjectiveState
        <3> QED
            BY <1>3, <1>8, <3>1, <3>2 DEF ObjectiveState
    <2>2. intent' = "completed" => Objective!Quiet /\ held = Target
        <3>1. CASE CancelIntent
            BY <3>1 DEF CancelIntent
        <3>2. CASE SyncIntent
            <4>1. PICK a \in Attempts :
                      /\ Leaf(a)
                      /\ intent' = IF intent \in Closed THEN intent ELSE IntentOf(a)
                BY <3>2 DEF SyncIntent
            <4>2. intent' = "completed" => Reached(a)
                BY <2>1, <4>1 DEF IntentOf
            <4> QED
                BY <4>1, <4>2, ReachedTarget
        <3> QED
            BY <1>3, <1>8, <3>1, <3>2 DEF ObjectiveState
    <2>3. Objective!Close(intent')
        BY <1>6, <2>1, <2>2 DEF Objective!Close, WorkingUnits
    <2>4. intent' \in {"completed", "cancelled", "superseded"}
        BY <2>1 DEF Closed
    <2>5. \E reason \in {"completed", "cancelled", "superseded"} : Objective!Close(reason)
        BY <2>3, <2>4 DEF Objective!Close
    <2> QED
        BY <1>6, <2>5 DEF Objective!Next
<1> QED
    BY <1>7, <1>8

\* What is refreshed is the leaf of an open objective, nothing works and the report
\* shows the position as it is.
LEMMA RefreshFacts ==
    ASSUME Typed, ExpiryInv, Pursuit, NEW a \in Attempts, NEW automatic \in BOOLEAN,
           Refreshable(a, automatic)
    PROVE  /\ Leaf(a) /\ intent \notin Closed
           /\ \A b \in Attempts : orders[b].state # "live"
           /\ report.position = held /\ held \in 0..Target
<1>1. Leaf(a) /\ intent \notin Closed /\ report.position <= Target
    BY DEF Refreshable, RouteIssue
<1>2. CASE Recoverable
    <2>1. \A b \in Attempts : rows[b].status # "none" => b \in report.covers
        BY <1>2 DEF Recoverable, Settled
    <2>2. \A b \in Attempts : orders[b].state # "live"
        BY <1>2 DEF Recoverable, Working
    <2> QED
        BY <1>1, <2>1, <2>2, TargetAssumption DEF Pursuit, ReportTells, Typed
<1>3. CASE \A b \in Attempts : rows[b].status = "none"
    <2>1. \A b \in Attempts : orders[b].state # "live"
        BY <1>3 DEF ExpiryInv, RowTellsOrder
    <2> QED
        BY <1>1, <1>3, <2>1, TargetAssumption DEF Pursuit, ReportTells, Typed
<1> QED
    BY <1>2, <1>3 DEF Refreshable

\* A successor is the next attempt, for what is missing.
LEMMA QueuePursues ==
    ASSUME Typed, Typed', ExpiryInv, Pursuit, OneDecider,
           NEW a \in Attempts, NEW automatic \in BOOLEAN,
           Renew(a) \/ Refresh(a), Refreshable(a, automatic), QueueSuccessor(a, automatic),
           UNCHANGED <<rows, orders, held, report>>, intent' \notin Closed
    PROVE  Pursuit' /\ Objective!Next
<1>0. /\ proposals \in [Attempts -> ProposalType] /\ job \in [Routers -> JobType] /\ held \in Nat
      /\ \A b \in Attempts : orders[b].filled \in Nat
    BY Constants DEF Typed, OrderType
<1>1. /\ Leaf(a) /\ intent \notin Closed
      /\ \A b \in Attempts : orders[b].state # "live"
      /\ report.position = held /\ held \in 0..Target
    BY RefreshFacts
<1>2. PICK n \in Attempts : \A b \in Attempts : Exists(b) <=> b <= n
    BY DEF Pursuit, Lineage
<1>3. LatestAttempt = n /\ a = n
    BY <1>1, <1>2, LatestIs
<1>4. /\ n + 1 \in Attempts
      /\ proposals'[n + 1] = [status |-> "pending", quantity |-> Target - held, account |-> held]
      /\ \A b \in Attempts : b # n + 1 => proposals'[b] = proposals[b]
    BY <1>0, <1>1, <1>3 DEF QueueSuccessor
<1>5. /\ Exists(n + 1)' /\ ~Exists(n + 1)
      /\ \A b \in Attempts : b # n + 1 => (Exists(b)' <=> Exists(b))
    BY <1>2, <1>4 DEF Exists, Attempts
<1>6. \A b \in Attempts : Exists(b)' <=> b <= n + 1
    BY <1>2, <1>5 DEF Attempts
<1>7. LatestAttempt' = n + 1 /\ \A b \in Attempts : Leaf(b)' <=> b = n + 1
    BY <1>4, <1>6, LatestIsNext
<1>8. rows[n + 1].status = "none" /\ orders[n + 1].filled = 0
    BY <1>4, <1>5 DEF Exists, ExpiryInv, RowNeedsDecision, RowTellsOrder
<1>9. AsksForMissing'
    <2>1. (Target - held) + held = Target /\ held = held + 0
        BY <1>0, TargetAssumption
    <2>2. ASSUME NEW b \in Attempts
          PROVE  /\ Exists(b)' => proposals'[b].quantity + proposals'[b].account = Target
                 /\ Leaf(b)' => held' = proposals'[b].account + orders'[b].filled
        BY <1>4, <1>5, <1>7, <1>8, <2>1, <2>2 DEF Pursuit, AsksForMissing
    <2> QED
        BY <2>2 DEF AsksForMissing
<1>10. OnlyLeafWorks'
    <2>1. Target - held \in Nat
        BY <1>0, <1>1, TargetAssumption
    <2> QED
        BY <1>1, <1>4, <1>8, <2>1 DEF Pursuit, OnlyLeafWorks
<1>11. /\ \A p \in Routers : job'[p].step \notin Underway
       /\ job'["app"].step \notin {"renew", "decide", "expire"}
    BY <1>0, RenewUndisturbed, Constants, ZenonT(40) DEF Renew, Refresh, Goto, JobType, Underway
<1>12. Pursuit'
    <2>1. Lineage'
        BY <1>4, <1>6 DEF Lineage
    <2>2. ReportTells' /\ RouterCurrent' /\ AppCurrent'
        BY <1>11 DEF Pursuit, ReportTells, RouterCurrent, AppCurrent
    <2> QED
        BY <1>9, <1>10, <2>1, <2>2 DEF Pursuit
<1>13. Objective!Renew
    <2>1. WorkingUnits' = WorkingUnits
        BY <1>1 DEF WorkingUnits
    <2>2. n < MaxAttempts
        BY <1>4, AttemptsAssumption DEF Attempts
    <2> QED
        BY <1>1, <1>3, <1>7, <2>1, <2>2, NothingWorks DEF Objective!Renew, WorkingUnits
<1> QED
    BY <1>12, <1>13 DEF Objective!Next

\* Renewal queues a successor, or finds that nothing is missing; the operator may ask
\* for one too.
LEMMA RenewPursues ==
    ASSUME Typed, Typed', ExpiryInv, Pursuit, OneDecider,
           NEW a \in Attempts, Renew(a) \/ Refresh(a)
    PROVE  Pursuit' /\ [Objective!Next]_Objective!vars
<1>0. job \in [Routers -> JobType]
    BY DEF Typed
<1>1. UNCHANGED <<rows, orders, held, report>>
    BY DEF Renew, Refresh, market
<1>2. CASE Refresh(a)
    <2>1. Refreshable(a, FALSE) /\ QueueSuccessor(a, FALSE) /\ intent' = intent
        BY <1>2 DEF Refresh
    <2>2. intent' \notin Closed
        BY <2>1, RefreshFacts
    <2> QED
        BY <1>1, <1>2, <2>1, <2>2, QueuePursues
<1>3. CASE Renew(a) /\ report.position # Target
    <2>1. Refreshable(a, TRUE) /\ QueueSuccessor(a, TRUE) /\ intent' = "outstanding"
        BY <1>3 DEF Renew
    <2>2. intent' \notin Closed
        BY <2>1 DEF Closed
    <2> QED
        BY <1>1, <1>3, <2>1, <2>2, QueuePursues
<1>4. CASE Renew(a) /\ report.position = Target
    <2>1. Refreshable(a, TRUE) /\ intent' = "completed" /\ proposals' = proposals /\ Goto("app", "pick")
        BY <1>4 DEF Renew
    <2>2. /\ intent \notin Closed /\ held = Target
          /\ \A b \in Attempts : orders[b].state # "live"
        BY <1>4, <2>1, RefreshFacts
    <2>3. SameAsk
        BY <2>1 DEF SameAsk, Exists
    <2>4. /\ \A p \in Routers : job'[p].step \notin Underway
          /\ job'["app"].step \notin {"renew", "decide", "expire"}
        BY <1>0, <1>4, <2>1, RenewUndisturbed, Constants DEF Goto, JobType, Underway
    <2>5. RowsFrame /\ ReportTells' /\ JobFrame /\ AppCurrent'
        BY <1>1, <2>4 DEF RowsFrame, ReportTells, Pursuit, JobFrame, AppCurrent
    <2>6. Pursuit' /\ UNCHANGED <<held, WorkingUnits, LatestAttempt>>
        BY <1>1, <2>3, <2>5, Frame
    <2>7. Objective!Close("completed")
        BY <2>1, <2>2, <2>6, NothingWorks DEF Objective!Close, WorkingUnits, Closed
    <2> QED
        BY <2>6, <2>7 DEF Objective!Next
<1> QED
    BY <1>2, <1>3, <1>4

\* Time and evidence
LEMMA EvidencePursues ==
    ASSUME Typed, Typed', Pursuit,
           \/ \E a \in Attempts : DeadlinePasses(a) \/ Observe(a)
           \/ SyncExecutions \/ StartReconcile \/ FinishReconcile \/ ReportAges \/ NewerObjective
    PROVE  Pursuit' /\ UNCHANGED Objective!vars
<1>0. rows \in [Attempts -> RowType] /\ report \in ReportType
    BY DEF Typed
<1>1. UNCHANGED <<proposals, orders, held, intent, job>>
    BY DEF DeadlinePasses, Observe, SyncExecutions, StartReconcile, FinishReconcile, ReportAges,
        NewerObjective, book, market
<1>2. SameAsk /\ JobFrame /\ AppFrame
    BY <1>1 DEF SameAsk, Exists, JobFrame, AppFrame
<1>3. RowsFrame
    <2>1. ASSUME NEW a \in Attempts, Observe(a)
          PROVE  RowsFrame
        <3>1. \/ rows' = [rows EXCEPT ![a].seen = TRUE, ![a].status = "submitted"]
              \/ rows' = [rows EXCEPT ![a].status = "cancelled"]
            BY <2>1 DEF Observe
        <3> QED
            BY <1>0, <3>1 DEF RowsFrame, RowType
    <2>2. ASSUME rows' = [a \in Attempts |-> Merged(a)]
          PROVE  RowsFrame
        <3>1. ASSUME NEW a \in Attempts
              PROVE  /\ Merged(a).status = "none" => rows[a].status = "none"
                     /\ Merged(a).status = "filled" =>
                           (rows[a].status = "filled" \/ orders[a].filled = proposals[a].quantity)
            <4>1. rows[a] \in RowType
                BY <1>0
            <4> QED
                BY <4>1 DEF Merged, RowType
        <3> QED
            BY <2>2, <3>1 DEF RowsFrame
    <2>3. CASE rows' = rows
        BY <2>3 DEF RowsFrame
    <2> QED
        BY <2>1, <2>2, <2>3 DEF DeadlinePasses, SyncExecutions, StartReconcile, FinishReconcile,
            ReportAges, NewerObjective
<1>4. ReportTells'
    <2>1. CASE FinishReconcile
        BY <2>1 DEF FinishReconcile, market, ReportTells
    <2>2. ASSUME NEW a \in Attempts, Observe(a)
          PROVE  report'.position = report.position /\ report'.covers \subseteq report.covers
        BY <1>0, <2>2 DEF Observe, Touch, ReportType
    <2>3. CASE ReportAges
        BY <1>0, <1>1, <1>3, <2>3, ReportFrame DEF ReportAges, ReportType, Pursuit
    <2>4. CASE report' = report
        BY <1>1, <1>3, <2>4, ReportFrame DEF Pursuit
    <2>5. CASE \E a \in Attempts : Observe(a)
        BY <1>1, <1>3, <2>2, <2>5, ReportFrame DEF Pursuit
    <2> QED
        BY <2>1, <2>3, <2>4, <2>5 DEF DeadlinePasses, SyncExecutions, StartReconcile, NewerObjective
<1>5. AppCurrent'
    BY <1>2, AppKept DEF Pursuit
<1>6. Pursuit' /\ UNCHANGED <<held, WorkingUnits, LatestAttempt>>
    BY <1>1, <1>2, <1>3, <1>4, <1>5, Frame
<1> QED
    BY <1>1, <1>6, Stutters DEF ObjectiveState
\* The first states: one attempt, for the target, and nothing executed.
LEMMA InitPursues ==
    ASSUME Init
    PROVE  Pursuit /\ Objective!Init
<1> USE Constants, AttemptsAssumption, TargetAssumption
<1>1. \A a \in Attempts : Exists(a) <=> a <= 1
    BY DEF Init, Exists, Attempts
<1>2. LatestAttempt = 1 /\ \A a \in Attempts : Leaf(a) <=> a = 1
    BY <1>1, LatestIs
<1>3. Lineage
    BY <1>1 DEF Lineage
<1>4. AsksForMissing
    BY <1>1, <1>2 DEF AsksForMissing, Init, Attempts
<1>5. OnlyLeafWorks
    BY DEF OnlyLeafWorks, Init, NoRow
<1>6. ReportTells
    BY DEF ReportTells, Init
<1>7. RouterCurrent /\ AppCurrent
    BY DEF RouterCurrent, AppCurrent, Init, Idle, Doing, Underway
<1>8. Objective!Init
    BY <1>2 DEF Init, Objective!Init, Objective!Attempts, Attempts, Closed
<1> QED
    BY <1>3, <1>4, <1>5, <1>6, <1>7, <1>8 DEF Pursuit

\* Every step is one of the objective, or changes none of its variables.
LEMMA StepPursues ==
    ASSUME OneDecider, Typed, Typed', ExpiryInv, Pursuit, [Next]_vars
    PROVE  Pursuit' /\ [Objective!Next]_Objective!vars
<1>1. CASE UNCHANGED vars
    <2>1. UNCHANGED <<proposals, rows, orders, held, intent, report, job>>
        BY <1>1 DEF vars
    <2>2. SameAsk /\ RowsFrame /\ JobFrame /\ ReportTells' /\ AppCurrent'
        BY <2>1 DEF SameAsk, Exists, RowsFrame, JobFrame, Pursuit, ReportTells, AppCurrent
    <2>3. Pursuit' /\ UNCHANGED <<held, WorkingUnits, LatestAttempt>>
        BY <2>1, <2>2, Frame
    <2> QED
        BY <2>1, <2>3, Stutters DEF ObjectiveState
<1>2. CASE AppStep \/ Request
    <2>1. CASE \/ Miss \/ Sweep \/ Tick \/ CancelIntent
               \/ \E task \in Decisions, a \in Attempts : Ask(task, a)
        BY <2>1, SyncPursues
    <2>2. CASE \E a \in Attempts : Renew(a) \/ Refresh(a)
        BY <2>2, RenewPursues
    <2>3. CASE \/ NothingToClaim \/ RenewLater \/ ApproveClaim \/ EnterRouter \/ RecordClaim \/ Decide
               \/ \E a \in Attempts : Claim(a)
               \/ \E on \in BOOLEAN : Configure(on)
        BY <2>3, AppPursues
    <2> QED
        BY <1>2, <2>1, <2>2, <2>3 DEF AppStep, Request
<1>3. CASE Environment
    <2>1. ASSUME NEW a \in Attempts, Execute(a) \/ EndOrder(a)
          PROVE  Pursuit' /\ [Objective!Next]_Objective!vars
        BY <2>1, ExecutePursues, EndPursues
    <2>2. CASE \/ \E a \in Attempts : DeadlinePasses(a) \/ Observe(a)
               \/ SyncExecutions \/ StartReconcile \/ FinishReconcile \/ ReportAges \/ NewerObjective
        BY <2>2, EvidencePursues
    <2> QED
        BY <1>3, <2>1, <2>2 DEF Environment
<1>4. CASE \/ \E a \in Attempts : RunScript(a)
           \/ \E p \in Routers : Routing(p) \/ Crash(p)
    <2>1. CASE \E p \in Routers : Send(p)
        BY <2>1, SendPursues
    <2>2. CASE \/ \E a \in Attempts : RunScript(a)
               \/ \E p \in Routers : \/ Validate(p) \/ Connect(p) \/ ConnectFails(p) \/ Reserve(p)
                                     \/ SaveOutcome(p) \/ Crash(p)
        BY <2>2, RoutingPursues
    <2> QED
        BY <1>4, <2>1, <2>2 DEF Routing
<1> QED
    BY <1>1, <1>2, <1>3, <1>4 DEF Next

\* The app implements RebalanceObjective, whatever is asked of it and whatever crashes,
\* expires and executes in between: only the newest attempt is worked, only while the
\* objective is open and no other order can execute, for no more than what is missing,
\* and "completed" means that the target is held.  A second router of its own process
\* is covered where nothing closes or renews the objective meanwhile.
THEOREM ObjectiveKept ==
    ASSUME OneDecider
    PROVE  Spec => KeepsObjective
<1>1. Init => Pursuit /\ Objective!Init
    BY InitPursues
<1>2. Typed /\ Typed' /\ ExpiryInv /\ Pursuit /\ [Next]_vars
      => Pursuit' /\ [Objective!Next]_Objective!vars
    BY StepPursues, OneDecider
<1>3. Spec => []Typed
    BY TypeCorrect, Types, PTL
<1> QED
    BY <1>1, <1>2, <1>3, ExpiryHolds, PTL DEF Spec, KeepsObjective, Objective!Spec
=============================================================================
