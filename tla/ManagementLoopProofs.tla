------------------------ MODULE ManagementLoopProofs ------------------------
(***************************************************************************)
(* Proofs about ManagementLoop for every number of sessions, set of month  *)
(* ends and number of corrections.                                         *)
(***************************************************************************)
EXTENDS ManagementLoop, WellFoundedInduction, TLAPS

EodStages == {"sync", "market", "account", "value", "mark", "stage", "finish"}

\* A running tick knows its date, and the session it works on is one of the past.
Placed ==
  /\ job.at # "idle" => job.today \in 1..day
  /\ job.at \in EodStages => job.service \in 1..job.today

Typed == TypeOK /\ Placed

\* A stage of the tick is a record of the right type.
LEMMA StepIsJob ==
  ASSUME job \in Job, NEW a \in Stages, NEW s \in BOOLEAN, NEW m \in BOOLEAN, NEW r \in Nat \cup {Unvalued}
  PROVE  /\ Step(a, s, m, r) \in Job /\ Step(a, s, m, r).at = a
         /\ Step(a, s, m, r).today = job.today /\ Step(a, s, m, r).service = job.service
BY DEF Step, Job

\* Going on to a stage keeps everything else.
LEMMA GoIsJob ==
  ASSUME job \in Job, NEW a \in Stages, Go(a)
  PROVE  /\ job' \in Job /\ job'.at = a
         /\ job'.today = job.today /\ job'.service = job.service
BY DEF Go, Step, Job

\* So is the first one of a session.
LEMMA PlaceIsJob ==
  ASSUME NEW a \in Stages, NEW t \in Days \cup {NoDay}, NEW e \in BOOLEAN, NEW D \in SUBSET Days,
         NEW d \in Days \cup {NoDay}
  PROVE  Place(a, t, e, D, d) \in Job
BY DEF Place, Job

\* NextSession picks the oldest session of a set that is not empty.
LEMMA OldestFirst ==
  ASSUME NEW S \in SUBSET Days, S # {}
  PROVE  NextSession(S) \in S /\ \A e \in S : NextSession(S) <= e
<1>. DEFINE R == OpToRel(<, Nat)
<1>1. S \subseteq Nat
  BY LoopAssumption DEF Days
<1>2. \E x \in S : \A y \in S : ~ (<<y, x>> \in R)
  <2>. HIDE DEF R
  <2>1. IsWellFoundedOn(R, Nat)
    BY NatLessThanWellFounded DEF R
  <2>. QED BY <1>1, <2>1, WFMin
<1>3. PICK x \in S : \A y \in S : ~ (<<y, x>> \in R)
  BY <1>2
<1>4. \A y \in S : x <= y
  <2>. TAKE y \in S
  <2>1. x \in Nat /\ y \in Nat
    BY <1>1
  <2>2. ~ (y < x)
    BY <1>3, <2>1 DEF OpToRel
  <2>. QED BY <2>1, <2>2
<1>. QED BY <1>3, <1>4 DEF NextSession

\* What a sync leaves is of the right type.
LEMMA SyncTypes ==
  ASSUME TypeOK, Sync
  PROVE  /\ errors' \in Nat /\ circuit' \in {"closed", "open", "over"}
         /\ recon' \in {"none", "matched", "break"} /\ captured' \subseteq MonthEnds
BY DEF TypeOK, Sync, Deferred, Synced, SyncFailed, breaker, CloseCircuit, RecordFailure, Consecutive, Observed

\* The initial state is typed.
LEMMA TypedInit ==
  ASSUME Init PROVE Typed
<1>1. job \in Job /\ job.today <= day
  <2>1. Idle \in Job
    BY PlaceIsJob DEF Idle, Stages
  <2>. QED BY <2>1 DEF Init, Idle, Place, NoDay
<1>2. inputs \in [Days -> Nat] /\ valued \in [Days -> Nat \cup {Unvalued}]
  BY DEF Init
<1>3. TypeOK
  <2>1. day \in Days /\ start \in Nat /\ errors \in Nat /\ bars \in 0..day /\ lastEod \in 0..day /\ pnlDay \in 0..day
    BY LoopAssumption DEF Init, Days, NoDay
  <2>. QED BY <1>1, <1>2, <2>1 DEF Init, TypeOK
<1>. QED BY <1>3 DEF Typed, Placed, Init, Idle, Place, EodStages

\* The session due is one of the sessions up to the date of the tick.
LEMMA RefreshedTypes ==
  ASSUME Typed, At("backlog")
  PROVE  Refreshed \subseteq 1..job.today /\ Refreshed \subseteq 1..day /\ Refreshed \in SUBSET Days
<1>1. /\ day \in 1..LastDay /\ pending \subseteq 1..day /\ lastEod \in 0..day /\ pnlDay \in 0..day
      /\ job.today \in 1..day /\ LastDay \in Nat
  BY LoopAssumption DEF Typed, TypeOK, Placed, At, Days
<1>2. \A d \in Undone : d \in Nat \ {0}
  <2>1. \A d \in (lastEod + 1)..job.today : d \in Nat \ {0}
    BY <1>1
  <2>2. job.today \in Nat \ {0} /\ \A d \in pending : d \in Nat \ {0}
    BY <1>1
  <2>. QED BY <2>1, <2>2 DEF Undone
<1>3. Corrected => pnlDay \in Nat \ {0}
  BY <1>1 DEF Corrected, NoDay
<1>4. \A d \in Refreshed : d \in Nat \ {0} /\ d <= job.today
  BY <1>2, <1>3 DEF Refreshed
<1>. QED BY <1>1, <1>4 DEF Days

\* Every action keeps the types.
LEMMA TypedStep ==
  ASSUME Typed, Next
  PROVE  Typed'
<1>. USE DEF calendar, outside, stores, breaker, backlog, At
<1>j. TypeOK /\ job \in Job /\ job.at \in Stages /\ job.today \in Days \cup {NoDay} /\ job.evening \in BOOLEAN
      /\ job.done \in SUBSET Days /\ job.service \in Days \cup {NoDay} /\ job.synced \in BOOLEAN
      /\ job.market \in BOOLEAN /\ job.rev \in Nat \cup {Unvalued} /\ job.today <= day
  BY DEF Typed, TypeOK, Job
<1>d. day \in Nat /\ LastDay \in Nat /\ day \in 1..LastDay /\ MonthEnds \subseteq Days /\ NoDay = 0
  BY <1>j, LoopAssumption DEF TypeOK, Days, NoDay
<1>1. CASE Begin
  <2>1. job' \in Job
    BY <1>1, <1>j, PlaceIsJob DEF Begin, TypeOK, Stages
  <2>2. job'.at = "poll" /\ job'.today = day
    BY <1>1 DEF Begin, Place
  <2>3. TypeOK'
    <3>1. errors' \in Nat /\ circuit' \in {"closed", "open", "over"} /\ eodWait' \in BOOLEAN
      <4>1. CASE CloseCircuit /\ eodWait' = FALSE
        BY <4>1 DEF CloseCircuit
      <4>2. CASE UNCHANGED <<errors, circuit, eodWait>>
        BY <4>2, <1>j DEF TypeOK
      <4>. QED BY <1>1, <4>1, <4>2 DEF Begin
    <3>2. job'.today <= day /\ day' = day
      BY <1>1, <2>2, <1>d DEF Begin
    <3>. QED BY <1>1, <2>1, <3>1, <3>2, <1>j DEF Begin, TypeOK
  <2>. QED BY <2>2, <2>3, <1>d, <1>1 DEF Typed, Placed, EodStages, Begin
<1>2. CASE Poll
  <2>1. /\ errors' \in Nat /\ circuit' \in {"closed", "open", "over"}
        /\ recon' \in {"none", "matched", "break"} /\ captured' \subseteq MonthEnds
    BY <1>2, <1>j, SyncTypes DEF Poll, TypeOK
  <2>2. job' \in Job /\ job'.at = "backlog" /\ job'.today = job.today
    BY <1>2, <1>j, GoIsJob DEF Poll, Stages
  <2>3. TypeOK'
    BY <1>2, <2>1, <2>2, <1>j DEF Poll, TypeOK
  <2>. QED BY <2>2, <2>3, <1>2 DEF Typed, Placed, EodStages, Poll
<1>3. CASE Backlog
  <2>1. Refreshed \subseteq 1..job.today /\ Refreshed \subseteq 1..day /\ Refreshed \in SUBSET Days
    BY <1>3, RefreshedTypes DEF Backlog
  <2>. DEFINE d == NextSession(Refreshed)
  <2>2. Refreshed # {} => d \in Refreshed
    BY <2>1, OldestFirst
  <2>. HIDE DEF d
  <2>3. Idle \in Job /\ Idle.today = 0 /\ Idle.at = "idle"
    BY PlaceIsJob DEF Idle, Place, Stages, NoDay
  <2>4. CASE job' = Idle
    <3>1. TypeOK'
      BY <1>3, <2>1, <2>3, <2>4, <1>d, <1>j DEF Backlog, TypeOK
    <3>. QED BY <3>1, <2>3, <2>4 DEF Typed, Placed, EodStages
  <2>5. CASE Refreshed # {} /\ job' = Place("sync", job.today, job.evening, job.done \cup {d}, d)
    <3>1. job' \in Job
      BY <2>1, <2>2, <2>5, <1>j, PlaceIsJob DEF Stages
    <3>2. job'.at = "sync" /\ job'.today = job.today /\ job'.service = d
      BY <2>5 DEF Place
    <3>3. TypeOK'
      BY <1>3, <2>1, <3>1, <3>2, <1>j DEF Backlog, TypeOK
    <3>4. day' = day /\ d \in 1..job.today /\ job.today \in 1..day
      BY <1>3, <2>1, <2>2, <2>5 DEF Backlog, Typed, Placed
    <3>. QED BY <3>2, <3>3, <3>4 DEF Typed, Placed
  <2>. QED BY <1>3, <2>4, <2>5 DEF Backlog, d
<1>4. CASE EodSync
  <2>1. /\ errors' \in Nat /\ circuit' \in {"closed", "open", "over"}
        /\ recon' \in {"none", "matched", "break"} /\ captured' \subseteq MonthEnds
    BY <1>4, <1>j, SyncTypes DEF EodSync, TypeOK
  <2>2. job' \in Job /\ job'.at \in {"market", "backlog"} /\ job'.today = job.today /\ job'.service = job.service
    <3>1. CASE Go("backlog")
      BY <3>1, <1>j, GoIsJob DEF Stages
    <3>2. CASE job' = Step("market", circuit' = "closed" /\ errors' = 0, FALSE, Unvalued)
      <4>. DEFINE ok == circuit' = "closed" /\ errors' = 0
      <4>1. job' = Step("market", ok, FALSE, Unvalued) /\ ok \in BOOLEAN
        BY <3>2
      <4>. HIDE DEF ok
      <4>. QED BY <4>1, <1>j DEF Stages, Step, Job
    <3>. QED BY <1>4, <3>1, <3>2 DEF EodSync
  <2>3. TypeOK'
    BY <1>4, <2>1, <2>2, <1>j DEF EodSync, TypeOK
  <2>. QED BY <2>2, <2>3, <1>4 DEF Typed, Placed, EodStages, EodSync
<1>5. CASE EodMarket
  <2>1. job.service \in 1..job.today /\ job.today \in 1..day
    BY <1>5 DEF EodMarket, Typed, Placed, EodStages
  <2>2. inputs[job.service] \in Nat
    BY <2>1, <1>d, <1>j DEF TypeOK, Days
  <2>3. job' \in Job /\ job'.at = "account" /\ job'.today = job.today /\ job'.service = job.service
    <3>1. CASE job' = Step("account", job.synced, TRUE, inputs[job.service])
      BY <3>1, <1>j, <2>2 DEF Stages, Step, Job
    <3>2. CASE job' = Step("account", job.synced, FALSE, inputs[job.service])
      BY <3>2, <1>j, <2>2 DEF Stages, Step, Job
    <3>. QED BY <1>5, <3>1, <3>2 DEF EodMarket
  <2>4. bars' \in 0..day
    <3>1. \A a, b \in 0..day : Later(a, b) \in 0..day
      BY DEF Later
    <3>2. bars \in 0..day /\ job.service \in 0..day /\ job.today \in 0..day
      BY <1>j, <2>1, <1>d DEF TypeOK
    <3>. QED BY <1>5, <3>1, <3>2 DEF EodMarket, MarketTarget
  <2>5. TypeOK'
    BY <1>5, <2>3, <2>4, <1>j DEF EodMarket, TypeOK
  <2>. QED BY <2>1, <2>3, <2>5, <1>5 DEF Typed, Placed, EodStages, EodMarket
<1>6. CASE EodAccount
  <2>1. errors' \in Nat /\ circuit' \in {"closed", "open", "over"} /\ captured' \subseteq MonthEnds
    BY <1>6, <1>j DEF EodAccount, TypeOK, CloseCircuit, RecordFailure, Consecutive, Observed
  <2>2. job' \in Job /\ job'.at = "value" /\ job'.today = job.today /\ job'.service = job.service
    BY <1>6, <1>j, GoIsJob DEF EodAccount, Stages
  <2>3. TypeOK'
    BY <1>6, <2>1, <2>2, <1>j DEF EodAccount, TypeOK
  <2>. QED BY <2>2, <2>3, <1>6 DEF Typed, Placed, EodStages, EodAccount
<1>7. CASE EodValue
  <2>1. job.service \in 1..job.today /\ job.today \in 1..day
    BY <1>7 DEF EodValue, Typed, Placed, EodStages
  <2>2. inputs[job.service] \in Nat
    BY <2>1, <1>d, <1>j DEF TypeOK, Days
  <2>3. job' \in Job /\ job'.at \in {"mark", "stage"} /\ job'.today = job.today /\ job'.service = job.service
    BY <1>7, <1>j, GoIsJob DEF EodValue, Stages
  <2>4. valued' \in [Days -> Nat \cup {Unvalued}]
    BY <1>7, <1>j, <2>2 DEF EodValue, TypeOK
  <2>5. TypeOK'
    BY <1>7, <2>3, <2>4, <1>j DEF EodValue, TypeOK
  <2>. QED BY <2>1, <2>3, <2>5, <1>7 DEF Typed, Placed, EodStages, EodValue
<1>8. CASE Mark
  <2>1. job.service \in 1..job.today /\ job.today \in 1..day
    BY <1>8 DEF Mark, Typed, Placed, EodStages
  <2>2. job' \in Job /\ job'.at = "stage" /\ job'.today = job.today /\ job'.service = job.service
    BY <1>8, <1>j, GoIsJob DEF Mark, Stages
  <2>3. TypeOK'
    BY <1>8, <2>1, <2>2, <1>j, <1>d DEF Mark, TypeOK
  <2>. QED BY <2>1, <2>2, <2>3, <1>8 DEF Typed, Placed, EodStages, Mark
<1>9. CASE EodStage
  <2>1. job' \in Job /\ job'.at = "finish" /\ job'.today = job.today /\ job'.service = job.service
    BY <1>9, <1>j, GoIsJob DEF EodStage, Stages
  <2>2. staged' \subseteq MonthEnds
    BY <1>9, <1>j DEF EodStage, RebalanceDue, TypeOK
  <2>3. TypeOK'
    BY <1>9, <2>1, <2>2, <1>j DEF EodStage, TypeOK
  <2>. QED BY <2>1, <2>3, <1>9 DEF Typed, Placed, EodStages, EodStage
<1>10. CASE EodFinish
  <2>1. job.service \in 1..job.today /\ job.today \in 1..day
    BY <1>10 DEF EodFinish, Typed, Placed, EodStages
  <2>2. job' \in Job /\ job'.at = "backlog" /\ job'.today = job.today
    BY <1>10, <1>j, GoIsJob DEF EodFinish, Stages
  <2>3. pending' \subseteq 1..day /\ lastEod' \in 0..day /\ eodWait' \in BOOLEAN
    <3>1. job.service \in 1..day /\ job.service \in 0..day
      BY <2>1, <1>d
    <3>2. pending \subseteq 1..day /\ lastEod \in 0..day
      BY <1>j DEF TypeOK
    <3>3. CASE Complete
      BY <1>10, <3>1, <3>2, <3>3 DEF EodFinish
    <3>4. CASE ~Complete
      BY <1>10, <3>1, <3>2, <3>4 DEF EodFinish
    <3>. QED BY <3>3, <3>4
  <2>4. TypeOK'
    BY <1>10, <2>2, <2>3, <1>j DEF EodFinish, TypeOK
  <2>. QED BY <2>1, <2>2, <2>4, <1>10 DEF Typed, Placed, EodStages, EodFinish
<1>11. CASE RetryFallsDue \/ CooldownEnds \/ Toggle
  <2>1. TypeOK'
    BY <1>11, <1>j DEF RetryFallsDue, CooldownEnds, Toggle, TypeOK
  <2>. QED BY <2>1, <1>11 DEF Typed, Placed, RetryFallsDue, CooldownEnds, Toggle
<1>12. ASSUME NEW D \in SUBSET Days, InputsChange(D) PROVE Typed'
  <2>1. inputs' \in [Days -> Nat]
    BY <1>12, <1>j DEF InputsChange, TypeOK
  <2>2. TypeOK'
    BY <1>12, <1>j, <2>1 DEF InputsChange, TypeOK
  <2>. QED BY <2>2, <1>12 DEF Typed, Placed, InputsChange
<1>13. CASE ResetPortfolio
  <2>1. inputs' \in [Days -> Nat] /\ start' \in Nat
    BY <1>13, <1>j, <1>d DEF ResetPortfolio, TypeOK, Today
  <2>2. TypeOK'
    BY <1>13, <1>j, <2>1 DEF ResetPortfolio, TypeOK
  <2>. QED BY <2>2, <1>13 DEF Typed, Placed, ResetPortfolio
<1>14. CASE DayTurns
  <2>1. day' \in Days /\ day' >= day /\ day' \in Nat
    BY <1>14, <1>d DEF DayTurns, Days
  <2>2. \A n : n \in 0..day => n \in 0..day'
    BY <2>1, <1>d
  <2>3. pending \subseteq 1..day' /\ job.today <= day' /\ (job.today \in 1..day => job.today \in 1..day')
    BY <2>1, <1>d, <1>j, SMTT(20) DEF TypeOK, Days
  <2>4. TypeOK'
    BY <1>14, <1>j, <2>1, <2>2, <2>3 DEF DayTurns, TypeOK
  <2>. QED BY <2>3, <2>4, <1>14 DEF Typed, Placed, DayTurns
<1>15. CASE Restart
  <2>1. Idle \in Job /\ Idle.today = 0 /\ Idle.at = "idle"
    BY PlaceIsJob DEF Idle, Place, Stages, NoDay
  <2>2. Restored \subseteq 1..day
    BY <1>j, <1>d DEF Restored, TypeOK
  <2>3. TypeOK'
    BY <1>15, <1>j, <1>d, <2>1, <2>2 DEF Restart, TypeOK
  <2>. QED BY <2>1, <2>3, <1>15 DEF Typed, Placed, Restart, EodStages
<1>. QED
  BY <1>1, <1>2, <1>3, <1>4, <1>5, <1>6, <1>7, <1>8, <1>9, <1>10, <1>11, <1>12, <1>13, <1>14, <1>15
  DEF Next, Tick, Eod, Environment

\* The variables and the tick keep their types.
THEOREM TypeCorrect == Spec => []TypeOK
<1>1. Typed /\ [Next]_vars => Typed'
  <2>1. CASE UNCHANGED vars
    BY <2>1 DEF vars, calendar, outside, stores, breaker, backlog, Typed, TypeOK, Placed
  <2>. QED BY <2>1, TypedStep
<1>. QED BY TypedInit, <1>1, PTL DEF Spec, Typed

-----------------------------------------------------------------------------
(* The stored P&L is never taken for newer than it is *)

\* The revision on record, and the one a run read, is at most that of the stored P&L,
\* which is at most that of the inputs.
Dated ==
  /\ \A d \in Days : valued[d] <= inputs[d]
  /\ pnlDay # NoDay => pnlRev <= valued[pnlDay]
  /\ job.at \in {"account", "value", "mark"} => job.rev <= inputs[job.service]
  /\ job.at = "mark" => job.rev <= valued[job.service]

\* Every action keeps the revisions in this order.
LEMMA DatedStep ==
  ASSUME Typed, Dated, Next
  PROVE  Dated'
<1>. USE DEF calendar, outside, stores, breaker, backlog, At
<1>j. /\ job \in Job /\ job.rev \in Nat \cup {Unvalued} /\ inputs \in [Days -> Nat]
      /\ valued \in [Days -> Nat \cup {Unvalued}] /\ pnlDay \in Days \cup {NoDay} /\ pnlRev \in Nat \cup {Unvalued}
      /\ Unvalued \in Int /\ (job.at \in EodStages => job.service \in Days)
  BY LoopAssumption, SMTT(20) DEF Typed, TypeOK, Placed, Job, Unvalued, Days, NoDay
<1>s. ASSUME UNCHANGED <<inputs, valued, pnlDay, pnlRev>>, job'.at \notin {"account", "value", "mark"}
      PROVE  Dated'
  BY <1>s DEF Dated
<1>k. ASSUME UNCHANGED <<inputs, valued, pnlDay, pnlRev, job>>
      PROVE  Dated'
  BY <1>k DEF Dated
<1>1. CASE Begin
  BY <1>1, <1>s DEF Begin, Place
<1>2. CASE Poll
  BY <1>2, <1>s DEF Poll, Go, Step
<1>3. CASE Backlog
  BY <1>3, <1>s DEF Backlog, Place, Idle
<1>4. CASE EodSync
  BY <1>4, <1>s DEF EodSync, Go, Step
<1>5. CASE EodMarket
  <2>1. job'.at = "account" /\ job'.rev = inputs[job.service] /\ job'.service = job.service
    BY <1>5 DEF EodMarket, Step
  <2>2. inputs[job.service] \in Nat
    BY <1>5, <1>j DEF EodMarket, EodStages
  <2>. QED BY <1>5, <2>1, <2>2 DEF EodMarket, Dated
<1>6. CASE EodAccount
  <2>1. job'.at = "value" /\ job'.rev = job.rev /\ job'.service = job.service
    BY <1>6 DEF EodAccount, Go, Step
  <2>. QED BY <1>6, <2>1 DEF EodAccount, Dated
<1>7. CASE EodValue
  <2>1. CASE /\ valued' = [valued EXCEPT ![job.service] = inputs[job.service]]
             /\ Go("mark")
    <3>1. job'.at = "mark" /\ job'.rev = job.rev /\ job'.service = job.service
      BY <2>1 DEF Go, Step
    <3>2. job.service \in Days /\ inputs[job.service] \in Nat
      BY <1>7, <1>j DEF EodValue, EodStages
    <3>3. valued'[job.service] = inputs[job.service] /\ \A d \in Days \ {job.service} : valued'[d] = valued[d]
      BY <2>1, <3>2, <1>j
    <3>4. \A d \in Days : valued'[d] <= inputs[d] /\ valued[d] <= valued'[d]
      BY <3>2, <3>3, <1>j DEF Dated
    <3>5. pnlDay # NoDay => pnlRev <= valued'[pnlDay]
      <4>1. \A d \in Days : valued[d] \in Int /\ valued'[d] \in Int
        BY <3>2, <3>3, <1>j
      <4>2. pnlRev \in Int
        BY <1>j
      <4>. QED BY <3>4, <4>1, <4>2, <1>j DEF Dated
    <3>6. UNCHANGED <<inputs, pnlDay, pnlRev>> /\ job.rev <= inputs[job.service]
      BY <1>7 DEF EodValue, Dated
    <3>. QED BY <3>1, <3>3, <3>4, <3>5, <3>6 DEF Dated
  <2>2. CASE Go("stage") /\ UNCHANGED valued
    BY <1>7, <2>2, <1>s DEF EodValue, Go, Step
  <2>. QED BY <1>7, <2>1, <2>2 DEF EodValue
<1>8. CASE Mark
  <2>1. job'.at = "stage"
    BY <1>8 DEF Mark, Go, Step
  <2>. QED BY <1>8, <2>1 DEF Mark, Dated
<1>9. CASE EodStage
  BY <1>9, <1>s DEF EodStage, Go, Step
<1>10. CASE EodFinish
  BY <1>10, <1>s DEF EodFinish, Go, Step
<1>11. CASE RetryFallsDue \/ CooldownEnds \/ Toggle \/ DayTurns
  BY <1>11, <1>k DEF RetryFallsDue, CooldownEnds, Toggle, DayTurns
<1>12. ASSUME NEW D \in SUBSET Days, InputsChange(D) \/ ResetPortfolio PROVE Dated'
  <2>1. /\ inputs' \in [Days -> Nat] /\ \A d \in Days : inputs[d] <= inputs'[d]
        /\ UNCHANGED <<valued, pnlDay, pnlRev, job>>
    BY <1>12, <1>j DEF InputsChange, ResetPortfolio
  <2>2. \A d \in Days : valued[d] \in Int /\ inputs[d] \in Int /\ inputs'[d] \in Int
    BY <2>1, <1>j
  <2>3. \A d \in Days : valued[d] <= inputs'[d]
    BY <2>1, <2>2 DEF Dated
  <2>4. job.at \in {"account", "value", "mark"} => job.rev <= inputs'[job.service]
    BY <2>1, <2>2, <1>j DEF Dated, EodStages
  <2>. QED BY <2>1, <2>3, <2>4 DEF Dated
<1>13. CASE Restart
  BY <1>13, <1>s DEF Restart, Idle, Place
<1>. QED
  BY <1>1, <1>2, <1>3, <1>4, <1>5, <1>6, <1>7, <1>8, <1>9, <1>10, <1>11, <1>12, <1>13
  DEF Next, Tick, Eod, Environment

\* A revision on record that equals that of the inputs is that of the stored P&L.
LEMMA DatedIsCurrent ==
  ASSUME Typed, Dated
  PROVE  CurrentMeansCurrent
<1>1. pnlDay # NoDay => /\ valued[pnlDay] \in Int /\ inputs[pnlDay] \in Int /\ pnlRev \in Int
                        /\ valued[pnlDay] <= inputs[pnlDay]
  BY LoopAssumption DEF Typed, TypeOK, Dated, Unvalued, Days, NoDay
<1>. QED BY <1>1 DEF Dated, CurrentMeansCurrent

\* The loop never takes a stale valuation for a current one.
THEOREM CurrentIsCurrent == Spec => []CurrentMeansCurrent
<1>1. Init => Typed /\ Dated
  <2>1. Init => Dated
    BY DEF Init, Dated, Idle, Place, Unvalued, NoDay
  <2>. QED BY <2>1, TypedInit
<1>2. Typed /\ Dated /\ [Next]_vars => Typed' /\ Dated'
  <2>1. CASE UNCHANGED vars
    BY <2>1 DEF vars, calendar, outside, stores, breaker, backlog, Typed, TypeOK, Placed, Dated
  <2>. QED BY <2>1, TypedStep, DatedStep
<1>. QED BY <1>1, <1>2, DatedIsCurrent, PTL DEF Spec

-----------------------------------------------------------------------------
(* Sessions complete in order *)

\* The session in progress is the oldest one pending, and between the last complete
\* one and it there is none of the episode.
InOrder ==
  /\ lastEod <= pnlDay
  /\ job.at \in EodStages =>
       /\ lastEod <= job.service
       /\ \A d \in pending : job.service <= d
       /\ lastEod = NoDay \/ \A d \in (lastEod + 1)..(job.service - 1) : ~Includes(d)

\* The backlog hands out its oldest session.
LEMMA BacklogInOrder ==
  ASSUME Typed, InOrder, Backlog
  PROVE  InOrder'
<1>. USE DEF calendar, outside, stores, breaker, backlog, At
<1>0. /\ lastEod \in Nat /\ pnlDay \in Nat /\ lastEod' = lastEod /\ pnlDay' = pnlDay /\ start' = start
      /\ start \in Nat /\ job.today \in Nat /\ pending \subseteq Nat
  BY DEF Typed, TypeOK, Placed, Backlog
<1>1. Refreshed \subseteq 1..job.today /\ Refreshed \in SUBSET Days
  BY RefreshedTypes DEF Backlog
<1>. DEFINE d == NextSession(Refreshed)
<1>2. Refreshed # {} => d \in Refreshed /\ \A e \in Refreshed : d <= e
  BY <1>1, OldestFirst
<1>. HIDE DEF d
<1>3. CASE job' = Idle
  <2>1. job'.at = "idle"
    BY <1>3 DEF Idle, Place
  <2>. QED BY <2>1, <1>0 DEF InOrder, EodStages
<1>4. CASE Refreshed # {} /\ job' = Place("sync", job.today, job.evening, job.done \cup {d}, d)
  <2>1. job'.service = d /\ d \in Refreshed /\ d \in 1..job.today /\ \A e \in pending' : d <= e
    <3>1. job'.service = d
      BY <1>4 DEF Place
    <3>2. pending' = Refreshed
      BY DEF Backlog
    <3>. QED BY <1>1, <1>2, <1>4, <3>1, <3>2
  <2>2. lastEod <= d
    <3>1. CASE d \in Undone
      BY <3>1, <2>1, <1>0 DEF Undone, NoDay
    <3>2. CASE d = pnlDay
      BY <3>2, <2>1, <1>0 DEF InOrder
    <3>. QED BY <2>1, <3>1, <3>2 DEF Refreshed
  <2>3. lastEod = NoDay \/ \A e \in (lastEod + 1)..(d - 1) : start > e
    <3>. SUFFICES ASSUME lastEod # NoDay, NEW e \in (lastEod + 1)..(d - 1), start <= e PROVE FALSE
      BY <1>0, <2>1
    <3>1. e \in (lastEod + 1)..job.today /\ e > lastEod /\ e <= job.today /\ ~(d <= e)
      BY <1>0, <2>1
    <3>2. e \in Refreshed
      BY <3>1 DEF Refreshed, Undone, Includes
    <3>. QED BY <3>1, <3>2, <1>2
  <2>4. lastEod' = NoDay \/ \A e \in (lastEod' + 1)..(d - 1) : ~(start' <= e)
    BY <2>3, <1>0, <2>1
  <2>. QED BY <2>1, <2>2, <2>4, <1>0 DEF InOrder, Includes
<1>. QED BY <1>3, <1>4 DEF Backlog, d

\* Every action keeps the order.
LEMMA InOrderStep ==
  ASSUME Typed, InOrder, Next
  PROVE  InOrder'
<1>. USE DEF calendar, outside, stores, breaker, backlog, At
<1>k. ASSUME UNCHANGED <<lastEod, pnlDay, pending, start>>,
             job'.at \in EodStages => job.at \in EodStages /\ job'.service = job.service
      PROVE  InOrder'
  BY <1>k DEF InOrder, Includes
<1>n. lastEod <= pnlDay
  BY DEF InOrder
<1>1. CASE Begin
  BY <1>1, <1>k DEF Begin, Place, EodStages
<1>2. CASE Poll
  BY <1>2, <1>k DEF Poll, Go, Step, EodStages
<1>3. CASE Backlog
  BY <1>3, BacklogInOrder
<1>4. CASE EodSync
  BY <1>4, <1>k DEF EodSync, Go, Step, EodStages
<1>5. CASE EodMarket
  BY <1>5, <1>k DEF EodMarket, Go, Step, EodStages
<1>6. CASE EodAccount
  BY <1>6, <1>k DEF EodAccount, Go, Step, EodStages
<1>7. CASE EodValue
  BY <1>7, <1>k DEF EodValue, Go, Step, EodStages
<1>8. CASE Mark
  <2>1. job'.at = "stage" /\ job'.service = job.service /\ pnlDay' = job.service
    BY <1>8 DEF Mark, Go, Step
  <2>. QED BY <1>8, <2>1 DEF Mark, InOrder, EodStages, Includes
<1>9. CASE EodStage
  BY <1>9, <1>k DEF EodStage, Go, Step, EodStages
<1>10. CASE EodFinish
  <2>1. job'.at \notin EodStages
    BY <1>10 DEF EodFinish, Go, Step, EodStages
  <2>2. lastEod' <= pnlDay'
    <3>1. job.service <= job.service
      BY <1>10 DEF EodFinish, Typed, Placed, EodStages
    <3>2. CASE Complete
      BY <1>10, <3>1, <3>2 DEF EodFinish, Complete, PnlReady
    <3>3. CASE ~Complete
      BY <1>10, <1>n, <3>3 DEF EodFinish
    <3>. QED BY <3>2, <3>3
  <2>. QED BY <2>1, <2>2 DEF InOrder
<1>11. CASE RetryFallsDue \/ CooldownEnds \/ Toggle \/ DayTurns
  BY <1>11, <1>k DEF RetryFallsDue, CooldownEnds, Toggle, DayTurns
<1>12. ASSUME NEW D \in SUBSET Days, InputsChange(D) PROVE InOrder'
  BY <1>12, <1>k DEF InputsChange
<1>13. CASE ResetPortfolio
  <2>1. start < start' /\ start \in Nat /\ start' \in Nat /\ UNCHANGED <<lastEod, pnlDay, pending, job>>
    BY <1>13, LoopAssumption DEF ResetPortfolio, Typed, TypeOK, Today, Days
  <2>2. ASSUME NEW d \in Int, ~Includes(d) PROVE ~Includes(d)'
    BY <2>1, <2>2 DEF Includes
  <2>3. ASSUME job.at \in EodStages, lastEod # NoDay
        PROVE  \A d \in (lastEod + 1)..(job.service - 1) : start' > d
    <3>1. lastEod \in Nat /\ job.service \in Nat
      BY <2>3 DEF Typed, TypeOK, Placed
    <3>2. \A d \in (lastEod + 1)..(job.service - 1) : d \in Int /\ ~(start <= d)
      BY <2>3, <3>1 DEF InOrder, Includes
    <3>. QED BY <3>2, <2>1
  <2>4. ASSUME job.at \in EodStages, lastEod # NoDay
        PROVE  \A d \in (lastEod + 1)..(job.service - 1) : ~(start' <= d)
    <3>1. \A d \in (lastEod + 1)..(job.service - 1) : d \in Int
      BY <2>4 DEF Typed, TypeOK, Placed
    <3>. QED BY <2>1, <2>3, <2>4, <3>1
  <2>. QED BY <2>1, <2>4 DEF InOrder, Includes
<1>14. CASE Restart
  <2>1. job'.at \notin EodStages
    BY <1>14 DEF Restart, Idle, Place, EodStages
  <2>. QED BY <2>1, <1>14, <1>n DEF Restart, InOrder
<1>. QED
  BY <1>1, <1>2, <1>3, <1>4, <1>5, <1>6, <1>7, <1>8, <1>9, <1>10, <1>11, <1>12, <1>13, <1>14
  DEF Next, Tick, Eod, Environment

\* Only the end of a session moves the last complete one, and it moves it forward.
LEMMA OrderOfStep ==
  ASSUME Typed, InOrder, Next, lastEod' # lastEod
  PROVE  /\ lastEod' > lastEod
         /\ \A d \in pending : Includes(d) => d >= lastEod'
         /\ lastEod = NoDay \/ \A d \in (lastEod + 1)..(lastEod' - 1) : ~Includes(d)
<1>. USE DEF calendar, outside, stores, breaker, backlog
<1>1. EodFinish
  BY DEF Next, Tick, Eod, Environment, Begin, Poll, Backlog, EodSync, EodMarket, EodAccount, EodValue,
         Mark, EodStage, RetryFallsDue, CooldownEnds, Toggle, DayTurns, InputsChange, ResetPortfolio, Restart
<1>2. lastEod' = job.service /\ job.at \in EodStages
  BY <1>1 DEF EodFinish, At, EodStages
<1>3. lastEod \in Nat /\ job.service \in Nat /\ pending \subseteq Nat
  BY <1>2 DEF Typed, TypeOK, Placed
<1>. QED BY <1>2, <1>3 DEF InOrder

\* Sessions complete in order and none of the episode is left out.
THEOREM CompletedInOrder == Spec => CompletesInOrder
<1>1. Init => Typed /\ InOrder
  <2>1. Init => InOrder
    BY DEF Init, InOrder, Idle, Place, NoDay, EodStages
  <2>. QED BY <2>1, TypedInit
<1>2. Typed /\ InOrder /\ [Next]_vars => Typed' /\ InOrder'
  <2>1. CASE UNCHANGED vars
    BY <2>1 DEF vars, calendar, outside, stores, breaker, backlog, Typed, TypeOK, Placed, InOrder, Includes
  <2>. QED BY <2>1, TypedStep, InOrderStep
<1>3. Typed /\ InOrder /\ [Next]_vars =>
        [lastEod' # lastEod =>
           /\ lastEod' > lastEod
           /\ \A d \in pending : Includes(d) => d >= lastEod'
           /\ lastEod = NoDay \/ \A d \in (lastEod + 1)..(lastEod' - 1) : ~Includes(d)]_vars
  BY OrderOfStep DEF vars, backlog
<1>. QED BY <1>1, <1>2, <1>3, PTL DEF Spec, CompletesInOrder

-----------------------------------------------------------------------------
(* No valuation on an older match *)

\* While the breaker is open no match is on record; a run that did not sync sees none.
Fresh ==
  /\ circuit = "open" => recon # "matched"
  /\ job.at \in {"market", "account"} =>
       IF job.synced THEN errors = 0 /\ circuit = "closed" ELSE recon # "matched"
  /\ job.at = "value" => job.synced \/ recon # "matched"

\* A sync succeeds, or no match is on record after it.
LEMMA SyncFresh ==
  ASSUME Typed, Sync, circuit = "open" => recon # "matched"
  PROVE  /\ circuit' = "open" => recon' # "matched"
         /\ (circuit' = "closed" /\ errors' = 0) \/ recon' # "matched"
BY DEF Typed, TypeOK, Sync, Deferred, Synced, SyncFailed, breaker, CloseCircuit, RecordFailure, Consecutive

\* Every action keeps this where the breaker takes more than one failure.
LEMMA FreshStep ==
  ASSUME Typed, Fresh, Next, Threshold > 1
  PROVE  Fresh'
<1>. USE DEF calendar, outside, stores, breaker, backlog, At
<1>n. circuit = "open" => recon # "matched"
  BY DEF Fresh
<1>s. ASSUME UNCHANGED breaker, job'.at \notin {"market", "account", "value"}
      PROVE  Fresh'
  BY <1>s, <1>n DEF Fresh
<1>k. ASSUME UNCHANGED <<errors, circuit, recon, job>>
      PROVE  Fresh'
  BY <1>k DEF Fresh
<1>1. CASE Begin
  <2>1. job'.at = "poll"
    BY <1>1 DEF Begin, Place
  <2>. QED BY <1>1, <2>1, <1>n DEF Begin, Fresh, CloseCircuit
<1>2. CASE Poll
  <2>1. job'.at = "backlog"
    BY <1>2 DEF Poll, Go, Step
  <2>2. circuit' = "open" => recon' # "matched"
    BY <1>2, <1>n, SyncFresh DEF Poll
  <2>. QED BY <2>1, <2>2 DEF Fresh
<1>3. CASE Backlog
  BY <1>3, <1>s DEF Backlog, Place, Idle
<1>4. CASE EodSync
  <2>1. CASE Sync /\ job' = Step("market", circuit' = "closed" /\ errors' = 0, FALSE, Unvalued)
    <3>. DEFINE ok == circuit' = "closed" /\ errors' = 0
    <3>1. job' = Step("market", ok, FALSE, Unvalued)
      BY <2>1
    <3>2. job'.at = "market" /\ job'.synced = ok
      <4>. HIDE DEF ok
      <4>. QED BY <3>1 DEF Step
    <3>3. circuit' = "open" => recon' # "matched"
      BY <2>1, <1>n, SyncFresh
    <3>4. ok \/ recon' # "matched"
      BY <2>1, <1>n, SyncFresh
    <3>. QED BY <3>2, <3>3, <3>4 DEF Fresh
  <2>2. CASE Go("backlog") /\ UNCHANGED breaker
    BY <2>2, <1>s DEF Go, Step
  <2>. QED BY <1>4, <2>1, <2>2 DEF EodSync
<1>5. CASE EodMarket
  <2>1. job'.at = "account" /\ job'.synced = job.synced /\ UNCHANGED breaker
    BY <1>5 DEF EodMarket, Step
  <2>. QED BY <1>5, <2>1 DEF Fresh, EodMarket
<1>6. CASE EodAccount
  <2>1. job'.at = "value" /\ job'.synced = job.synced /\ recon' = recon
    BY <1>6 DEF EodAccount, Go, Step
  <2>2. job.synced \/ recon # "matched"
    BY <1>6 DEF EodAccount, Fresh
  <2>3. circuit' = "open" => recon # "matched"
    <3>1. CASE ~job.synced
      BY <2>2, <3>1
    <3>2. CASE job.synced
      <4>1. errors = 0 /\ circuit = "closed"
        BY <1>6, <3>2 DEF EodAccount, Fresh
      <4>2. CASE RecordFailure
        BY <4>1, <4>2 DEF RecordFailure, Consecutive
      <4>. QED BY <1>6, <4>1, <4>2 DEF EodAccount, CloseCircuit
    <3>. QED BY <3>1, <3>2
  <2>. QED BY <2>1, <2>2, <2>3 DEF Fresh
<1>7. CASE EodValue
  BY <1>7, <1>s DEF EodValue, Go, Step
<1>8. CASE Mark
  BY <1>8, <1>s DEF Mark, Go, Step
<1>9. CASE EodStage
  BY <1>9, <1>s DEF EodStage, Go, Step
<1>10. CASE EodFinish
  BY <1>10, <1>s DEF EodFinish, Go, Step
<1>11. CASE RetryFallsDue \/ Toggle \/ DayTurns \/ ResetPortfolio
  BY <1>11, <1>k DEF RetryFallsDue, Toggle, DayTurns, ResetPortfolio
<1>12. CASE CooldownEnds
  BY <1>12 DEF CooldownEnds, Fresh
<1>13. ASSUME NEW D \in SUBSET Days, InputsChange(D) PROVE Fresh'
  BY <1>13, <1>k DEF InputsChange
<1>14. CASE Restart
  BY <1>14, <1>s DEF Restart, Idle, Place
<1>. QED
  BY <1>1, <1>2, <1>3, <1>4, <1>5, <1>6, <1>7, <1>8, <1>9, <1>10, <1>11, <1>12, <1>13, <1>14
  DEF Next, Tick, Eod, Environment

\* A session is valued only after a sync of the same run, when the breaker takes more
\* than one failure; with a threshold of one it is not so.
THEOREM ValuedFresh == ASSUME Threshold > 1 PROVE Spec => ValuedOnFreshMatch
<1>1. Init => Typed /\ Fresh
  <2>1. Init => Fresh
    BY DEF Init, Fresh, Idle, Place
  <2>. QED BY <2>1, TypedInit
<1>2. Typed /\ Fresh /\ [Next]_vars => Typed' /\ Fresh'
  <2>1. CASE UNCHANGED vars
    BY <2>1 DEF vars, calendar, outside, stores, breaker, backlog, Typed, TypeOK, Placed, Fresh
  <2>. QED BY <2>1, TypedStep, FreshStep
<1>3. Typed /\ Fresh /\ [Next]_vars => [valued' # valued => job.synced /\ recon = "matched"]_vars
  <2>1. ASSUME Typed, Fresh, Next, valued' # valued PROVE job.synced /\ recon = "matched"
    <3>1. EodValue
      BY <2>1 DEF Next, Tick, Eod, Environment, Begin, Poll, Backlog, EodSync, EodMarket, EodAccount,
             Mark, EodStage, EodFinish, RetryFallsDue, CooldownEnds, Toggle, DayTurns, InputsChange,
             ResetPortfolio, Restart, stores, outside
    <3>. QED BY <2>1, <3>1 DEF EodValue, Ready, Fresh, At
  <2>. QED BY <2>1 DEF vars, stores
<1>. QED BY <1>1, <1>2, <1>3, PTL DEF Spec, ValuedOnFreshMatch
=============================================================================
