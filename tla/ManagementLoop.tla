---------------------------- MODULE ManagementLoop ----------------------------
(***************************************************************************)
(* The tick of the trading management loop: the circuit breaker of the     *)
(* broker Gateway, closed by the recovery request of the health monitor,   *)
(* and the after-close work on the backlog of sessions that are not        *)
(* complete: reconcile, refresh market data, value the portfolio, stage    *)
(* the monthly rebalance.  The hand-over, the alignment and the automatic  *)
(* approval of the same tick are in StrategyControl and RebalanceIntent.   *)
(*                                                                         *)
(* A tick works with the time it began, so waits are ended between ticks.  *)
(* Every status change is saved at once: a crash loses the place in the    *)
(* tick.  While the outside does not work, every call to it may fail or    *)
(* succeed and the process may be restarted.  Only trading days are        *)
(* considered.                                                             *)
(***************************************************************************)
EXTENDS Integers, FiniteSets

CONSTANTS LastDay,      \* sessions 1..LastDay are considered
          MonthEnds,    \* sessions after which a rebalance is staged
          Threshold,    \* consecutive failures that open the breaker
          MaxChanges    \* bound: changes of financial inputs

ASSUME LoopAssumption ==
  /\ LastDay \in Nat \ {0} /\ MonthEnds \subseteq 1..LastDay
  /\ Threshold \in Nat \ {0} /\ MaxChanges \in Nat

Days == 1..LastDay
NoDay == 0
Unvalued == -1

VARIABLES day, evening,      \* latest session whose close has passed; still on its date?
          works,             \* Gateway, data provider, ledger and schedule are in order
          inputs,            \* revision of the financial inputs of each session
          start,             \* first session of the portfolio episode
          captured,          \* month ends with an account snapshot of that date
          staged,            \* month ends with a proposal
          valued,            \* revision the stored P&L of each session was built from
          bars,              \* latest session with market data
          errors, circuit,   \* consecutive Gateway failures, breaker
          recon,             \* outcome of the last reconciliation
          pending, lastEod,  \* sessions to do, last complete one
          pnlDay, pnlRev,    \* session last valued, revision read before valuing it
          eodWait,           \* the backlog waits for its retry time
          job                \* where the tick is

calendar == <<day, evening>>
outside == <<works, inputs, start>>
stores == <<captured, staged, valued, bars>>
breaker == <<errors, circuit, recon>>
backlog == <<pending, lastEod, pnlDay, pnlRev, eodWait>>
vars == <<calendar, outside, stores, breaker, backlog, job>>

Stages == {"idle", "poll", "backlog", "sync", "market", "account", "value", "mark", "stage", "finish"}
Job == [at : Stages, today : Days \cup {NoDay}, evening : BOOLEAN, done : SUBSET Days,
        service : Days \cup {NoDay}, synced : BOOLEAN, market : BOOLEAN, rev : Nat \cup {Unvalued}]

Place(at, today, late, done, service) ==
  [at |-> at, today |-> today, evening |-> late, done |-> done, service |-> service,
   synced |-> FALSE, market |-> FALSE, rev |-> Unvalued]
Idle == Place("idle", NoDay, FALSE, {}, NoDay)

Init ==
  /\ day = 1 /\ evening = TRUE
  /\ works = TRUE /\ inputs = [d \in Days |-> 0] /\ start = 1
  /\ captured = {} /\ staged = {} /\ valued = [d \in Days |-> Unvalued] /\ bars = NoDay
  /\ errors = 0 /\ circuit = "closed" /\ recon = "none"
  /\ pending = {} /\ lastEod = NoDay /\ pnlDay = NoDay /\ pnlRev = Unvalued /\ eodWait = FALSE
  /\ job = Idle

-----------------------------------------------------------------------------
(* Circuit breaker *)

CloseCircuit == errors' = 0 /\ circuit' = "closed"

\* _record_ib_failure_locked; a breaker whose cooldown is over was cleared before
\* the attempt that failed.
Consecutive == IF circuit = "over" THEN 1 ELSE errors + 1
RecordFailure == /\ errors' = Consecutive
                 /\ circuit' = IF Consecutive < Threshold THEN "closed" ELSE "open"

Deferred == circuit = "open" /\ UNCHANGED <<breaker, captured>>

Observed(d) == captured' = captured \cup (MonthEnds \cap {d})
Synced == /\ circuit # "open" /\ CloseCircuit
          /\ \/ recon' = "matched"
             \/ ~works /\ recon' = "break"
          /\ Observed(IF job.evening THEN job.today ELSE job.today + 1)

SyncFailedQuietly == /\ circuit # "open" /\ ~works
                     /\ RecordFailure
                     /\ UNCHANGED <<recon, captured>>

SyncFailed == /\ circuit # "open" /\ ~works
              /\ RecordFailure /\ recon' = "break"
              /\ UNCHANGED captured

\* _sync_executions: executions and reconciliation, or nothing while the breaker is open.
Sync == Deferred \/ Synced \/ SyncFailed

-----------------------------------------------------------------------------
(* The tick *)

At(stage) == job.at = stage
Later(a, b) == IF a < b THEN b ELSE a
Step(stage, synced, market, rev) ==
  [at |-> stage, today |-> job.today, evening |-> job.evening, done |-> job.done,
   service |-> job.service, synced |-> synced, market |-> market, rev |-> rev]
Go(stage) == job' = Step(stage, job.synced, job.market, job.rev)

\* run_once: _consume_broker_recovery closes the breaker and ends the wait of the
\* backlog on a probe of the monitor that saw the Gateway after the last failure and
\* before the tick; another probe is dropped.
Begin ==
  /\ At("idle")
  /\ \/ CloseCircuit /\ eodWait' = FALSE
     \/ UNCHANGED <<errors, circuit, eodWait>>
  /\ job' = Place("poll", day, evening, {}, NoDay)
  /\ UNCHANGED <<calendar, outside, stores, recon, pending, lastEod, pnlDay, pnlRev>>

\* The periodic execution sync, when it is due.
Poll ==
  /\ At("poll")
  /\ Sync \/ UNCHANGED <<breaker, captured>>
  /\ Go("backlog")
  /\ UNCHANGED <<calendar, outside, staged, valued, bars, backlog>>

Includes(d) == start <= d

Undone ==
  {d \in pending \cup (IF lastEod = NoDay THEN {job.today} ELSE (lastEod + 1)..job.today) :
     lastEod = NoDay \/ d > lastEod}
Corrected == pnlDay # NoDay /\ Includes(pnlDay) /\ inputs[pnlDay] # pnlRev

RefreshedForward == {d \in Undone : d <= job.today /\ Includes(d)}

\* _refresh_eod_backlog: the sessions since the last complete one, and the one valued
\* last when its inputs changed.
Refreshed ==
  {d \in Undone \cup (IF Corrected THEN {pnlDay} ELSE {}) : d <= job.today /\ Includes(d)}

\* The oldest session first.
NextSessionNewest(S) == CHOOSE d \in S : \A e \in S : d >= e
NextSession(S) == CHOOSE d \in S : \A e \in S : d <= e

Backlog ==
  /\ At("backlog")
  /\ pending' = Refreshed
  /\ eodWait' = (eodWait /\ Refreshed # {})
  /\ job' = IF Refreshed # {} /\ ~eodWait /\ NextSession(Refreshed) \notin job.done
            THEN Place("sync", job.today, job.evening, job.done \cup {NextSession(Refreshed)}, NextSession(Refreshed))
            ELSE Idle
  /\ UNCHANGED <<calendar, outside, stores, breaker, lastEod, pnlDay, pnlRev>>

\* _run_eod; a session that left the episode meanwhile is skipped, and so is one for
\* which the scheduler of the strategy is refused, which saves an error and nothing else.
EodSync ==
  /\ At("sync")
  /\ \/ /\ Includes(job.service) /\ Sync
        /\ job' = Step("market", circuit' = "closed" /\ errors' = 0, FALSE, Unvalued)
     \/ /\ ~Includes(job.service) \/ ~works
        /\ Go("backlog")
        /\ UNCHANGED <<breaker, captured>>
  /\ UNCHANGED <<calendar, outside, staged, valued, bars, backlog>>

RebalanceDue == job.service \in MonthEnds
MarketTargetOfSession == job.service
MarketTargetNext == Later(job.service, job.today + 1)
MarketTarget == Later(job.service, job.today)

\* Market data up to the newest closed session; the revision of the inputs is read
\* before they are used.
EodMarket ==
  /\ At("market")
  /\ \/ /\ bars' = Later(bars, MarketTarget)
        /\ job' = Step("account", job.synced, TRUE, inputs[job.service])
     \/ /\ ~works /\ UNCHANGED bars
        /\ job' = Step("account", job.synced, FALSE, inputs[job.service])
  /\ UNCHANGED <<calendar, outside, captured, staged, valued, breaker, backlog>>

\* An account is observed on its own date; for another date, an open breaker or
\* after a failure the stored observation of that date serves, if there is one.
SameDate == job.evening /\ job.service = job.today

EodAccount ==
  /\ At("account")
  /\ \/ /\ ~SameDate \/ circuit = "open"
        /\ UNCHANGED <<errors, circuit, captured>>
     \/ /\ SameDate /\ circuit # "open"
        /\ CloseCircuit /\ Observed(job.service)
     \/ /\ SameDate /\ circuit # "open" /\ ~works
        /\ RecordFailure /\ UNCHANGED captured
  /\ Go("value")
  /\ UNCHANGED <<calendar, outside, staged, valued, bars, recon, backlog>>

Ready == job.market /\ recon = "matched"
PnlReady == pnlDay = job.service /\ pnlRev = job.rev

\* The P&L is built from the inputs of now and stored.
EodValue ==
  /\ At("value")
  /\ \/ /\ ~PnlReady /\ Ready
        /\ valued' = [valued EXCEPT ![job.service] = inputs[job.service]]
        /\ Go("mark")
     \/ /\ PnlReady \/ ~Ready \/ ~works
        /\ Go("stage") /\ UNCHANGED valued
  /\ UNCHANGED <<calendar, outside, captured, staged, bars, breaker, backlog>>

MarkLatest ==
  /\ At("mark")
  /\ pnlDay' = job.service /\ pnlRev' = inputs[job.service]
  /\ Go("stage")
  /\ UNCHANGED <<calendar, outside, stores, breaker, pending, lastEod, eodWait>>

\* Then the status says so.
Mark ==
  /\ At("mark")
  /\ pnlDay' = job.service /\ pnlRev' = job.rev
  /\ Go("stage")
  /\ UNCHANGED <<calendar, outside, stores, breaker, pending, lastEod, eodWait>>

\* The monthly rebalance; an alignment in flight or a plan that does not validate refuses it.
EodStage ==
  /\ At("stage")
  /\ \/ /\ RebalanceDue /\ job.service \in captured /\ Ready
        /\ staged' = staged \cup {job.service}
     \/ /\ ~(RebalanceDue /\ job.service \in captured /\ Ready) \/ ~works
        /\ UNCHANGED staged
  /\ Go("finish")
  /\ UNCHANGED <<calendar, outside, captured, valued, bars, breaker, backlog>>

CompleteSameDate == Ready /\ PnlReady /\ (RebalanceDue => job.service \in staged) /\ SameDate
Complete == Ready /\ PnlReady /\ (RebalanceDue => job.service \in staged)

EodFinish ==
  /\ At("finish")
  /\ IF Complete
     THEN lastEod' = job.service /\ pending' = pending \ {job.service} /\ eodWait' = FALSE
     ELSE pending' = pending \cup {job.service} /\ eodWait' = TRUE /\ UNCHANGED lastEod
  /\ Go("backlog")
  /\ UNCHANGED <<calendar, outside, stores, breaker, pnlDay, pnlRev>>

-----------------------------------------------------------------------------
(* Waits, the monitor, the operator and the world *)

RetryFallsDue ==
  /\ At("idle") /\ eodWait /\ eodWait' = FALSE
  /\ UNCHANGED <<calendar, outside, stores, breaker, pending, lastEod, pnlDay, pnlRev, job>>

CooldownEnds ==
  /\ At("idle") /\ circuit = "open" /\ circuit' = "over"
  /\ UNCHANGED <<calendar, outside, stores, errors, recon, backlog, job>>

\* A mark or rate of one session, or an execution, is corrected.
InputsChange(D) ==
  /\ \A d \in Days : inputs[d] < MaxChanges
  /\ inputs' = [d \in Days |-> IF d \in D THEN inputs[d] + 1 ELSE inputs[d]]
  /\ UNCHANGED <<calendar, works, start, stores, breaker, backlog, job>>

Today == IF evening THEN day ELSE day + 1

\* A reset of the accounting starts an episode on the present date.
ResetPortfolio ==
  /\ start < Today /\ start' = Today
  /\ \A d \in Days : inputs[d] < MaxChanges
  /\ inputs' = [d \in Days |-> inputs[d] + 1]
  /\ UNCHANGED <<calendar, works, stores, breaker, backlog, job>>

Toggle ==
  /\ works' = ~works
  /\ UNCHANGED <<calendar, inputs, start, stores, breaker, backlog, job>>

DayTurns ==
  /\ \/ evening /\ evening' = FALSE /\ UNCHANGED day
     \/ ~evening /\ day < LastDay /\ day' = day + 1 /\ evening' = TRUE
  /\ UNCHANGED <<outside, stores, breaker, backlog, job>>

\* A new process loads the saved status: load_trading_service_status and start.
Restored == IF pending = {} /\ pnlDay # NoDay /\ lastEod # pnlDay THEN {pnlDay} ELSE pending

Restart ==
  /\ ~works /\ job' = Idle
  /\ pending' = Restored /\ eodWait' = (eodWait /\ Restored = {})
  /\ UNCHANGED <<calendar, outside, stores, breaker, lastEod, pnlDay, pnlRev>>

-----------------------------------------------------------------------------

Eod == EodSync \/ EodMarket \/ EodAccount \/ EodValue \/ Mark \/ EodStage \/ EodFinish
Tick == Begin \/ Poll \/ Backlog \/ Eod

Environment == \/ \E d \in Days : InputsChange({d})
               \/ InputsChange(Days) \/ ResetPortfolio
               \/ Toggle \/ DayTurns

Next == Tick \/ RetryFallsDue \/ CooldownEnds \/ Restart \/ Environment

Spec == Init /\ [][Next]_vars

\* The loop runs while the process lives, and waits end.
FairSpec == Spec /\ WF_vars(Tick) /\ SF_vars(RetryFallsDue) /\ SF_vars(CooldownEnds)

-----------------------------------------------------------------------------
(* Properties *)

TypeOK ==
  /\ day \in Days /\ evening \in BOOLEAN
  /\ works \in BOOLEAN /\ inputs \in [Days -> Nat] /\ start \in Nat
  /\ captured \subseteq MonthEnds /\ staged \subseteq MonthEnds
  /\ valued \in [Days -> Nat \cup {Unvalued}] /\ bars \in 0..day
  /\ errors \in Nat /\ circuit \in {"closed", "open", "over"} /\ recon \in {"none", "matched", "break"}
  /\ pending \subseteq 1..day /\ lastEod \in 0..day /\ eodWait \in BOOLEAN
  /\ pnlDay \in 0..day /\ pnlRev \in Nat \cup {Unvalued}
  /\ job \in Job /\ job.today <= day

\* The loop never takes a stale valuation for a current one: where the revision on
\* record is that of the inputs, the stored P&L was built from these inputs,
\* although they may change between reading the revision and building the P&L, and
\* the process may die between storing the P&L and recording its revision.
CurrentMeansCurrent ==
  pnlDay # NoDay /\ pnlRev = inputs[pnlDay] => valued[pnlDay] = inputs[pnlDay]

\* A session is valued only when the reconciliation of the same run matched: a
\* match on record from before an outage does not stand in for a sync that failed
\* or that the open breaker skipped.
ValuedOnFreshMatch ==
  [][valued' # valued => job.synced /\ recon = "matched"]_vars

\* Sessions complete in order and none is left out, whatever crashes, failures and
\* corrections come in between; only a reset of the episode leaves some behind.
CompletesInOrder ==
  [][lastEod' # lastEod =>
       /\ lastEod' > lastEod
       /\ \A d \in pending : Includes(d) => d >= lastEod'
       /\ lastEod = NoDay \/ \A d \in (lastEod + 1)..(lastEod' - 1) : ~Includes(d)]_vars

\* Once the outside works, market data reaches the newest session, even while the
\* account work of an older one is blocked for want of evidence.
MarketDataArrives == <>[]works => <>[](bars = day \/ ~Includes(day))

\* The account was observed on the date of each month end that has passed.
Evidence == \A m \in MonthEnds : m < Today => m \in captured

\* Once the outside works, every session of the episode completes, if the account
\* was observed on each month end.
BacklogDrains == <>[]works /\ []Evidence => <>[](lastEod = day \/ ~Includes(day))

\* The P&L of the session valued last follows later corrections of its inputs.
LatestIsRevalued ==
  <>[]works /\ []Evidence =>
    <>[](pnlDay # NoDay /\ Includes(pnlDay) => valued[pnlDay] = inputs[pnlDay])
=============================================================================
