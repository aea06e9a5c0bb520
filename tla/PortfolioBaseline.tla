------------------------- MODULE PortfolioBaseline -------------------------
(***************************************************************************)
(* The P&L baseline of the paper account and the execution ledger it       *)
(* summarises.  A baseline holds opening lots and a cutoff; the books are  *)
(* the lots of the baseline in force and the executions after its cutoff.  *)
(* Three procedures read the ledger, work without a lock, and write:       *)
(*   - reconciliation, which compares ledger and account and, on request,  *)
(*     resets the books to the broker's positions                          *)
(*     (execution/reconciliation.py, reconcile_ib_paper_account);          *)
(*   - compaction, which folds the executions up to a session end into the *)
(*     lots (live/pnl.py, build_pnl_baseline);                             *)
(*   - reviewed recovery, which replaces the executions of one order by    *)
(*     corrected evidence (execution/recovery.py).                         *)
(* Meanwhile the broker executes and corrects and fill sync merges what it *)
(* fetched.  The writes themselves run under the ledger lock of            *)
(* storage/postgres.py, one at a time.                                     *)
(*                                                                         *)
(* Executions are numbered; those of one order happen in that order.  Each *)
(* is a buy of one unit, two once the broker has corrected it, so 0 stands *)
(* for an execution not there, 1 for the original and 2 for the correction.*)
(***************************************************************************)
EXTENDS Integers, Sequences

CONSTANTS Execs,        \* the executions of this instance, numbered
          Orders,       \* the order rows
          OrderOf,      \* the order an execution belongs to
          Correctable,  \* the executions the broker may correct
          SessionEnds,  \* the cutoffs an operator may compact to
          MaxTime,      \* the last instant
          MaxBaselines, \* how many baselines may be saved
          MaxBusy       \* how many of the three procedures run at a time

ASSUME BaselineAssumption ==
  /\ Execs \subseteq Nat
  /\ OrderOf \in [Execs -> Orders]
  /\ Correctable \subseteq Execs
  /\ MaxTime \in Nat \ {0}
  /\ SessionEnds \subseteq Nat \ {0}
  /\ MaxBaselines \in Nat /\ MaxBusy \in Nat

VARIABLES now,         \* the clock
          at,          \* when the broker executed, 0 if it has not
          account,     \* the broker's executions at their present revision
          ledger,      \* the executions the order rows hold
          superseded,  \* originals a recovery replaced
          issue,       \* order rows blocked by conflicting evidence
          bases,       \* portfolio.pnl_baselines, oldest first
          recon,       \* the reconciliation under way
          fold,        \* the compaction under way
          review       \* the reviewed recovery request

vars == <<now, at, account, ledger, superseded, issue, bases, recon, fold, review>>

Quantities == [Execs -> 0..2]
Nothing == [e \in Execs |-> 0]

(* What the books say before any baseline: no lots, everything counts. *)
NoBaseline == [kind |-> "none", cut |-> 0, held |-> Nothing, folded |-> Nothing]

(* ORDER BY cutoff_at DESC, created_at DESC: a baseline is created after   *)
(* its parent was saved, so the order of saving stands for created_at.     *)
LatestId ==
  IF bases = <<>> THEN 0
  ELSE CHOOSE i \in DOMAIN bases : \A j \in DOMAIN bases :
         \/ bases[j].cut < bases[i].cut
         \/ bases[j].cut = bases[i].cut /\ j <= i

Baseline(i) == IF i = 0 THEN NoBaseline ELSE bases[i]
Latest == Baseline(LatestId)

(* The rows a token of the execution state is computed from. *)
Rows == [ledger |-> ledger, superseded |-> superseded, issue |-> issue]

IdleRecon == [step |-> "idle", checked |-> 0, batch |-> Nothing, held |-> Nothing,
              rows |-> [ledger |-> Nothing, superseded |-> {}, issue |-> {}], parent |-> 0]
IdleFold == [step |-> "idle", cut |-> 0,
             rows |-> [ledger |-> Nothing, superseded |-> {}, issue |-> {}], parent |-> 0]
NoReview == [order |-> "none", request |-> Nothing,
             rows |-> [ledger |-> Nothing, superseded |-> {}, issue |-> {}], base |-> 0]

Init ==
  /\ now = 1 /\ at = Nothing /\ account = Nothing
  /\ ledger = Nothing /\ superseded = {} /\ issue = {}
  /\ bases = <<>> /\ recon = IdleRecon /\ fold = IdleFold /\ review = NoReview

(* A bound on the instances, and never on the code: who may begin. *)
Room ==
  (IF recon.step = "idle" THEN 0 ELSE 1) + (IF fold.step = "idle" THEN 0 ELSE 1)
    + (IF review = NoReview THEN 0 ELSE 1) < MaxBusy

(***************************************************************************)
(* The broker                                                              *)
(***************************************************************************)
Tick ==
  /\ now < MaxTime
  /\ now' = now + 1
  /\ UNCHANGED <<at, account, ledger, superseded, issue, bases, recon, fold, review>>

Execute(e) ==
  /\ account[e] = 0
  /\ \A d \in Execs : OrderOf[d] = OrderOf[e] /\ d < e => account[d] # 0
  /\ at' = [at EXCEPT ![e] = now]
  /\ account' = [account EXCEPT ![e] = 1]
  /\ UNCHANGED <<now, ledger, superseded, issue, bases, recon, fold, review>>

Correct(e) ==
  /\ e \in Correctable /\ account[e] = 1
  /\ account' = [account EXCEPT ![e] = 2]
  /\ UNCHANGED <<now, at, ledger, superseded, issue, bases, recon, fold, review>>

(* A broker answer lists the executions of an order from its first on.     *)
Answer(q) ==
  /\ q \in Quantities
  /\ \A e \in Execs : q[e] <= account[e]
  /\ \A d, e \in Execs : OrderOf[d] = OrderOf[e] /\ d < e /\ q[e] # 0 => q[d] # 0

(***************************************************************************)
(* Merging a batch of evidence into the rows (execution/fills.py)          *)
(***************************************************************************)

(* Another revision of an execution the row holds, and not the original    *)
(* that a recovery replaced.                                               *)
Conflicts(rows, e, batch) ==
  /\ batch[e] # 0 /\ rows.ledger[e] # 0 /\ batch[e] # rows.ledger[e]
  /\ ~ (batch[e] = 1 /\ e \in rows.superseded)

Disputed(rows, batch) ==
  {o \in Orders \ rows.issue : \E e \in Execs : OrderOf[e] = o /\ Conflicts(rows, e, batch)}

(* The executions a merge adds: none to a row in dispute. *)
Adopted(rows, batch) ==
  [e \in Execs |->
     IF rows.ledger[e] = 0 /\ OrderOf[e] \notin rows.issue \cup Disputed(rows, batch)
     THEN batch[e] ELSE rows.ledger[e]]

Apply(batch) ==
  /\ ledger' = Adopted(Rows, batch)
  /\ issue' = issue \cup Disputed(Rows, batch)
  /\ UNCHANGED superseded

(* apply_broker_execution_fills for one order, from fill sync: the batch   *)
(* may have been fetched a while ago.                                      *)
Sync(o) ==
  \E batch \in Quantities :
    /\ Answer(batch)
    /\ batch # Nothing
    /\ \A e \in Execs : OrderOf[e] # o => batch[e] = 0
    /\ Apply(batch)
    /\ UNCHANGED <<now, at, account, bases, recon, fold, review>>

(***************************************************************************)
(* Saving a baseline (storage/postgres.py, save_pnl_baseline)              *)
(***************************************************************************)

(* Half of the check each. *)
ValidRows(rows, parent) == rows = Rows
ValidParent(rows, parent) == parent = LatestId

(* validate_baseline_state, under the ledger lock: neither a row nor the   *)
(* baseline in force has changed since the work was begun.                 *)
Valid(rows, parent) == rows = Rows /\ parent = LatestId

SaveBaseline(b, rows, parent) ==
  IF Valid(rows, parent) /\ Len(bases) < MaxBaselines
  THEN bases' = Append(bases, b)
  ELSE UNCHANGED bases

(***************************************************************************)
(* Reconciliation, with or without a reset                                 *)
(***************************************************************************)
BeginRecon ==
  /\ recon.step = "idle" /\ Room
  /\ recon' = [IdleRecon EXCEPT !.step = "checked", !.checked = now]
  /\ UNCHANGED <<now, at, account, ledger, superseded, issue, bases, fold, review>>

FetchFills ==
  /\ recon.step = "checked"
  /\ recon' = [recon EXCEPT !.step = "fetched", !.batch = account]
  /\ UNCHANGED <<now, at, account, ledger, superseded, issue, bases, fold, review>>

(* sync_new_fills, the dashboard's way: the batch is merged first.  One    *)
(* transaction per order; a merge of some of them is a Sync.               *)
SyncNewFills ==
  /\ recon.step = "fetched"
  /\ Apply(recon.batch)
  /\ recon' = [recon EXCEPT !.step = "synced"]
  /\ UNCHANGED <<now, at, account, bases, fold, review>>

ReadHistory ==
  /\ recon.step \in {"fetched", "synced"}
  /\ recon' = [recon EXCEPT !.step = "read", !.rows = Rows]
  /\ UNCHANGED <<now, at, account, ledger, superseded, issue, bases, fold, review>>

TakeSnapshot ==
  /\ recon.step = "read"
  /\ recon' = [recon EXCEPT !.step = "seen", !.held = account]
  /\ UNCHANGED <<now, at, account, ledger, superseded, issue, bases, fold, review>>

(* The evidence of orders that have executions already is checked again;   *)
(* a conflict it shows becomes durable, an addition only holds a reset up. *)
Evidence ==
  [e \in Execs |->
     IF \E d \in Execs : OrderOf[d] = OrderOf[e] /\ recon.rows.ledger[d] # 0
     THEN recon.batch[e] ELSE 0]

Blocked ==
  \/ recon.rows.issue # {}
  \/ Disputed(recon.rows, Evidence) # {}
  \/ Adopted(recon.rows, Evidence) # recon.rows.ledger

Judge ==
  /\ recon.step = "seen"
  /\ IF Disputed(recon.rows, Evidence) = {}
     THEN UNCHANGED <<ledger, superseded, issue>>
     ELSE Apply([e \in Execs |-> IF OrderOf[e] \in Disputed(recon.rows, Evidence)
                                 THEN recon.batch[e] ELSE 0])
  /\ \/ recon' = IdleRecon
     \/ /\ ~ Blocked
        /\ recon' = [recon EXCEPT !.step = "judged", !.parent = LatestId]
  /\ UNCHANGED <<now, at, account, bases, fold, review>>

(* The broker's positions become the lots; the cutoff is checked_at. *)
Reset ==
  /\ recon.step = "judged"
  /\ SaveBaseline([kind |-> "reset", cut |-> recon.checked,
                   held |-> recon.held, folded |-> Nothing], recon.rows, recon.parent)
  /\ recon' = IdleRecon
  /\ UNCHANGED <<now, at, account, ledger, superseded, issue, fold, review>>

(* An error on the way: no connection, a missing rate, another row saved. *)
AbandonRecon ==
  /\ recon.step # "idle"
  /\ recon' = IdleRecon
  /\ UNCHANGED <<now, at, account, ledger, superseded, issue, bases, fold, review>>

(***************************************************************************)
(* Compaction                                                              *)
(***************************************************************************)
ReadRecords(T) ==
  /\ fold.step = "idle" /\ Room
  /\ issue = {}
  /\ fold' = [IdleFold EXCEPT !.step = "read", !.cut = T, !.rows = Rows]
  /\ UNCHANGED <<now, at, account, ledger, superseded, issue, bases, recon, review>>

ReadPrevious ==
  /\ fold.step = "read"
  /\ fold' = IF fold.cut < Latest.cut THEN IdleFold
             ELSE [fold EXCEPT !.step = "built", !.parent = LatestId]
  /\ UNCHANGED <<now, at, account, ledger, superseded, issue, bases, recon, review>>

(* The executions after the previous cutoff and up to the new one. *)
Folded(prev, rows, T) ==
  [e \in Execs |-> IF prev.cut < at[e] /\ at[e] <= T
                   THEN prev.folded[e] + rows.ledger[e] ELSE prev.folded[e]]

Collapse ==
  /\ fold.step = "built"
  /\ SaveBaseline([kind |-> "collapse", cut |-> fold.cut, held |-> Baseline(fold.parent).held,
                   folded |-> Folded(Baseline(fold.parent), fold.rows, fold.cut)],
                  fold.rows, fold.parent)
  /\ fold' = IdleFold
  /\ UNCHANGED <<now, at, account, ledger, superseded, issue, recon, review>>

AbandonFold ==
  /\ fold.step # "idle"
  /\ fold' = IdleFold
  /\ UNCHANGED <<now, at, account, ledger, superseded, issue, bases, recon, review>>

(***************************************************************************)
(* Reviewed recovery of one order                                          *)
(***************************************************************************)

(* Closed periods are not looked at. *)
ReplacementOfAnyPeriod(o, request) ==
  /\ Answer(request)
  /\ \A e \in Execs : IF OrderOf[e] = o THEN request[e] >= ledger[e] ELSE request[e] = 0

(* _validated_replacement: every execution stays or is replaced by its     *)
(* correction, and none lies in a period a baseline has closed.            *)
Replacement(o, request) ==
  /\ Answer(request)
  /\ \A e \in Execs : IF OrderOf[e] = o THEN request[e] >= ledger[e] ELSE request[e] = 0
  /\ \A e \in Execs : request[e] # 0 => at[e] > Latest.cut

RowOf(o) ==
  [ledger |-> [e \in Execs |-> IF OrderOf[e] = o THEN ledger[e] ELSE 0],
   superseded |-> {e \in superseded : OrderOf[e] = o},
   issue |-> issue \cap {o}]

Preview(o) ==
  /\ review = NoReview /\ Room
  /\ \E request \in Quantities \ {Nothing} :
       /\ Replacement(o, request)
       /\ request # RowOf(o).ledger \/ o \in issue
       /\ review' = [order |-> o, request |-> request, rows |-> RowOf(o), base |-> LatestId]
  /\ UNCHANGED <<now, at, account, ledger, superseded, issue, bases, recon, fold>>

(* recover_broker_executions: refused unless row and baseline are those of *)
(* the review; checked again under the ledger lock.                        *)
Recover ==
  LET o == review.order IN
  /\ review # NoReview
  /\ IF review.rows = RowOf(o) /\ review.base = LatestId /\ Replacement(o, review.request)
     THEN /\ ledger' = [e \in Execs |-> IF OrderOf[e] = o THEN review.request[e] ELSE ledger[e]]
          /\ superseded' = superseded \cup
               {e \in Execs : OrderOf[e] = o /\ ledger[e] = 1 /\ review.request[e] = 2}
          /\ issue' = issue \ {o}
     ELSE UNCHANGED <<ledger, superseded, issue>>
  /\ review' = NoReview
  /\ UNCHANGED <<now, at, account, bases, recon, fold>>

-----------------------------------------------------------------------------
Next ==
  \/ Tick
  \/ \E e \in Execs : Execute(e) \/ Correct(e)
  \/ \E o \in Orders : Sync(o) \/ Preview(o)
  \/ Recover
  \/ BeginRecon \/ FetchFills \/ SyncNewFills \/ ReadHistory \/ TakeSnapshot
  \/ Judge \/ Reset \/ AbandonRecon
  \/ (\E T \in SessionEnds : ReadRecords(T)) \/ ReadPrevious \/ Collapse \/ AbandonFold

Spec == Init /\ [][Next]_vars

(***************************************************************************)
(* Properties                                                              *)
(***************************************************************************)
RowsType == [ledger : Quantities, superseded : SUBSET Execs, issue : SUBSET Orders]

(* Every variable has its type; in particular no execution is ever held at *)
(* a quantity the broker never reported (merge_execution_fills).           *)
TypeOK ==
  /\ now \in 1..MaxTime
  /\ at \in [Execs -> 0..MaxTime]
  /\ account \in Quantities
  /\ ledger \in Quantities /\ superseded \in SUBSET Execs /\ issue \in SUBSET Orders
  /\ bases \in Seq([kind : {"reset", "collapse"}, cut : Nat,
                    held : Quantities, folded : [Execs -> Nat]])
  /\ Len(bases) <= MaxBaselines
  /\ recon \in [step : {"idle", "checked", "fetched", "synced", "read", "seen", "judged"},
                checked : Nat, batch : Quantities, held : Quantities, rows : RowsType,
                parent : 0..Len(bases)]
  /\ fold \in [step : {"idle", "read", "built"}, cut : Nat, rows : RowsType,
               parent : 0..Len(bases)]
  /\ review \in [order : Orders \cup {"none"}, request : Quantities, rows : RowsType,
                 base : 0..Len(bases)]

(* What a compaction folded into the lots is still what the ledger holds:  *)
(* no merge and no recovery changes an execution of a closed period, and   *)
(* no compaction is saved from rows that changed while it computed.        *)
(* (validate_baseline_state in fills.py, _validated_replacement in         *)
(* recovery.py, both under the ledger lock of postgres.py.)                *)
FoldedUnchanged ==
  \A i \in DOMAIN bases : \A e \in Execs : bases[i].folded[e] \in {0, ledger[e]}

(* How much of each execution the books count. *)
Counted(b, e) == b.held[e] + b.folded[e] + (IF at[e] > b.cut THEN ledger[e] ELSE 0)
Books == [e \in Execs |-> Counted(Latest, e)]

(* Compaction moves the cutoff and nothing else: whatever was merged,      *)
(* recovered or reset while it computed, the baseline it saves counts of   *)
(* every execution what was counted just before (docs: collapse "advances  *)
(* the existing baseline, retaining broker-reset holdings and applying     *)
(* only subsequent fills").                                                *)
Compacted ==
  Len(bases') > Len(bases) /\ bases'[Len(bases')].kind = "collapse"
CompactionKeepsBooks ==
  [][Compacted => Books' = Books]_vars

(* No baseline is saved while an order row is blocked by conflicting       *)
(* evidence, even when the conflict was merged after the procedure had     *)
(* looked for one (reconciliation.py and pnl.py look once, at the start).  *)
NoBaselineOverConflict ==
  [][bases' # bases => issue = {}]_vars

(* The operator resets the books to the account as the broker reports it:  *)
(* no execution whose units are among the positions of the reset is        *)
(* counted a second time from the ledger ("Active portfolio/PnL state was  *)
(* reset to an operator-confirmed IB account snapshot", reconciliation.py).*)
ResetCountsOnce ==
  \A e \in Execs : Latest.held[e] > 0 => Counted(Latest, e) = Latest.held[e]
=============================================================================
