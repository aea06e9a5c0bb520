---------------------- MODULE PortfolioBaselineProofs ----------------------
(* Proofs about PortfolioBaseline: types, that closed periods stay closed, *)
(* that compaction keeps the books, and that no baseline is saved over a   *)
(* conflict, for any executions, orders, cutoffs and bounds.               *)
EXTENDS PortfolioBaseline, TLAPS

(***************************************************************************)
(* The inductive invariant                                                 *)
(***************************************************************************)

(* What is recorded of an execution was executed. *)
Anchored ==
  /\ \A e \in Execs : at[e] # 0 <=> account[e] # 0
  /\ \A e \in Execs : ledger[e] <= account[e]
  /\ \A e \in Execs : recon.batch[e] <= account[e]

(* Folded executions lie before the cutoff. *)
FoldedClosed ==
  \A i \in DOMAIN bases : \A e \in Execs :
    bases[i].folded[e] # 0 => at[e] # 0 /\ at[e] <= bases[i].cut

(* Neither procedure goes on from rows that were blocked. *)
Looked ==
  /\ fold.step # "idle" => fold.rows.issue = {}
  /\ recon.step = "judged" => recon.rows.issue = {}

(* A compaction does not move the cutoff back. *)
Forward == fold.step = "built" => Baseline(fold.parent).cut <= fold.cut

Newest(i, s) ==
  \A j \in DOMAIN s : s[j].cut < s[i].cut \/ (s[j].cut = s[i].cut /\ j <= i)

(* The query for the baseline in force has an answer. *)
HasLatest == bases # <<>> => \E i \in DOMAIN bases : Newest(i, bases)

BaseType == [kind : {"reset", "collapse"}, cut : Nat,
             held : Quantities, folded : [Execs -> Nat]]

IInv == TypeOK /\ Anchored /\ FoldedClosed /\ FoldedUnchanged /\ Looked /\ Forward /\ HasLatest

(***************************************************************************)
(* Helpers                                                                 *)
(***************************************************************************)

(* The baseline in force is one of those saved and has the last cutoff. *)
LEMMA LatestIsNewest ==
  ASSUME HasLatest, bases # <<>>
  PROVE  LatestId \in DOMAIN bases /\ Newest(LatestId, bases)
<1> DEFINE P(i) == \A j \in DOMAIN bases : \/ bases[j].cut < bases[i].cut
                                           \/ bases[j].cut = bases[i].cut /\ j <= i
<1>1. \E i \in DOMAIN bases : P(i)
  BY DEF HasLatest, Newest
<1>2. LatestId = CHOOSE i \in DOMAIN bases : P(i)
  BY DEF LatestId
<1>3. LatestId \in DOMAIN bases /\ P(LatestId)
  <2> HIDE DEF P
  <2> QED BY <1>1, <1>2
<1> QED BY <1>3 DEF Newest

(* What appending to a typed sequence does. *)
LEMMA Appended ==
  ASSUME NEW s \in Seq(BaseType), NEW b \in BaseType
  PROVE  /\ Append(s, b) \in Seq(BaseType)
         /\ Len(Append(s, b)) = Len(s) + 1
         /\ Len(s) \in Nat
         /\ DOMAIN s = 1..Len(s)
         /\ DOMAIN Append(s, b) = 1..(Len(s) + 1)
         /\ \A i \in DOMAIN s : Append(s, b)[i] = s[i]
         /\ Append(s, b)[Len(s) + 1] = b
         /\ Append(s, b) # <<>>
OBVIOUS

\* The saved baselines are a sequence of baselines.
LEMMA BasesTyped ==
  ASSUME TypeOK
  PROVE  bases \in Seq(BaseType)
BY DEF TypeOK, BaseType

(* Some saved baseline stays the newest when another is saved. *)
LEMMA NewestAfterSave ==
  ASSUME NEW s \in Seq(BaseType), NEW b \in BaseType,
         s # <<>> => \E i \in DOMAIN s : Newest(i, s)
  PROVE  \E i \in DOMAIN Append(s, b) : Newest(i, Append(s, b))
<1> DEFINE n == Len(s) + 1
           t == Append(s, b)
<1>0. /\ n \in Nat /\ DOMAIN s = 1..(n - 1) /\ DOMAIN t = 1..n
      /\ \A i \in DOMAIN s : t[i] = s[i]
      /\ t[n] = b /\ n \in DOMAIN t
  BY Appended
<1>1. b.cut \in Nat /\ \A i \in DOMAIN s : s[i].cut \in Nat
  <2>1. \A i \in DOMAIN s : s[i] \in BaseType
    OBVIOUS
  <2> QED BY <2>1 DEF BaseType
<1> HIDE DEF n, t
<1>2. CASE s = <<>>
  <2>1. n = 1
    BY <1>2 DEF n
  <2> QED BY <2>1, <1>0 DEF Newest, t
<1>3. CASE s # <<>>
  <2>1. PICK i \in DOMAIN s : Newest(i, s)
    BY <1>3
  <2>2. CASE s[i].cut <= b.cut
    <3>1. Newest(n, t)
      BY <1>0, <1>1, <2>1, <2>2, SMTT(20) DEF Newest
    <3> QED BY <3>1, <1>0 DEF t
  <2>3. CASE ~ (s[i].cut <= b.cut)
    <3>1. Newest(i, t) /\ i \in DOMAIN t
      BY <1>0, <1>1, <2>1, <2>3 DEF Newest
    <3> QED BY <3>1 DEF t
  <2> QED BY <2>2, <2>3
<1> QED BY <1>2, <1>3

(* Merging adds executions the row did not hold and changes none it held. *)
LEMMA AdoptedAdds ==
  ASSUME NEW rows, NEW batch \in Quantities, rows.ledger \in Quantities
  PROVE  /\ Adopted(rows, batch) \in Quantities
         /\ \A e \in Execs : \/ Adopted(rows, batch)[e] = rows.ledger[e]
                             \/ rows.ledger[e] = 0 /\ Adopted(rows, batch)[e] = batch[e]
BY DEF Adopted, Quantities

(* Such a merge keeps what concerns the ledger in the invariant. *)
LEMMA ApplyKeeps ==
  ASSUME TypeOK, Anchored, FoldedUnchanged, NEW batch \in Quantities, Apply(batch),
         \A e \in Execs : batch[e] <= account[e]
  PROVE  /\ ledger' \in Quantities /\ superseded' \in SUBSET Execs
         /\ issue' \in SUBSET Orders
         /\ \A e \in Execs : ledger'[e] <= account[e]
         /\ \A i \in DOMAIN bases : \A e \in Execs : bases[i].folded[e] \in {0, ledger'[e]}
<1>1. Rows.ledger = ledger /\ ledger \in Quantities
  BY DEF Rows, TypeOK
<1>2. /\ ledger' \in Quantities
      /\ \A e \in Execs : ledger'[e] = ledger[e] \/ (ledger[e] = 0 /\ ledger'[e] = batch[e])
  <2>1. ledger' = Adopted(Rows, batch)
    BY DEF Apply
  <2>2. Rows.ledger \in Quantities
    BY <1>1
  <2>3. /\ Adopted(Rows, batch) \in Quantities
        /\ \A e \in Execs : \/ Adopted(Rows, batch)[e] = Rows.ledger[e]
                            \/ Rows.ledger[e] = 0 /\ Adopted(Rows, batch)[e] = batch[e]
    BY <2>2, AdoptedAdds
  <2> QED BY <1>1, <2>1, <2>3
<1>3. superseded' \in SUBSET Execs /\ issue' \in SUBSET Orders
  BY DEF Apply, Disputed, TypeOK
<1>4. \A e \in Execs : ledger'[e] <= account[e]
  BY <1>2 DEF Anchored
<1>5. \A i \in DOMAIN bases : \A e \in Execs : bases[i].folded[e] \in {0, ledger'[e]}
  BY <1>2 DEF FoldedUnchanged
<1> QED BY <1>2, <1>3, <1>4, <1>5

(* Saving leaves what was saved as it is; what is new is b, and the work   *)
(* it was computed from was still true.                                    *)
LEMMA SaveKeeps ==
  ASSUME TypeOK, HasLatest, NEW b \in BaseType, NEW rows, NEW parent,
         SaveBaseline(b, rows, parent)
  PROVE  /\ bases' \in Seq(BaseType) /\ Len(bases') <= MaxBaselines
         /\ Len(bases) \in Nat /\ Len(bases') \in Nat /\ Len(bases) <= Len(bases')
         /\ DOMAIN bases = 1..Len(bases) /\ DOMAIN bases' = 1..Len(bases')
         /\ \A i \in DOMAIN bases : bases'[i] = bases[i]
         /\ bases' # <<>> => \E i \in DOMAIN bases' : Newest(i, bases')
         /\ \/ bases' = bases
            \/ /\ rows = Rows /\ parent = LatestId
               /\ Len(bases') = Len(bases) + 1 /\ bases'[Len(bases) + 1] = b
<1>0. bases \in Seq(BaseType) /\ Len(bases) <= MaxBaselines /\ MaxBaselines \in Nat
  BY BasesTyped, BaselineAssumption DEF TypeOK
<1>1. CASE bases' = bases
  BY <1>0, <1>1 DEF HasLatest
<1>2. CASE Valid(rows, parent) /\ Len(bases) < MaxBaselines /\ bases' = Append(bases, b)
  <2>1. /\ bases' \in Seq(BaseType) /\ Len(bases') = Len(bases) + 1 /\ Len(bases) \in Nat
        /\ DOMAIN bases = 1..Len(bases) /\ DOMAIN bases' = 1..(Len(bases) + 1)
        /\ \A i \in DOMAIN bases : bases'[i] = bases[i]
        /\ bases'[Len(bases) + 1] = b
    BY <1>0, <1>2, Appended
  <2>2. \E i \in DOMAIN bases' : Newest(i, bases')
    BY <1>0, <1>2, NewestAfterSave DEF HasLatest
  <2> QED BY <1>0, <1>2, <2>1, <2>2 DEF Valid
<1> QED BY <1>1, <1>2 DEF SaveBaseline

(* A baseline of an earlier number is the same after a save. *)
LEMMA EarlierSame ==
  ASSUME NEW n \in Nat, NEW i \in 0..n, DOMAIN bases = 1..n,
         \A j \in DOMAIN bases : bases'[j] = bases[j]
  PROVE  Baseline(i)' = Baseline(i)
<1>1. CASE i = 0
  BY <1>1 DEF Baseline, NoBaseline, Nothing
<1>2. CASE i # 0
  BY <1>2 DEF Baseline
<1> QED BY <1>1, <1>2

(* The baseline in force is typed, and no saved one has a later cutoff. *)
LEMMA LatestBounds ==
  ASSUME TypeOK, HasLatest
  PROVE  /\ LatestId \in 0..Len(bases)
         /\ Latest.cut \in Nat /\ Latest.held \in Quantities
         /\ Latest.folded \in [Execs -> Nat]
         /\ \A i \in DOMAIN bases : bases[i].cut <= Latest.cut
<1>0. bases \in Seq(BaseType) /\ Len(bases) \in Nat /\ DOMAIN bases = 1..Len(bases)
      /\ \A i \in DOMAIN bases : bases[i] \in BaseType
  <2>1. bases \in Seq(BaseType)
    BY BasesTyped
  <2> QED BY <2>1
<1>1. CASE bases = <<>>
  <2>1. LatestId = 0 /\ Latest = NoBaseline
    BY <1>1 DEF LatestId, Latest, Baseline
  <2>2. Nothing \in Quantities /\ Nothing \in [Execs -> Nat]
    BY DEF Nothing, Quantities
  <2>3. DOMAIN bases = {}
    BY <1>1
  <2> QED BY <1>0, <2>1, <2>2, <2>3 DEF NoBaseline
<1>2. CASE bases # <<>>
  <2>1. LatestId \in DOMAIN bases /\ Newest(LatestId, bases)
    BY <1>2, LatestIsNewest
  <2>2. LatestId \in 1..Len(bases)
    BY <1>0, <2>1
  <2>3. Latest = bases[LatestId]
    BY <1>0, <2>2 DEF Latest, Baseline
  <2>4. Latest \in BaseType
    BY <1>0, <2>1, <2>3
  <2>5. Latest.cut \in Nat /\ Latest.held \in Quantities /\ Latest.folded \in [Execs -> Nat]
    BY <2>4 DEF BaseType
  <2>6. \A i \in DOMAIN bases : bases[i].cut \in Nat
    BY <1>0 DEF BaseType
  <2>7. \A i \in DOMAIN bases : bases[i].cut <= Latest.cut
    BY <2>1, <2>3, <2>5, <2>6 DEF Newest
  <2> QED BY <1>0, <2>2, <2>5, <2>7
<1> QED BY <1>1, <1>2

(* The baseline in force folds what the ledger holds, before its cutoff. *)
LEMMA LatestFolded ==
  ASSUME TypeOK, HasLatest, FoldedClosed, FoldedUnchanged
  PROVE  \A e \in Execs : /\ Latest.folded[e] \in {0, ledger[e]}
                          /\ Latest.folded[e] # 0 => at[e] # 0 /\ at[e] <= Latest.cut
<1>1. CASE LatestId = 0
  BY <1>1 DEF Latest, Baseline, NoBaseline, Nothing
<1>2. CASE LatestId # 0
  <2>1. bases # <<>>
    BY <1>2 DEF LatestId
  <2>2. LatestId \in DOMAIN bases
    BY <2>1, LatestIsNewest
  <2>3. Latest = bases[LatestId]
    BY <1>2 DEF Latest, Baseline
  <2> QED BY <2>2, <2>3 DEF FoldedClosed, FoldedUnchanged
<1> QED BY <1>1, <1>2
(***************************************************************************)
(* Steps of the procedures that write nothing                              *)
(***************************************************************************)
ReconType ==
  [step : {"idle", "checked", "fetched", "synced", "read", "seen", "judged"},
   checked : Nat, batch : Quantities, held : Quantities, rows : RowsType,
   parent : 0..Len(bases)]
FoldType == [step : {"idle", "read", "built"}, cut : Nat, rows : RowsType,
             parent : 0..Len(bases)]
ReviewType == [order : Orders \cup {"none"}, request : Quantities, rows : RowsType,
               base : 0..Len(bases)]

Stored == <<at, account, ledger, superseded, issue, bases>>

\* A step that leaves what is stored and held alone keeps the invariant, provided what the
\* workers then hold is well typed and covered by the account.
LEMMA WorkOnly ==
  ASSUME IInv, UNCHANGED Stored, now' \in 1..MaxTime,
         recon' \in ReconType, fold' \in FoldType, review' \in ReviewType,
         \A e \in Execs : recon'.batch[e] <= account[e],
         fold'.step # "idle" => fold'.rows.issue = {},
         recon'.step = "judged" => recon'.rows.issue = {},
         fold'.step = "built" => Baseline(fold'.parent).cut <= fold'.cut
  PROVE  IInv'
<1>1. TypeOK'
  BY DEF IInv, TypeOK, Stored, ReconType, FoldType, ReviewType
<1>2. Anchored' /\ Looked'
  BY DEF IInv, Anchored, Looked, Stored
<1>3. FoldedClosed' /\ FoldedUnchanged' /\ HasLatest'
  BY DEF IInv, FoldedClosed, FoldedUnchanged, HasLatest, Newest, Stored
<1>4. Forward'
  BY DEF Forward, Stored, Baseline, NoBaseline, Nothing
<1> QED BY <1>1, <1>2, <1>3, <1>4 DEF IInv

\* The idle values, the rows read and what the workers hold are well typed.
LEMMA IdleTyped ==
  ASSUME TypeOK
  PROVE  /\ IdleRecon \in ReconType /\ IdleFold \in FoldType /\ NoReview \in ReviewType
         /\ Rows \in RowsType /\ Nothing \in Quantities
         /\ recon \in ReconType /\ fold \in FoldType /\ review \in ReviewType
<1>0. Len(bases) \in Nat
  BY BasesTyped
<1>1. Nothing \in Quantities
  BY DEF Nothing, Quantities
<1>2. [ledger |-> Nothing, superseded |-> {}, issue |-> {}] \in RowsType
  BY <1>1 DEF RowsType
<1>3. IdleRecon \in ReconType /\ IdleFold \in FoldType /\ NoReview \in ReviewType
  BY <1>0, <1>1, <1>2 DEF IdleRecon, IdleFold, NoReview, ReconType, FoldType, ReviewType
<1>4. Rows \in RowsType
  BY DEF Rows, RowsType, TypeOK
<1>5. recon \in ReconType /\ fold \in FoldType /\ review \in ReviewType
  BY DEF TypeOK, ReconType, FoldType, ReviewType
<1> QED BY <1>1, <1>3, <1>4, <1>5

\* The account never owes an execution.
LEMMA AccountNotNegative ==
  ASSUME TypeOK
  PROVE  \A e \in Execs : 0 <= account[e]
<1>1. \A q \in 0..2 : 0 <= q
  OBVIOUS
<1>2. \A e \in Execs : account[e] \in 0..2
  BY DEF TypeOK, Quantities
<1> QED BY <1>1, <1>2

\* An idle reconciliation holds nothing the account has not.
LEMMA IdleBatch ==
  ASSUME TypeOK
  PROVE  \A e \in Execs : IdleRecon.batch[e] <= account[e]
<1>1. IdleRecon.batch = Nothing
  BY DEF IdleRecon
<1>2. \A e \in Execs : Nothing[e] = 0
  BY DEF Nothing
<1>3. \A e \in Execs : 0 <= account[e]
  BY AccountNotNegative
<1> QED BY <1>1, <1>2, <1>3

\* The invariant holds at the start.
LEMMA InitIInv == ASSUME Init PROVE IInv
<1>1. TypeOK
  <2>1. Nothing \in Quantities /\ Nothing \in [Execs -> 0..MaxTime]
    BY BaselineAssumption DEF Nothing, Quantities
  <2>2. [ledger |-> Nothing, superseded |-> {}, issue |-> {}] \in RowsType
    BY <2>1 DEF RowsType
  <2>3. bases \in Seq(BaseType) /\ Len(bases) = 0
    BY DEF Init
  <2>4. recon \in ReconType /\ fold \in FoldType /\ review \in ReviewType
    BY <2>1, <2>2, <2>3 DEF Init, IdleRecon, IdleFold, NoReview, ReconType, FoldType, ReviewType
  <2> QED BY <2>1, <2>3, <2>4, BaselineAssumption
          DEF Init, TypeOK, BaseType, ReconType, FoldType, ReviewType
<1>2. DOMAIN bases = {}
  BY DEF Init
<1>3. Anchored
  BY DEF Init, Anchored, Nothing, IdleRecon
<1>4. FoldedClosed /\ FoldedUnchanged /\ HasLatest
  BY <1>2 DEF Init, FoldedClosed, FoldedUnchanged, HasLatest
<1>5. Looked /\ Forward
  BY DEF Init, Looked, Forward, IdleRecon, IdleFold
<1> QED BY <1>1, <1>3, <1>4, <1>5 DEF IInv

\* The clock keeps the invariant.
LEMMA TickKeeps == ASSUME IInv, Tick PROVE IInv'
<1>1. recon \in ReconType /\ fold \in FoldType /\ review \in ReviewType
  BY IdleTyped DEF IInv
<1>2. now' \in 1..MaxTime
  BY BaselineAssumption DEF Tick, IInv, TypeOK
<1> QED BY <1>1, <1>2, WorkOnly DEF Tick, Stored, IInv, Anchored, Looked, Forward

\* The reads of a reconciliation keep it.
LEMMA ReconWorks ==
  ASSUME IInv,
         BeginRecon \/ FetchFills \/ ReadHistory \/ TakeSnapshot \/ AbandonRecon
  PROVE  IInv'
<1>0. /\ TypeOK /\ Anchored /\ Looked /\ Forward
      /\ recon \in ReconType /\ fold \in FoldType /\ review \in ReviewType
      /\ IdleRecon \in ReconType /\ Rows \in RowsType
      /\ account \in Quantities /\ now \in Nat /\ now \in 1..MaxTime
  BY IdleTyped, BaselineAssumption DEF IInv, TypeOK
<1>1. UNCHANGED Stored /\ UNCHANGED <<now, fold, review>>
  BY DEF BeginRecon, FetchFills, ReadHistory, TakeSnapshot, AbandonRecon, Stored
<1>2. /\ recon' \in ReconType
      /\ \A e \in Execs : recon'.batch[e] <= account[e]
      /\ recon'.step # "judged"
  <2>1. CASE BeginRecon
    BY <2>1, <1>0, IdleBatch DEF BeginRecon, ReconType
  <2>2. CASE FetchFills
    <3>1. recon'.batch = account
      BY <2>2, <1>0 DEF FetchFills, ReconType
    <3>2. \A e \in Execs : account[e] \in 0..2
      BY <1>0 DEF Quantities
    <3>3. \A e \in Execs : recon'.batch[e] <= account[e]
      BY <3>1, <3>2
    <3>4. recon' \in ReconType /\ recon'.step = "fetched"
      BY <2>2, <1>0 DEF FetchFills, ReconType
    <3> QED BY <3>3, <3>4
  <2>3. CASE ReadHistory
    <3>1. recon'.batch = recon.batch
      BY <2>3, <1>0 DEF ReadHistory, ReconType
    <3> QED BY <3>1, <2>3, <1>0 DEF ReadHistory, ReconType, Anchored
  <2>4. CASE TakeSnapshot
    <3>1. recon'.batch = recon.batch
      BY <2>4, <1>0 DEF TakeSnapshot, ReconType
    <3> QED BY <3>1, <2>4, <1>0 DEF TakeSnapshot, ReconType, Anchored
  <2>5. CASE AbandonRecon
    BY <2>5, <1>0, IdleBatch DEF AbandonRecon, IdleRecon
  <2> QED BY <2>1, <2>2, <2>3, <2>4, <2>5
<1> QED BY <1>0, <1>1, <1>2, WorkOnly DEF Looked, Forward

\* The reads of a compaction keep it.
LEMMA FoldWorks ==
  ASSUME IInv, (\E T \in SessionEnds : ReadRecords(T)) \/ ReadPrevious \/ AbandonFold
  PROVE  IInv'
<1>0. /\ TypeOK /\ Anchored /\ Looked /\ Forward /\ HasLatest
      /\ recon \in ReconType /\ fold \in FoldType /\ review \in ReviewType
      /\ IdleFold \in FoldType /\ Rows \in RowsType /\ now \in 1..MaxTime
  BY IdleTyped DEF IInv, TypeOK
<1>1. UNCHANGED Stored /\ UNCHANGED <<now, recon, review>>
  BY DEF ReadRecords, ReadPrevious, AbandonFold, Stored
<1>2. /\ fold' \in FoldType
      /\ fold'.step # "idle" => fold'.rows.issue = {}
      /\ fold'.step = "built" => Baseline(fold'.parent).cut <= fold'.cut
  <2>1. ASSUME NEW T \in SessionEnds, ReadRecords(T) PROVE <1>2!1 /\ <1>2!2 /\ <1>2!3
    <3>1. T \in Nat
      BY BaselineAssumption
    <3>2. fold' = [IdleFold EXCEPT !.step = "read", !.cut = T, !.rows = Rows] /\ issue = {}
      BY <2>1 DEF ReadRecords
    <3>3. fold' \in FoldType /\ fold'.step = "read" /\ fold'.rows = Rows
      BY <3>1, <3>2, <1>0 DEF FoldType
    <3> QED BY <3>2, <3>3 DEF Rows
  <2>2. CASE ReadPrevious
    <3>1. LatestId \in 0..Len(bases) /\ Latest.cut \in Nat
      BY <1>0, LatestBounds
    <3>2. CASE fold.cut < Latest.cut
      BY <3>2, <2>2, <1>0 DEF ReadPrevious, IdleFold
    <3>3. CASE ~ (fold.cut < Latest.cut)
      <4>1. fold' = [fold EXCEPT !.step = "built", !.parent = LatestId] /\ fold.step = "read"
        BY <3>3, <2>2 DEF ReadPrevious
      <4>2. /\ fold' \in FoldType /\ fold'.parent = LatestId /\ fold'.cut = fold.cut
            /\ fold'.rows = fold.rows /\ fold.cut \in Nat
        BY <4>1, <3>1, <1>0 DEF FoldType
      <4>3. Baseline(fold'.parent).cut = Latest.cut
        BY <4>2 DEF Latest
      <4> QED BY <4>1, <4>2, <4>3, <3>1, <3>3, <1>0 DEF Looked
    <3> QED BY <3>2, <3>3
  <2>3. CASE AbandonFold
    BY <2>3, <1>0 DEF AbandonFold, IdleFold
  <2> QED BY <2>1, <2>2, <2>3
<1> QED BY <1>0, <1>1, <1>2, WorkOnly DEF Looked, Anchored

\* A preview of a recovery keeps it: it holds the row as it is.
LEMMA PreviewKeeps ==
  ASSUME IInv, NEW o \in Orders, Preview(o)
  PROVE  IInv'
<1>0. /\ TypeOK /\ Anchored /\ Looked /\ Forward /\ HasLatest
      /\ recon \in ReconType /\ fold \in FoldType /\ now \in 1..MaxTime
  BY IdleTyped DEF IInv, TypeOK
<1>1. LatestId \in 0..Len(bases)
  BY <1>0, LatestBounds
<1>2. RowOf(o) \in RowsType
  BY <1>0 DEF RowOf, RowsType, TypeOK, Quantities
<1>3. review' \in ReviewType
  BY <1>1, <1>2 DEF Preview, ReviewType
<1>4. UNCHANGED Stored /\ UNCHANGED <<now, recon, fold>>
  BY DEF Preview, Stored
<1> QED BY <1>0, <1>3, <1>4, WorkOnly DEF Looked, Anchored, Forward

(***************************************************************************)
(* Steps that change the ledger                                            *)
(***************************************************************************)

(* A step that adds to the ledger or corrects open periods. *)
LEMMA LedgerOnly ==
  ASSUME IInv, UNCHANGED <<now, at, account, bases, fold>>,
         ledger' \in Quantities, superseded' \in SUBSET Execs, issue' \in SUBSET Orders,
         \A e \in Execs : ledger'[e] <= account[e],
         \A i \in DOMAIN bases : \A e \in Execs : bases[i].folded[e] \in {0, ledger'[e]},
         recon' \in ReconType, review' \in ReviewType,
         \A e \in Execs : recon'.batch[e] <= account[e],
         recon'.step = "judged" => recon'.rows.issue = {}
  PROVE  IInv'
<1>1. TypeOK'
  BY DEF IInv, TypeOK, ReconType, ReviewType
<1>2. Anchored' /\ Looked'
  BY DEF IInv, Anchored, Looked
<1>3. FoldedClosed' /\ FoldedUnchanged' /\ HasLatest'
  BY DEF IInv, FoldedClosed, FoldedUnchanged, HasLatest, Newest
<1>4. Forward'
  BY DEF IInv, Forward, Baseline, NoBaseline, Nothing
<1> QED BY <1>1, <1>2, <1>3, <1>4 DEF IInv

\* An order sync keeps it: the ledger takes only what the account has, and the books stay closed.
LEMMA SyncKeeps == ASSUME IInv, NEW o \in Orders, Sync(o) PROVE IInv'
<1>0. /\ TypeOK /\ Anchored /\ FoldedUnchanged /\ Looked
      /\ recon \in ReconType /\ review \in ReviewType
  BY IdleTyped DEF IInv
<1>1. PICK batch \in Quantities : Answer(batch) /\ Apply(batch)
  BY DEF Sync
<1>2. UNCHANGED <<now, at, account, bases, recon, fold, review>>
  BY DEF Sync
<1>3. \A e \in Execs : batch[e] <= account[e]
  BY <1>1 DEF Answer
<1>4. /\ ledger' \in Quantities /\ superseded' \in SUBSET Execs /\ issue' \in SUBSET Orders
      /\ \A e \in Execs : ledger'[e] <= account[e]
      /\ \A i \in DOMAIN bases : \A e \in Execs : bases[i].folded[e] \in {0, ledger'[e]}
  BY <1>0, <1>1, <1>3, ApplyKeeps
<1> QED BY <1>0, <1>2, <1>4, LedgerOnly DEF Anchored, Looked

\* The merge of the fills a reconciliation fetched keeps it.
LEMMA SyncNewFillsKeeps == ASSUME IInv, SyncNewFills PROVE IInv'
<1>0. /\ TypeOK /\ Anchored /\ FoldedUnchanged /\ Looked
      /\ recon \in ReconType /\ review \in ReviewType
  BY IdleTyped DEF IInv
<1>1. recon.batch \in Quantities /\ Apply(recon.batch)
  BY <1>0 DEF SyncNewFills, ReconType
<1>2. UNCHANGED <<now, at, account, bases, fold, review>>
  BY DEF SyncNewFills
<1>3. /\ ledger' \in Quantities /\ superseded' \in SUBSET Execs /\ issue' \in SUBSET Orders
      /\ \A e \in Execs : ledger'[e] <= account[e]
      /\ \A i \in DOMAIN bases : \A e \in Execs : bases[i].folded[e] \in {0, ledger'[e]}
  BY <1>0, <1>1, ApplyKeeps DEF Anchored
<1>4. recon' \in ReconType /\ recon'.batch = recon.batch /\ recon'.step = "synced"
  BY <1>0 DEF SyncNewFills, ReconType
<1>5. \A e \in Execs : recon'.batch[e] <= account[e]
  BY <1>0, <1>4 DEF Anchored
<1> QED BY <1>0, <1>2, <1>3, <1>4, <1>5, LedgerOnly

\* The judgement of a reconciliation keeps it, with the conflicts it writes.
LEMMA JudgeKeeps == ASSUME IInv, Judge PROVE IInv'
<1>0. /\ TypeOK /\ Anchored /\ FoldedUnchanged /\ Looked /\ HasLatest
      /\ recon \in ReconType /\ review \in ReviewType /\ IdleRecon \in ReconType
  BY IdleTyped DEF IInv
<1>2. UNCHANGED <<now, at, account, bases, fold, review>>
  BY DEF Judge
<1>3. /\ ledger' \in Quantities /\ superseded' \in SUBSET Execs /\ issue' \in SUBSET Orders
      /\ \A e \in Execs : ledger'[e] <= account[e]
      /\ \A i \in DOMAIN bases : \A e \in Execs : bases[i].folded[e] \in {0, ledger'[e]}
  <2>1. CASE UNCHANGED <<ledger, superseded, issue>>
    BY <2>1, <1>0 DEF TypeOK, Anchored, FoldedUnchanged
  <2>2. CASE ~ (Disputed(recon.rows, Evidence) = {})
    <3> DEFINE batch == [e \in Execs |-> IF OrderOf[e] \in Disputed(recon.rows, Evidence)
                                         THEN recon.batch[e] ELSE 0]
    <3>1. Apply(batch)
      BY <2>2 DEF Judge
    <3>2. recon.batch \in Quantities /\ account \in Quantities
      BY <1>0 DEF ReconType, TypeOK
    <3>3. batch \in Quantities
      BY <3>2 DEF Quantities
    <3>4. \A e \in Execs : batch[e] = recon.batch[e] \/ batch[e] = 0
      OBVIOUS
    <3>5. \A e \in Execs : 0 <= account[e]
      BY <1>0, AccountNotNegative
    <3>6. \A e \in Execs : batch[e] <= account[e]
      BY <3>4, <3>5, <1>0 DEF Anchored
    <3> HIDE DEF batch
    <3> QED BY <3>1, <3>3, <3>6, <1>0, ApplyKeeps
  <2> QED BY <2>1, <2>2 DEF Judge
<1>4. CASE recon' = IdleRecon
  <2>1. recon'.step # "judged"
    BY <1>4 DEF IdleRecon
  <2> QED BY <1>0, <1>2, <1>3, <1>4, <2>1, IdleBatch, LedgerOnly
<1>5. CASE ~ Blocked /\ recon' = [recon EXCEPT !.step = "judged", !.parent = LatestId]
  <2>1. LatestId \in 0..Len(bases)
    BY <1>0, LatestBounds
  <2>2. recon' \in ReconType /\ recon'.batch = recon.batch /\ recon'.rows = recon.rows
    BY <1>0, <1>5, <2>1 DEF ReconType
  <2>3. recon.rows.issue = {}
    BY <1>5 DEF Blocked
  <2>4. \A e \in Execs : recon'.batch[e] <= account[e]
    BY <1>0, <2>2 DEF Anchored
  <2> QED BY <1>0, <1>2, <1>3, <2>2, <2>3, <2>4, LedgerOnly
<1> QED BY <1>4, <1>5 DEF Judge

\* A recovery keeps it: it removes what was read as superseded, in no closed period.
LEMMA RecoverKeeps == ASSUME IInv, Recover PROVE IInv'
<1> DEFINE o == review.order
           request == review.request
<1>0. /\ TypeOK /\ Anchored /\ FoldedUnchanged /\ FoldedClosed /\ Looked /\ HasLatest
      /\ recon \in ReconType /\ NoReview \in ReviewType /\ request \in Quantities
      /\ ledger \in Quantities
  BY IdleTyped DEF IInv, ReviewType, TypeOK
<1>1. UNCHANGED <<now, at, account, bases, recon, fold>> /\ review' = NoReview
  BY DEF Recover
<1>2. CASE UNCHANGED <<ledger, superseded, issue>>
  BY <1>0, <1>1, <1>2, LedgerOnly DEF TypeOK, Anchored, Looked, FoldedUnchanged
<1>3. CASE /\ Replacement(o, request)
           /\ ledger' = [e \in Execs |-> IF OrderOf[e] = o THEN request[e] ELSE ledger[e]]
           /\ superseded' = superseded \cup
                {e \in Execs : OrderOf[e] = o /\ ledger[e] = 1 /\ request[e] = 2}
           /\ issue' = issue \ {o}
  <2>1. ledger' \in Quantities
    BY <1>0, <1>3 DEF Quantities
  <2>2. superseded' \in SUBSET Execs /\ issue' \in SUBSET Orders
    BY <1>0, <1>3 DEF TypeOK
  <2>3. \A e \in Execs : request[e] <= account[e]
    BY <1>3 DEF Replacement, Answer
  <2>4. \A e \in Execs : ledger'[e] <= account[e]
    BY <1>0, <1>3, <2>3 DEF Anchored
  <2>5. ASSUME NEW i \in DOMAIN bases, NEW e \in Execs
        PROVE  bases[i].folded[e] \in {0, ledger'[e]}
    <3>1. CASE OrderOf[e] # o
      BY <3>1, <1>0, <1>3 DEF FoldedUnchanged
    <3>2. CASE OrderOf[e] = o /\ request[e] = 0
      <4>1. request[e] >= ledger[e] /\ ledger[e] \in 0..2
        BY <3>2, <1>0, <1>3 DEF Replacement, Quantities
      <4>2. ledger[e] = 0
        BY <3>2, <4>1
      <4> QED BY <4>2, <1>0 DEF FoldedUnchanged
    <3>3. CASE OrderOf[e] = o /\ request[e] # 0
      <4>1. at[e] > Latest.cut
        BY <3>3, <1>3 DEF Replacement
      <4>2. bases[i].cut <= Latest.cut /\ bases[i].cut \in Nat /\ Latest.cut \in Nat
        <5>1. bases[i] \in BaseType
          BY <1>0, BasesTyped
        <5> QED BY <5>1, <1>0, LatestBounds DEF BaseType
      <4>3. at[e] \in 0..MaxTime /\ MaxTime \in Nat
        BY <1>0, BaselineAssumption DEF TypeOK
      <4>4. ~ (at[e] <= bases[i].cut)
        BY <4>1, <4>2, <4>3
      <4> QED BY <4>4, <1>0 DEF FoldedClosed
    <3> QED BY <3>1, <3>2, <3>3
  <2>6. recon'.step = "judged" => recon'.rows.issue = {}
    BY <1>0, <1>1 DEF Looked
  <2>7. recon' \in ReconType /\ review' \in ReviewType
        /\ \A e \in Execs : recon'.batch[e] <= account[e]
    BY <1>0, <1>1 DEF Anchored
  <2> QED BY <1>1, <2>1, <2>2, <2>4, <2>5, <2>6, <2>7, LedgerOnly
<1> QED BY <1>2, <1>3 DEF Recover
(***************************************************************************)
(* Saving a baseline                                                       *)
(***************************************************************************)

(* Splitting and comparing intervals of numbers. *)
LEMMA Intervals ==
  /\ \A n \in Nat : \A i \in 1..(n + 1) : i \in 1..n \/ i = n + 1
  /\ \A n \in Nat : \A i \in 0..n : i = 0 \/ i \in 1..n
  /\ \A m, n \in Nat : m <= n => 0..m \subseteq 0..n
OBVIOUS

(* What was typed and referred to a saved baseline still does. *)
LEMMA WorkStaysTyped ==
  ASSUME Len(bases) \in Nat, Len(bases') \in Nat, Len(bases) <= Len(bases')
  PROVE  ReconType \subseteq ReconType' /\ FoldType \subseteq FoldType' /\ ReviewType \subseteq ReviewType'
<1>1. 0..Len(bases) \subseteq 0..Len(bases')
  BY Intervals
<1>2. RowsType' = RowsType /\ Quantities' = Quantities
  BY DEF RowsType, Quantities
<1> QED BY <1>1, <1>2 DEF ReconType, FoldType, ReviewType

\* Another saved baseline leaves everything well typed.
LEMMA TypedAfterSave ==
  ASSUME TypeOK, bases' \in Seq(BaseType), Len(bases') <= MaxBaselines,
         Len(bases) \in Nat, Len(bases') \in Nat, Len(bases) <= Len(bases'),
         UNCHANGED <<now, at, account, ledger, superseded, issue>>,
         recon' \in ReconType, fold' \in FoldType, review' \in ReviewType
  PROVE  TypeOK'
<1>1. recon' \in ReconType' /\ fold' \in FoldType' /\ review' \in ReviewType'
  BY WorkStaysTyped
<1> QED BY <1>1 DEF TypeOK, BaseType, ReconType, FoldType, ReviewType

\* A reset keeps it: the new baseline folds nothing.
LEMMA ResetKeeps == ASSUME IInv, Reset PROVE IInv'
<1> DEFINE b == [kind |-> "reset", cut |-> recon.checked,
                 held |-> recon.held, folded |-> Nothing]
<1>0. /\ TypeOK /\ Anchored /\ FoldedUnchanged /\ FoldedClosed /\ Looked /\ HasLatest /\ Forward
      /\ recon \in ReconType /\ fold \in FoldType /\ review \in ReviewType
      /\ IdleRecon \in ReconType
  BY IdleTyped DEF IInv
<1>1. b \in BaseType
  BY <1>0 DEF BaseType, ReconType, Nothing
<1>2. SaveBaseline(b, recon.rows, recon.parent)
      /\ UNCHANGED <<now, at, account, ledger, superseded, issue, fold, review>>
      /\ recon' = IdleRecon
  BY DEF Reset
<1>3. \A e \in Execs : b.folded[e] = 0
  BY DEF Nothing
<1> HIDE DEF b
<1>4. /\ bases' \in Seq(BaseType) /\ Len(bases') <= MaxBaselines
      /\ Len(bases) \in Nat /\ Len(bases') \in Nat /\ Len(bases) <= Len(bases')
      /\ DOMAIN bases = 1..Len(bases) /\ DOMAIN bases' = 1..Len(bases')
      /\ \A i \in DOMAIN bases : bases'[i] = bases[i]
      /\ bases' # <<>> => \E i \in DOMAIN bases' : Newest(i, bases')
      /\ \/ bases' = bases
         \/ Len(bases') = Len(bases) + 1 /\ bases'[Len(bases) + 1] = b
  BY <1>0, <1>1, <1>2, SaveKeeps
<1>5. \A i \in DOMAIN bases' : i \in DOMAIN bases \/ bases'[i] = b
  BY <1>4, Intervals
<1>6. FoldedClosed' /\ FoldedUnchanged'
  BY <1>0, <1>2, <1>3, <1>4, <1>5 DEF FoldedClosed, FoldedUnchanged
<1>7. HasLatest'
  BY <1>4 DEF HasLatest, Newest
<1>8. TypeOK'
  BY <1>0, <1>2, <1>4, TypedAfterSave
<1>9. Anchored' /\ Looked'
  <2>1. \A e \in Execs : IdleRecon.batch[e] <= account[e]
    BY <1>0, IdleBatch
  <2>2. IdleRecon.step # "judged"
    BY DEF IdleRecon
  <2> QED BY <1>0, <1>2, <2>1, <2>2 DEF Anchored, Looked
<1>10. Forward'
  <2>1. fold.parent \in 0..Len(bases)
    BY <1>0 DEF FoldType
  <2>2. Baseline(fold.parent)' = Baseline(fold.parent)
    <3>1. Baseline(fold.parent)' = IF fold.parent = 0 THEN NoBaseline ELSE bases'[fold.parent]
      BY <1>2 DEF Baseline, NoBaseline, Nothing
    <3>2. fold.parent = 0 \/ fold.parent \in DOMAIN bases
      BY <1>4, <2>1, Intervals
    <3> QED BY <1>4, <3>1, <3>2 DEF Baseline
  <2> QED BY <1>0, <1>2, <2>2 DEF Forward
<1> QED BY <1>6, <1>7, <1>8, <1>9, <1>10 DEF IInv

(* What a compaction adds to the folded executions. *)
LEMMA FoldedAdds ==
  ASSUME IInv, NEW T \in Nat, Latest.cut <= T
  PROVE  /\ Folded(Latest, Rows, T) \in [Execs -> Nat]
         /\ \A e \in Execs :
              /\ Folded(Latest, Rows, T)[e] \in {0, ledger[e]}
              /\ Folded(Latest, Rows, T)[e] # 0 => at[e] # 0 /\ at[e] <= T
              /\ Folded(Latest, Rows, T)[e] =
                   Latest.folded[e] + (IF at[e] > Latest.cut /\ at[e] <= T THEN ledger[e] ELSE 0)
<1>0. /\ TypeOK /\ FoldedUnchanged /\ FoldedClosed /\ HasLatest
      /\ Latest.cut \in Nat /\ Latest.folded \in [Execs -> Nat]
      /\ ledger \in Quantities /\ at \in [Execs -> 0..MaxTime] /\ MaxTime \in Nat
  BY LatestBounds, BaselineAssumption DEF IInv, TypeOK
<1>1. Rows.ledger = ledger
  BY DEF Rows
<1>2. \A q \in 0..2 : q \in Nat
  OBVIOUS
<1>3. \A t \in 0..MaxTime : t \in Nat
  BY <1>0
<1>4. \A e \in Execs : /\ ledger[e] \in Nat /\ at[e] \in Nat /\ Latest.folded[e] \in Nat
                       /\ Latest.folded[e] \in {0, ledger[e]}
                       /\ Latest.folded[e] # 0 => at[e] # 0 /\ at[e] <= Latest.cut
  BY <1>0, <1>2, <1>3, LatestFolded DEF Quantities
<1>5. \A e \in Execs : Folded(Latest, Rows, T)[e] =
        IF Latest.cut < at[e] /\ at[e] <= T
        THEN Latest.folded[e] + ledger[e] ELSE Latest.folded[e]
  BY <1>1 DEF Folded
<1>6. Folded(Latest, Rows, T) = [e \in Execs |->
        IF Latest.cut < at[e] /\ at[e] <= T
        THEN Latest.folded[e] + ledger[e] ELSE Latest.folded[e]]
  BY <1>1 DEF Folded
<1>7. Folded(Latest, Rows, T) \in [Execs -> Nat]
  BY <1>4, <1>6
<1>8. ASSUME NEW e \in Execs
      PROVE  /\ Folded(Latest, Rows, T)[e] \in {0, ledger[e]}
             /\ Folded(Latest, Rows, T)[e] # 0 => at[e] # 0 /\ at[e] <= T
             /\ Folded(Latest, Rows, T)[e] =
                  Latest.folded[e] + (IF at[e] > Latest.cut /\ at[e] <= T THEN ledger[e] ELSE 0)
  <2>1. CASE Latest.cut < at[e] /\ at[e] <= T
    <3>1. Latest.folded[e] = 0
      BY <2>1, <1>0, <1>4
    <3>2. Folded(Latest, Rows, T)[e] = Latest.folded[e] + ledger[e]
      BY <2>1, <1>5
    <3> QED BY <3>1, <3>2, <2>1, <1>0, <1>4
  <2>2. CASE ~ (Latest.cut < at[e] /\ at[e] <= T)
    <3>1. Folded(Latest, Rows, T)[e] = Latest.folded[e]
      BY <2>2, <1>5
    <3> QED BY <3>1, <2>2, <1>0, <1>4
  <2> QED BY <2>1, <2>2
<1> QED BY <1>7, <1>8

(* A compaction that is saved was computed from the rows and the baseline  *)
(* in force, and its baseline becomes the one in force.                    *)
LEMMA CollapseFacts ==
  ASSUME IInv, Collapse
  PROVE  /\ bases' \in Seq(BaseType) /\ Len(bases') <= MaxBaselines
         /\ Len(bases) \in Nat /\ Len(bases') \in Nat /\ Len(bases) <= Len(bases')
         /\ DOMAIN bases = 1..Len(bases) /\ DOMAIN bases' = 1..Len(bases')
         /\ \A i \in DOMAIN bases : bases'[i] = bases[i]
         /\ HasLatest'
         /\ \/ bases' = bases
            \/ \E b \in BaseType :
                 /\ fold.rows = Rows /\ fold.cut \in Nat /\ Latest.cut <= fold.cut
                 /\ b = [kind |-> "collapse", cut |-> fold.cut, held |-> Latest.held,
                         folded |-> Folded(Latest, Rows, fold.cut)]
                 /\ Len(bases') = Len(bases) + 1 /\ bases'[Len(bases) + 1] = b
<1>0. /\ TypeOK /\ Forward /\ HasLatest /\ fold \in FoldType /\ fold.step = "built"
      /\ bases \in Seq(BaseType) /\ Len(bases) \in Nat
      /\ Latest.held \in Quantities
  <2>1. TypeOK /\ Forward /\ HasLatest
    BY DEF IInv
  <2> QED BY <2>1, IdleTyped, BasesTyped, LatestBounds DEF Collapse
<1>1. fold.cut \in Nat
  BY <1>0 DEF FoldType
<1>2. CASE Valid(fold.rows, fold.parent)
  <2> DEFINE b == [kind |-> "collapse", cut |-> fold.cut, held |-> Latest.held,
                   folded |-> Folded(Latest, Rows, fold.cut)]
  <2>1. fold.rows = Rows /\ fold.parent = LatestId /\ Baseline(fold.parent) = Latest
    BY <1>2 DEF Valid, Latest
  <2>2. Latest.cut <= fold.cut
    BY <1>0, <2>1 DEF Forward
  <2>3. Folded(Latest, Rows, fold.cut) \in [Execs -> Nat]
    BY <1>1, <2>2, FoldedAdds
  <2>4. b \in BaseType
    BY <1>0, <1>1, <2>3 DEF BaseType
  <2>5. SaveBaseline(b, fold.rows, fold.parent)
    BY <2>1 DEF Collapse
  <2> HIDE DEF b
  <2>6. /\ bases' \in Seq(BaseType) /\ Len(bases') <= MaxBaselines
        /\ Len(bases) \in Nat /\ Len(bases') \in Nat /\ Len(bases) <= Len(bases')
        /\ DOMAIN bases = 1..Len(bases) /\ DOMAIN bases' = 1..Len(bases')
        /\ \A i \in DOMAIN bases : bases'[i] = bases[i]
        /\ bases' # <<>> => \E i \in DOMAIN bases' : Newest(i, bases')
        /\ \/ bases' = bases
           \/ Len(bases') = Len(bases) + 1 /\ bases'[Len(bases) + 1] = b
    BY <1>0, <2>4, <2>5, SaveKeeps
  <2>7. HasLatest'
    BY <2>6 DEF HasLatest, Newest
  <2>8. b = [kind |-> "collapse", cut |-> fold.cut, held |-> Latest.held,
             folded |-> Folded(Latest, Rows, fold.cut)]
    BY DEF b
  <2> QED BY <1>1, <2>1, <2>2, <2>4, <2>6, <2>7, <2>8
<1>3. CASE ~ Valid(fold.rows, fold.parent)
  <2>1. bases' = bases
    BY <1>3 DEF Collapse, SaveBaseline
  <2>2. HasLatest'
    BY <1>0, <2>1 DEF HasLatest, Newest
  <2>3. Len(bases) <= MaxBaselines
    BY <1>0 DEF TypeOK
  <2> QED BY <1>0, <2>1, <2>2, <2>3
<1> QED BY <1>2, <1>3

\* A compaction keeps it: the new baseline folds what its parent and the ledger held.
LEMMA CollapseKeeps == ASSUME IInv, Collapse PROVE IInv'
<1>0. /\ TypeOK /\ Anchored /\ FoldedUnchanged /\ FoldedClosed /\ Looked /\ HasLatest
      /\ recon \in ReconType /\ review \in ReviewType /\ IdleFold \in FoldType
  BY IdleTyped DEF IInv
<1>1. UNCHANGED <<now, at, account, ledger, superseded, issue, recon, review>>
      /\ fold' = IdleFold
  BY DEF Collapse
<1>2. /\ bases' \in Seq(BaseType) /\ Len(bases') <= MaxBaselines
      /\ Len(bases) \in Nat /\ Len(bases') \in Nat /\ Len(bases) <= Len(bases')
      /\ DOMAIN bases = 1..Len(bases) /\ DOMAIN bases' = 1..Len(bases')
      /\ \A i \in DOMAIN bases : bases'[i] = bases[i]
      /\ HasLatest'
  BY CollapseFacts
<1>3. FoldedClosed' /\ FoldedUnchanged'
  <2>1. CASE bases' = bases
    BY <1>0, <1>1, <2>1 DEF FoldedClosed, FoldedUnchanged
  <2>2. ASSUME NEW b \in BaseType,
               fold.cut \in Nat, Latest.cut <= fold.cut,
               b = [kind |-> "collapse", cut |-> fold.cut, held |-> Latest.held,
                    folded |-> Folded(Latest, Rows, fold.cut)],
               Len(bases') = Len(bases) + 1, bases'[Len(bases) + 1] = b
        PROVE  FoldedClosed' /\ FoldedUnchanged'
    <3>1. b.cut = fold.cut /\ b.folded = Folded(Latest, Rows, fold.cut)
      BY <2>2
    <3>2. \A e \in Execs : /\ b.folded[e] \in {0, ledger[e]}
                           /\ b.folded[e] # 0 => at[e] # 0 /\ at[e] <= b.cut
      BY <2>2, <3>1, FoldedAdds
    <3>3. \A i \in DOMAIN bases' : i \in DOMAIN bases \/ bases'[i] = b
      BY <1>2, <2>2, Intervals
    <3> QED BY <1>0, <1>1, <1>2, <3>2, <3>3 DEF FoldedClosed, FoldedUnchanged
  <2> QED BY <2>1, <2>2, CollapseFacts
<1>4. TypeOK'
  BY <1>0, <1>1, <1>2, TypedAfterSave
<1>5. Anchored' /\ Looked' /\ Forward'
  <2>1. IdleFold.step = "idle"
    BY DEF IdleFold
  <2>2. Anchored'
    BY <1>0, <1>1 DEF Anchored
  <2>3. Looked'
    BY <1>0, <1>1, <2>1 DEF Looked
  <2>4. Forward'
    BY <1>1, <2>1 DEF Forward
  <2> QED BY <2>2, <2>3, <2>4
<1> QED BY <1>2, <1>3, <1>4, <1>5 DEF IInv

(***************************************************************************)
(* Executions and corrections                                              *)
(***************************************************************************)

(* What happens at the broker keeps the invariant. *)
LEMMA BrokerKeeps ==
  ASSUME IInv, NEW e \in Execs, Execute(e) \/ Correct(e)
  PROVE  IInv'
<1>0. /\ TypeOK /\ Anchored /\ FoldedUnchanged /\ FoldedClosed /\ Looked /\ HasLatest /\ Forward
      /\ at \in [Execs -> 0..MaxTime] /\ account \in Quantities /\ now \in 1..MaxTime
  BY DEF IInv, TypeOK
<1>1. UNCHANGED <<now, ledger, superseded, issue, bases, recon, fold, review>>
  BY DEF Execute, Correct
<1>2. PICK q \in {1, 2} : account' = [account EXCEPT ![e] = q] /\ account[e] <= q
                          /\ (account[e] # 0 => at' = at)
                          /\ (account[e] = 0 => at' = [at EXCEPT ![e] = now])
  <2>1. CASE Execute(e)
    BY <2>1 DEF Execute
  <2>2. CASE Correct(e)
    BY <2>2 DEF Correct
  <2> QED BY <2>1, <2>2
<1>3. now \in 0..MaxTime /\ now # 0
  BY <1>0, BaselineAssumption
<1>4. at' \in [Execs -> 0..MaxTime] /\ account' \in Quantities
  BY <1>0, <1>2, <1>3 DEF Quantities
<1>5. TypeOK'
  BY <1>0, <1>1, <1>4 DEF TypeOK
<1>6. \A d \in Execs : /\ account'[d] = account[d] \/ (d = e /\ account'[d] = q)
                       /\ account[d] # 0 => at'[d] = at[d]
                       /\ at'[d] # 0 <=> account'[d] # 0
  BY <1>0, <1>2, <1>3 DEF Anchored, Quantities
<1>7. Anchored'
  <2>1. \A n \in 0..2 : n <= account[e] => n <= q
    BY <1>2, <1>0 DEF Quantities
  <2>2. recon.batch \in Quantities /\ ledger \in Quantities
    BY <1>0 DEF TypeOK
  <2>3. \A d \in Execs : ledger[d] \in 0..2 /\ recon.batch[d] \in 0..2
    BY <2>2 DEF Quantities
  <2> QED BY <1>0, <1>1, <1>6, <2>1, <2>3 DEF Anchored
<1>8. FoldedClosed' /\ FoldedUnchanged' /\ HasLatest'
  BY <1>0, <1>1, <1>6 DEF FoldedClosed, FoldedUnchanged, HasLatest, Newest, Anchored
<1>9. Looked'
  BY <1>0, <1>1 DEF Looked
<1>10. Forward'
  BY <1>0, <1>1 DEF Forward, Baseline, NoBaseline, Nothing
<1> QED BY <1>5, <1>7, <1>8, <1>9, <1>10 DEF IInv

\* A stutter keeps the invariant.
LEMMA StutterKeeps == ASSUME IInv, UNCHANGED vars PROVE IInv'
<1>1. recon \in ReconType /\ fold \in FoldType /\ review \in ReviewType
  BY IdleTyped DEF IInv
<1>2. now' \in 1..MaxTime /\ UNCHANGED Stored /\ UNCHANGED <<recon, fold, review>>
  BY DEF vars, Stored, IInv, TypeOK
<1> QED BY <1>1, <1>2, WorkOnly DEF IInv, Anchored, Looked, Forward

(***************************************************************************)
(* The theorems                                                            *)
(***************************************************************************)

(* The inductive invariant holds throughout. *)
THEOREM Inductive == Spec => []IInv
<1>1. Init => IInv
  BY InitIInv
<1>2. IInv /\ [Next]_vars => IInv'
  <2> SUFFICES ASSUME IInv, [Next]_vars PROVE IInv'
    OBVIOUS
  <2>1. CASE Tick
    BY <2>1, TickKeeps
  <2>2. CASE \E e \in Execs : Execute(e) \/ Correct(e)
    BY <2>2, BrokerKeeps
  <2>3. CASE \E o \in Orders : Sync(o) \/ Preview(o)
    BY <2>3, SyncKeeps, PreviewKeeps
  <2>4. CASE Recover
    BY <2>4, RecoverKeeps
  <2>5. CASE BeginRecon \/ FetchFills \/ ReadHistory \/ TakeSnapshot \/ AbandonRecon
    BY <2>5, ReconWorks
  <2>6. CASE SyncNewFills
    BY <2>6, SyncNewFillsKeeps
  <2>7. CASE Judge
    BY <2>7, JudgeKeeps
  <2>8. CASE Reset
    BY <2>8, ResetKeeps
  <2>9. CASE (\E T \in SessionEnds : ReadRecords(T)) \/ ReadPrevious \/ AbandonFold
    BY <2>9, FoldWorks
  <2>10. CASE Collapse
    BY <2>10, CollapseKeeps
  <2>11. CASE UNCHANGED vars
    BY <2>11, StutterKeeps
  <2> QED BY <2>1, <2>2, <2>3, <2>4, <2>5, <2>6, <2>7, <2>8, <2>9, <2>10, <2>11 DEF Next
<1> QED BY <1>1, <1>2, PTL DEF Spec

(* The types hold: no execution is held at a quantity never reported. *)
THEOREM TypeCorrect == Spec => []TypeOK
BY Inductive, PTL DEF IInv

(* What a compaction folded is never changed in the ledger afterwards. *)
THEOREM ClosedPeriodsStay == Spec => []FoldedUnchanged
BY Inductive, PTL DEF IInv

(* No baseline is saved while an order row is blocked. *)
THEOREM BaselineNeedsEvidence == Spec => NoBaselineOverConflict
<1>1. IInv /\ [Next]_vars => [bases' # bases => issue = {}]_vars
  <2> SUFFICES ASSUME IInv, Next, bases' # bases PROVE issue = {}
    BY DEF vars
  <2>1. Reset \/ Collapse
    BY DEF Next, Tick, Execute, Correct, Sync, Preview, Recover, BeginRecon, FetchFills,
           SyncNewFills, ReadHistory, TakeSnapshot, Judge, AbandonRecon, ReadRecords,
           ReadPrevious, AbandonFold
  <2>2. CASE Reset
    <3>1. recon.rows = Rows /\ recon.step = "judged"
      BY <2>2 DEF Reset, SaveBaseline, Valid
    <3> QED BY <3>1 DEF IInv, Looked, Rows
  <2>3. CASE Collapse
    <3>1. fold.rows = Rows /\ fold.step = "built"
      BY <2>3 DEF Collapse, SaveBaseline, Valid
    <3> QED BY <3>1 DEF IInv, Looked, Rows
  <2> QED BY <2>1, <2>2, <2>3
<1> QED BY <1>1, Inductive, PTL DEF Spec, NoBaselineOverConflict

(* A compaction leaves what the books count of every execution as it was. *)
THEOREM CompactionIsNeutral == Spec => CompactionKeepsBooks
<1>1. IInv /\ [Next]_vars => [Compacted => Books' = Books]_vars
  <2> SUFFICES ASSUME IInv, Next, Compacted PROVE Books' = Books
    BY DEF vars
  <2>0. /\ TypeOK /\ HasLatest /\ bases \in Seq(BaseType) /\ Len(bases) \in Nat
        /\ Latest.cut \in Nat /\ Latest.held \in Quantities /\ Latest.folded \in [Execs -> Nat]
        /\ \A i \in DOMAIN bases : bases[i].cut <= Latest.cut
        /\ ledger \in Quantities /\ at \in [Execs -> 0..MaxTime] /\ MaxTime \in Nat
    <3>1. TypeOK /\ HasLatest
      BY DEF IInv
    <3>2. bases \in Seq(BaseType)
      BY <3>1, BasesTyped
    <3>3. ledger \in Quantities /\ at \in [Execs -> 0..MaxTime] /\ MaxTime \in Nat
      BY <3>1, BaselineAssumption DEF TypeOK
    <3> QED BY <3>1, <3>2, <3>3, LatestBounds
  <2>1. Reset \/ Collapse
    <3>1. ~ UNCHANGED bases
      BY <2>0 DEF Compacted
    <3> QED BY <3>1 DEF Next, Tick, Execute, Correct, Sync, Preview, Recover, BeginRecon,
           FetchFills, SyncNewFills, ReadHistory, TakeSnapshot, Judge, AbandonRecon,
           ReadRecords, ReadPrevious, AbandonFold
  <2>2. CASE Reset
    <3> DEFINE b == [kind |-> "reset", cut |-> recon.checked,
                     held |-> recon.held, folded |-> Nothing]
    <3>1. bases' = Append(bases, b)
      BY <2>2, <2>0 DEF Reset, SaveBaseline, Compacted
    <3>2. b.kind = "reset"
      OBVIOUS
    <3> HIDE DEF b
    <3>3. bases'[Len(bases')] = b
      BY <3>1, <2>0
    <3> QED BY <3>2, <3>3 DEF Compacted
  <2>3. CASE Collapse
    <3>0. UNCHANGED <<at, ledger>>
      BY <2>3 DEF Collapse
    <3>1. bases' # bases
      BY <2>0 DEF Compacted
    <3>2. PICK b \in BaseType :
            /\ fold.cut \in Nat /\ Latest.cut <= fold.cut
            /\ b = [kind |-> "collapse", cut |-> fold.cut, held |-> Latest.held,
                    folded |-> Folded(Latest, Rows, fold.cut)]
            /\ Len(bases') = Len(bases) + 1 /\ bases'[Len(bases) + 1] = b
      BY <2>3, <3>1, CollapseFacts
    <3>3. /\ DOMAIN bases = 1..Len(bases) /\ DOMAIN bases' = 1..Len(bases')
          /\ \A i \in DOMAIN bases : bases'[i] = bases[i] /\ HasLatest'
      BY <2>3, CollapseFacts
    <3>4. Latest' = b
      <4>1. HasLatest' /\ bases' # <<>>
        BY <2>3, <3>2, <2>0, CollapseFacts
      <4>2. LatestId' \in DOMAIN bases' /\ Newest(LatestId', bases')
        <5> DEFINE P(i) == \A j \in DOMAIN bases' : \/ bases'[j].cut < bases'[i].cut
                                                    \/ bases'[j].cut = bases'[i].cut /\ j <= i
        <5>1. \E i \in DOMAIN bases' : P(i)
          BY <4>1 DEF HasLatest, Newest
        <5>2. LatestId' = CHOOSE i \in DOMAIN bases' : P(i)
          BY <4>1 DEF LatestId
        <5>3. LatestId' \in DOMAIN bases' /\ P(LatestId')
          <6> HIDE DEF P
          <6> QED BY <5>1, <5>2
        <5> QED BY <5>3 DEF Newest
      <4>3. Len(bases) + 1 \in DOMAIN bases'
        BY <2>0, <3>2, <3>3
      <4>4. b.cut = fold.cut
        BY <3>2
      <4>5. LatestId' = Len(bases) + 1
        <5>1. CASE LatestId' \in DOMAIN bases
          <6>1. bases'[LatestId'].cut <= Latest.cut /\ bases'[LatestId'] \in BaseType
            BY <5>1, <2>0, <3>3
          <6>2. bases'[LatestId'].cut \in Nat
            BY <6>1 DEF BaseType
          <6>3. LatestId' \in 1..Len(bases)
            BY <5>1, <3>3
          <6>4. \/ b.cut < bases'[LatestId'].cut
                \/ Len(bases) + 1 <= LatestId'
            BY <4>2, <4>3, <3>2 DEF Newest
          <6> QED BY <6>1, <6>2, <6>3, <6>4, <4>4, <3>2, <2>0
        <5>2. CASE ~ (LatestId' \in DOMAIN bases)
          BY <5>2, <4>2, <3>2, <3>3, <2>0, Intervals
        <5> QED BY <5>1, <5>2
      <4>6. Latest' = bases'[LatestId']
        BY <4>5, <2>0 DEF Latest, Baseline
      <4> QED BY <4>5, <4>6, <3>2
    <3>5. ASSUME NEW e \in Execs
          PROVE  Latest'.held[e] + Latest'.folded[e] + (IF at'[e] > Latest'.cut THEN ledger'[e] ELSE 0)
                   = Counted(Latest, e)
      <4>1. /\ b.held = Latest.held /\ b.cut = fold.cut
            /\ b.folded = Folded(Latest, Rows, fold.cut)
        BY <3>2
      <4>2. b.folded[e] =
              Latest.folded[e] + (IF at[e] > Latest.cut /\ at[e] <= fold.cut
                                  THEN ledger[e] ELSE 0)
        BY <3>2, <4>1, FoldedAdds
      <4>3. /\ ledger[e] \in 0..2 /\ at[e] \in 0..MaxTime
            /\ Latest.held[e] \in 0..2 /\ Latest.folded[e] \in Nat
        BY <2>0 DEF Quantities
      <4>4. ledger[e] \in Nat /\ at[e] \in Nat /\ Latest.held[e] \in Nat
        BY <2>0, <4>3
      <4>5. b.held[e] + b.folded[e] + (IF at[e] > b.cut THEN ledger[e] ELSE 0)
              = Latest.held[e] + Latest.folded[e] + (IF at[e] > Latest.cut THEN ledger[e] ELSE 0)
        <5>1. CASE at[e] > Latest.cut /\ at[e] <= fold.cut
          <6>1. ~ (at[e] > b.cut) /\ b.folded[e] = Latest.folded[e] + ledger[e]
            BY <5>1, <4>1, <4>2, <4>4, <3>2
          <6> QED BY <6>1, <5>1, <4>1, <4>3, <4>4
        <5>2. CASE ~ (at[e] > Latest.cut)
          <6>1. ~ (at[e] > b.cut) /\ b.folded[e] = Latest.folded[e]
            BY <5>2, <4>1, <4>2, <4>3, <4>4, <3>2, <2>0
          <6> QED BY <6>1, <5>2, <4>1
        <5>3. CASE at[e] > Latest.cut /\ ~ (at[e] <= fold.cut)
          <6>1. at[e] > b.cut /\ b.folded[e] = Latest.folded[e]
            BY <5>3, <4>1, <4>2, <4>3, <4>4, <3>2, <2>0
          <6> QED BY <6>1, <5>3, <4>1
        <5> QED BY <5>1, <5>2, <5>3
      <4> QED BY <3>0, <3>4, <4>5 DEF Counted
    <3> QED BY <3>5 DEF Books, Counted
  <2> QED BY <2>1, <2>2, <2>3
<1> QED BY <1>1, Inductive, PTL DEF Spec, CompactionKeepsBooks
=============================================================================
