--------------------------- MODULE EventOutboxProofs ---------------------------
(* What the outbox keeps for any number of events, dispatchers, batch size and  *)
(* time budget: the delivery contract, by refinement, and the facts it needs.   *)
EXTENDS EventOutbox, TLAPS

Owed == {e \in Events : row[e] \in {"pending", "published"}}

\* A batch that goes on has time left.
BudgetLeft == \A d \in Dispatchers : job[d].pc = "publish" => job[d].spent < Budget

\* Whatever is in a batch, on the wire or at the broker was committed.
OnlyOwed ==
    /\ \A d \in Dispatchers : job[d].todo \subseteq Owed
    /\ \A e \in Events : e \in wire \cup stored => e \in Owed

\* created_at tells appended rows apart.
Stamps ==
    \A e \in Events :
        /\ stamp[e] <= clock
        /\ row[e] # "none" => stamp[e] > 0
        /\ \A f \in Events \ {e} : stamp[e] = stamp[f] => stamp[e] = 0

\* A published row and a publication taken for a success have their message at the
\* broker.
Stored ==
    /\ \A e \in Events : row[e] = "published" => e \in stored
    /\ \A d \in Dispatchers, e \in Events : job[d].pc = "sent" /\ Current(d, e) => e \in stored

--------------------------------------------------------------------------------

\* Init establishes every part of the invariant.
LEMMA InitOK == Init => /\ TypeOK /\ BudgetLeft /\ OnlyOwed /\ Stamps /\ Stored
                        /\ PublishedHasNoError
  BY BudgetAssumption
     DEF Init, TypeOK, BudgetLeft, OnlyOwed, Stamps, Stored,
         PublishedHasNoError, RowState, Job, Idle, Owed

\* What the step from one row of a batch to the next leaves in the job.
LEMMA ProceedJob ==
  ASSUME TypeOK, NEW d \in Dispatchers, NEW e \in Events, Proceed(d, e)
  PROVE  /\ job' \in [Dispatchers -> Job]
         /\ job'[d].pc \in {"idle", "publish"}
         /\ job'[d].pc = "publish" => job'[d].spent < Budget
         /\ job'[d].todo \subseteq job[d].todo
         /\ \A c \in Dispatchers \ {d} : job'[c] = job[c]
  <1>1. Idle \in Job
    BY BudgetAssumption DEF Idle, Job
  <1>2. job[d] \in Job
    BY DEF TypeOK
  <1>3. CASE job[d].todo = {e} \/ job[d].spent >= Budget
    BY <1>1, <1>2, <1>3 DEF Proceed, Become, TypeOK, Idle
  <1>4. CASE ~(job[d].todo = {e} \/ job[d].spent >= Budget)
    <2> DEFINE j == [job[d] EXCEPT !.pc = "publish", !.todo = @ \ {e}]
    <2>1. j \in Job /\ j.pc = "publish" /\ j.todo \subseteq job[d].todo /\ j.spent = job[d].spent
      BY <1>2 DEF Job
    <2>2. job' = [job EXCEPT ![d] = j]
      BY <1>4 DEF Proceed, Become
    <2>3. job[d].spent < Budget
      BY <1>2, <1>4, BudgetAssumption DEF Job
    <2> QED
      BY <2>1, <2>2, <2>3 DEF TypeOK
  <1> QED
    BY <1>3, <1>4

\* What an attempt to publish leaves in the job.
LEMMA AttemptJob ==
  ASSUME TypeOK, BudgetLeft, NEW d \in Dispatchers, NEW t \in 0..1,
         NEW outcome \in {"sent", "failed"}, job[d].pc = "publish",
         Become(d, [job[d] EXCEPT !.pc = outcome, !.spent = @ + t])
  PROVE  /\ job' \in [Dispatchers -> Job]
         /\ job'[d].pc = outcome
         /\ job'[d].todo = job[d].todo
         /\ \A c \in Dispatchers \ {d} : job'[c] = job[c]
  <1> DEFINE j == [job[d] EXCEPT !.pc = outcome, !.spent = @ + t]
  <1>1. job[d] \in Job /\ job[d].spent < Budget
    BY DEF TypeOK, BudgetLeft
  <1>2. job[d].spent + t \in 0..Budget
    BY <1>1, BudgetAssumption DEF Job
  <1>3. j \in Job /\ j.pc = outcome /\ j.todo = job[d].todo
    BY <1>1, <1>2 DEF Job
  <1> QED
    BY <1>3 DEF Become, TypeOK

\* Type correctness is preserved by every step.
LEMMA TypeStep == TypeOK /\ BudgetLeft /\ [Next]_vars => TypeOK' /\ BudgetLeft'
  <1> SUFFICES ASSUME TypeOK, BudgetLeft, [Next]_vars
               PROVE  TypeOK' /\ BudgetLeft'
    OBVIOUS
  <1>1. ASSUME NEW e \in Events, Producing(e)
        PROVE  TypeOK' /\ BudgetLeft'
    BY <1>1 DEF Producing, Append, Commit, Rollback, TypeOK, BudgetLeft, RowState, Broker
  <1>2. ASSUME NEW e \in Events, AtBroker(e)
        PROVE  TypeOK' /\ BudgetLeft'
    <2>1. CASE Arrives(e)
      BY <2>1 DEF Arrives, Store, TypeOK, BudgetLeft
    <2>2. CASE WireLoses(e)
      BY <2>2 DEF WireLoses, TypeOK, BudgetLeft
    <2> QED
      BY <1>2, <2>1, <2>2 DEF AtBroker
  <1>3. ASSUME NEW d \in Dispatchers, List(d)
        PROVE  TypeOK' /\ BudgetLeft'
    <2>1. PICK batch \in SUBSET Unpublished :
             Become(d, [pc |-> "publish", todo |-> batch, spent |-> 0])
      BY <1>3 DEF List
    <2>2. [pc |-> "publish", todo |-> batch, spent |-> 0] \in Job
      BY BudgetAssumption DEF Job, Unpublished
    <2> QED
      BY <1>3, <2>1, <2>2, BudgetAssumption DEF List, Become, TypeOK, BudgetLeft, Broker
  <1>4. ASSUME NEW d \in Dispatchers, Abort(d)
        PROVE  TypeOK' /\ BudgetLeft'
    <2>1. Idle \in Job
      BY BudgetAssumption DEF Idle, Job
    <2> QED
      BY <1>4, <2>1 DEF Abort, Become, TypeOK, BudgetLeft, Broker, Idle
  <1>5. ASSUME NEW d \in Dispatchers, NEW e \in Events, Publishing(d, e)
        PROVE  TypeOK' /\ BudgetLeft'
    <2>1. CASE Accepted(d, e)
      BY <2>1, AttemptJob DEF Accepted, Store, TypeOK, BudgetLeft
    <2>2. CASE TimedOut(d, e)
      <3>1. wire' \subseteq Events
        BY <2>2 DEF TimedOut, TypeOK
      <3>2. \E t \in 0..1 : Become(d, [job[d] EXCEPT !.pc = "failed", !.spent = @ + t])
        BY <2>2 DEF TimedOut
      <3> QED
        BY <2>2, <3>1, <3>2, AttemptJob DEF TimedOut, TypeOK, BudgetLeft
    <2>3. CASE Refused(d, e)
      BY <2>3, AttemptJob DEF Refused, TypeOK, BudgetLeft, Broker
    <2>4. CASE CloseFailed(d, e)
      BY <2>4, AttemptJob DEF CloseFailed, Store, TypeOK, BudgetLeft
    <2>5. CASE MarkPublished(d, e)
      <3>1. row' \in [Events -> RowState]
        BY <2>5 DEF MarkPublished, TypeOK, RowState
      <3> QED
        BY <2>5, <3>1, ProceedJob DEF MarkPublished, TypeOK, BudgetLeft, Broker
    <2>6. CASE RecordFailure(d, e)
      <3>1. failing' \subseteq Events
        BY <2>6 DEF RecordFailure, TypeOK
      <3> QED
        BY <2>6, <3>1, ProceedJob DEF RecordFailure, TypeOK, BudgetLeft, Broker
    <2> QED
      BY <1>5, <2>1, <2>2, <2>3, <2>4, <2>5, <2>6 DEF Publishing
  <1>6. CASE UNCHANGED vars
    BY <1>6 DEF vars, TypeOK, BudgetLeft
  <1> QED
    BY <1>1, <1>2, <1>3, <1>4, <1>5, <1>6 DEF Next

\* The variables keep their types, and a batch never overruns max_batch_seconds
\* (dispatch_pending), for every batch size, budget and number of dispatchers.
THEOREM TypeCorrect == Spec => []TypeOK
  <1>1. Init => TypeOK /\ BudgetLeft
    BY InitOK
  <1> QED
    BY <1>1, TypeStep, PTL DEF Spec

--------------------------------------------------------------------------------

\* What a step does to rows, batches and messages, as far as the contract goes.
LEMMA OnlyOwedStep ==
  TypeOK /\ BudgetLeft /\ OnlyOwed /\ [Next]_vars => OnlyOwed'
  <1> SUFFICES ASSUME TypeOK, BudgetLeft, OnlyOwed, [Next]_vars
               PROVE  OnlyOwed'
    OBVIOUS
  <1>1. ASSUME NEW e \in Events, Producing(e)
        PROVE  OnlyOwed'
    BY <1>1 DEF Producing, Append, Commit, Rollback, TypeOK, OnlyOwed, Owed, RowState, Broker
  <1>2. ASSUME NEW e \in Events, AtBroker(e)
        PROVE  OnlyOwed'
    <2>1. CASE Arrives(e)
      BY <2>1 DEF Arrives, Store, OnlyOwed, Owed
    <2>2. CASE WireLoses(e)
      BY <2>2 DEF WireLoses, OnlyOwed, Owed
    <2> QED
      BY <1>2, <2>1, <2>2 DEF AtBroker
  <1>3. ASSUME NEW d \in Dispatchers, List(d)
        PROVE  OnlyOwed'
    <2>1. PICK batch \in SUBSET Unpublished :
             Become(d, [pc |-> "publish", todo |-> batch, spent |-> 0])
      BY <1>3 DEF List
    <2> QED
      BY <1>3, <2>1 DEF List, Become, TypeOK, OnlyOwed, Owed, Unpublished, Broker
  <1>4. ASSUME NEW d \in Dispatchers, Abort(d)
        PROVE  OnlyOwed'
    BY <1>4 DEF Abort, Become, TypeOK, OnlyOwed, Owed, Broker, Idle
  <1>5. ASSUME NEW d \in Dispatchers, NEW e \in Events, Publishing(d, e)
        PROVE  OnlyOwed'
    <2>0. Current(d, e) /\ e \in Owed
      BY <1>5 DEF Publishing, Accepted, TimedOut, Refused, CloseFailed, MarkPublished,
                  RecordFailure, Current, OnlyOwed
    <2>1. CASE Accepted(d, e)
      BY <2>0, <2>1, AttemptJob DEF Accepted, Store, OnlyOwed, Owed
    <2>2. CASE TimedOut(d, e)
      <3>1. wire' \subseteq wire \cup {e}
        BY <2>2 DEF TimedOut
      <3>2. \E t \in 0..1 : Become(d, [job[d] EXCEPT !.pc = "failed", !.spent = @ + t])
        BY <2>2 DEF TimedOut
      <3>3. \A c \in Dispatchers : job'[c].todo = job[c].todo
        BY <2>2, <3>2, AttemptJob DEF TimedOut
      <3>4. row' = row /\ stored' = stored
        BY <2>2 DEF TimedOut
      <3> QED
        BY <2>0, <3>1, <3>3, <3>4 DEF OnlyOwed, Owed
    <2>3. CASE Refused(d, e)
      BY <2>3, AttemptJob DEF Refused, OnlyOwed, Owed, Broker
    <2>4. CASE CloseFailed(d, e)
      <3>1. \A c \in Dispatchers : job'[c].todo = job[c].todo
        BY <2>4, AttemptJob DEF CloseFailed
      <3>2. stored' = stored \cup {e}
        BY <2>4 DEF CloseFailed, Store
      <3>3. row' = row /\ wire' = wire
        BY <2>4 DEF CloseFailed
      <3> QED
        BY <2>0, <3>1, <3>2, <3>3 DEF OnlyOwed, Owed
    <2>5. CASE MarkPublished(d, e)
      <3>1. Owed \subseteq Owed'
        BY <2>5 DEF MarkPublished, TypeOK, Owed
      <3>2. \A c \in Dispatchers : job'[c].todo \subseteq job[c].todo
        BY <2>5, ProceedJob DEF MarkPublished
      <3>3. wire' = wire /\ stored' = stored
        BY <2>5 DEF MarkPublished, Broker
      <3> QED
        BY <3>1, <3>2, <3>3 DEF OnlyOwed
    <2>6. CASE RecordFailure(d, e)
      BY <2>6, ProceedJob DEF RecordFailure, OnlyOwed, Owed, Broker
    <2> QED
      BY <1>5, <2>1, <2>2, <2>3, <2>4, <2>5, <2>6 DEF Publishing
  <1>6. CASE UNCHANGED vars
    BY <1>6 DEF vars, OnlyOwed, Owed
  <1> QED
    BY <1>1, <1>2, <1>3, <1>4, <1>5, <1>6 DEF Next

\* A batch looks at created_at of committed rows only, which never changes.
LEMMA SameCurrent ==
  ASSUME TypeOK, OnlyOwed, [Next]_vars, NEW d \in Dispatchers, NEW e \in Events,
         job'[d].todo = job[d].todo, Current(d, e)'
  PROVE  Current(d, e)
  <1>1. ASSUME NEW f \in Owed PROVE stamp'[f] = stamp[f]
    <2>1. stamp' = stamp \/ \E g \in Events : row[g] = "none" /\ stamp' = [stamp EXCEPT ![g] = clock + 1]
      BY DEF Next, vars, Producing, Append, Commit, Rollback, AtBroker, Arrives, WireLoses, List, Abort, Publishing, Accepted, TimedOut, Refused, CloseFailed,
             MarkPublished, RecordFailure
    <2> QED
      BY <2>1 DEF Owed, TypeOK
  <1>2. job[d].todo \subseteq Owed
    BY DEF OnlyOwed
  <1> QED
    BY <1>1, <1>2 DEF Current

\* Messages never leave the broker, so what was stored stays stored.
LEMMA StoredGrows ==
  ASSUME [Next]_vars
  PROVE  stored \subseteq stored'
  <1>1. stored' = stored \/ \E f \in Events : Store(f)
    BY ZenonT(40) DEF Next, vars, Producing, Append, Commit, Rollback, AtBroker, Arrives, WireLoses,
           List, Abort, Publishing, Accepted, TimedOut, Refused, CloseFailed,
           MarkPublished, RecordFailure, Broker
  <1> QED
    BY <1>1 DEF Store

\* Only an append takes a stamp, and it takes a fresh one.
LEMMA StampsStep == TypeOK /\ OnlyOwed /\ Stamps /\ [Next]_vars => Stamps'
  <1> SUFFICES ASSUME TypeOK, OnlyOwed, Stamps, [Next]_vars
               PROVE  Stamps'
    OBVIOUS
  <1>1. ASSUME NEW e \in Events, Append(e)
        PROVE  Stamps'
    BY <1>1 DEF Append, TypeOK, Stamps
  <1>2. CASE /\ stamp' = stamp /\ clock' = clock
             /\ \A e \in Events : row[e] = "none" => row'[e] = "none"
    BY <1>2 DEF Stamps
  <1>3. \/ \E e \in Events : Append(e)
        \/ /\ stamp' = stamp /\ clock' = clock
           /\ \/ row' = row
              \/ \E d \in Dispatchers, e \in Events : MarkPublished(d, e)
              \/ \E e \in Events : Commit(e) \/ Rollback(e)
    BY ZenonT(40) DEF Next, vars, Producing, AtBroker, Arrives, WireLoses, Commit, Rollback,
           List, Abort, Publishing, Accepted, TimedOut, Refused, CloseFailed,
           MarkPublished, RecordFailure
  <1>4. ASSUME NEW e \in Events, Commit(e) \/ Rollback(e)
        PROVE  \A f \in Events : row[f] = "none" => row'[f] = "none"
    BY <1>4 DEF Commit, Rollback, TypeOK
  <1>5. ASSUME NEW d \in Dispatchers, NEW e \in Events, MarkPublished(d, e)
        PROVE  \A f \in Events : row[f] = "none" => row'[f] = "none"
    BY <1>5 DEF MarkPublished, Current, OnlyOwed, Owed, TypeOK
  <1> QED
    BY <1>1, <1>2, <1>3, <1>4, <1>5

\* A row is marked after its message was stored, by a batch that saw it stored.
LEMMA StoredStep ==
  TypeOK /\ BudgetLeft /\ OnlyOwed /\ Stamps /\ Stored /\ [Next]_vars => Stored'
  <1> SUFFICES ASSUME TypeOK, BudgetLeft, OnlyOwed, Stamps, Stored, [Next]_vars
               PROVE  Stored'
    OBVIOUS
  <1>1. ASSUME NEW e \in Events, row'[e] = "published"
        PROVE  e \in stored'
    <2>1. row[e] = "published" \/ \E d \in Dispatchers : MarkPublished(d, e)
      <3>1. CASE row' = row
        BY <1>1, <3>1
      <3>2. ASSUME NEW f \in Events, Append(f) \/ Commit(f) \/ Rollback(f)
            PROVE  row[e] = "published"
        BY <1>1, <3>2 DEF Append, Commit, Rollback, TypeOK
      <3>3. ASSUME NEW d \in Dispatchers, NEW f \in Events, MarkPublished(d, f)
            PROVE  row[e] = "published" \/ MarkPublished(d, e)
        BY <1>1, <3>3 DEF MarkPublished, TypeOK
      <3> QED
        BY <3>1, <3>2, <3>3
           DEF Next, vars, Producing, AtBroker, Arrives, WireLoses, List, Abort,
               Publishing, Accepted, TimedOut, Refused, CloseFailed, RecordFailure
    <2>2. e \in stored
      BY <2>1 DEF MarkPublished, Stored
    <2> QED
      BY <2>2, StoredGrows
  <1>2. ASSUME NEW d \in Dispatchers, NEW e \in Events, job'[d].pc = "sent", Current(d, e)'
        PROVE  e \in stored'
    <2>1. ASSUME job'[d] = job[d]
          PROVE  e \in stored'
      <3>1. Current(d, e)
        BY <1>2, <2>1, SameCurrent
      <3>2. e \in stored
        BY <1>2, <2>1, <3>1 DEF Stored
      <3> QED
        BY <3>2, StoredGrows
    <2>2. ASSUME NEW f \in Events, Accepted(d, f)
          PROVE  e \in stored'
      <3>1. job'[d].todo = job[d].todo
        BY <2>2, AttemptJob DEF Accepted
      <3>2. Current(d, e) /\ Current(d, f)
        BY <1>2, <2>2, <3>1, SameCurrent DEF Accepted
      <3>3. stamp[e] = stamp[f]
        BY <3>2 DEF Current, TypeOK
      <3>4. e \in Owed
        BY <3>2 DEF Current, OnlyOwed
      <3>5. e = f
        BY <3>3, <3>4 DEF Stamps, Owed, TypeOK
      <3> QED
        BY <2>2, <3>5 DEF Accepted, Store
    <2>3. job'[d] = job[d] \/ \E f \in Events : Accepted(d, f)
      <3>1. CASE job' = job
        BY <3>1
      <3>2. ASSUME NEW c \in Dispatchers, List(c) \/ Abort(c)
            PROVE  job'[d] = job[d]
        BY <1>2, <3>2 DEF List, Abort, Become, TypeOK, Idle
      <3>3. ASSUME NEW c \in Dispatchers, NEW f \in Events, Publishing(c, f)
            PROVE  job'[d] = job[d] \/ Accepted(d, f)
        <4>1. CASE Accepted(c, f)
          BY <4>1, AttemptJob DEF Accepted
        <4>2. CASE TimedOut(c, f)
          <5>1. \E t \in 0..1 : Become(c, [job[c] EXCEPT !.pc = "failed", !.spent = @ + t])
            BY <4>2 DEF TimedOut
          <5> QED
            BY <1>2, <4>2, <5>1, AttemptJob DEF TimedOut
        <4>3. CASE Refused(c, f)
          BY <1>2, <4>3, AttemptJob DEF Refused
        <4>4. CASE CloseFailed(c, f)
          BY <1>2, <4>4, AttemptJob DEF CloseFailed
        <4>5. CASE MarkPublished(c, f) \/ RecordFailure(c, f)
          BY <1>2, <4>5, ProceedJob DEF MarkPublished, RecordFailure
        <4> QED
          BY <3>3, <4>1, <4>2, <4>3, <4>4, <4>5 DEF Publishing
      <3> QED
        BY <3>1, <3>2, <3>3
           DEF Next, vars, Producing, Append, Commit, Rollback, AtBroker, Arrives, WireLoses
    <2> QED
      BY <2>1, <2>2, <2>3
  <1> QED
    BY <1>1, <1>2 DEF Stored

\* An error is recorded on unpublished rows only, and publishing clears it.
LEMMA NoErrorStep ==
  TypeOK /\ OnlyOwed /\ PublishedHasNoError /\ [Next]_vars => PublishedHasNoError'
  <1> SUFFICES ASSUME TypeOK, OnlyOwed, PublishedHasNoError, [Next]_vars
               PROVE  PublishedHasNoError'
    OBVIOUS
  <1>1. ASSUME NEW e \in Events, Producing(e)
        PROVE  PublishedHasNoError'
    BY <1>1 DEF Producing, Append, Commit, Rollback, TypeOK, PublishedHasNoError
  <1>2. ASSUME NEW d \in Dispatchers, NEW e \in Events, MarkPublished(d, e)
        PROVE  PublishedHasNoError'
    BY <1>2 DEF MarkPublished, TypeOK, PublishedHasNoError
  <1>3. ASSUME NEW d \in Dispatchers, NEW e \in Events, RecordFailure(d, e)
        PROVE  PublishedHasNoError'
    BY <1>3 DEF RecordFailure, PublishedHasNoError
  <1>4. CASE row' = row /\ failing' = failing
    BY <1>4 DEF PublishedHasNoError
  <1> QED
    BY <1>1, <1>2, <1>3, <1>4
       DEF Next, vars, AtBroker, Arrives, WireLoses, List, Abort, Publishing,
           Accepted, TimedOut, Refused, CloseFailed

--------------------------------------------------------------------------------

\* The inductive invariant of the outbox.
IInv ==
    TypeOK /\ BudgetLeft /\ OnlyOwed /\ Stamps /\ Stored /\ PublishedHasNoError

\* It holds throughout every behaviour.
LEMMA Inductive == Spec => []IInv
  <1>1. Init => IInv
    BY InitOK DEF IInv
  <1>2. IInv /\ [Next]_vars => IInv'
    BY TypeStep, OnlyOwedStep, StampsStep, StoredStep, NoErrorStep DEF IInv
  <1> QED
    BY <1>1, <1>2, PTL DEF Spec

\* No published row carries an error (record_platform_event_publish_failure and
\* mark_platform_event_published of any number of dispatchers).
THEOREM NoError == Spec => []PublishedHasNoError
  <1>1. IInv => PublishedHasNoError
    BY DEF IInv
  <1> QED
    BY <1>1, Inductive, PTL

\* The outbox implements the delivery contract of module EventDelivery: each step
\* commits, delivers or settles one event, or changes nothing the contract sees.
THEOREM Contract == Spec => KeepsContract
  <1> DEFINE owed == {e \in Events : row[e] \in {"pending", "published"}}
             settled == {e \in Events : row[e] = "published"}
  <1>1. Init => Delivery!Init
    BY DEF Init, Delivery!Init
  <1>2. IInv /\ [Next]_vars => [Delivery!Next]_(Delivery!vars)
    <2> SUFFICES ASSUME IInv, [Next]_vars
                 PROVE  [Delivery!Next]_(Delivery!vars)
      OBVIOUS
    <2>0. TypeOK /\ OnlyOwed /\ Stored
      BY DEF IInv
    <2>1. ASSUME NEW e \in Events, Append(e) \/ Rollback(e)
          PROVE  UNCHANGED Delivery!vars
      <3>1. owed' = owed /\ settled' = settled /\ stored' = stored
        BY <2>0, <2>1 DEF Append, Rollback, TypeOK, Broker
      <3> QED
        BY <3>1 DEF Delivery!vars
    <2>2. ASSUME NEW e \in Events, Commit(e)
          PROVE  Delivery!Commit(e)
      <3>1. e \notin owed /\ owed' = owed \cup {e} /\ settled' = settled
            /\ stored' = stored
        BY <2>0, <2>2 DEF Commit, TypeOK, Broker
      <3> QED
        BY <3>1 DEF Delivery!Commit
    <2>3. ASSUME NEW e \in Events, Store(e), row' = row, e \in Owed
          PROVE  Delivery!Deliver(e) \/ UNCHANGED Delivery!vars
      <3>1. owed' = owed /\ settled' = settled
        BY <2>3
      <3>2. stored' = stored \cup {e}
        BY <2>3 DEF Store
      <3>3. e \in owed
        BY <2>3 DEF Owed
      <3> QED
        BY <3>1, <3>2, <3>3 DEF Delivery!Deliver, Delivery!vars
    <2>4. ASSUME NEW d \in Dispatchers, NEW e \in Events, MarkPublished(d, e)
          PROVE  Delivery!Settle(e)
      <3>1. e \in stored
        BY <2>0, <2>4 DEF MarkPublished, Stored
      <3>2. e \in owed
        BY <2>0, <2>4 DEF MarkPublished, Current, OnlyOwed, Owed
      <3>3. owed' = owed /\ settled' = settled \cup {e} /\ stored' = stored
        BY <2>0, <2>4, <3>2 DEF MarkPublished, TypeOK, Broker
      <3> QED
        BY <3>1, <3>3 DEF Delivery!Settle
    <2>5. CASE row' = row /\ stored' = stored
      BY <2>5 DEF Delivery!vars
    <2>6. ASSUME NEW d \in Dispatchers, NEW e \in Events, Accepted(d, e) \/ CloseFailed(d, e)
          PROVE  Store(e) /\ row' = row /\ e \in Owed
      BY <2>0, <2>6 DEF Accepted, CloseFailed, Current, OnlyOwed
    <2>7. ASSUME NEW e \in Events, Arrives(e)
          PROVE  Store(e) /\ row' = row /\ e \in Owed
      BY <2>0, <2>7 DEF Arrives, OnlyOwed
    <2>8. \/ row' = row /\ stored' = stored
          \/ \E e \in Events : Append(e) \/ Rollback(e) \/ Commit(e) \/ Arrives(e)
          \/ \E d \in Dispatchers, e \in Events :
                MarkPublished(d, e) \/ Accepted(d, e) \/ CloseFailed(d, e)
      BY DEF Next, vars, Producing, AtBroker, WireLoses, List, Abort,
             Publishing, TimedOut, Refused, RecordFailure, Broker
    <2> QED
      BY <2>1, <2>2, <2>3, <2>4, <2>5, <2>6, <2>7, <2>8 DEF Delivery!Next
  <1> QED
    BY <1>1, <1>2, Inductive, PTL DEF Spec, KeepsContract, Delivery!Spec
================================================================================
