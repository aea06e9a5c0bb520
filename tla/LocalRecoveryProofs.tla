------------------------ MODULE LocalRecoveryProofs ------------------------
(***************************************************************************)
(* Proofs about LocalRecovery for every list of services.                  *)
(***************************************************************************)
EXTENDS LocalRecovery, TLAPS

ServiceTasks == {"pause", "halt", "kill", "hold", "resume", "run"}

\* The locks, the flags that were read under them, and the records.
IInv ==
  /\ TypeOK
  /\ op.at = "ready" => worker.at \notin Holding
  /\ op.at \in ServiceTasks => op.service \in Services
  /\ op.at = "halt" => op.service \in Backups
  /\ op.at \in {"pause", "hold", "resume", "run"} => op.service \notin Backups
  /\ worker.at \in Holding => worker.i \in Index
  /\ shell # None <=> worker.at = "wait"
  /\ worker.at \in {"look", "launch"} => Looking \in Enabled \ paused /\ ~stopFile
  /\ cooling \subseteq disk
  /\ worker.at \notin {"off", "load"} => cooling \subseteq mem

\* The indices are an initial segment of the numbers, and each names a service.
LEMMA IndexFacts ==
  /\ Len(Order) \in Nat /\ Index = 1..Len(Order)
  /\ \A i \in Index : Order[i] \in Services /\ i + 1 \in 1..(Len(Order) + 1)
  /\ 1 \in 1..(Len(Order) + 1) /\ Enabled \subseteq Services /\ None \notin Services
  /\ Guarded \subseteq Services \ Backups /\ Backups \subseteq Services
<1>1. Len(Order) \in Nat /\ Index = 1..Len(Order)
  BY RecoveryAssumption DEF Index
<1>2. \A i \in Index : Order[i] \in Services
  BY DEF Services
<1>. QED BY <1>1, <1>2, RecoveryAssumption

\* The invariant holds initially.
LEMMA InvInit ==
  ASSUME Init PROVE IInv
BY IndexFacts DEF Init, IInv, TypeOK, Worker, Task, Places, Tasks, Holding, ServiceTasks

\* The worker keeps it.
LEMMA WorkerKeeps ==
  ASSUME IInv, WorkerStep \/ Crash
  PROVE  IInv'
<1>. USE DEF flags, records, host, desk, At, Worker, Holding, Looking
<1>t. TypeOK
  BY DEF IInv
<1>1. CASE Load
  BY <1>1, IndexFacts DEF Load, IInv, TypeOK, Places
<1>2. CASE Loop
  BY <1>2, IndexFacts DEF Loop, IInv, TypeOK, Places
<1>3. CASE Enter
  <2>1. CASE worker' = Worker("save", 1) /\ UNCHANGED lock
    BY <1>3, <2>1, IndexFacts DEF Enter, IInv, TypeOK, Places
  <2>2. CASE worker' = Worker("rest", 1) /\ UNCHANGED lock
    BY <1>3, <2>2, IndexFacts DEF Enter, IInv, TypeOK, Places
  <2>3. CASE worker.i \in Index /\ worker' = Next1 /\ UNCHANGED lock
    BY <1>3, <2>3, IndexFacts DEF Enter, IInv, TypeOK, Places, Next1
  <2>4. CASE /\ worker.i \in Index /\ lock = "free" /\ ~stopFile /\ Looking \in Enabled \ paused
             /\ lock' = "worker" /\ worker' = Worker("look", worker.i)
    BY <1>3, <2>4, IndexFacts DEF Enter, IInv, TypeOK, Places
  <2>. QED BY <1>3, <2>1, <2>2, <2>3, <2>4 DEF Enter
<1>4. CASE Healthy
  BY <1>4, IndexFacts DEF Healthy, IInv, TypeOK, Places, Next1
<1>5. CASE Wait
  BY <1>5, IndexFacts DEF Wait, IInv, TypeOK, Places, Next1
<1>6. CASE Record
  <2>1. Looking \in Services /\ worker.i \in Index
    BY <1>6, IndexFacts DEF Record, IInv
  <2>. QED BY <1>6, <2>1, IndexFacts DEF Record, IInv, TypeOK, Places
<1>7. CASE Launch
  <2>1. Looking \in Services /\ worker.i \in Index
    BY <1>7, IndexFacts DEF Launch, IInv
  <2>. QED BY <1>7, <2>1, IndexFacts DEF Launch, IInv, TypeOK, Places
<1>8. CASE Repaired
  <2>1. shell \in Services /\ worker.i \in Index /\ op.at # "ready"
    BY <1>8 DEF Repaired, IInv, TypeOK
  <2>. QED BY <1>8, <2>1, IndexFacts DEF Repaired, Stays, IInv, TypeOK, Places, Next1
<1>9. CASE Save
  BY <1>9, IndexFacts DEF Save, IInv, TypeOK, Places
<1>10. CASE Rest \/ Exit
  BY <1>10, IndexFacts DEF Rest, Exit, IInv, TypeOK, Places
<1>11. CASE Crash
  BY <1>11, IndexFacts DEF Crash, LeftBehind, IInv, TypeOK, Places
<1>. QED
  BY <1>1, <1>2, <1>3, <1>4, <1>5, <1>6, <1>7, <1>8, <1>9, <1>10, <1>11 DEF WorkerStep

\* So do the scripts.
LEMMA ScriptsKeep ==
  ASSUME IInv, Scripts
  PROVE  IInv'
<1>. USE DEF flags, records, host, desk, At, Worker, Task, Doing, Holding, Looking, Tasks, ServiceTasks
<1>f. Free => worker.at \notin Holding /\ op.at # "ready"
  BY DEF Free, IInv, TypeOK
<1>1. CASE Pause
  BY <1>1, <1>f DEF Pause, IInv, TypeOK
<1>2. CASE Resume
  BY <1>2, <1>f DEF Resume, IInv, TypeOK
<1>11. CASE Halt
  BY <1>11 DEF Halt, IInv, TypeOK
<1>3. CASE Kill
  BY <1>3 DEF Kill, IInv, TypeOK
<1>4. CASE Run
  BY <1>4 DEF Run, IInv, TypeOK
<1>5. CASE Stop
  BY <1>5, <1>f DEF Stop, IInv, TypeOK
<1>6. CASE WorkerGone
  BY <1>6 DEF WorkerGone, IInv, TypeOK
<1>7. CASE KillAll
  BY <1>7, <1>f DEF KillAll, IInv, TypeOK
<1>8. CASE RunAll
  BY <1>8, <1>f, IndexFacts DEF RunAll, IInv, TypeOK
<1>9. CASE Start
  <2>1. CASE At("off") /\ worker' = Worker("load", 1) /\ lock' = "operator" /\ op' = Task("ready", None)
    BY <1>9, <2>1, <1>f, IndexFacts DEF Start, IInv, TypeOK, Places
  <2>2. CASE op' = Task("idle", None) /\ UNCHANGED <<worker, lock>>
    BY <1>9, <2>2, <1>f DEF Start, IInv, TypeOK
  <2>. QED BY <1>9, <2>1, <2>2 DEF Start
<1>10. CASE Ready
  BY <1>10 DEF Ready, IInv, TypeOK
<1>. QED
  BY <1>1, <1>2, <1>3, <1>4, <1>5, <1>6, <1>7, <1>8, <1>9, <1>10, <1>11 DEF Scripts

\* And the host and the choices of the operator.
LEMMA RestKeeps ==
  ASSUME IInv, NEW s \in Services,
         StopService(s) \/ StartService(s) \/ Cools(s) \/ Dies(s) \/ OrphanEnds(s)
         \/ StopPlatform \/ StartPlatform \/ Toggle
  PROVE  IInv'
<1>. USE DEF flags, records, host, desk, At, Task, Doing, Holding, Looking, Tasks, ServiceTasks
<1>1. CASE StopService(s) \/ StartService(s) \/ StopPlatform \/ StartPlatform
  BY <1>1, IndexFacts DEF StopService, StartService, StopPlatform, StartPlatform, IInv, TypeOK
<1>2. CASE Cools(s)
  BY <1>2 DEF Cools, IInv, TypeOK
<1>4. CASE Dies(s)
  BY <1>4 DEF Dies, IInv, TypeOK
<1>5. CASE Toggle
  BY <1>5 DEF Toggle, IInv, TypeOK
<1>3. CASE OrphanEnds(s)
  BY <1>3 DEF OrphanEnds, Stays, IInv, TypeOK
<1>. QED BY <1>1, <1>2, <1>3, <1>4, <1>5

\* The invariant is inductive.
LEMMA InvStep ==
  ASSUME IInv, [Next]_vars
  PROVE  IInv'
<1>1. CASE UNCHANGED vars
  BY <1>1 DEF vars, flags, records, host, desk, IInv, TypeOK, Looking
<1>2. ASSUME StopPlatform \/ StartPlatform \/ Toggle PROVE IInv'
  <2>1. CASE StopPlatform \/ StartPlatform
    BY <2>1 DEF StopPlatform, StartPlatform, Doing, Task, flags, records, host, IInv, TypeOK, Looking, Tasks, ServiceTasks
  <2>2. CASE Toggle
    BY <2>2 DEF Toggle, flags, records, desk, IInv, TypeOK, Looking
  <2>. QED BY <1>2, <2>1, <2>2
<1>. QED BY <1>1, <1>2, WorkerKeeps, ScriptsKeep, RestKeeps DEF Next

\* Types, and the mutual exclusion of the control lock.
THEOREM TypeCorrect == Spec => []TypeOK
<1>1. IInv => TypeOK
  BY DEF IInv
<1>. QED BY <1>1, InvInit, InvStep, PTL DEF Spec

\* No repair starts for a service that was paused or is not wanted, or after a stop.
THEOREM CommandsHonoured == Spec => RepairHonoursCommands
<1>1. IInv /\ [Next]_vars =>
        [shell' # shell /\ shell' # None => shell' \in Enabled \ paused /\ ~stopFile]_vars
  <2>1. ASSUME IInv, Next, shell' # shell, shell' # None
        PROVE  shell' \in Enabled \ paused /\ ~stopFile
    <3>1. Launch
      BY <2>1 DEF Next, WorkerStep, Scripts, Load, Loop, Enter, Healthy, Wait, Record, Repaired, Save, Rest, Exit,
         Crash, LeftBehind, Pause, Halt, Resume, Kill, Run, Stop, WorkerGone, KillAll, RunAll, Start, Ready,
         StopService, StartService, Cools, Dies, OrphanEnds, StopPlatform, StartPlatform, Toggle, host
    <3>. QED BY <2>1, <3>1 DEF Launch, At, IInv
  <2>. QED BY <2>1 DEF vars, host
<1>. QED BY <1>1, InvInit, InvStep, PTL DEF Spec, RepairHonoursCommands

\* No second attempt before the wait after the last one is over, however often the worker dies.
THEOREM BackoffKept == Spec => BackoffSurvives
<1>1. IInv /\ [Next]_vars =>
        [\A s \in Services : worker'.at = "launch" /\ worker.at # "launch" /\ s = Looking => s \notin cooling]_vars
  <2>1. ASSUME IInv, Next, worker'.at = "launch", worker.at # "launch"
        PROVE  Looking \notin cooling
    <3>1. Record
      BY <2>1 DEF Next, WorkerStep, Scripts, Load, Loop, Enter, Healthy, Wait, Launch, Repaired, Save, Rest, Exit,
         Crash, Pause, Halt, Resume, Kill, Run, Stop, WorkerGone, KillAll, RunAll, Start, Ready, Worker, Next1,
         StopService, StartService, Cools, Dies, OrphanEnds, StopPlatform, StartPlatform, Toggle, host
    <3>. QED BY <2>1, <3>1 DEF Record, Due, At, IInv
  <2>. QED BY <2>1 DEF vars
<1>. QED BY <1>1, InvInit, InvStep, PTL DEF Spec, BackoffSurvives
-----------------------------------------------------------------------------
(* What the operator stopped stays down. *)

\* A stopped service is paused or finds its stop file, or its start script is about to
\* run; the worker is looking at a service that is not paused.
StoppedInv ==
  /\ \A s \in stopped : s \in paused \cup halted \/ (op.at = "run" /\ op.service = s)
  /\ op.at = "kill" => op.service \in paused \cup halted
  /\ op.at = "resume" /\ op.service \in Guarded => op.service \notin stopped
  /\ worker.at \in Holding => Looking \notin paused
  /\ worker.at = "wait" => shell = Looking

\* Nothing is stopped at first.
LEMMA StoppedInit ==
  ASSUME Init PROVE StoppedInv
BY DEF Init, StoppedInv, Worker, Task, Holding

\* The steps of the worker leave flags and scripts alone.
LEMMA WorkerKeepsStopped ==
  ASSUME IInv, StoppedInv, WorkerStep \/ Crash
  PROVE  StoppedInv'
<1>1. UNCHANGED <<flags, desk>>
  BY DEF WorkerStep, Load, Loop, Enter, Healthy, Wait, Record, Launch, Repaired, Save, Rest, Exit, Crash, host
<1>2. worker'.at \in Holding => Looking' \notin paused
  <2>1. CASE Enter
    BY <2>1 DEF Enter, At, Worker, Next1, Holding, Looking, flags
  <2>2. CASE Record \/ Launch
    BY <2>2 DEF Record, Launch, At, Worker, Holding, Looking, flags, StoppedInv
  <2>3. CASE Load \/ Loop \/ Healthy \/ Wait \/ Repaired \/ Save \/ Rest \/ Exit \/ Crash
    BY <2>3 DEF Load, Loop, Healthy, Wait, Repaired, Save, Rest, Exit, Crash, Worker, Next1, Holding
  <2>. QED BY <2>1, <2>2, <2>3 DEF WorkerStep
<1>3. worker'.at = "wait" => shell' = Looking'
  BY DEF WorkerStep, Load, Loop, Enter, Healthy, Wait, Record, Launch, Repaired, Save, Rest, Exit, Crash,
     At, Worker, Next1, Looking
<1>. QED BY <1>1, <1>2, <1>3 DEF StoppedInv, flags, desk

\* The scripts take the lock to pause a service before they stop it, so no repair of it
\* is under way then.
LEMMA ScriptsKeepStopped ==
  ASSUME IInv, StoppedInv, Scripts
  PROVE  StoppedInv'
<1>. USE DEF flags, records, host, desk, Doing, Task, Looking, StoppedInv
<1>f. Free => worker.at \notin Holding
  BY DEF Free, IInv, TypeOK, Holding
<1>1. CASE Pause
  BY <1>1, <1>f DEF Pause, Holding
<1>2. CASE Resume
  BY <1>2, <1>f DEF Resume, Holding, IInv, ServiceTasks
<1>10. CASE Halt
  BY <1>10 DEF Halt
<1>3. CASE Kill
  BY <1>3 DEF Kill
<1>4. CASE Run
  BY <1>4 DEF Run
<1>5. CASE Stop \/ WorkerGone
  BY <1>5 DEF Stop, WorkerGone
<1>6. CASE KillAll
  <2>1. Looking \in Services \/ worker.at \notin Holding
    BY IndexFacts DEF IInv
  <2>. QED BY <1>6, <1>f, <2>1 DEF KillAll
<1>7. CASE RunAll
  BY <1>7, <1>f DEF RunAll, Holding
<1>8. CASE Start
  BY <1>8, <1>f DEF Start, Worker, Holding
<1>9. CASE Ready
  BY <1>9 DEF Ready
<1>. QED
  BY <1>1, <1>2, <1>3, <1>4, <1>5, <1>6, <1>7, <1>8, <1>9, <1>10 DEF Scripts

\* The host and the choices of the operator disturb none of it.
LEMMA StoppedStep ==
  ASSUME IInv, StoppedInv, [Next]_vars
  PROVE  StoppedInv'
<1>. USE DEF flags, records, host, desk, Doing, Task, Looking
<1>1. CASE UNCHANGED vars
  BY <1>1 DEF vars, StoppedInv
<1>2. ASSUME NEW s \in Services, StopService(s) \/ StartService(s)
      PROVE  StoppedInv'
  BY <1>2 DEF StopService, StartService, StoppedInv
<1>3. ASSUME NEW s \in Services, Cools(s) \/ Dies(s) \/ OrphanEnds(s)
      PROVE  StoppedInv'
  BY <1>3 DEF Cools, Dies, OrphanEnds, StoppedInv
<1>4. CASE StopPlatform \/ StartPlatform \/ Toggle
  BY <1>4 DEF StopPlatform, StartPlatform, Toggle, StoppedInv
<1>. QED BY <1>1, <1>2, <1>3, <1>4, WorkerKeepsStopped, ScriptsKeepStopped DEF Next

\* A service the operator stopped comes up only by a start script or by a repair that
\* outlived its worker, for every list of services.
THEOREM OrphansOnly == Spec => OnlyOrphansRestart
<1>1. IInv /\ StoppedInv /\ [Next]_vars =>
        [\A s \in stopped : s \in up' \ up => s \in orphans \/ Starting(s)]_vars
  <2>1. ASSUME IInv, StoppedInv, Next, NEW s \in stopped, s \in up', s \notin up
        PROVE  s \in orphans \/ Starting(s)
    <3>1. CASE Repaired
      <4>1. s = Looking /\ worker.at \in Holding /\ s \notin halted
        BY <2>1, <3>1 DEF Repaired, Stays, At, Holding, StoppedInv
      <4>2. op.at = "run" /\ op.service = s
        BY <2>1, <4>1 DEF StoppedInv
      <4>. QED BY <4>2 DEF Starting, Doing
    <3>2. CASE Run \/ RunAll
      BY <2>1, <3>2 DEF Run, RunAll, Starting, Doing
    <3>3. CASE \E r \in Services : OrphanEnds(r)
      BY <2>1, <3>3 DEF OrphanEnds, Stays
    <3>4. CASE ~Repaired /\ ~Run /\ ~RunAll /\ ~\E r \in Services : OrphanEnds(r)
      BY <2>1, <3>4 DEF Next, WorkerStep, Scripts, Load, Loop, Enter, Healthy, Wait, Record, Launch, Save, Rest, Exit,
         Crash, Pause, Halt, Resume, Kill, Stop, WorkerGone, KillAll, Start, Ready,
         StopService, StartService, Cools, Dies, StopPlatform, StartPlatform, Toggle, host
    <3>. QED BY <3>1, <3>2, <3>3, <3>4
  <2>. QED BY <2>1 DEF vars, host
<1>. QED BY <1>1, InvInit, InvStep, StoppedInit, StoppedStep, PTL DEF Spec, OnlyOrphansRestart
=============================================================================
