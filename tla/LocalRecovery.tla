---------------------------- MODULE LocalRecovery ----------------------------
(***************************************************************************)
(* The local recovery worker, which starts desired services that are       *)
(* missing, and the lifecycle commands that stop, pause and start it and   *)
(* the services.  Each service is looked at under the control lock, which  *)
(* the commands take too; a repair is a shell that runs outside the worker *)
(* and may outlive it.  Locks are released by the system when a process    *)
(* dies, so a crash of the worker is one step.                             *)
(*                                                                         *)
(* The backup has no pause file: its own stop file ends it and holds the   *)
(* worker off, and only the start of the platform removes it.  That start  *)
(* launches the recorder without lifting the pause of its stop script.     *)
(*                                                                         *)
(* One script runs at a time, and a worker that was launched either takes  *)
(* the worker lock or dies before the start command gives up on it.  The   *)
(* length of the backoff is left open: it elapses some time.               *)
(***************************************************************************)
EXTENDS Integers, Sequences, FiniteSets

CONSTANTS Order,     \* the services in the order the worker looks at them
          Enabled,   \* services the profile asks for
          Guarded,   \* services whose start script holds their repair off
          Unresumed, \* those the start of the platform does not resume: the recorder
          Backups,   \* the backup, which has a stop file of its own
          None

Index == DOMAIN Order
Services == {Order[i] : i \in Index}

ASSUME RecoveryAssumption ==
  /\ Order \in Seq(Services) /\ Enabled \subseteq Services
  /\ Guarded \subseteq Services \ Backups /\ Unresumed \subseteq Guarded
  /\ Backups \subseteq Services /\ None \notin Services

VARIABLES stopFile, paused,   \* stop file, pause files
          halted,             \* stop file of the backup
          lock,               \* holder of the control lock
          worker,             \* where the worker is, index of the service it looks at
          mem, disk,          \* services with the record of an attempt
          cooling,            \* the wait after the last attempt goes on, and the
                              \* worker has not seen the service run since
          up,                 \* services that run
          shell, orphans,     \* repair of the worker, repairs left behind
          works,              \* disk space and everything a start needs
          op,                 \* the script of the operator
          stopped             \* services stopped by script and not started since

flags == <<stopFile, paused, halted>>
records == <<mem, disk, cooling>>
host == <<up, shell, orphans, works>>
desk == <<op, stopped>>
vars == <<flags, lock, worker, records, host, desk>>

Holding == {"look", "launch", "wait"}
Places == {"off", "load", "loop", "enter", "save", "rest", "exit"} \cup Holding
Tasks == {"idle", "pause", "halt", "kill", "hold", "resume", "run", "stop", "wait", "killAll", "runAll", "start", "ready"}

Worker(at, i) == [at |-> at, i |-> i]
Task(at, s) == [at |-> at, service |-> s]

Init ==
  /\ stopFile = FALSE /\ paused = {} /\ halted = {}
  /\ lock = "free" /\ worker = Worker("off", 1)
  /\ mem = {} /\ disk = {} /\ cooling = {}
  /\ up = {} /\ shell = None /\ orphans = {} /\ works = TRUE
  /\ op = Task("idle", None) /\ stopped = {}

-----------------------------------------------------------------------------
(* The worker *)

At(place) == worker.at = place
Looking == Order[worker.i]
Next1 == Worker("enter", worker.i + 1)
Running == worker.at \notin {"off", "load", "exit"}   \* its PID file names a process

\* LocalRecovery reads the records; run_forever takes the worker lock.
Load ==
  /\ At("load")
  /\ mem' = disk /\ worker' = Worker("loop", 1)
  /\ UNCHANGED <<flags, lock, disk, cooling, host, desk>>

LoopForever ==
  /\ At("loop")
  /\ worker' = Worker("enter", 1)
  /\ UNCHANGED <<flags, lock, records, host, desk>>

Loop ==
  /\ At("loop")
  /\ worker' = IF stopFile THEN Worker("exit", 1) ELSE Worker("enter", 1)
  /\ UNCHANGED <<flags, lock, records, host, desk>>

\* The next service under the control lock; a stop file ends the cycle, a command
\* that holds the lock aborts it.
Enter ==
  /\ At("enter")
  /\ \/ /\ worker.i \notin Index
        /\ worker' = Worker("save", 1) /\ UNCHANGED lock
     \/ /\ worker.i \in Index /\ lock = "operator"
        /\ worker' = Worker("rest", 1) /\ UNCHANGED lock
     \/ /\ worker.i \in Index /\ lock = "free" /\ stopFile
        /\ worker' = Worker("save", 1) /\ UNCHANGED lock
     \/ /\ worker.i \in Index /\ lock = "free" /\ ~stopFile
        /\ IF Looking \in Enabled \ (paused \cup halted)
           THEN lock' = "worker" /\ worker' = Worker("look", worker.i)
           ELSE worker' = Next1 /\ UNCHANGED lock
  /\ UNCHANGED <<flags, records, host, desk>>

\* The wait of the last attempt on record is over.
DueOnce(s) == s \notin mem
Due(s) == s \notin mem \/ s \notin cooling

Healthy ==
  /\ At("look") /\ Looking \in up
  /\ mem' = mem \ {Looking} /\ cooling' = cooling \ {Looking}
  /\ lock' = "free" /\ worker' = Next1
  /\ UNCHANGED <<flags, disk, host, desk>>

\* Too early, or no disk space, or its child is still at work.
Wait ==
  /\ At("look") /\ Looking \notin up
  /\ ~Due(Looking) \/ ~works
  /\ lock' = "free" /\ worker' = Next1
  /\ UNCHANGED <<flags, records, host, desk>>

RecordUnsaved ==
  /\ At("look") /\ Looking \notin up /\ Due(Looking)
  /\ mem' = mem \cup {Looking}
  /\ cooling' = cooling \cup {Looking}
  /\ worker' = Worker("launch", worker.i)
  /\ UNCHANGED <<flags, lock, disk, host, desk>>

\* The attempt is on disk before it is made.
Record ==
  /\ At("look") /\ Looking \notin up /\ Due(Looking)
  /\ mem' = mem \cup {Looking} /\ disk' = mem'
  /\ cooling' = cooling \cup {Looking}
  /\ worker' = Worker("launch", worker.i)
  /\ UNCHANGED <<flags, lock, host, desk>>

Launch ==
  /\ At("launch")
  /\ shell' = Looking /\ worker' = Worker("wait", worker.i)
  /\ UNCHANGED <<flags, lock, records, up, orphans, works, desk>>

\* A backup that finds its stop file ends at once.
Stays(s) == {s} \ halted

\* The shell starts the service, fails, or is killed at its time limit; what it had
\* set going then goes on.
Repaired ==
  /\ At("wait")
  /\ \/ up' = up \cup Stays(shell) /\ UNCHANGED orphans
     \/ ~works /\ UNCHANGED <<up, orphans>>
     \/ ~works /\ orphans' = orphans \cup {shell} /\ UNCHANGED up
  /\ shell' = None /\ lock' = "free" /\ worker' = Next1
  /\ UNCHANGED <<flags, records, works, desk>>

Save ==
  /\ At("save")
  /\ disk' = mem /\ worker' = Worker("rest", 1)
  /\ UNCHANGED <<flags, lock, mem, cooling, host, desk>>

Rest ==
  /\ At("rest") /\ worker' = Worker("loop", 1)
  /\ UNCHANGED <<flags, lock, records, host, desk>>

\* The PID file is gone, then the worker lock.
Exit ==
  /\ At("exit") /\ worker' = Worker("off", 1)
  /\ UNCHANGED <<flags, lock, records, host, desk>>

LeftBehind == orphans' = orphans \cup ({shell} \ {None}) /\ shell' = None

CrashKeepsLock ==
  /\ ~At("off") /\ worker' = Worker("off", 1)
  /\ LeftBehind
  /\ UNCHANGED <<flags, lock, records, up, works, desk>>

Crash ==
  /\ ~At("off") /\ worker' = Worker("off", 1)
  /\ lock' = IF At("look") \/ At("launch") \/ At("wait") THEN "free" ELSE lock
  /\ LeftBehind
  /\ UNCHANGED <<flags, records, up, works, desk>>

WorkerStep == Load \/ Loop \/ Enter \/ Healthy \/ Wait \/ Record \/ Launch \/ Repaired \/ Save \/ Rest \/ Exit

-----------------------------------------------------------------------------
(* The scripts of the operator *)

Doing(task) == op.at = task
FreeOrNot == lock \in {"free", "worker"}
Free == lock = "free"

StopServiceUnpaused(s) ==
  /\ Doing("idle") /\ op' = Task("kill", s)
  /\ UNCHANGED <<flags, lock, worker, records, host, stopped>>

\* Stop scripts pause the repair of the service, then stop it; the backup is told by
\* its stop file.
StopService(s) ==
  /\ Doing("idle") /\ op' = Task(IF s \in Backups THEN "halt" ELSE "pause", s)
  /\ UNCHANGED <<flags, lock, worker, records, host, stopped>>

\* Start scripts start it and resume its repair; some hold the repair off meanwhile.
StartService(s) ==
  /\ s \notin Backups
  /\ Doing("idle") /\ op' = Task(IF s \in Guarded THEN "hold" ELSE "resume", s)
  /\ UNCHANGED <<flags, lock, worker, records, host, stopped>>

StopPlatform ==
  /\ Doing("idle") /\ op' = Task("stop", None)
  /\ UNCHANGED <<flags, lock, worker, records, host, stopped>>

StartPlatform ==
  /\ Doing("idle") /\ op' = Task("runAll", None)
  /\ UNCHANGED <<flags, lock, worker, records, host, stopped>>

\* control: pause and resume
Pause ==
  /\ Doing("pause") \/ Doing("hold")
  /\ Free
  /\ paused' = paused \cup {op.service}
  /\ op' = Task(IF Doing("pause") THEN "kill" ELSE "run", op.service)
  /\ UNCHANGED <<stopFile, halted, lock, worker, records, host, stopped>>

\* The stop file of the backup is written without the control lock.
Halt ==
  /\ Doing("halt")
  /\ halted' = halted \cup {op.service}
  /\ op' = Task("kill", op.service)
  /\ UNCHANGED <<stopFile, paused, lock, worker, records, host, stopped>>

Resume ==
  /\ Doing("resume") /\ Free
  /\ paused' = paused \ {op.service}
  /\ op' = IF op.service \in Guarded THEN Task("idle", None) ELSE Task("run", op.service)
  /\ UNCHANGED <<stopFile, halted, lock, worker, records, host, stopped>>

Kill ==
  /\ Doing("kill")
  /\ up' = up \ {op.service} /\ stopped' = stopped \cup {op.service}
  /\ op' = Task("idle", None)
  /\ UNCHANGED <<flags, lock, worker, records, shell, orphans, works>>

Run ==
  /\ Doing("run")
  /\ \/ up' = up \cup {op.service}
     \/ ~works /\ UNCHANGED up
  /\ stopped' = stopped \ {op.service}
  /\ op' = IF op.service \in Guarded THEN Task("resume", op.service) ELSE Task("idle", None)
  /\ UNCHANGED <<flags, lock, worker, records, shell, orphans, works>>

\* control: stop, which waits for the worker
Stop ==
  /\ Doing("stop") /\ Free
  /\ stopFile' = TRUE /\ op' = Task("wait", None)
  /\ UNCHANGED <<paused, halted, lock, worker, records, host, stopped>>

WorkerGone ==
  /\ Doing("wait") /\ ~Running
  /\ op' = Task("killAll", None)
  /\ UNCHANGED <<flags, lock, worker, records, host, stopped>>

\* The stop scripts of all services.
KillAll ==
  /\ Doing("killAll") /\ Free
  /\ paused' = paused \cup (Services \ Backups) /\ halted' = Backups
  /\ up' = {} /\ stopped' = Services
  /\ op' = Task("idle", None)
  /\ UNCHANGED <<stopFile, lock, worker, records, shell, orphans, works>>

\* The services wanted are started and most of them resumed, up to the first that
\* raises; the database preparation before the backup refuses to run beside services,
\* and the backup may fail to start without ending the script.
RunAll ==
  /\ Doing("runAll") /\ Free
  /\ \E reached \in SUBSET Enabled : \E started \in SUBSET reached :
       /\ reached \cap Backups # {} => up \cap (Guarded \cup Backups) = {}
       /\ paused' = paused \ (reached \ Unresumed)
       /\ halted' = halted \ reached
       /\ up' = up \cup started /\ stopped' = stopped \ reached
       /\ \/ op' = Task("idle", None)
          \/ reached = Enabled /\ Enabled \ started \subseteq Backups /\ op' = Task("start", None)
  /\ UNCHANGED <<stopFile, lock, worker, records, shell, orphans, works>>

\* control: start, which holds the lock until the worker it launched is there; a
\* worker that holds the worker lock is left as it is.
Start ==
  /\ Doing("start") /\ Free
  /\ stopFile' = FALSE
  /\ IF At("off")
     THEN worker' = Worker("load", 1) /\ lock' = "operator" /\ op' = Task("ready", None)
     ELSE op' = Task("idle", None) /\ UNCHANGED <<worker, lock>>
  /\ UNCHANGED <<paused, halted, records, host, stopped>>

Ready ==
  /\ Doing("ready") /\ ~At("load")
  /\ lock' = "free" /\ op' = Task("idle", None)
  /\ UNCHANGED <<flags, worker, records, host, stopped>>

Scripts == Pause \/ Halt \/ Resume \/ Kill \/ Run \/ Stop \/ WorkerGone \/ KillAll
           \/ RunAll \/ Start \/ Ready

-----------------------------------------------------------------------------
(* The host *)

Cools(s) ==
  /\ s \in cooling /\ cooling' = cooling \ {s}
  /\ UNCHANGED <<flags, lock, worker, mem, disk, host, desk>>

Dies(s) ==
  /\ s \in up /\ up' = up \ {s}
  /\ UNCHANGED <<flags, lock, worker, records, shell, orphans, works, desk>>

\* A repair left behind ends, with or without the service.
OrphanEnds(s) ==
  /\ s \in orphans /\ orphans' = orphans \ {s}
  /\ up' \in {up, up \cup Stays(s)}
  /\ UNCHANGED <<flags, lock, worker, records, shell, works, desk>>

Toggle ==
  /\ works' = ~works
  /\ UNCHANGED <<flags, lock, worker, records, up, shell, orphans, desk>>

Next ==
  \/ WorkerStep \/ Crash \/ Scripts
  \/ \E s \in Services : StopService(s) \/ StartService(s) \/ Cools(s) \/ Dies(s) \/ OrphanEnds(s)
  \/ StopPlatform \/ StartPlatform \/ Toggle

Spec == Init /\ [][Next]_vars

\* A process that lives goes on, and waits end.
FairSpec == Spec /\ WF_vars(WorkerStep) /\ WF_vars(Scripts) /\ \A s \in Services : SF_vars(Cools(s))

-----------------------------------------------------------------------------
(* Properties *)

TypeOK ==
  /\ stopFile \in BOOLEAN /\ paused \subseteq Services \ Backups /\ halted \subseteq Backups
  /\ worker.at \in Places /\ worker.i \in 1..(Len(Order) + 1)
  /\ mem \subseteq Services /\ disk \subseteq Services
  /\ cooling \subseteq Services /\ stopped \subseteq Services
  /\ up \subseteq Services /\ shell \in Services \cup {None} /\ orphans \subseteq Services
  /\ works \in BOOLEAN /\ op.at \in Tasks /\ op.service \in Services \cup {None}
  /\ lock = IF op.at = "ready" THEN "operator" ELSE IF worker.at \in Holding THEN "worker" ELSE "free"

\* No repair starts for a service that was paused or is not wanted, or after the stop
\* command, although the flags are read before the probe and the record of the attempt.
RepairHonoursCommands ==
  [][shell' # shell /\ shell' # None => shell' \in Enabled \ paused /\ ~stopFile]_vars

\* However often the worker dies, it makes no second attempt on a service before the
\* wait after the last one is over, unless it has seen the service run in between.
BackoffSurvives ==
  [][\A s \in Services : worker'.at = "launch" /\ worker.at # "launch" /\ s = Looking
                         => s \notin cooling]_vars

\* A service that the operator stopped comes up by itself only through a repair whose
\* worker died or gave up on it; else it was its own start script, or the start of the
\* platform that asks for it.
Starting(s) ==
  \/ Doing("run") /\ op.service = s
  \/ Doing("runAll") /\ s \in Enabled
OnlyOrphansRestart ==
  [][\A s \in stopped : s \in up' \ up => s \in orphans \/ Starting(s)]_vars

\* The stop command ends: the worker sees the stop file, or is dead.
StopEnds == op.at = "wait" ~> op.at # "wait"

\* A wanted service that no pause or stop file holds off comes back, once the worker
\* lives, a start can succeed and the operator leaves things alone.  (The recorder is
\* still paused after the platform was stopped and started.)
Wanted(s) == s \in Enabled \ (paused \cup halted) /\ ~stopFile /\ works /\ op.at = "idle" /\ ~At("off")
ComesBack == \A s \in Services : <>[]Wanted(s) => []<>(s \in up)
=============================================================================
