------------------------ MODULE StrategyControlProofs ------------------------
(***************************************************************************)
(* Theorems about StrategyControl. The invariant ties every job to the     *)
(* documents it read: as long as a document still has the revision the job *)
(* carries, what the job is about to write follows from what is stored.    *)
(***************************************************************************)
EXTENDS StrategyControl, TLAPS

\* Jobs that changed the roles on a membership they pin at the commit.
Pinned == {"schedule", "designate", "prepare", "activate"}
\* Jobs that finish a change which was waiting when they read.
OnPending == {"cancel", "authorize", "prepare", "activate"}

Versioned(j) ==
  /\ j.op \in RoleKinds \cup {"prepare"} => j.expected <= revision["roles"] /\ j.guard <= revision["members"]
  /\ j.op = "member" => j.expected <= revision["members"] /\ j.guard <= revision["roles"]
  /\ j.op \in Pinned \cup {"member"} => j.guard # NoGuard
  /\ j.op \in RoleKinds \cup {"prepare", "queue"} => j.change \in Changes

KeepsHeldReady(j) ==
  /\ j.op \in Pinned /\ j.guard = revision["members"] => \A k \in Held(j.roles) : Ready(k)
  /\ j.op \in {"cancel", "authorize"} /\ j.expected = revision["roles"] => Held(j.roles) \subseteq Held(roles)
  /\ j.op = "member" /\ j.expected = revision["members"] /\ j.guard = revision["roles"] =>
       \A k \in Held(roles) : k \in j.members.monitored /\ j.members.generation[k] = members.generation[k]

FollowsRoles(j) ==
  /\ j.op = "schedule" => Content[j.change].keys # {}
  /\ j.op = "designate" => Content[j.change].keys = {}
  /\ j.op \in {"schedule", "designate"} /\ j.expected = revision["roles"] => ~Waiting
  /\ j.op \in OnPending /\ j.expected = revision["roles"] => roles.pending.id = j.change
  /\ j.op = "schedule" => j.roles.pending.id = j.change
  /\ j.op = "designate" /\ j.expected = revision["roles"] => j.roles.pending.id = NoChange
  /\ j.op = "authorize" => j.roles.pending.id = j.change
  /\ j.op \in {"cancel", "prepare", "activate"} => j.roles.pending.id = NoChange
  /\ j.op \in RoleKinds \ {"activate"} /\ j.expected = revision["roles"] => j.roles.active = roles.active
  /\ j.op \in {"prepare", "activate"} => j.roles.active.id = j.change

KeepsDays(j) ==
  /\ j.op = "schedule" /\ j.expected = revision["roles"] => roles.active.day <= j.roles.pending.day
  /\ j.op = "authorize" /\ j.expected = revision["roles"] => j.roles.pending.day = roles.pending.day
  /\ j.op \in {"prepare", "activate"} => Close(j.roles.active.day) <= clock
  /\ j.op \in {"prepare", "activate"} /\ j.expected = revision["roles"] =>
       roles.pending.day <= j.roles.active.day /\ roles.active.day <= j.roles.active.day

\* A log and the id of the pending change agree.
LogFits(log, pending) ==
  /\ \A c \in Changes : pending = c <=> StageIn(log, c) = "pending"
  /\ \A c \in Changes : RecordedIn(log, "cancel", c) \/ RecordedIn(log, "activate", c)
                        => RecordedIn(log, "schedule", c)
  /\ \A c \in Changes : RecordedIn(log, "schedule", c) => Content[c].keys # {}
  /\ \A c \in Changes : RecordedIn(log, "designate", c) => Content[c].keys = {}

LogMatches == LogFits(history, roles.pending.id)

DaysPass == /\ Close(roles.active.day) <= clock
            /\ Waiting => roles.active.day <= roles.pending.day

JobOK(j) == Versioned(j) /\ KeepsHeldReady(j) /\ FollowsRoles(j) /\ KeepsDays(j)
JobsFollow == \A p \in Procs : JobOK(job[p])

Inv == TypeOK /\ HeldAreReplayed /\ LogMatches /\ DaysPass /\ JobsFollow

\* Generations only grow: what is published is never ahead of the last
\* calculation, and that never ahead of the members.
Lag(k) == /\ report[k] <= replay.generation[k]
          /\ replay.generation[k] <= members.generation[k]
          /\ members.generation[k] <= revision["members"]
Renews(j) == j.op = "member" =>
  /\ j.expected <= revision["members"]
  /\ \A k \in Keys : /\ j.members.generation[k] <= j.expected + 1
                     /\ j.expected = revision["members"] => members.generation[k] <= j.members.generation[k]
GenerationsGrow == (\A k \in Keys : Lag(k)) /\ (\A p \in Procs : Renews(job[p]))

store == <<revision, roles, members, history>>
outside == <<replay, report, proposals, rows, clock>>

-----------------------------------------------------------------------------
(* Types *)

\* The documents a job may carry and the idle job are of the declared types.
LEMMA PlainTyped ==
  /\ NoPending \in Pending /\ LegacyRoles \in Roles /\ FirstMembers \in Members
  /\ \A op \in Kinds, c \in Versions \cup {NoChange} : Plain(op, c) \in Job
  <1>1. NoPending \in Pending
    BY ControlAssumption DEF NoPending, Pending
  <1>2. LegacyRoles \in Roles
    BY <1>1, ControlAssumption DEF LegacyRoles, RolesOf, Roles, Allocation, Versions
  <1>3. FirstMembers \in Members
    BY ControlAssumption DEF FirstMembers, Members
  <1> QED
    BY <1>1, <1>2, <1>3 DEF Plain, Job, NoGuard

\* A job that rewrites the roles is typed when the new document is.
LEMMA RoleJobTyped ==
  ASSUME TypeOK, NEW op \in RoleKinds \cup {"prepare"}, NEW c \in Changes, NEW late \in BOOLEAN,
         NEW g \in {NoGuard, revision["members"]}, NEW doc \in Roles
  PROVE  RoleJob(op, c, late, g, doc) \in Job
  <1>1. revision["roles"] \in Nat /\ revision["members"] \in Nat
    BY DEF TypeOK, Scopes
  <1> QED
    BY <1>1, PlainTyped DEF RoleJob, Job, Kinds, Versions

\* What is not running constrains nothing.
LEMMA QuietJob ==
  ASSUME NEW j, j.op \in {"idle", "route"} \/ (j.op = "queue" /\ j.change \in Changes)
  PROVE  JobOK(j)
  BY DEF JobOK, Versioned, KeepsHeldReady, FollowsRoles, KeepsDays, Pinned, OnPending, RoleKinds

\* A step that only replaces one job keeps the invariant if the new job fits.
LEMMA BusyKeeps ==
  ASSUME Inv, NEW p \in Procs, NEW j \in Job, JobOK(j), job' = [job EXCEPT ![p] = j],
         UNCHANGED store, UNCHANGED outside
  PROVE  Inv'
  <1>1. TypeOK'
    BY DEF Inv, TypeOK, store, outside
  <1>2. HeldAreReplayed' /\ LogMatches' /\ DaysPass'
    BY DEF Inv, HeldAreReplayed, LogMatches, DaysPass, store, outside, Ready, Waiting
  <1>3. ASSUME NEW q \in Procs PROVE JobOK(job[q])'
    <2>1. JobOK(job'[q])
      BY DEF Inv, TypeOK, JobsFollow
    <2> QED
      BY <2>1 DEF JobOK, Versioned, KeepsHeldReady, FollowsRoles, KeepsDays, store, outside, Ready, Waiting
  <1> QED
    BY <1>1, <1>2, <1>3 DEF Inv, JobsFollow

\* Giving up a job is such a step.
LEMMA DoneKeeps ==
  ASSUME Inv, NEW p \in Procs, Done(p), UNCHANGED store, UNCHANGED outside
  PROVE  Inv'
  <1>1. Idle \in Job /\ JobOK(Idle)
    BY PlainTyped, QuietJob DEF Idle, Plain, Kinds
  <1> QED
    BY <1>1, BusyKeeps DEF Done, Busy

-----------------------------------------------------------------------------
(* Jobs that begin: each is what its reads justify *)

\* A scheduled change is prepared from the documents read.
LEMMA ScheduleKeeps ==
  ASSUME Inv, NEW p \in Apps, NEW c \in Changes, Schedule(p, c)
  PROVE  Inv'
  <1>1. /\ revision["roles"] \in Nat /\ revision["members"] \in Nat /\ revision["members"] # NoGuard
        /\ roles \in Roles /\ Content[c] \in Request
    BY ControlAssumption DEF Inv, TypeOK, Scopes, NoGuard
  <1>2. ~Waiting /\ \A k \in Wanted(c) : Ready(k)
    BY DEF Schedule
  <1>3. UNCHANGED store /\ UNCHANGED outside /\ p \in Procs
    BY DEF Schedule, store, outside, Procs
  <1>4. CASE Content[c].keys = {}
    <2> DEFINE doc == RolesOf(Content[c].sota, roles.active, roles.pending)
               j == RoleJob("designate", c, FALSE, revision["members"], doc)
    <2>1. Content[c].sota \in Keys
      BY <1>1, <1>4, ControlAssumption DEF Request
    <2>2. j \in Job
      BY <2>1, <1>1, RoleJobTyped DEF Inv, RolesOf, Roles, RoleKinds
    <2>3. \A k \in Held(doc) : Ready(k)
      BY <1>2, <2>1, ControlAssumption DEF Inv, HeldAreReplayed, Held, RolesOf, Wanted, SotaOf
    <2>4. Versioned(j) /\ KeepsHeldReady(j)
      BY <1>1, <2>3 DEF RoleJob, Versioned, KeepsHeldReady, Pinned, RoleKinds
    <2>5. FollowsRoles(j) /\ KeepsDays(j)
      BY <1>1, <1>2, <1>4 DEF RoleJob, RolesOf, FollowsRoles, KeepsDays, OnPending, RoleKinds, Waiting
    <2> HIDE DEF j
    <2>6. job' = [job EXCEPT ![p] = j]
      BY <1>4 DEF Schedule, Busy, j
    <2> QED
      BY <2>2, <2>4, <2>5, <2>6, <1>3, BusyKeeps DEF JobOK
  <1>5. CASE Content[c].keys # {}
    <2> DEFINE doc == RolesOf(roles.sota, roles.active, Scheduled(c))
               j == RoleJob("schedule", c, FALSE, revision["members"], doc)
    <2>1. Scheduled(c) \in Pending
      BY <1>1 DEF Scheduled, Pending, Request
    <2>2. j \in Job
      BY <2>1, <1>1, RoleJobTyped DEF Inv, RolesOf, Roles, RoleKinds
    <2>3. \A k \in Held(doc) : Ready(k)
      BY <1>2 DEF Inv, HeldAreReplayed, Held, RolesOf, Wanted, Scheduled
    <2>4. Versioned(j) /\ KeepsHeldReady(j)
      BY <1>1, <2>3 DEF RoleJob, Versioned, KeepsHeldReady, Pinned, RoleKinds
    <2>5. FollowsRoles(j)
      BY <1>1, <1>2, <1>5 DEF RoleJob, RolesOf, Scheduled, FollowsRoles, OnPending, RoleKinds, Waiting
    <2>6. roles.active.day <= Content[c].day
      <3>1. clock < NextOpen(Content[c].day)
        BY <1>5 DEF Schedule
      <3>2. Close(roles.active.day) <= clock
        BY DEF Inv, DaysPass
      <3>3. roles.active.day \in Nat /\ Content[c].day \in Nat /\ clock \in Nat
        BY <1>1 DEF Roles, Allocation, Request, Inv, TypeOK
      <3> QED
        BY <3>1, <3>2, <3>3 DEF NextOpen, Close
    <2>7. KeepsDays(j)
      BY <2>6 DEF RoleJob, RolesOf, Scheduled, KeepsDays
    <2> HIDE DEF j
    <2>8. job' = [job EXCEPT ![p] = j]
      BY <1>5 DEF Schedule, Busy, j
    <2> QED
      BY <2>2, <2>4, <2>5, <2>7, <2>8, <1>3, BusyKeeps DEF JobOK
  <1> QED
    BY <1>4, <1>5

\* What every step may assume of the stored documents.
LEMMA DocumentsTyped ==
  ASSUME Inv
  PROVE  /\ revision["roles"] \in Nat /\ revision["members"] \in Nat
         /\ revision["roles"] # NoGuard /\ revision["members"] # NoGuard
         /\ roles \in Roles /\ roles.active \in Allocation /\ roles.pending \in Pending
         /\ members \in Members /\ clock \in Nat
         /\ Waiting => roles.pending.id \in Changes
  BY DEF Inv, TypeOK, Scopes, NoGuard, Roles, Pending, Waiting

\* A cancellation is prepared from the documents read.
LEMMA CancelKeeps ==
  ASSUME Inv, NEW p \in Apps, Cancel(p)
  PROVE  Inv'
  <1> DEFINE doc == RolesOf(roles.sota, roles.active, NoPending)
             j == RoleJob("cancel", roles.pending.id, FALSE, NoGuard, doc)
  <1>1. roles.pending.id \in Changes
    BY DocumentsTyped DEF Cancel
  <1>2. j \in Job
    BY <1>1, DocumentsTyped, PlainTyped, RoleJobTyped DEF Inv, RolesOf, Roles, RoleKinds
  <1>3. Held(doc) \subseteq Held(roles)
    BY ControlAssumption DEF Held, RolesOf, NoPending, SotaOf
  <1>4. Versioned(j) /\ KeepsHeldReady(j)
    BY <1>1, <1>3, DocumentsTyped DEF RoleJob, Versioned, KeepsHeldReady, Pinned, RoleKinds, NoGuard
  <1>5. FollowsRoles(j) /\ KeepsDays(j)
    BY <1>1 DEF RoleJob, RolesOf, NoPending, FollowsRoles, KeepsDays, OnPending, RoleKinds
  <1> HIDE DEF j
  <1>6. job' = [job EXCEPT ![p] = j] /\ UNCHANGED store /\ UNCHANGED outside /\ p \in Procs
    BY DEF Cancel, Busy, j, store, outside, Procs
  <1> QED
    BY <1>2, <1>4, <1>5, <1>6, BusyKeeps DEF JobOK

\* So is the authorization of a late change.
LEMMA AuthorizeKeeps ==
  ASSUME Inv, NEW p \in Apps, Authorize(p)
  PROVE  Inv'
  <1> DEFINE doc == RolesOf(roles.sota, roles.active, LatePending)
             j == RoleJob("authorize", roles.pending.id, FALSE, NoGuard, doc)
  <1>1. roles.pending.id \in Changes
    BY DocumentsTyped DEF Authorize
  <1>2. LatePending \in Pending
    BY DocumentsTyped DEF LatePending, Pending
  <1>3. j \in Job
    BY <1>1, <1>2, DocumentsTyped, RoleJobTyped DEF Inv, RolesOf, Roles, RoleKinds
  <1>4. Held(doc) \subseteq Held(roles)
    BY DEF Held, RolesOf, LatePending
  <1>5. Versioned(j) /\ KeepsHeldReady(j)
    BY <1>1, <1>4, DocumentsTyped DEF RoleJob, Versioned, KeepsHeldReady, Pinned, RoleKinds, NoGuard
  <1>6. FollowsRoles(j) /\ KeepsDays(j)
    BY <1>1 DEF RoleJob, RolesOf, LatePending, FollowsRoles, KeepsDays, OnPending, RoleKinds
  <1> HIDE DEF j
  <1>7. job' = [job EXCEPT ![p] = j] /\ UNCHANGED store /\ UNCHANGED outside /\ p \in Procs
    BY DEF Authorize, Busy, j, store, outside, Procs
  <1> QED
    BY <1>3, <1>5, <1>6, <1>7, BusyKeeps DEF JobOK

\* So is a change of the members.
LEMMA ChangeMembershipKeeps ==
  ASSUME Inv, NEW p \in Apps, NEW k \in Keys, ChangeMembership(p, k)
  PROVE  Inv'
  <1> DEFINE j == [op |-> "member", change |-> NoChange, late |-> FALSE, expected |-> revision["members"],
                   guard |-> revision["roles"], roles |-> LegacyRoles, members |-> Toggled(k)]
  <1>1. Toggled(k) \in Members
    BY DocumentsTyped DEF Toggled, Members
  <1>2. j \in Job
    BY <1>1, DocumentsTyped, PlainTyped DEF Job, Kinds
  <1>3. \A h \in Held(roles) : h \in Toggled(k).monitored /\ Toggled(k).generation[h] = members.generation[h]
    <2>1. k \notin Held(roles)
      BY DEF ChangeMembership, Inv, HeldAreReplayed, Ready
    <2>2. \A h \in Held(roles) : h \in members.monitored
      BY DEF Inv, HeldAreReplayed, Ready
    <2>3. members.generation \in [Keys -> Nat]
      BY DocumentsTyped DEF Members
    <2>4. Held(roles) \subseteq Keys
      BY DocumentsTyped DEF Held, Roles, Allocation, Pending, SotaOf
    <2> QED
      BY <2>1, <2>2, <2>3, <2>4 DEF Toggled
  <1>4. JobOK(j)
    BY <1>3, DocumentsTyped
    DEF JobOK, Versioned, KeepsHeldReady, FollowsRoles, KeepsDays, Pinned, OnPending, RoleKinds
  <1> HIDE DEF j
  <1>5. job' = [job EXCEPT ![p] = j] /\ UNCHANGED store /\ UNCHANGED outside /\ p \in Procs
    BY DEF ChangeMembership, Busy, j, store, outside, Procs
  <1> QED
    BY <1>2, <1>4, <1>5, BusyKeeps

\* The close a hand-over is recorded at has passed, is not before the requested
\* one, and not before that of the allocation it replaces.
LEMMA EffectiveDayPassed ==
  ASSUME Inv, Waiting, InWindow
  PROVE  /\ EffectiveDay \in Nat /\ Close(EffectiveDay) <= clock
         /\ roles.pending.day <= EffectiveDay /\ roles.active.day <= EffectiveDay
  <1>1. roles.pending.day \in Nat /\ roles.active.day \in Nat /\ clock \in Nat
    BY DocumentsTyped DEF Pending, Allocation
  <1>2. Close(EffectiveDay) <= clock
    BY DEF InWindow
  <1>3. roles.active.day <= roles.pending.day
    BY DEF Inv, DaysPass
  <1>4. CASE EffectiveDay = roles.pending.day
    BY <1>1, <1>2, <1>3, <1>4
  <1>5. CASE EffectiveDay = Today /\ clock >= NextOpen(roles.pending.day)
    <2>1. Today \in Nat /\ roles.pending.day <= Today
      BY <1>1, <1>5 DEF Today, NextOpen
    <2> QED
      BY <1>1, <1>2, <1>3, <1>5, <2>1
  <1>6. EffectiveDay = roles.pending.day \/ (EffectiveDay = Today /\ clock >= NextOpen(roles.pending.day))
    BY <1>1 DEF EffectiveDay, NextOpen
  <1> QED
    BY <1>4, <1>5, <1>6

\* So is the hand-over the loop prepares in its window.
LEMMA PrepareKeeps ==
  ASSUME Inv, NEW p \in Apps, Prepare(p)
  PROVE  Inv'
  <1> DEFINE j == RoleJob("prepare", roles.pending.id, roles.pending.catchUp, revision["members"], HandedOver)
  <1>1. roles.pending.id \in Changes /\ Waiting /\ InWindow
    BY DocumentsTyped DEF Prepare
  <1>2. HandedOver \in Roles
    BY <1>1, DocumentsTyped, EffectiveDayPassed, PlainTyped
    DEF HandedOver, RolesOf, Roles, Allocation, Pending, Versions
  <1>3. j \in Job
    BY <1>1, <1>2, DocumentsTyped, RoleJobTyped DEF Inv, Pending
  <1>4. Held(HandedOver) \subseteq Held(roles)
    BY ControlAssumption DEF HandedOver, RolesOf, Held, NoPending, SotaOf
  <1>5. Versioned(j) /\ KeepsHeldReady(j)
    BY <1>1, <1>4, DocumentsTyped
    DEF RoleJob, Versioned, KeepsHeldReady, Pinned, RoleKinds, Inv, HeldAreReplayed
  <1>6. FollowsRoles(j)
    BY <1>1 DEF RoleJob, HandedOver, RolesOf, NoPending, FollowsRoles, OnPending, RoleKinds
  <1>7. KeepsDays(j)
    BY <1>1, EffectiveDayPassed DEF RoleJob, HandedOver, RolesOf, KeepsDays
  <1> HIDE DEF j
  <1>8. job' = [job EXCEPT ![p] = j] /\ UNCHANGED store /\ UNCHANGED outside /\ p \in Procs
    BY DEF Prepare, Busy, j, store, outside, Procs
  <1> QED
    BY <1>3, <1>5, <1>6, <1>7, <1>8, BusyKeeps DEF JobOK

\* The second look at the members leads to an activation of the same change, or ends the job.
LEMMA RecheckKeeps ==
  ASSUME Inv, NEW p \in Apps, Recheck(p)
  PROVE  Inv'
  <1>1. UNCHANGED store /\ UNCHANGED outside /\ p \in Procs /\ job[p] \in Job /\ JobOK(job[p])
    BY DEF Recheck, store, outside, Procs, Inv, TypeOK, JobsFollow
  <1>2. CASE Done(p)
    BY <1>1, <1>2, DoneKeeps
  <1>3. CASE Busy(p, [job[p] EXCEPT !.op = "activate"])
    <2> DEFINE j == [job[p] EXCEPT !.op = "activate"]
    <2>1. /\ j \in Job /\ j.op = "activate" /\ j.change = job[p].change /\ j.expected = job[p].expected
          /\ j.guard = job[p].guard /\ j.roles = job[p].roles /\ job[p].op = "prepare"
      BY <1>1 DEF Recheck, Job, Kinds, RoleKinds
    <2> HIDE DEF j
    <2>2. JobOK(j)
      BY <1>1, <2>1
      DEF JobOK, Versioned, KeepsHeldReady, FollowsRoles, KeepsDays, Pinned, OnPending, RoleKinds
    <2> QED
      BY <1>1, <1>3, <2>1, <2>2, BusyKeeps DEF Busy, j
  <1> QED
    BY <1>2, <1>3 DEF Recheck

-----------------------------------------------------------------------------
(* Commits *)

\* What a current job establishes about the document it is about to write.
LEMMA CommitFacts ==
  ASSUME Inv, NEW p \in Apps, CommitRoles(p)
  PROVE  /\ p \in Procs /\ job[p] \in Job /\ JobOK(job[p]) /\ job[p].op \in RoleKinds
         /\ job[p].expected = revision["roles"] /\ job[p].change \in Changes
         /\ job[p].op \in Pinned => job[p].guard = revision["members"]
         /\ roles' = job[p].roles /\ job[p].roles \in Roles
         /\ revision'["roles"] = revision["roles"] + 1 /\ revision'["members"] = revision["members"]
         /\ \A q \in Procs \ {p} : job'[q] = job[q]
         /\ job'[p] \in Job /\ JobOK(job'[p])
  <1>1. p \in Procs /\ job[p] \in Job /\ JobOK(job[p]) /\ job[p].op \in RoleKinds /\ job \in [Procs -> Job]
    BY DEF CommitRoles, Procs, Inv, TypeOK, JobsFollow
  <1>2. job[p].op # "member"
    BY <1>1 DEF RoleKinds
  <1>3. job[p].expected = revision["roles"] /\ job[p].guard \in {NoGuard, revision["members"]}
    BY <1>2 DEF CommitRoles, Current, Scope, Other
  <1>4. job[p].change \in Changes /\ (job[p].op \in Pinned => job[p].guard = revision["members"])
    BY <1>1, <1>3 DEF JobOK, Versioned
  <1>5. /\ revision'["roles"] = revision["roles"] + 1 /\ revision'["members"] = revision["members"]
        /\ roles' = job[p].roles /\ job[p].roles \in Roles
    BY <1>1 DEF CommitRoles, Inv, TypeOK, Scopes, Job
  <1>6. CASE Done(p)
    <2>1. job'[p] = Idle /\ \A q \in Procs \ {p} : job'[q] = job[q]
      BY <1>1, <1>6 DEF Done, Busy
    <2>2. Idle \in Job /\ JobOK(Idle)
      BY PlainTyped, QuietJob DEF Idle, Plain, Kinds
    <2> QED
      BY <1>1, <1>3, <1>4, <1>5, <2>1, <2>2
  <1>7. CASE Busy(p, Plain("queue", job[p].change))
    <2>1. job'[p] = Plain("queue", job[p].change) /\ \A q \in Procs \ {p} : job'[q] = job[q]
      BY <1>1, <1>7 DEF Busy
    <2>2. Plain("queue", job[p].change) \in Job /\ JobOK(Plain("queue", job[p].change))
      BY <1>4, PlainTyped, QuietJob DEF Plain, Kinds, Versions
    <2> QED
      BY <1>1, <1>3, <1>4, <1>5, <2>1, <2>2
  <1> QED
    BY <1>6, <1>7 DEF CommitRoles, After

\* The four ways a log and a pending change move together.
LEMMA LogFollows ==
  ASSUME NEW log, NEW new, NEW was, NEW is, LogFits(log, was), NEW c \in Changes,
         NEW op \in RoleKinds, NEW late \in BOOLEAN,
         new = log \cup {[kind |-> op, change |-> c, late |-> late]},
         op = "schedule" => was = NoChange /\ is = c /\ Content[c].keys # {} /\ ~RecordedIn(log, "schedule", c),
         op = "designate" => was = NoChange /\ is = NoChange /\ Content[c].keys = {},
         op \in {"cancel", "activate"} => was = c /\ is = NoChange,
         op = "authorize" => was = c /\ is = c
  PROVE  LogFits(new, is)
  <1>1. ASSUME NEW kind, NEW d \in Changes
        PROVE  RecordedIn(new, kind, d) <=> RecordedIn(log, kind, d) \/ (kind = op /\ d = c)
    BY DEF RecordedIn
  <1>2. \A d \in Changes : was = d <=> StageIn(log, d) = "pending"
    BY DEF LogFits
  <1>3. NoChange \notin Changes
    BY ControlAssumption
  <1>4. \A d \in Changes : d # c => StageIn(new, d) = StageIn(log, d)
    BY <1>1 DEF StageIn
  <1>5. \A d \in Changes : d # c => (is = d <=> StageIn(new, d) = "pending")
    BY <1>2, <1>3, <1>4 DEF RoleKinds
  <1>6. is = c <=> StageIn(new, c) = "pending"
    <2>1. CASE op = "schedule"
      <3>1. ~RecordedIn(log, "cancel", c) /\ ~RecordedIn(log, "activate", c) /\ ~RecordedIn(log, "designate", c)
        BY <2>1 DEF LogFits
      <3> QED
        BY <1>1, <2>1, <3>1 DEF StageIn
    <2>2. CASE op \in {"cancel", "activate", "designate"}
      BY <1>1, <1>3, <2>2 DEF StageIn
    <2>3. CASE op = "authorize"
      <3>1. StageIn(new, c) = StageIn(log, c)
        BY <1>1, <2>3 DEF StageIn
      <3> QED
        BY <1>2, <2>3, <3>1
    <2> QED
      BY <2>1, <2>2, <2>3 DEF RoleKinds
  <1>7. \A d \in Changes : RecordedIn(new, "cancel", d) \/ RecordedIn(new, "activate", d)
                          => RecordedIn(new, "schedule", d)
    <2>1. op \in {"cancel", "activate"} => RecordedIn(log, "schedule", c)
      BY <1>2 DEF StageIn
    <2> QED
      BY <1>1, <2>1 DEF LogFits
  <1>8. \A d \in Changes : RecordedIn(new, "schedule", d) => Content[d].keys # {}
    BY <1>1 DEF LogFits
  <1>9. \A d \in Changes : RecordedIn(new, "designate", d) => Content[d].keys = {}
    BY <1>1 DEF LogFits
  <1> QED
    BY <1>5, <1>6, <1>7, <1>8, <1>9 DEF LogFits

\* A commit of the roles keeps the log in step with the documents.
LEMMA CommitMatchesLog ==
  ASSUME Inv, NEW p \in Apps, CommitRoles(p)
  PROVE  LogMatches'
  <1> DEFINE c == job[p].change
             op == job[p].op
  <1>1. /\ c \in Changes /\ op \in RoleKinds /\ FollowsRoles(job[p])
        /\ job[p].expected = revision["roles"] /\ roles' = job[p].roles
        /\ job[p].late \in BOOLEAN
    BY CommitFacts DEF JobOK, Job
  <1>2. history' = history \cup {[kind |-> op, change |-> c, late |-> job[p].late]}
    BY DEF CommitRoles
  <1>3. LogFits(history, roles.pending.id)
    BY DEF Inv, LogMatches
  <1>4. op = "schedule" => /\ roles.pending.id = NoChange /\ roles'.pending.id = c
                           /\ Content[c].keys # {} /\ ~RecordedIn(history, "schedule", c)
    BY <1>1 DEF FollowsRoles, Waiting, CommitRoles, Replayed, Recorded
  <1>5. op = "designate" => /\ roles.pending.id = NoChange /\ roles'.pending.id = NoChange
                            /\ Content[c].keys = {}
    BY <1>1 DEF FollowsRoles, Waiting
  <1>6. op \in {"cancel", "activate"} => roles.pending.id = c /\ roles'.pending.id = NoChange
    BY <1>1 DEF FollowsRoles, OnPending
  <1>7. op = "authorize" => roles.pending.id = c /\ roles'.pending.id = c
    BY <1>1 DEF FollowsRoles, OnPending
  <1> HIDE DEF c, op
  <1>8. LogFits(history', roles'.pending.id)
    BY <1>1, <1>2, <1>3, <1>4, <1>5, <1>6, <1>7, LogFollows
  <1> QED
    BY <1>8 DEF LogMatches

\* A commit of the roles keeps the invariant.
LEMMA CommitRolesKeeps ==
  ASSUME Inv, NEW p \in Apps, CommitRoles(p)
  PROVE  Inv'
  <1>1. /\ p \in Procs /\ JobOK(job[p]) /\ job[p].op \in RoleKinds
        /\ job[p].expected = revision["roles"] /\ roles' = job[p].roles
        /\ revision'["roles"] = revision["roles"] + 1 /\ revision'["members"] = revision["members"]
        /\ UNCHANGED <<members, replay, report, proposals, rows, clock>>
    BY CommitFacts DEF CommitRoles
  <1>2. TypeOK'
    <2>1. job' \in [Procs -> Job]
      <3>1. \A q \in Procs : job'[q] \in Job
        BY CommitFacts DEF Inv, TypeOK
      <3>2. \E j : job' = [job EXCEPT ![p] = j]
        BY DEF CommitRoles, After, Done, Busy
      <3> QED
        BY <3>1, <3>2 DEF Inv, TypeOK
    <2>2. history' \subseteq Event
      BY CommitFacts DEF CommitRoles, Inv, TypeOK, Event, Job
    <2>3. revision' \in [Scopes -> Nat] /\ roles' \in Roles
      BY CommitFacts DEF CommitRoles, Inv, TypeOK, Scopes
    <2> QED
      BY <1>1, <2>1, <2>2, <2>3 DEF Inv, TypeOK
  <1>3. HeldAreReplayed'
    <2>1. \A k \in Held(roles') : Ready(k)
      <3>1. CASE job[p].op \in Pinned
        BY <1>1, <3>1, CommitFacts DEF JobOK, KeepsHeldReady
      <3>2. CASE job[p].op \in {"cancel", "authorize"}
        BY <1>1, <3>2 DEF JobOK, KeepsHeldReady, Inv, HeldAreReplayed
      <3> QED
        BY <1>1, <3>1, <3>2 DEF RoleKinds, Pinned
    <2> QED
      BY <1>1, <2>1 DEF HeldAreReplayed, Ready
  <1>4. LogMatches'
    BY CommitMatchesLog
  <1>5. DaysPass'
    <2>1. KeepsDays(job[p]) /\ FollowsRoles(job[p]) /\ DaysPass
      BY <1>1 DEF JobOK, Inv
    <2>2. CASE job[p].op = "activate"
      BY <1>1, <2>1, <2>2 DEF KeepsDays, FollowsRoles, DaysPass, Waiting
    <2>3. CASE job[p].op # "activate"
      <3>1. roles'.active = roles.active
        BY <1>1, <2>1, <2>3 DEF FollowsRoles
      <3>2. roles'.pending.id # NoChange => roles.active.day <= roles'.pending.day
        BY <1>1, <2>1, <2>3, ControlAssumption, CommitFacts
        DEF KeepsDays, FollowsRoles, OnPending, RoleKinds, DaysPass, Waiting
      <3> QED
        BY <1>1, <2>1, <3>1, <3>2 DEF DaysPass, Waiting
    <2> QED
      BY <2>2, <2>3
  <1>6. ASSUME NEW q \in Procs PROVE JobOK(job[q])'
    <2>1. CASE q = p
      <3>1. job'[p].op = "idle" \/ (job'[p].op = "queue" /\ job'[p].change \in Changes)
        <4>1. job' = [job EXCEPT ![p] = Idle] \/ job' = [job EXCEPT ![p] = Plain("queue", job[p].change)]
          BY DEF CommitRoles, After, Done, Busy
        <4> QED
          BY <4>1, <1>1, CommitFacts DEF Idle, Plain, Inv, TypeOK
      <3> QED
        BY <2>1, <3>1
        DEF JobOK, Versioned, KeepsHeldReady, FollowsRoles, KeepsDays, Pinned, OnPending, RoleKinds
    <2>2. CASE q # p
      <3>1. job'[q] = job[q] /\ JobOK(job[q]) /\ job[q] \in Job
        BY <2>2, CommitFacts DEF Inv, JobsFollow, TypeOK
      <3>2. /\ revision["roles"] \in Nat /\ revision["members"] \in Nat
            /\ job[q].expected \in Nat /\ job[q].guard \in Nat \cup {NoGuard}
        BY <3>1, DocumentsTyped DEF Job
      <3>3. Versioned(job[q])'
        BY <1>1, <3>1, <3>2 DEF JobOK, Versioned, NoGuard
      <3>4. job[q].op \in RoleKinds \cup {"prepare"} => job[q].expected # revision'["roles"]
        BY <1>1, <3>1, <3>2 DEF JobOK, Versioned
      <3>5. job[q].op = "member" => job[q].guard # revision'["roles"]
        BY <1>1, <3>1, <3>2 DEF JobOK, Versioned, NoGuard
      <3>6. KeepsHeldReady(job[q])'
        BY <1>1, <3>1, <3>4, <3>5 DEF JobOK, KeepsHeldReady, Pinned, RoleKinds, Ready
      <3>7. FollowsRoles(job[q])'
        BY <1>1, <3>1, <3>4 DEF JobOK, FollowsRoles, OnPending, RoleKinds
      <3>8. KeepsDays(job[q])'
        BY <1>1, <3>1, <3>4 DEF JobOK, KeepsDays, RoleKinds
      <3> QED
        BY <3>3, <3>6, <3>7, <3>8 DEF JobOK
    <2> QED
      BY <2>1, <2>2
  <1> QED
    BY <1>2, <1>3, <1>4, <1>5, <1>6 DEF Inv, JobsFollow

\* A commit of the members keeps the invariant.
LEMMA CommitMembersKeeps ==
  ASSUME Inv, NEW p \in Apps, CommitMembers(p)
  PROVE  Inv'
  <1>1. /\ p \in Procs /\ job[p] \in Job /\ JobOK(job[p]) /\ job[p].op = "member"
        /\ members' = job[p].members /\ job' = [job EXCEPT ![p] = Idle]
        /\ UNCHANGED <<roles, history, replay, report, proposals, rows, clock>>
    BY DEF CommitMembers, Procs, Inv, TypeOK, JobsFollow, Done, Busy
  <1>2. /\ revision'["members"] = revision["members"] + 1 /\ revision'["roles"] = revision["roles"]
        /\ revision' \in [Scopes -> Nat]
    BY DEF CommitMembers, Inv, TypeOK, Scopes
  <1>3. job[p].expected = revision["members"] /\ job[p].guard = revision["roles"]
    BY <1>1 DEF CommitMembers, Current, Scope, Other, JobOK, Versioned
  <1>4. TypeOK'
    BY <1>1, <1>2, PlainTyped DEF Inv, TypeOK, Job, Idle, Kinds
  <1>5. \A k \in Held(roles) : k \in members'.monitored /\ members'.generation[k] = members.generation[k]
    BY <1>1, <1>3 DEF JobOK, KeepsHeldReady
  <1>6. HeldAreReplayed'
    BY <1>1, <1>5 DEF Inv, HeldAreReplayed, Ready
  <1>7. LogMatches' /\ DaysPass'
    BY <1>1 DEF Inv, LogMatches, DaysPass, Waiting
  <1>8. ASSUME NEW q \in Procs PROVE JobOK(job[q])'
    <2>1. CASE q = p
      <3>1. job'[q] = Idle
        BY <1>1, <2>1 DEF Inv, TypeOK
      <3> QED
        BY <3>1 DEF Idle, Plain, JobOK, Versioned, KeepsHeldReady, FollowsRoles, KeepsDays, Pinned, OnPending, RoleKinds
    <2>2. CASE q # p
      <3>1. job'[q] = job[q] /\ JobOK(job[q]) /\ job[q] \in Job
        BY <1>1, <2>2 DEF Inv, JobsFollow, TypeOK
      <3>2. /\ revision["roles"] \in Nat /\ revision["members"] \in Nat
            /\ job[q].expected \in Nat /\ job[q].guard \in Nat \cup {NoGuard}
        BY <3>1, DocumentsTyped DEF Job
      <3>3. Versioned(job[q])'
        BY <1>1, <1>2, <3>1, <3>2 DEF JobOK, Versioned, NoGuard
      <3>4. job[q].op \in Pinned => job[q].guard # revision'["members"]
        BY <1>2, <3>1, <3>2 DEF JobOK, Versioned, Pinned, RoleKinds, NoGuard
      <3>5. job[q].op = "member" => job[q].expected # revision'["members"]
        BY <1>2, <3>1, <3>2 DEF JobOK, Versioned
      <3>6. KeepsHeldReady(job[q])'
        BY <1>1, <1>2, <3>1, <3>4, <3>5 DEF JobOK, KeepsHeldReady
      <3>7. FollowsRoles(job[q])' /\ KeepsDays(job[q])'
        BY <1>1, <1>2, <3>1 DEF JobOK, FollowsRoles, KeepsDays, Waiting
      <3> QED
        BY <3>3, <3>6, <3>7 DEF JobOK
    <2> QED
      BY <2>1, <2>2
  <1> QED
    BY <1>4, <1>6, <1>7, <1>8 DEF Inv, JobsFollow

\* A replayed or refused commit stores nothing.
LEMMA RepliesKeep ==
  ASSUME Inv, NEW p \in Apps, ReplayCommit(p) \/ RefuseCommit(p)
  PROVE  Inv'
  <1>1. UNCHANGED store /\ UNCHANGED outside /\ p \in Procs
    BY DEF ReplayCommit, RefuseCommit, store, outside, Procs
  <1>2. CASE Done(p)
    BY <1>1, <1>2, DoneKeeps
  <1>3. CASE ReplayCommit(p) /\ Busy(p, Plain("queue", job[p].change))
    <2>1. job[p].change \in Changes
      BY <1>1, <1>3 DEF ReplayCommit, Inv, JobsFollow, JobOK, Versioned
    <2>2. Plain("queue", job[p].change) \in Job /\ JobOK(Plain("queue", job[p].change))
      BY <2>1, PlainTyped, QuietJob DEF Plain, Kinds, Versions
    <2> QED
      BY <1>1, <1>3, <2>2, BusyKeeps DEF Busy
  <1> QED
    BY <1>2, <1>3 DEF ReplayCommit, RefuseCommit, After

-----------------------------------------------------------------------------
(* The queue, the broker, the calculations and time *)

\* A step that leaves the documents and the jobs alone.
LEMMA OutsideKeeps ==
  ASSUME Inv, UNCHANGED store, UNCHANGED <<replay, report, job, clock>>,
         proposals' \subseteq Changes, rows' \in [Versions -> {"none", "open", "closed"}]
  PROVE  Inv'
  <1>1. TypeOK'
    BY DEF Inv, TypeOK, store
  <1>2. HeldAreReplayed' /\ LogMatches' /\ DaysPass'
    BY DEF Inv, HeldAreReplayed, LogMatches, DaysPass, store, Ready, Waiting
  <1>3. ASSUME NEW q \in Procs PROVE JobOK(job[q])'
    BY DEF Inv, JobsFollow, JobOK, Versioned, KeepsHeldReady, FollowsRoles, KeepsDays, store, Ready, Waiting
  <1> QED
    BY <1>1, <1>2, <1>3 DEF Inv, JobsFollow

\* Finishing a job may also add to the queue or to the rows.
LEMMA FinishKeeps ==
  ASSUME Inv, NEW p \in Procs, Done(p), UNCHANGED store, UNCHANGED <<replay, report, clock>>,
         proposals' \subseteq Changes, rows' \in [Versions -> {"none", "open", "closed"}]
  PROVE  Inv'
  <1>1. Idle \in Job /\ JobOK(Idle)
    BY PlainTyped, QuietJob DEF Idle, Plain, Kinds
  <1>2. job' = [job EXCEPT ![p] = Idle]
    BY DEF Done, Busy
  <1>3. TypeOK'
    BY <1>1, <1>2 DEF Inv, TypeOK, store
  <1>4. HeldAreReplayed' /\ LogMatches' /\ DaysPass'
    BY DEF Inv, HeldAreReplayed, LogMatches, DaysPass, store, Ready, Waiting
  <1>5. ASSUME NEW q \in Procs PROVE JobOK(job[q])'
    <2>1. JobOK(job'[q])
      BY <1>1, <1>2 DEF Inv, TypeOK, JobsFollow
    <2> QED
      BY <2>1 DEF JobOK, Versioned, KeepsHeldReady, FollowsRoles, KeepsDays, store, Ready, Waiting
  <1> QED
    BY <1>3, <1>4, <1>5 DEF Inv, JobsFollow

\* The proposal of a new allocation is queued, or its queue restored, for a version of the roles.
LEMMA QueueKeeps ==
  ASSUME Inv, NEW p \in Apps, Queue(p) \/ Restore(p)
  PROVE  Inv'
  <1>1. p \in Procs
    BY DEF Procs
  <1>2. CASE Queue(p)
    <2>1. job[p].change \in Changes
      BY <1>1, <1>2 DEF Queue, Inv, JobsFollow, JobOK, Versioned
    <2> QED
      BY <1>1, <1>2, <2>1, FinishKeeps DEF Queue, store, Inv, TypeOK
  <1>3. CASE Restore(p)
    BY <1>3, OutsideKeeps DEF Restore, store, Inv, TypeOK
  <1> QED
    BY <1>2, <1>3

\* Routing keeps it: it reads the documents and writes rows only.
LEMMA RouteKeeps ==
  ASSUME Inv, NEW p \in Procs, Route(p)
  PROVE  Inv'
  <1>1. CASE Reserve(p)
    BY <1>1, FinishKeeps DEF Reserve, store, Inv, TypeOK
  <1>2. CASE Crash(p)
    BY <1>2, DoneKeeps DEF Crash, store, outside
  <1>3. ASSUME NEW v \in Versions, Validate(p, v) PROVE Inv'
    <2>1. Plain("route", v) \in Job /\ JobOK(Plain("route", v))
      BY PlainTyped, QuietJob DEF Plain, Kinds
    <2> QED
      BY <1>3, <2>1, BusyKeeps DEF Validate, Busy, store, outside
  <1> QED
    BY <1>1, <1>2, <1>3 DEF Route

\* A finished calculation concerns neither the documents nor the jobs.
LEMMA ReplayKeeps ==
  ASSUME Inv, Replay
  PROVE  Inv'
  <1>1. /\ replay' = members /\ members \in Members
        /\ UNCHANGED <<revision, roles, members, history, report, proposals, rows, job, clock>>
    BY DocumentsTyped DEF Replay
  <1>2. TypeOK' /\ HeldAreReplayed' /\ LogMatches' /\ DaysPass'
    BY <1>1 DEF Inv, TypeOK, HeldAreReplayed, LogMatches, DaysPass, Ready, Waiting
  <1>3. ASSUME NEW q \in Procs PROVE JobOK(job[q])'
    BY <1>1 DEF Inv, JobsFollow, JobOK, Versioned, KeepsHeldReady, FollowsRoles, KeepsDays, Ready, Waiting
  <1> QED
    BY <1>2, <1>3 DEF Inv, JobsFollow

\* A publication, even of a calculation the members have left behind, takes no
\* strategy that was ready back to an earlier generation.
LEMMA PublishKeeps ==
  ASSUME Inv, GenerationsGrow, Publish
  PROVE  Inv'
  <1>1. /\ report' = Reported /\ report \in [Keys -> Nat]
        /\ members.generation \in [Keys -> Nat] /\ replay.generation \in [Keys -> Nat]
        /\ UNCHANGED <<revision, roles, members, history, replay, proposals, rows, job, clock>>
    BY DocumentsTyped DEF Publish, Inv, TypeOK, Members
  <1>2. TypeOK'
    BY <1>1 DEF Inv, TypeOK, Reported
  <1>3. ASSUME NEW h, Ready(h), h \in Keys PROVE Ready(h)'
    <2>1. report[h] = members.generation[h] /\ h \in members.monitored
      BY <1>3 DEF Ready
    <2>2. replay.generation[h] = members.generation[h]
      BY <1>1, <1>3, <2>1 DEF GenerationsGrow, Lag
    <2> QED
      BY <1>1, <1>3, <2>1, <2>2 DEF Ready, Reported
  <1>4. Held(roles) \subseteq Keys
    BY DocumentsTyped DEF Held, Roles, Allocation, Pending, SotaOf
  <1>5. HeldAreReplayed' /\ LogMatches' /\ DaysPass'
    BY <1>1, <1>3, <1>4 DEF Inv, HeldAreReplayed, LogMatches, DaysPass, Waiting
  <1>6. ASSUME NEW q \in Procs PROVE JobOK(job[q])'
    <2>1. JobOK(job[q]) /\ job[q].roles \in Roles
      BY DEF Inv, JobsFollow, TypeOK, Job
    <2>2. Held(job[q].roles) \subseteq Keys
      BY <2>1 DEF Held, Roles, Allocation, Pending, SotaOf
    <2>3. KeepsHeldReady(job[q])'
      BY <1>1, <1>3, <2>1, <2>2 DEF JobOK, KeepsHeldReady
    <2> QED
      BY <1>1, <2>1, <2>3 DEF JobOK, Versioned, FollowsRoles, KeepsDays, Waiting
  <1> QED
    BY <1>2, <1>5, <1>6 DEF Inv, JobsFollow

\* Time passes: no day is taken back.
LEMMA TickKeeps ==
  ASSUME Inv, Tick
  PROVE  Inv'
  <1>1. /\ clock' = clock + 1 /\ clock \in Nat
        /\ UNCHANGED <<revision, roles, members, history, replay, report, proposals, rows, job>>
    BY DocumentsTyped DEF Tick
  <1>2. TypeOK' /\ HeldAreReplayed' /\ LogMatches'
    BY <1>1 DEF Inv, TypeOK, HeldAreReplayed, LogMatches, Ready
  <1>3. DaysPass'
    BY <1>1, DocumentsTyped DEF Inv, DaysPass, Waiting, Close, Allocation
  <1>4. ASSUME NEW q \in Procs PROVE JobOK(job[q])'
    <2>1. JobOK(job[q]) /\ job[q].roles.active.day \in Nat
      BY DEF Inv, JobsFollow, TypeOK, Job, Roles, Allocation
    <2>2. KeepsDays(job[q])'
      BY <1>1, <2>1 DEF JobOK, KeepsDays, Close
    <2> QED
      BY <1>1, <2>1, <2>2 DEF JobOK, Versioned, KeepsHeldReady, FollowsRoles, Ready, Waiting
  <1> QED
    BY <1>2, <1>3, <1>4 DEF Inv, JobsFollow

-----------------------------------------------------------------------------
(* The generations, the invariant and what follows from it *)

\* A step that leaves the members and what was calculated alone, and whose job
\* does not change the members.
LEMMA GrowthIdle ==
  ASSUME Inv, GenerationsGrow, UNCHANGED <<members, replay, report>>, revision'["members"] = revision["members"],
         NEW p \in Procs, NEW j, j.op # "member", job' = job \/ job' = [job EXCEPT ![p] = j]
  PROVE  GenerationsGrow'
  <1>1. \A k \in Keys : Lag(k)'
    BY DEF GenerationsGrow, Lag
  <1>2. ASSUME NEW q \in Procs PROVE Renews(job[q])'
    <2>1. job'[q] = job[q] \/ job'[q].op # "member"
      BY DEF Inv, TypeOK
    <2> QED
      BY <2>1 DEF GenerationsGrow, Renews
  <1> QED
    BY <1>1, <1>2 DEF GenerationsGrow

\* A job that rewrites the roles is such a job.
LEMMA GrowthRole ==
  ASSUME Inv, GenerationsGrow, UNCHANGED <<members, replay, report>>, revision' = revision,
         NEW p \in Procs, NEW op, op # "member", NEW c, NEW late, NEW g, NEW doc,
         Busy(p, RoleJob(op, c, late, g, doc))
  PROVE  GenerationsGrow'
  <1>1. RoleJob(op, c, late, g, doc).op # "member"
    BY DEF RoleJob
  <1> QED
    BY <1>1, GrowthIdle DEF Busy

\* A change of the members gives its strategy a generation above all of them.
LEMMA GrowthChange ==
  ASSUME Inv, GenerationsGrow, NEW p \in Apps, NEW k \in Keys, ChangeMembership(p, k)
  PROVE  GenerationsGrow'
  <1> DEFINE j == [op |-> "member", change |-> NoChange, late |-> FALSE, expected |-> revision["members"],
                   guard |-> revision["roles"], roles |-> LegacyRoles, members |-> Toggled(k)]
  <1>1. /\ job' = [job EXCEPT ![p] = j] /\ p \in Procs
        /\ UNCHANGED <<revision, members, replay, report>>
    BY DEF ChangeMembership, Busy, Procs
  <1>2. Toggled(k).generation = [members.generation EXCEPT ![k] = revision["members"] + 1]
    BY DEF Toggled
  <1>3. members.generation \in [Keys -> Nat] /\ revision["members"] \in Nat
    BY DocumentsTyped DEF Members
  <1>4. Renews(j)
    BY <1>2, <1>3 DEF Renews, GenerationsGrow, Lag
  <1> HIDE DEF j
  <1>5. ASSUME NEW q \in Procs PROVE Renews(job[q])'
    <2>1. Renews(job'[q])
      BY <1>1, <1>4 DEF Inv, TypeOK, GenerationsGrow
    <2> QED
      BY <1>1, <2>1 DEF Renews
  <1>6. \A h \in Keys : Lag(h)'
    BY <1>1 DEF GenerationsGrow, Lag
  <1> QED
    BY <1>5, <1>6 DEF GenerationsGrow

\* Its commit is one of the revision it was prepared from.
LEMMA GrowthCommit ==
  ASSUME Inv, GenerationsGrow, NEW p \in Apps, CommitMembers(p)
  PROVE  GenerationsGrow'
  <1>1. /\ p \in Procs /\ job[p].op = "member" /\ job[p] \in Job /\ Renews(job[p])
        /\ members' = job[p].members /\ job' = [job EXCEPT ![p] = Idle] /\ UNCHANGED <<replay, report>>
        /\ job[p].expected = revision["members"]
    BY DEF CommitMembers, Procs, Inv, TypeOK, GenerationsGrow, Done, Busy, Current, Scope
  <1>2. revision["members"] \in Nat /\ revision'["members"] = revision["members"] + 1
    BY DEF CommitMembers, Inv, TypeOK, Scopes
  <1>3. /\ members.generation \in [Keys -> Nat] /\ job[p].members.generation \in [Keys -> Nat]
        /\ replay.generation \in [Keys -> Nat] /\ report \in [Keys -> Nat]
    BY <1>1 DEF Inv, TypeOK, Members, Job
  <1>4. \A k \in Keys : Lag(k)'
    BY <1>1, <1>2, <1>3 DEF GenerationsGrow, Lag, Renews
  <1>5. ASSUME NEW q \in Procs PROVE Renews(job[q])'
    <2>1. CASE q = p
      BY <1>1, <2>1 DEF Inv, TypeOK, Idle, Plain, Renews
    <2>2. CASE q # p
      <3>1. job'[q] = job[q] /\ Renews(job[q]) /\ job[q].expected \in Nat
        BY <1>1, <2>2 DEF Inv, TypeOK, GenerationsGrow, Job
      <3> QED
        BY <1>2, <3>1 DEF Renews
    <2> QED
      BY <2>1, <2>2
  <1> QED
    BY <1>4, <1>5 DEF GenerationsGrow

\* The worker calculates for the members it reads, and publishes what it calculated.
LEMMA GrowthReport ==
  ASSUME Inv, GenerationsGrow, Replay \/ Publish
  PROVE  GenerationsGrow'
  <1>1. /\ members.generation \in [Keys -> Nat] /\ replay.generation \in [Keys -> Nat]
        /\ report \in [Keys -> Nat]
    BY DEF Inv, TypeOK, Members
  <1>2. UNCHANGED <<revision, members, job>> /\ (Replay => replay' = members /\ report' = report)
        /\ (Publish => replay' = replay /\ report' = Reported)
    BY DEF Replay, Publish
  <1>3. ASSUME NEW k \in Keys PROVE Lag(k)'
    BY <1>1, <1>2 DEF GenerationsGrow, Lag, Reported
  <1>4. ASSUME NEW q \in Procs PROVE Renews(job[q])'
    BY <1>2 DEF GenerationsGrow, Renews
  <1> QED
    BY <1>3, <1>4 DEF GenerationsGrow

\* Every step lets the generations only grow.
LEMMA GrowthStep ==
  ASSUME Inv, GenerationsGrow, [Next]_vars
  PROVE  GenerationsGrow'
  <1>1. \A c : Plain("queue", c).op # "member" /\ Plain("route", c).op # "member"
    BY DEF Plain
  <1>2. Idle.op # "member"
    BY DEF Idle, Plain
  <1>3. ASSUME NEW p \in Apps, NEW c \in Changes, Schedule(p, c) PROVE GenerationsGrow'
    <2>1. CASE Content[c].keys = {}
      BY <1>3, <2>1, GrowthRole DEF Schedule, Procs
    <2>2. CASE Content[c].keys # {}
      BY <1>3, <2>2, GrowthRole DEF Schedule, Procs
    <2> QED
      BY <2>1, <2>2
  <1>4. ASSUME NEW p \in Apps, Cancel(p) \/ Authorize(p) \/ Prepare(p) PROVE GenerationsGrow'
    BY <1>4, GrowthRole DEF Cancel, Authorize, Prepare, Procs
  <1>5. ASSUME NEW p \in Apps, Recheck(p) PROVE GenerationsGrow'
    <2>1. [job[p] EXCEPT !.op = "activate"].op # "member"
      BY DEF Inv, TypeOK, Procs, Job
    <2> QED
      BY <1>2, <1>5, <2>1, GrowthIdle DEF Recheck, Done, Busy, Procs
  <1>6. ASSUME NEW p \in Apps, Queue(p) \/ Restore(p) PROVE GenerationsGrow'
    BY <1>2, <1>6, GrowthIdle DEF Queue, Restore, Done, Busy, Procs
  <1>7. ASSUME NEW p \in Apps, CommitRoles(p) PROVE GenerationsGrow'
    <2>1. UNCHANGED <<members, replay, report>> /\ revision'["members"] = revision["members"]
      BY <1>7, CommitFacts DEF CommitRoles
    <2> QED
      BY <1>1, <1>2, <1>7, <2>1, GrowthIdle DEF CommitRoles, After, Done, Busy, Procs
  <1>8. ASSUME NEW p \in Apps, ReplayCommit(p) \/ RefuseCommit(p) PROVE GenerationsGrow'
    BY <1>1, <1>2, <1>8, GrowthIdle DEF ReplayCommit, RefuseCommit, After, Done, Busy, Procs
  <1>9. ASSUME NEW p \in Procs, Route(p) PROVE GenerationsGrow'
    BY <1>1, <1>2, <1>9, GrowthIdle DEF Route, Validate, Reserve, Crash, Done, Busy
  <1>10. ASSUME UNCHANGED <<revision, members, replay, report, job>> PROVE GenerationsGrow'
    BY <1>10 DEF GenerationsGrow, Lag, Renews
  <1>11. ASSUME Environment PROVE GenerationsGrow'
    BY <1>10, <1>11, GrowthReport DEF Environment, Settle, Tick
  <1>12. ASSUME NEW p \in Apps, Operator(p) \/ Loop(p) \/ Commit(p) PROVE GenerationsGrow'
    BY <1>3, <1>4, <1>5, <1>6, <1>7, <1>8, <1>12, GrowthChange, GrowthCommit DEF Operator, Loop, Commit
  <1> QED
    BY <1>9, <1>10, <1>11, <1>12 DEF Next, vars

\* At the start all generations are the first.
LEMMA GrowthInit == Init => GenerationsGrow
  BY DEF Init, GenerationsGrow, Lag, Renews, FirstMembers, Idle, Plain, Scopes

\* The invariant holds at the start.
LEMMA InvInit == Init => Inv
  <1> SUFFICES ASSUME Init PROVE Inv
    OBVIOUS
  <1>1. TypeOK
    BY ControlAssumption, PlainTyped DEF Init, TypeOK, Idle, Kinds, Scopes, NoGuard
  <1>2. HeldAreReplayed
    BY ControlAssumption
    DEF Init, HeldAreReplayed, Held, LegacyRoles, RolesOf, NoPending, SotaOf, Ready, FirstMembers
  <1>3. LogMatches
    BY ControlAssumption
    DEF Init, LogMatches, LogFits, StageIn, RecordedIn, LegacyRoles, RolesOf, NoPending
  <1>4. DaysPass
    BY DEF Init, DaysPass, LegacyRoles, RolesOf, NoPending, Waiting, Close
  <1>5. JobsFollow
    BY QuietJob DEF Init, JobsFollow, Idle, Plain
  <1> QED
    BY <1>1, <1>2, <1>3, <1>4, <1>5 DEF Inv

\* Every step keeps it.
LEMMA InvStep == Inv /\ GenerationsGrow /\ [Next]_vars => Inv'
  <1> SUFFICES ASSUME Inv, GenerationsGrow, [Next]_vars PROVE Inv'
    OBVIOUS
  <1>1. CASE UNCHANGED vars
    BY <1>1, OutsideKeeps DEF vars, store, Inv, TypeOK
  <1>2. ASSUME NEW p \in Apps, Operator(p) PROVE Inv'
    BY <1>2, ScheduleKeeps, CancelKeeps, AuthorizeKeeps, ChangeMembershipKeeps DEF Operator
  <1>3. ASSUME NEW p \in Apps, Loop(p) PROVE Inv'
    BY <1>3, PrepareKeeps, RecheckKeeps, QueueKeeps DEF Loop
  <1>4. ASSUME NEW p \in Apps, Commit(p) PROVE Inv'
    BY <1>4, CommitRolesKeeps, CommitMembersKeeps, RepliesKeep DEF Commit
  <1>5. ASSUME NEW p \in Procs, Route(p) PROVE Inv'
    BY <1>5, RouteKeeps
  <1>6. ASSUME NEW v \in Versions, Settle(v) PROVE Inv'
    BY <1>6, OutsideKeeps DEF Settle, store, Inv, TypeOK
  <1>7. CASE Environment
    BY <1>6, <1>7, ReplayKeeps, PublishKeeps, TickKeeps DEF Environment
  <1> QED
    BY <1>1, <1>2, <1>3, <1>4, <1>5, <1>7 DEF Next

\* So it always holds.
LEMMA InvAlways == Spec => []Inv
  <1>1. Inv /\ GenerationsGrow /\ [Next]_vars => GenerationsGrow'
    BY GrowthStep
  <1> QED
    BY <1>1, InvInit, GrowthInit, InvStep, PTL DEF Spec

\* Every document, event, job and row keeps its type (strategy_control.py,
\* strategy_lifecycle.py), for any strategies, changes and processes.
THEOREM TypeCorrect == Spec => []TypeOK
  <1>1. Inv => TypeOK
    BY DEF Inv
  <1> QED
    BY <1>1, InvAlways, PTL

\* Two documents, one rule: however schedules, hand-overs, archives and restores
\* of any number of processes interleave, commit_strategy_control keeps every
\* strategy with a role monitored and replayed.
THEOREM RolesReplayed == Spec => []HeldAreReplayed
  <1>1. Inv => HeldAreReplayed
    BY DEF Inv
  <1> QED
    BY <1>1, InvAlways, PTL

\* Which steps write the roles: a commit, of a current job.
LEMMA OnlyCommits ==
  ASSUME Inv, [Next]_vars
  PROVE  (\E p \in Apps : CommitRoles(p)) \/ (roles' = roles /\ history' = history)
  BY DEF Next, vars, Operator, Loop, Commit, Route, Environment, Schedule, Cancel, Authorize,
         ChangeMembership, Prepare, Recheck, Queue, Restore, CommitMembers, ReplayCommit, RefuseCommit,
         Validate, Reserve, Crash, Settle, Replay, Publish, Tick

\* activate_pending never backdates, however long a hand-over waits or how many
\* processes prepare it.
THEOREM NotBackdated == Spec => NeverBackdated
  <1> DEFINE Forward == roles'.active # roles.active =>
                          LET d == roles'.active.day
                          IN  Close(d) <= clock /\ roles.pending.day <= d /\ roles.active.day <= d
  <1>1. ASSUME Inv, [Next]_vars PROVE Forward
    <2>1. ASSUME NEW p \in Apps, CommitRoles(p), roles'.active # roles.active PROVE Forward
      <3>1. /\ FollowsRoles(job[p]) /\ KeepsDays(job[p]) /\ job[p].op \in RoleKinds
            /\ job[p].expected = revision["roles"] /\ roles' = job[p].roles
        BY <1>1, <2>1, CommitFacts DEF JobOK
      <3>2. job[p].op = "activate"
        BY <2>1, <3>1 DEF FollowsRoles
      <3> QED
        BY <3>1, <3>2 DEF KeepsDays
    <2> QED
      BY <1>1, <2>1, OnlyCommits
  <1>2. Inv /\ [Next]_vars => [Forward]_vars
    BY <1>1
  <1> QED
    BY <1>2, InvAlways, PTL DEF Spec, NeverBackdated

\* At the start every change is where its life starts.
LEMMA LifecycleInit == Init => Lifecycle!Init
  BY DEF Init, Lifecycle!Init, StageIn, RecordedIn, LegacyRoles, RolesOf

\* A commit is a step of the life of the change it is about.
LEMMA CommitIsLifecycle ==
  ASSUME Inv, NEW p \in Apps, CommitRoles(p)
  PROVE  Lifecycle!Next \/ UNCHANGED Lifecycle!vars
  <1> DEFINE c == job[p].change
             op == job[p].op
  <1>1. /\ c \in Changes /\ op \in RoleKinds /\ FollowsRoles(job[p])
        /\ job[p].expected = revision["roles"] /\ roles' = job[p].roles
        /\ job[p].late \in BOOLEAN
    BY CommitFacts DEF JobOK, Job
  <1>2. history' = history \cup {[kind |-> op, change |-> c, late |-> job[p].late]}
    BY DEF CommitRoles
  <1>3. ASSUME NEW kind, NEW d \in Changes
        PROVE  RecordedIn(history', kind, d) <=> RecordedIn(history, kind, d) \/ (kind = op /\ d = c)
    BY <1>1, <1>2 DEF RecordedIn
  <1>4. LogFits(history, roles.pending.id)
    BY DEF Inv, LogMatches
  <1>5. NoChange \notin Changes
    BY ControlAssumption
  <1>6. \A d \in Changes : d # c => StageIn(history', d) = StageIn(history, d)
    BY <1>3 DEF StageIn
  <1>7. ~Waiting => \A d \in Changes : StageIn(history, d) # "pending"
    BY <1>4, <1>5 DEF LogFits, Waiting
  <1>8. CASE op = "schedule"
    <2>1. ~Waiting /\ roles'.active = roles.active /\ ~RecordedIn(history, "schedule", c) /\ Content[c].keys # {}
      BY <1>1, <1>8 DEF FollowsRoles, CommitRoles, Replayed, Recorded
    <2>2. StageIn(history, c) = "new" /\ StageIn(history', c) = "pending"
      BY <1>1, <1>3, <1>4, <1>8, <2>1 DEF StageIn, LogFits
    <2>3. Lifecycle!Approve(c)
      BY <1>1, <1>6, <1>7, <2>1, <2>2 DEF Lifecycle!Approve, Lifecycle!Move
    <2> QED
      BY <1>1, <2>3 DEF Lifecycle!Next
  <1>9. CASE op = "designate"
    <2>1. ~Waiting /\ roles'.active = roles.active /\ ~RecordedIn(history, "designate", c) /\ Content[c].keys = {}
      BY <1>1, <1>9 DEF FollowsRoles, CommitRoles, Replayed, Recorded
    <2>2. StageIn(history, c) = "new" /\ StageIn(history', c) = "done"
      BY <1>1, <1>3, <1>4, <1>9, <2>1 DEF StageIn, LogFits
    <2>3. Lifecycle!Designate(c)
      BY <1>1, <1>6, <1>7, <2>1, <2>2 DEF Lifecycle!Designate, Lifecycle!Move
    <2> QED
      BY <1>1, <2>3 DEF Lifecycle!Next
  <1>10. CASE op = "cancel"
    <2>1. roles.pending.id = c /\ roles'.active = roles.active
      BY <1>1, <1>10 DEF FollowsRoles, OnPending
    <2>2. StageIn(history, c) = "pending"
      BY <1>1, <1>4, <2>1 DEF LogFits
    <2>3. StageIn(history', c) = "withdrawn"
      BY <1>1, <1>3, <1>10, <2>2 DEF StageIn
    <2>4. Lifecycle!Withdraw(c)
      BY <1>1, <1>6, <2>1, <2>2, <2>3 DEF Lifecycle!Withdraw, Lifecycle!Move
    <2> QED
      BY <1>1, <2>4 DEF Lifecycle!Next
  <1>11. CASE op = "activate"
    <2>1. roles.pending.id = c /\ roles'.active.id = c
      BY <1>1, <1>11 DEF FollowsRoles, OnPending
    <2>2. StageIn(history, c) = "pending"
      BY <1>1, <1>4, <2>1 DEF LogFits
    <2>3. StageIn(history', c) = "done"
      BY <1>1, <1>3, <1>11 DEF StageIn
    <2>4. Lifecycle!HandOver(c)
      BY <1>1, <1>6, <2>1, <2>2, <2>3 DEF Lifecycle!HandOver, Lifecycle!Move
    <2> QED
      BY <1>1, <2>4 DEF Lifecycle!Next
  <1>12. CASE op = "authorize"
    <2>1. roles'.active = roles.active
      BY <1>1, <1>12 DEF FollowsRoles
    <2>2. StageIn(history', c) = StageIn(history, c)
      BY <1>1, <1>3, <1>12 DEF StageIn
    <2>3. [d \in Changes |-> StageIn(history', d)] = [d \in Changes |-> StageIn(history, d)]
      BY <1>6, <2>2
    <2> QED
      BY <2>1, <2>3 DEF Lifecycle!vars
  <1> QED
    BY <1>1, <1>8, <1>9, <1>10, <1>11, <1>12 DEF RoleKinds

\* A reviewed change takes effect at most once, never after it was withdrawn,
\* and nothing else moves the allocation: StrategyControl implements
\* AllocationLifecycle.
THEOREM ImplementsLifecycle == Spec => KeepsLifecycle
  <1>1. Inv /\ [Next]_vars => [Lifecycle!Next]_(Lifecycle!vars)
    <2> SUFFICES ASSUME Inv, [Next]_vars PROVE Lifecycle!Next \/ UNCHANGED Lifecycle!vars
      OBVIOUS
    <2>1. CASE \E p \in Apps : CommitRoles(p)
      BY <2>1, CommitIsLifecycle
    <2>2. CASE roles' = roles /\ history' = history
      BY <2>2 DEF Lifecycle!vars
    <2> QED
      BY <2>1, <2>2, OnlyCommits
  <1> QED
    BY <1>1, LifecycleInit, InvAlways, PTL DEF Spec, KeepsLifecycle, Lifecycle!Spec
=============================================================================
