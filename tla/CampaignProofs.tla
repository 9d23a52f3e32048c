---------------------------- MODULE CampaignProofs ----------------------------
(***************************************************************************)
(* Machine-checked proofs about a campaign and those who watch it, for any *)
(* sets of contacts, launches and cancels and any number of deaths, in any *)
(* order and at the same time. First CampaignLaunch: the rows, then what   *)
(* launches and cancels do to each other. Then Dashboard: its readers      *)
(* and the outcomes of sent jobs leave the campaign alone, so all of that  *)
(* holds there too, outcomes only ever belong to sent jobs, and what the   *)
(* readers count, however far apart their statements, adds up.             *)
(***************************************************************************)
EXTENDS Dashboard, FiniteSetTheorems, TLAPS

-----------------------------------------------------------------------------
(* Overlapping requests                                                     *)

\* The jobs of a launch come into being in one step, when it stages them.
UnstagedHasNoJobs ==
  \A l \in Launches : pc[l] \in {"waiting", "accepted"} =>
    \A c \in Contacts : job[<<l, c>>] = "absent"

StagedHasJobs == \A l \in Launches : pc[l] = "staged" => JobsOf(l) \subseteq Created

\* The row locks: two cancels never hold jobs at the same time.
HeldByOne == \A k, q \in Cancels : k # q => held[k] = {} \/ held[q] = {}

LaunchInv ==
  /\ TypeOK
  /\ UnstagedHasNoJobs
  /\ StagedHasJobs
  /\ HeldByOne
  /\ TasksHaveJobs

LEMMA JobOfPair ==
  ASSUME NEW l \in Launches, NEW c \in Contacts
  PROVE  <<l, c>> \in Jobs
  BY DEF Jobs

LEMMA JobsOfAreJobs ==
  ASSUME TypeOK, NEW l \in Launches
  PROVE  /\ JobsOf(l) \subseteq Jobs
         /\ \A j \in JobsOf(l) : j[1] = l /\ j[2] \in Contacts /\ j = <<l, j[2]>>
  BY DEF TypeOK, JobsOf, Jobs

LEMMA HeldUnion ==
  ASSUME NEW j
  PROVE  j \in Held <=> \E k \in Cancels : j \in held[k]
  BY DEF Held

LEMMA InitLaunchInv ==
  ASSUME Init
  PROVE  LaunchInv
  <1>1. \A j \in Jobs : job[j] = "absent"
    BY DEF Init
  <1>2. TypeOK
    BY LaunchAssumption, HeldUnion
    DEF Init, TypeOK, CampaignStatuses, Requests, Phases, JobStatuses
  <1>3. UnstagedHasNoJobs
    BY <1>1, JobOfPair DEF UnstagedHasNoJobs
  <1>4. StagedHasJobs /\ HeldByOne /\ TasksHaveJobs
    BY DEF Init, StagedHasJobs, HeldByOne, TasksHaveJobs, Requests
  <1> QED
    BY <1>2, <1>3, <1>4 DEF LaunchInv

\* One request moves to another phase, without touching a job, a lock or a task.
LEMMA PhaseStep ==
  ASSUME LaunchInv, NEW r \in Requests, NEW phase \in Phases, Reaches(r, phase),
         phase \notin {"waiting", "staged"}, phase = "accepted" => pc[r] = "waiting",
         rendered' \in [Launches -> SUBSET Contacts],
         \A l \in Launches : l # r => rendered'[l] = rendered[l],
         UNCHANGED <<job, held, tasks, deaths>>, status' \in CampaignStatuses,
         met' \in [Requests -> SUBSET Requests]
  PROVE  LaunchInv'
  <1>1. pc' \in [Requests -> Phases] /\ \A q \in Requests : q # r => pc'[q] = pc[q]
    BY DEF LaunchInv, TypeOK, Reaches
  <1>2. pc'[r] = phase
    BY DEF LaunchInv, TypeOK, Reaches
  <1>3. Held' = Held /\ Created' = Created
    BY DEF Held, Created
  <1>4. TypeOK'
    BY <1>1, <1>3 DEF LaunchInv, TypeOK
  <1>5. UnstagedHasNoJobs'
    BY <1>1, <1>2 DEF LaunchInv, UnstagedHasNoJobs, Requests
  <1>6. StagedHasJobs'
    BY <1>1, <1>2, <1>3 DEF LaunchInv, StagedHasJobs, JobsOf, Requests
  <1> QED
    BY <1>3, <1>4, <1>5, <1>6 DEF LaunchInv, HeldByOne, TasksHaveJobs

\* What the invariant needs of a step after which the same jobs exist.
LEMMA JobStep ==
  ASSUME LaunchInv, TypeOK', UNCHANGED rendered, HeldByOne',
         Created' = Created, tasks' \subseteq Created,
         \A l \in Launches : /\ pc'[l] \in {"waiting", "accepted"} => pc'[l] = pc[l]
                             /\ pc'[l] = "staged" => pc[l] = "staged"
  PROVE  LaunchInv'
  <1>1. UnstagedHasNoJobs'
    BY JobOfPair DEF LaunchInv, UnstagedHasNoJobs, Created
  <1>2. StagedHasJobs'
    BY DEF LaunchInv, StagedHasJobs, JobsOf
  <1> QED
    BY <1>1, <1>2 DEF LaunchInv, TasksHaveJobs

LEMMA StageStep ==
  ASSUME LaunchInv, NEW l \in Launches, StageJobs(l)
  PROVE  /\ LaunchInv'
         /\ Created' = Created \cup JobsOf(l)
         /\ \A j \in JobsOf(l) : job[j] = "absent"
  <1>1. \A j \in JobsOf(l) : j \in Jobs /\ job[j] = "absent"
    BY JobsOfAreJobs DEF LaunchInv, UnstagedHasNoJobs, StageJobs
  <1>2. \A j \in Jobs : job'[j] = IF j \in JobsOf(l) THEN "queued" ELSE job[j]
    BY DEF StageJobs
  <1>3. Created' = Created \cup JobsOf(l)
    BY <1>1, <1>2 DEF Created
  <1>4. pc' \in [Requests -> Phases] /\ pc'[l] = "staged"
        /\ \A q \in Requests : q # l => pc'[q] = pc[q]
    BY DEF LaunchInv, TypeOK, StageJobs, Reaches, Phases, Requests
  <1>5. TypeOK'
    <2>1. \A j \in Held' : job'[j] = "queued"
      BY <1>1, <1>2 DEF LaunchInv, TypeOK, StageJobs, Held
    <2>2. job' \in [Jobs -> JobStatuses \cup {"absent"}]
      BY DEF LaunchInv, TypeOK, StageJobs, JobStatuses
    <2> QED
      BY <1>4, <2>1, <2>2 DEF LaunchInv, TypeOK, StageJobs, CampaignStatuses
  <1>6. UnstagedHasNoJobs'
    <2> SUFFICES ASSUME NEW m \in Launches, pc'[m] \in {"waiting", "accepted"},
                        NEW c \in Contacts
                 PROVE  job'[<<m, c>>] = "absent"
      BY DEF UnstagedHasNoJobs
    <2>1. m # l /\ pc[m] = pc'[m]
      BY <1>4 DEF Requests
    <2>2. <<m, c>> \notin JobsOf(l)
      BY <2>1, JobsOfAreJobs DEF LaunchInv
    <2> QED
      BY <1>2, <2>1, <2>2, JobOfPair DEF LaunchInv, UnstagedHasNoJobs
  <1>7. StagedHasJobs'
    <2> SUFFICES ASSUME NEW m \in Launches, pc'[m] = "staged"
                 PROVE  JobsOf(m)' \subseteq Created'
      BY DEF StagedHasJobs
    <2>1. JobsOf(m)' = JobsOf(m)
      BY DEF StageJobs, JobsOf
    <2>2. m # l => pc[m] = "staged"
      BY <1>4 DEF Requests
    <2> QED
      BY <1>3, <2>1, <2>2 DEF LaunchInv, StagedHasJobs
  <1> QED
    BY <1>1, <1>3, <1>5, <1>6, <1>7 DEF LaunchInv, StageJobs, HeldByOne, TasksHaveJobs

LEMMA EnqueueStep ==
  ASSUME LaunchInv, NEW l \in Launches, EnqueueTasks(l)
  PROVE  LaunchInv' /\ Created' = Created
  <1>1. Created' = Created /\ Held' = Held
    BY DEF EnqueueTasks, Created, Held
  <1>2. pc' \in [Requests -> Phases] /\ pc'[l] = "enqueued"
        /\ \A q \in Requests : q # l => pc'[q] = pc[q]
    BY DEF LaunchInv, TypeOK, EnqueueTasks, Reaches, Phases, Requests
  <1>3. tasks' \subseteq Created
    BY DEF LaunchInv, StagedHasJobs, TasksHaveJobs, EnqueueTasks
  <1>4. TypeOK'
    BY <1>1, <1>2, <1>3 DEF LaunchInv, TypeOK, EnqueueTasks, Created
  <1>5. HeldByOne' /\ UNCHANGED rendered
    BY DEF LaunchInv, HeldByOne, EnqueueTasks
  <1> QED
    BY <1>1, <1>2, <1>3, <1>4, <1>5, JobStep DEF Requests

LEMMA MarkStep ==
  ASSUME LaunchInv, NEW k \in Cancels, MarkCancelled(k)
  PROVE  LaunchInv' /\ Created' = Created /\ held'[k] = Queued
  <1>1. Created' = Created
    BY DEF MarkCancelled, Created
  <1>2. pc' \in [Requests -> Phases] /\ pc'[k] = "marked"
        /\ \A q \in Requests : q # k => pc'[q] = pc[q]
    BY DEF LaunchInv, TypeOK, MarkCancelled, Reaches, Phases, Requests
  <1>3. \A q \in Cancels : held'[q] = IF q = k THEN Queued ELSE {}
    BY HeldUnion DEF LaunchInv, TypeOK, MarkCancelled, Held
  <1>4. \A j \in Held' : job'[j] = "queued"
    BY <1>3 DEF MarkCancelled, Held, Queued
  <1>5. held' \in [Cancels -> SUBSET Jobs]
    BY DEF LaunchInv, TypeOK, MarkCancelled, Queued
  <1>6. TypeOK'
    BY <1>2, <1>4, <1>5 DEF LaunchInv, TypeOK, MarkCancelled
  <1>7. HeldByOne'
    BY <1>3 DEF HeldByOne
  <1>8. UNCHANGED <<rendered, tasks>> /\ tasks \subseteq Created
    BY DEF LaunchInv, TasksHaveJobs, MarkCancelled
  <1> QED
    BY <1>1, <1>2, <1>3, <1>6, <1>7, <1>8, JobStep DEF Requests, Phases

LEMMA CommitStep ==
  ASSUME LaunchInv, NEW k \in Cancels, CommitCancel(k)
  PROVE  /\ LaunchInv'
         /\ Created' = Created
         /\ \A j \in held[k] : j \in Jobs /\ job[j] = "queued"
  <1>1. \A j \in held[k] : j \in Jobs /\ job[j] = "queued"
    BY HeldUnion DEF LaunchInv, TypeOK
  <1>2. \A j \in Jobs : job'[j] = IF j \in held[k] THEN "cancelled" ELSE job[j]
    BY DEF CommitCancel
  <1>3. Created' = Created
    BY <1>1, <1>2 DEF Created
  <1>4. pc' \in [Requests -> Phases] /\ pc'[k] = "answered"
        /\ \A q \in Requests : q # k => pc'[q] = pc[q]
    BY DEF LaunchInv, TypeOK, CommitCancel, Reaches, Phases, Requests
  <1>5. \A q \in Cancels : held'[q] = IF q = k THEN {} ELSE held[q]
    BY DEF LaunchInv, TypeOK, CommitCancel
  <1>6. TypeOK'
    <2>1. ASSUME NEW j \in Held' PROVE job'[j] = "queued"
      <3>1. PICK q \in Cancels : j \in held'[q]
        BY DEF Held
      <3>2. q # k /\ j \in held[q] /\ j \notin held[k]
        BY <1>5, <3>1 DEF LaunchInv, HeldByOne
      <3>3. j \in Jobs /\ job[j] = "queued"
        BY <3>2, HeldUnion DEF LaunchInv, TypeOK
      <3> QED
        BY <1>2, <3>2, <3>3
    <2>2. job' \in [Jobs -> JobStatuses \cup {"absent"}]
      BY DEF LaunchInv, TypeOK, CommitCancel, JobStatuses
    <2>3. held' \in [Cancels -> SUBSET Jobs]
      BY DEF LaunchInv, TypeOK, CommitCancel
    <2> QED
      BY <1>4, <2>1, <2>2, <2>3 DEF LaunchInv, TypeOK, CommitCancel, CampaignStatuses
  <1>7. HeldByOne'
    BY <1>5 DEF LaunchInv, HeldByOne
  <1>8. UNCHANGED <<rendered, tasks>> /\ tasks \subseteq Created
    BY DEF LaunchInv, TasksHaveJobs, CommitCancel
  <1> QED
    BY <1>1, <1>3, <1>4, <1>6, <1>7, <1>8, JobStep DEF Requests, Phases

LEMMA ExecuteStep ==
  ASSUME LaunchInv, NEW j \in Jobs, NEW outcome, Execute(j, outcome)
  PROVE  LaunchInv' /\ Created' = Created
  <1>1. \A i \in Jobs : job'[i] = IF i = j THEN outcome ELSE job[i]
    BY DEF LaunchInv, TypeOK, Execute
  <1>2. Created' = Created
    BY <1>1 DEF Execute, Created
  <1>3. TypeOK'
    <2>1. Held' = Held /\ Held \subseteq Jobs
      BY DEF Execute, Held, LaunchInv, TypeOK
    <2>2. job' \in [Jobs -> JobStatuses \cup {"absent"}]
      BY DEF LaunchInv, TypeOK, Execute, JobStatuses
    <2> QED
      BY <1>1, <2>1, <2>2 DEF LaunchInv, TypeOK, Execute
  <1>4. HeldByOne' /\ UNCHANGED <<rendered, pc>> /\ tasks' \subseteq Created
    BY DEF LaunchInv, HeldByOne, TasksHaveJobs, Execute
  <1> QED
    BY <1>2, <1>3, <1>4, JobStep

LEMMA DieStep ==
  ASSUME LaunchInv, NEW r \in Requests, Die(r)
  PROVE  LaunchInv' /\ Created' = Created
  <1>1. Created' = Created
    BY DEF Die, Created
  <1>2. pc' \in [Requests -> Phases] /\ pc'[r] = "lost"
        /\ \A q \in Requests : q # r => pc'[q] = pc[q]
    BY DEF LaunchInv, TypeOK, Die, Reaches, Phases
  <1>3. \A k \in Cancels : held'[k] = IF k = r THEN {} ELSE held[k]
    BY DEF Die
  <1>4. Held' \subseteq Held
    BY <1>3 DEF Held
  <1>5. deaths' \in 0..MaxDeaths
    BY LaunchAssumption DEF LaunchInv, TypeOK, Die
  <1>6. held' \in [Cancels -> SUBSET Jobs]
    BY DEF LaunchInv, TypeOK, Die
  <1>7. TypeOK'
    BY <1>2, <1>4, <1>5, <1>6 DEF LaunchInv, TypeOK, Die
  <1>8. HeldByOne'
    BY <1>3 DEF LaunchInv, HeldByOne
  <1>9. UNCHANGED <<rendered, tasks>> /\ tasks \subseteq Created
    BY DEF LaunchInv, TasksHaveJobs, Die
  <1> QED
    BY <1>1, <1>2, <1>7, <1>8, <1>9, JobStep DEF Requests

LEMMA AcceptLaunchStep ==
  ASSUME LaunchInv, NEW l \in Launches, NEW contacts \in SUBSET Contacts,
         AcceptLaunch(l, contacts)
  PROVE  LaunchInv' /\ Created' = Created
  <1>1. /\ rendered' \in [Launches -> SUBSET Contacts]
        /\ \A m \in Launches : m # l => rendered'[m] = rendered[m]
    BY DEF LaunchInv, TypeOK, AcceptLaunch
  <1>2. pc[l] = "waiting" /\ l \in Requests
    BY DEF AcceptLaunch, Accept, Arrives, Requests
  <1>3. /\ status' \in CampaignStatuses /\ Reaches(l, "accepted")
        /\ met' \in [Requests -> SUBSET Requests]
    BY DEF LaunchInv, TypeOK, AcceptLaunch, Accept
  <1> QED
    BY <1>1, <1>2, <1>3, PhaseStep DEF AcceptLaunch, Phases, Created

\* The steps that leave jobs, locks and tasks alone.
LEMMA QuietStep ==
  ASSUME LaunchInv, NEW r \in Requests,
         \/ Refuse(r)
         \/ r \in Launches /\ MarkRunning(r)
         \/ r \in Cancels /\ AcceptCancel(r)
  PROVE  LaunchInv' /\ Created' = Created
  <1>1. /\ rendered' \in [Launches -> SUBSET Contacts]
        /\ \A l \in Launches : l # r => rendered'[l] = rendered[l]
        /\ status' \in CampaignStatuses
        /\ UNCHANGED <<job, held, tasks, deaths>>
        /\ met' \in [Requests -> SUBSET Requests]
    BY DEF LaunchInv, TypeOK, Refuse, MarkRunning, AcceptCancel, Accept, CampaignStatuses
  <1>2. \/ Reaches(r, "answered")
        \/ Reaches(r, "accepted") /\ pc[r] = "waiting"
    BY DEF Refuse, MarkRunning, AcceptCancel, Accept, Arrives
  <1> QED
    BY <1>1, <1>2, PhaseStep DEF Phases, Created

LEMMA LaunchInvStep ==
  ASSUME LaunchInv, [Next]_vars
  PROVE  LaunchInv'
  <1>1. ASSUME NEW l \in Launches, NEW contacts \in SUBSET Contacts, AcceptLaunch(l, contacts)
        PROVE  LaunchInv'
    BY <1>1, AcceptLaunchStep
  <1>2. ASSUME NEW l \in Launches, RefuseLaunch(l) \/ MarkRunning(l)
        PROVE  LaunchInv'
    BY <1>2, QuietStep DEF RefuseLaunch, Requests
  <1>3. ASSUME NEW l \in Launches, StageJobs(l)
        PROVE  LaunchInv'
    BY <1>3, StageStep
  <1>4. ASSUME NEW l \in Launches, EnqueueTasks(l)
        PROVE  LaunchInv'
    BY <1>4, EnqueueStep
  <1>5. ASSUME NEW k \in Cancels, AcceptCancel(k) \/ RefuseCancel(k)
        PROVE  LaunchInv'
    BY <1>5, QuietStep DEF RefuseCancel, Requests
  <1>6. ASSUME NEW k \in Cancels, MarkCancelled(k)
        PROVE  LaunchInv'
    BY <1>6, MarkStep
  <1>7. ASSUME NEW k \in Cancels, CommitCancel(k)
        PROVE  LaunchInv'
    BY <1>7, CommitStep
  <1>8. ASSUME NEW j \in Jobs, NEW outcome \in JobStatuses, Execute(j, outcome)
        PROVE  LaunchInv'
    BY <1>8, ExecuteStep
  <1>9. ASSUME NEW r \in Requests, Die(r)
        PROVE  LaunchInv'
    BY <1>9, DieStep
  <1>10. CASE UNCHANGED vars
    BY <1>10 DEF LaunchInv, vars, TypeOK, UnstagedHasNoJobs, StagedHasJobs, JobsOf, HeldByOne,
                 TasksHaveJobs, Held, Created
  <1> QED
    BY <1>1, <1>2, <1>3, <1>4, <1>5, <1>6, <1>7, <1>8, <1>9, <1>10
    DEF Next, LaunchStep, CancelStep

LEMMA LaunchInvariant == Spec => []LaunchInv
  BY InitLaunchInv, LaunchInvStep, PTL DEF Spec

\* However requests overlap and die, the state is well-typed and an open cancel holds
\* nothing but queued jobs.
THEOREM LaunchTyped == Spec => []TypeOK
  <1>1. LaunchInv => TypeOK
    BY DEF LaunchInv
  <1> QED
    BY <1>1, LaunchInvariant, PTL

\* However requests overlap and die, launch_campaign enqueues a task only for a job that
\* is committed.
THEOREM TasksExist == Spec => []TasksHaveJobs
  <1>1. LaunchInv => TasksHaveJobs
    BY DEF LaunchInv
  <1> QED
    BY <1>1, LaunchInvariant, PTL

LEMMA SettledStep ==
  ASSUME LaunchInv, Next, NEW j \in Jobs, job[j] \in JobTerminal
  PROVE  job'[j] = job[j]
  <1>1. job[j] \notin {"absent", "queued", "failed_transient"}
    BY DEF JobTerminal
  <1>2. ASSUME NEW l \in Launches, StageJobs(l)
        PROVE  job'[j] = job[j]
    BY <1>1, <1>2, StageStep DEF StageJobs
  <1>3. ASSUME NEW k \in Cancels, CommitCancel(k)
        PROVE  job'[j] = job[j]
    BY <1>1, <1>3, CommitStep DEF CommitCancel
  <1>4. ASSUME NEW i \in Jobs, NEW outcome \in JobStatuses, Execute(i, outcome)
        PROVE  job'[j] = job[j]
    BY <1>1, <1>4 DEF Execute, LaunchInv, TypeOK
  <1> QED
    BY <1>2, <1>3, <1>4
    DEF Next, LaunchStep, CancelStep, AcceptLaunch, RefuseLaunch, EnqueueTasks, MarkRunning,
        AcceptCancel, RefuseCancel, Refuse, MarkCancelled, Die

\* No launch, cancel, worker or death, in whatever order, changes a settled job.
THEOREM SettledJobsStay == Spec => JobSettledForGood
  <1>1. LaunchInv /\ [Next]_vars =>
          [\A j \in Jobs : job[j] \in JobTerminal => job'[j] = job[j]]_vars
    BY SettledStep
  <1> QED
    BY <1>1, LaunchInvariant, PTL DEF Spec, JobSettledForGood

-----------------------------------------------------------------------------
(* What overlapping requests can still do                                   *)

OpenHaveMet ==
  \A q, r \in Requests : q # r /\ Open(q) /\ Open(r) => r \in met[q]

\* Where a launch has come: it commits its status before anything else, its jobs are
\* those it resolved, and its tasks are there once it has enqueued them.
LaunchPhases ==
  /\ status \in {"draft", "launching", "running", "cancelled"}
  /\ Created # {} => status \notin Launchable
  /\ \A j \in Created : j \in JobsOf(j[1])
  /\ \A l \in Launches :
       /\ pc[l] \in {"staged", "enqueued"} => status \notin Launchable
       /\ pc[l] = "enqueued" => JobsOf(l) \subseteq tasks

\* An open launch was accepted before any job existed: it has met the launch of each.
BesideStaged ==
  \A m \in Launches : Open(m) =>
    \A j \in Created : j[1] # m => j[1] \in met[m] /\ m \in met[j[1]]

\* What a cancel has not locked came after its UPDATE, while it was open.
CancelPhases ==
  \A k \in Cancels : pc[k] = "marked" =>
    \A j \in Queued \ held[k] : j[1] \in BesideCancel

\* A launch still open once the campaign was cancelled, or was running, has met the
\* request that brought it there.
OpenIsBeside ==
  \A m \in Launches : Open(m) =>
    /\ status = "cancelled" => m \in BesideCancel
    /\ status = "running" => m \in BesideLaunch

OverlapInv ==
  /\ OpenHaveMet
  /\ LaunchPhases
  /\ BesideStaged
  /\ CancelPhases
  /\ OpenIsBeside
  /\ OnlyOverlapMailsTwice
  /\ RunningIsEnqueued
  /\ CancelledLeavesNothingQueued

LEMMA InitOverlapInv ==
  ASSUME Init
  PROVE  OverlapInv
  <1>1. Created = {} /\ Queued = {}
    BY DEF Init, Created, Queued
  <1>2. \A r \in Requests : pc[r] = "waiting" /\ ~Open(r)
    BY DEF Init, Open
  <1> QED
    BY <1>1, <1>2 DEF Init, OverlapInv, OpenHaveMet, LaunchPhases, BesideStaged, CancelPhases,
       OpenIsBeside, OnlyOverlapMailsTwice, RunningIsEnqueued, CancelledLeavesNothingQueued,
       Requests

LEMMA Disjoint ==
  ASSUME NEW l \in Launches, NEW k \in Cancels
  PROVE  l # k /\ l \in Requests /\ k \in Requests
  BY LaunchAssumption DEF Requests

\* Who has been open beside whom is only added to.
LEMMA BesideGrows ==
  ASSUME LaunchInv, \A q \in Requests : met[q] \subseteq met'[q]
  PROVE  BesideLaunch \subseteq BesideLaunch' /\ BesideCancel \subseteq BesideCancel'
  BY DEF BesideLaunch, BesideCancel, Requests

\* A request that is accepted is beside those that are open, and they beside it.
LEMMA AcceptMeets ==
  ASSUME LaunchInv, OpenHaveMet, NEW r \in Requests, Accept(r)
  PROVE  /\ OpenHaveMet'
         /\ \A q \in Requests : met[q] \subseteq met'[q]
         /\ pc'[r] = "accepted" /\ \A q \in Requests : q # r => pc'[q] = pc[q]
  <1>1. /\ pc[r] = "waiting" /\ pc'[r] = "accepted"
        /\ \A q \in Requests : q # r => pc'[q] = pc[q]
    BY DEF LaunchInv, TypeOK, Accept, Arrives, Reaches
  <1>2. \A q \in Requests :
          met'[q] = met[q] \cup {p \in Requests : (q = r /\ Open(p)) \/ (p = r /\ Open(q))}
    BY DEF Accept
  <1>3. OpenHaveMet'
    <2> SUFFICES ASSUME NEW p \in Requests, NEW q \in Requests, p # q, Open(p)', Open(q)'
                 PROVE  q \in met'[p]
      BY DEF OpenHaveMet
    <2>1. p # r => Open(p)
      BY <1>1 DEF Open
    <2>2. q # r => Open(q)
      BY <1>1 DEF Open
    <2>3. met'[p] = met[p] \cup {x \in Requests : (p = r /\ Open(x)) \/ (x = r /\ Open(p))}
      BY <1>2
    <2>4. p # r /\ q # r => q \in met[p]
      BY <2>1, <2>2 DEF OpenHaveMet
    <2>5. (p = r /\ Open(q)) \/ (q = r /\ Open(p)) \/ q \in met[p]
      BY <2>1, <2>2, <2>4
    <2> QED
      BY <2>3, <2>5
  <1> QED
    BY <1>1, <1>2, <1>3

\* Nothing of a launch changes in a step that stages nothing and accepts no launch, once
\* it is known what becomes of the status, the tasks and the locks.
LEMMA KeptStep ==
  ASSUME LaunchInv, OverlapInv, OpenHaveMet', Created' = Created, Queued' \subseteq Queued,
         UNCHANGED rendered, tasks \subseteq tasks',
         \A q \in Requests : met[q] \subseteq met'[q],
         \A l \in Launches :
           /\ Open(l)' => Open(l)
           /\ pc'[l] \in {"staged", "enqueued"} => pc[l] \in {"staged", "enqueued"}
           /\ pc'[l] = "enqueued" => pc[l] = "enqueued" \/ JobsOf(l) \subseteq tasks',
         \A k \in Cancels : pc'[k] = "marked" =>
           \/ pc[k] = "marked" /\ held'[k] = held[k]
           \/ Queued \subseteq held'[k],
         \/ UNCHANGED status
         \/ /\ status' \in {"running", "cancelled"}
            /\ OpenIsBeside' /\ RunningIsEnqueued' /\ CancelledLeavesNothingQueued'
  PROVE  OverlapInv'
  <1>1. BesideLaunch \subseteq BesideLaunch' /\ BesideCancel \subseteq BesideCancel'
    BY BesideGrows
  <1>2. \A l \in Launches : JobsOf(l)' = JobsOf(l)
    BY DEF JobsOf
  <1>3. \A j \in Created : j[1] \in Launches
    BY DEF Created, Jobs
  <1>4. LaunchPhases'
    BY <1>2, <1>3 DEF OverlapInv, LaunchPhases, Launchable
  <1>5. BesideStaged'
    <2> SUFFICES ASSUME NEW m \in Launches, Open(m)', NEW j \in Created', j[1] # m
                 PROVE  j[1] \in met'[m] /\ m \in met'[j[1]]
      BY DEF BesideStaged
    <2>1. Open(m) /\ j \in Created /\ m \in Requests /\ j[1] \in Requests
      BY <1>3 DEF Requests
    <2> QED
      BY <2>1 DEF OverlapInv, BesideStaged
  <1>6. CancelPhases'
    BY <1>1 DEF OverlapInv, CancelPhases
  <1>7. OnlyOverlapMailsTwice'
    BY <1>3 DEF OverlapInv, OnlyOverlapMailsTwice, Requests
  <1>8. OpenIsBeside' /\ RunningIsEnqueued' /\ CancelledLeavesNothingQueued'
    <2>1. CASE UNCHANGED status
      <3>1. OpenIsBeside'
        BY <1>1, <2>1 DEF OverlapInv, OpenIsBeside
      <3>2. RunningIsEnqueued'
        BY <1>1, <2>1 DEF OverlapInv, RunningIsEnqueued
      <3>3. CancelledLeavesNothingQueued'
        BY <1>1, <2>1 DEF OverlapInv, CancelledLeavesNothingQueued
      <3> QED
        BY <3>1, <3>2, <3>3
    <2> QED
      BY <2>1
  <1> QED
    BY <1>4, <1>5, <1>6, <1>7, <1>8 DEF OverlapInv

\* A launch is only accepted while no job exists, and nothing has run or been cancelled.
LEMMA OverlapAcceptLaunch ==
  ASSUME LaunchInv, OverlapInv, NEW l \in Launches, NEW contacts \in SUBSET Contacts,
         AcceptLaunch(l, contacts)
  PROVE  OverlapInv'
  <1>1. /\ OpenHaveMet'
        /\ \A q \in Requests : met[q] \subseteq met'[q]
        /\ pc'[l] = "accepted" /\ \A q \in Requests : q # l => pc'[q] = pc[q]
    BY AcceptMeets DEF OverlapInv, AcceptLaunch, Requests
  <1>2. /\ status \in Launchable /\ status' = status
        /\ Created = {} /\ Created' = {} /\ Queued' = Queued /\ UNCHANGED <<held, tasks>>
    BY DEF OverlapInv, LaunchPhases, AcceptLaunch, Created, Queued
  <1>3. Queued = {}
    BY <1>2 DEF Created, Queued
  <1>4. LaunchPhases'
    BY <1>1, <1>2 DEF OverlapInv, LaunchPhases, Requests
  <1> QED
    BY <1>1, <1>2, <1>3, <1>4 DEF OverlapInv, BesideStaged, CancelPhases, OpenIsBeside,
       OnlyOverlapMailsTwice, RunningIsEnqueued, CancelledLeavesNothingQueued, Launchable

LEMMA OverlapAcceptCancel ==
  ASSUME LaunchInv, OverlapInv, NEW k \in Cancels, AcceptCancel(k)
  PROVE  OverlapInv'
  <1>1. /\ OpenHaveMet'
        /\ \A q \in Requests : met[q] \subseteq met'[q]
        /\ pc'[k] = "accepted" /\ \A q \in Requests : q # k => pc'[q] = pc[q]
    BY AcceptMeets DEF OverlapInv, AcceptCancel, Requests
  <1>2. Created' = Created /\ Queued' = Queued /\ UNCHANGED <<status, rendered, held, tasks>>
    BY DEF AcceptCancel, Created, Queued
  <1>3. \A l \in Launches : pc'[l] = pc[l] /\ (Open(l)' <=> Open(l))
    BY <1>1, Disjoint DEF Open
  <1>4. \A q \in Cancels : pc'[q] = "marked" => pc[q] = "marked" /\ held'[q] = held[q]
    BY <1>1, <1>2 DEF Requests
  <1> QED
    BY <1>1, <1>2, <1>3, <1>4, KeptStep

\* The jobs that come are those of an open launch, beside every other open request.
LEMMA OverlapStage ==
  ASSUME LaunchInv, OverlapInv, NEW l \in Launches, StageJobs(l)
  PROVE  /\ OverlapInv'
         /\ status = "cancelled" => l \in BesideCancel
         /\ status = "running" => l \in BesideLaunch
  <1>1. /\ pc[l] = "accepted" /\ pc'[l] = "staged"
        /\ \A q \in Requests : q # l => pc'[q] = pc[q]
        /\ status' = "launching" /\ UNCHANGED <<rendered, held, tasks, met>>
    BY DEF LaunchInv, TypeOK, StageJobs, Reaches, Requests
  <1>2. Created' = Created \cup JobsOf(l) /\ Queued' = Queued \cup JobsOf(l)
    <2>1. Queued' = Queued \cup JobsOf(l)
      BY JobsOfAreJobs, StageStep DEF StageJobs, Queued, LaunchInv
    <2> QED
      BY <2>1, StageStep
  <1>3. \A j \in JobsOf(l) : j[1] = l
    BY JobsOfAreJobs DEF LaunchInv
  <1>4. \A q \in Requests : Open(q)' <=> Open(q)
    BY <1>1 DEF Open
  <1>5. Open(l) /\ l \in Requests /\ BesideLaunch' = BesideLaunch /\ BesideCancel' = BesideCancel
    BY <1>1 DEF Open, Requests, BesideLaunch, BesideCancel
  <1>6. \A m \in Launches : Open(m) /\ m # l => l \in met[m] /\ m \in met[l]
    BY <1>5 DEF OverlapInv, OpenHaveMet, Requests
  <1>7. OpenHaveMet'
    BY <1>1, <1>4 DEF OverlapInv, OpenHaveMet
  <1>8. LaunchPhases'
    <2>1. \A m \in Launches : JobsOf(m)' = JobsOf(m)
      BY <1>1 DEF JobsOf
    <2>2. \A j \in Created : j[1] \in Launches
      BY DEF Created, Jobs
    <2> QED
      BY <1>1, <1>2, <1>3, <2>1, <2>2
      DEF OverlapInv, LaunchPhases, Launchable, Requests
  <1>9. BesideStaged'
    <2> SUFFICES ASSUME NEW m \in Launches, Open(m)', NEW j \in Created', j[1] # m
                 PROVE  j[1] \in met'[m] /\ m \in met'[j[1]]
      BY DEF BesideStaged
    <2>1. Open(m) /\ met' = met
      BY <1>1, <1>4 DEF Requests
    <2>2. CASE j \in Created
      BY <2>1, <2>2 DEF OverlapInv, BesideStaged
    <2>3. CASE j \in JobsOf(l)
      BY <1>3, <1>6, <2>1, <2>3
    <2> QED
      BY <1>2, <2>2, <2>3
  <1>10. CancelPhases'
    <2> SUFFICES ASSUME NEW k \in Cancels, pc'[k] = "marked", NEW j \in Queued' \ held'[k]
                 PROVE  j[1] \in BesideCancel
      BY <1>5 DEF CancelPhases
    <2>1. pc[k] = "marked" /\ held'[k] = held[k] /\ k \in Requests /\ k # l
      BY <1>1, Disjoint
    <2>2. CASE j \in Queued
      BY <2>1, <2>2 DEF OverlapInv, CancelPhases
    <2>3. CASE j \in JobsOf(l)
      <3>1. k \in met[l]
        BY <1>5, <2>1 DEF OverlapInv, OpenHaveMet, Open
      <3> QED
        BY <1>3, <2>3, <3>1 DEF BesideCancel
    <2> QED
      BY <1>2, <2>2, <2>3
  <1>11. OnlyOverlapMailsTwice'
    <2> SUFFICES ASSUME NEW i \in Created', NEW j \in Created', i[2] = j[2], i # j
                 PROVE  i[1] \in met[j[1]]
      BY <1>1 DEF OnlyOverlapMailsTwice
    <2>1. i \in Launches \X Contacts /\ j \in Launches \X Contacts
      BY DEF Created, Jobs
    <2>2. CASE i \in Created /\ j \in Created
      BY <2>2 DEF OverlapInv, OnlyOverlapMailsTwice
    <2>3. CASE i \in JobsOf(l) /\ j \in JobsOf(l)
      BY <1>3, <2>1, <2>3
    <2>4. CASE i \in Created /\ j \in JobsOf(l) /\ i[1] # l
      BY <1>3, <1>5, <2>4 DEF OverlapInv, BesideStaged
    <2>5. CASE i \in JobsOf(l) /\ j \in Created /\ j[1] # l
      BY <1>3, <1>5, <2>5 DEF OverlapInv, BesideStaged
    <2>6. i[1] # j[1]
      BY <2>1
    <2> QED
      BY <1>2, <1>3, <2>2, <2>3, <2>4, <2>5, <2>6
  <1> QED
    BY <1>1, <1>5, <1>7, <1>8, <1>9, <1>10, <1>11
    DEF OverlapInv, OpenIsBeside, RunningIsEnqueued, CancelledLeavesNothingQueued

LEMMA OverlapEnqueue ==
  ASSUME LaunchInv, OverlapInv, NEW l \in Launches, EnqueueTasks(l)
  PROVE  OverlapInv'
  <1>1. /\ pc[l] = "staged" /\ pc'[l] = "enqueued"
        /\ \A q \in Requests : q # l => pc'[q] = pc[q]
        /\ UNCHANGED <<status, rendered, job, held, met>> /\ tasks' = tasks \cup JobsOf(l)
    BY DEF LaunchInv, TypeOK, EnqueueTasks, Reaches, Requests
  <1>2. Created' = Created /\ Queued' = Queued
    BY <1>1 DEF Created, Queued
  <1>3. \A q \in Requests : Open(q)' <=> Open(q)
    BY <1>1 DEF Open
  <1>4. OpenHaveMet'
    BY <1>1, <1>3 DEF OverlapInv, OpenHaveMet
  <1>5. \A k \in Cancels : pc'[k] = pc[k] /\ held'[k] = held[k]
    BY <1>1, Disjoint
  <1>6. \A m \in Launches :
          /\ Open(m)' => Open(m)
          /\ pc'[m] \in {"staged", "enqueued"} => pc[m] \in {"staged", "enqueued"}
          /\ pc'[m] = "enqueued" => pc[m] = "enqueued" \/ JobsOf(m) \subseteq tasks'
    BY <1>1, <1>3 DEF Requests
  <1> QED
    BY <1>1, <1>2, <1>4, <1>5, <1>6, KeptStep

\* The launch has its own tasks; the jobs of any other one it has met.
LEMMA OverlapRun ==
  ASSUME LaunchInv, OverlapInv, NEW l \in Launches, MarkRunning(l)
  PROVE  /\ OverlapInv'
         /\ status \notin Launchable
         /\ status = "cancelled" => l \in BesideCancel
  <1>1. /\ pc[l] = "enqueued" /\ pc'[l] = "answered"
        /\ \A q \in Requests : q # l => pc'[q] = pc[q]
        /\ status' = "running" /\ UNCHANGED <<rendered, job, held, tasks, met>>
    BY DEF LaunchInv, TypeOK, MarkRunning, Reaches, Requests
  <1>2. Created' = Created /\ Queued' = Queued
    BY <1>1 DEF Created, Queued
  <1>3. \A q \in Requests : Open(q)' <=> q # l /\ Open(q)
    BY <1>1 DEF Open
  <1>4. OpenHaveMet'
    BY <1>1, <1>3 DEF OverlapInv, OpenHaveMet
  <1>5. Open(l) /\ l \in Requests /\ BesideLaunch' = BesideLaunch
    BY <1>1 DEF Open, Requests, BesideLaunch
  <1>6. OpenIsBeside'
    <2> SUFFICES ASSUME NEW m \in Launches, Open(m)'
                 PROVE  m \in BesideLaunch
      BY <1>1, <1>5 DEF OpenIsBeside
    <2>1. l \in met[m]
      BY <1>3, <1>5 DEF OverlapInv, OpenHaveMet, Requests
    <2> QED
      BY <2>1 DEF BesideLaunch
  <1>7. RunningIsEnqueued'
    <2> SUFFICES ASSUME NEW j \in Created \ tasks
                 PROVE  j[1] \in BesideLaunch
      BY <1>1, <1>2, <1>5 DEF RunningIsEnqueued
    <2>1. j[1] # l /\ j[1] \in Launches
      BY <1>1 DEF OverlapInv, LaunchPhases, Created, Jobs
    <2>2. l \in met[j[1]]
      BY <1>5, <2>1 DEF OverlapInv, BesideStaged
    <2> QED
      BY <2>1, <2>2 DEF BesideLaunch
  <1>8. CancelledLeavesNothingQueued'
    BY <1>1 DEF CancelledLeavesNothingQueued
  <1>9. \A k \in Cancels : pc'[k] = pc[k] /\ held'[k] = held[k]
    BY <1>1, Disjoint
  <1>10. \A m \in Launches :
          /\ Open(m)' => Open(m)
          /\ pc'[m] \in {"staged", "enqueued"} => pc[m] \in {"staged", "enqueued"}
          /\ pc'[m] = "enqueued" => pc[m] = "enqueued" \/ JobsOf(m) \subseteq tasks'
    BY <1>1, <1>3 DEF Requests
  <1>11. OverlapInv'
    BY <1>1, <1>2, <1>4, <1>6, <1>7, <1>8, <1>9, <1>10, KeptStep
  <1> QED
    BY <1>1, <1>5, <1>11 DEF OverlapInv, LaunchPhases, OpenIsBeside

LEMMA OverlapMark ==
  ASSUME LaunchInv, OverlapInv, NEW k \in Cancels, MarkCancelled(k)
  PROVE  OverlapInv'
  <1>1. /\ pc[k] = "accepted" /\ pc'[k] = "marked"
        /\ \A q \in Requests : q # k => pc'[q] = pc[q]
        /\ UNCHANGED <<status, rendered, job, tasks, met>>
        /\ held'[k] = Queued /\ \A q \in Cancels : q # k => held'[q] = held[q]
    BY MarkStep DEF LaunchInv, TypeOK, MarkCancelled, Reaches, Requests
  <1>2. Created' = Created /\ Queued' = Queued
    BY <1>1 DEF Created, Queued
  <1>3. \A q \in Requests : Open(q)' <=> Open(q)
    BY <1>1 DEF Open
  <1>4. OpenHaveMet'
    BY <1>1, <1>3 DEF OverlapInv, OpenHaveMet
  <1>5. \A m \in Launches : pc'[m] = pc[m] /\ (Open(m)' => Open(m))
    BY <1>1, <1>3, Disjoint
  <1>6. \A q \in Cancels : pc'[q] = "marked" =>
          \/ pc[q] = "marked" /\ held'[q] = held[q]
          \/ Queued \subseteq held'[q]
    BY <1>1 DEF Requests
  <1> QED
    BY <1>1, <1>2, <1>4, <1>5, <1>6, KeptStep

\* What the cancel has not locked belongs to a launch that was open beside it.
LEMMA OverlapCommit ==
  ASSUME LaunchInv, OverlapInv, NEW k \in Cancels, CommitCancel(k)
  PROVE  OverlapInv'
  <1>1. /\ pc[k] = "marked" /\ pc'[k] = "answered"
        /\ \A q \in Requests : q # k => pc'[q] = pc[q]
        /\ status' = "cancelled" /\ UNCHANGED <<rendered, tasks, met>>
        /\ \A q \in Cancels : q # k => held'[q] = held[q]
    BY DEF LaunchInv, TypeOK, CommitCancel, Reaches, Requests
  <1>2. Created' = Created /\ Queued' = Queued \ held[k]
    <2>1. Queued' = Queued \ held[k]
      BY DEF CommitCancel, Queued
    <2> QED
      BY <2>1, CommitStep
  <1>3. \A q \in Requests : Open(q)' <=> q # k /\ Open(q)
    BY <1>1 DEF Open
  <1>4. OpenHaveMet'
    BY <1>1, <1>3 DEF OverlapInv, OpenHaveMet
  <1>5. BesideCancel' = BesideCancel
    BY <1>1 DEF BesideCancel
  <1>6. OpenIsBeside'
    <2> SUFFICES ASSUME NEW m \in Launches, Open(m)'
                 PROVE  m \in BesideCancel
      BY <1>1, <1>5 DEF OpenIsBeside
    <2>1. m # k /\ m \in Requests /\ k \in Requests /\ Open(m) /\ Open(k)
      BY <1>1, <1>3, Disjoint DEF Open
    <2>2. k \in met[m]
      BY <2>1 DEF OverlapInv, OpenHaveMet
    <2> QED
      BY <2>2 DEF BesideCancel
  <1>7. CancelledLeavesNothingQueued'
    BY <1>1, <1>2, <1>5 DEF OverlapInv, CancelPhases, CancelledLeavesNothingQueued
  <1>8. RunningIsEnqueued'
    BY <1>1 DEF RunningIsEnqueued
  <1>9. \A m \in Launches : pc'[m] = pc[m] /\ (Open(m)' => Open(m))
    BY <1>1, <1>3, Disjoint
  <1>10. \A q \in Cancels : pc'[q] = "marked" => pc[q] = "marked" /\ held'[q] = held[q]
    BY <1>1 DEF Requests
  <1> QED
    BY <1>1, <1>2, <1>4, <1>6, <1>7, <1>8, <1>9, <1>10, KeptStep

\* A refusal, a worker and a death bring no job, and no request further.
LEMMA OverlapQuiet ==
  ASSUME LaunchInv, OverlapInv,
         \/ \E r \in Requests : Refuse(r) \/ Die(r)
         \/ \E j \in Jobs, outcome \in JobStatuses : Execute(j, outcome)
         \/ UNCHANGED vars
  PROVE  OverlapInv'
  <1>1. UNCHANGED <<status, rendered, tasks, met>>
    BY DEF Refuse, Die, Execute, vars
  <1>2. Created' = Created
    BY DieStep, ExecuteStep DEF Refuse, vars, Created
  <1>3. Queued' \subseteq Queued
    BY DEF Refuse, Die, Execute, vars, Queued, LaunchInv, TypeOK
  <1>4. \A q \in Requests : pc'[q] = pc[q] \/ pc'[q] \in {"answered", "lost"}
    BY DEF Refuse, Die, Execute, vars, LaunchInv, TypeOK, Reaches
  <1>5. \A q \in Requests : Open(q)' => Open(q)
    BY <1>4 DEF Open
  <1>6. OpenHaveMet'
    BY <1>1, <1>5 DEF OverlapInv, OpenHaveMet
  <1>7. \A k \in Cancels : pc'[k] = "marked" => pc[k] = "marked" /\ held'[k] = held[k]
    BY DEF Refuse, Die, Execute, vars, LaunchInv, TypeOK, Reaches, Requests
  <1>8. \A m \in Launches : (Open(m)' => Open(m)) /\ (Open(m)' => pc'[m] = pc[m])
    BY <1>4, <1>5 DEF Open, Requests
  <1>9. \A m \in Launches :
          /\ pc'[m] \in {"staged", "enqueued"} => pc[m] \in {"staged", "enqueued"}
          /\ pc'[m] = "enqueued" => pc[m] = "enqueued" \/ JobsOf(m) \subseteq tasks'
    BY <1>4 DEF Requests
  <1> QED
    BY <1>1, <1>2, <1>3, <1>6, <1>7, <1>8, <1>9, KeptStep

LEMMA OverlapInvStep ==
  ASSUME LaunchInv, OverlapInv, [Next]_vars
  PROVE  OverlapInv'
  <1>1. ASSUME NEW l \in Launches, NEW contacts \in SUBSET Contacts, AcceptLaunch(l, contacts)
        PROVE  OverlapInv'
    BY <1>1, OverlapAcceptLaunch
  <1>2. ASSUME NEW k \in Cancels, AcceptCancel(k)
        PROVE  OverlapInv'
    BY <1>2, OverlapAcceptCancel
  <1>3. ASSUME NEW l \in Launches, LaunchStep(l)
        PROVE  OverlapInv'
    BY <1>3, OverlapStage, OverlapEnqueue, OverlapRun DEF LaunchStep
  <1>4. ASSUME NEW k \in Cancels, CancelStep(k)
        PROVE  OverlapInv'
    BY <1>4, OverlapMark, OverlapCommit DEF CancelStep
  <1>5. CASE \/ \E r \in Requests : Refuse(r) \/ Die(r)
             \/ \E j \in Jobs, outcome \in JobStatuses : Execute(j, outcome)
             \/ UNCHANGED vars
    BY <1>5, OverlapQuiet
  <1> QED
    BY <1>1, <1>2, <1>3, <1>4, <1>5 DEF Next, RefuseLaunch, RefuseCancel, Requests

LEMMA OverlapInvariant == Spec => []OverlapInv
  <1>1. Init => OverlapInv
    BY InitOverlapInv
  <1>2. LaunchInv /\ OverlapInv /\ [Next]_vars => OverlapInv'
    BY OverlapInvStep
  <1> QED
    BY <1>1, <1>2, LaunchInvariant, PTL DEF Spec

\* Whatever overlaps, dies and is cancelled, and however often launch is requested again:
\* only launches that were open at the same time give one contact two jobs.
THEOREM OneJobPerOverlap == Spec => []OnlyOverlapMailsTwice
  <1>1. OverlapInv => OnlyOverlapMailsTwice
    BY DEF OverlapInv
  <1> QED
    BY <1>1, OverlapInvariant, PTL

\* Every job of a campaign that says RUNNING has its task, but for launches that were
\* open beside another one.
THEOREM RunningHasTasks == Spec => []RunningIsEnqueued
  <1>1. OverlapInv => RunningIsEnqueued
    BY DEF OverlapInv
  <1> QED
    BY <1>1, OverlapInvariant, PTL

\* What waits to start in a cancelled campaign was staged by a launch in flight beside a
\* cancel: no other job escapes it.
THEOREM CancelIsComplete == Spec => []CancelledLeavesNothingQueued
  <1>1. OverlapInv => CancelledLeavesNothingQueued
    BY DEF OverlapInv
  <1> QED
    BY <1>1, OverlapInvariant, PTL

\* Who moves the status, and from where.
LEMMA StatusMoves ==
  ASSUME LaunchInv, OverlapInv, Next, status' # status
  PROVE  \/ CanTransitionCampaign(status, status')
         \/ \E l \in Launches :
              /\ pc'[l] # pc[l]
              /\ \/ status = "cancelled" /\ l \in BesideCancel
                 \/ status = "running" /\ l \in BesideLaunch
  <1>1. status \in {"draft", "launching", "running", "cancelled"}
    BY DEF OverlapInv, LaunchPhases
  <1>2. ASSUME NEW l \in Launches, StageJobs(l)
        PROVE  \/ CanTransitionCampaign(status, status')
               \/ /\ pc'[l] # pc[l]
                  /\ \/ status = "cancelled" /\ l \in BesideCancel
                     \/ status = "running" /\ l \in BesideLaunch
    <2>1. pc'[l] # pc[l] /\ status' = "launching"
      BY <1>2 DEF StageJobs, Reaches, LaunchInv, TypeOK, Requests
    <2>2. CASE status = "draft"
      BY <2>1, <2>2 DEF CanTransitionCampaign, CampaignPredecessors
    <2> QED
      BY <1>1, <1>2, <2>1, <2>2, OverlapStage
  <1>3. ASSUME NEW l \in Launches, MarkRunning(l)
        PROVE  \/ CanTransitionCampaign(status, status')
               \/ pc'[l] # pc[l] /\ status = "cancelled" /\ l \in BesideCancel
    <2>1. pc'[l] # pc[l] /\ status' = "running"
      BY <1>3 DEF MarkRunning, Reaches, LaunchInv, TypeOK, Requests
    <2>2. CASE status = "launching"
      BY <2>1, <2>2 DEF CanTransitionCampaign, CampaignPredecessors
    <2> QED
      BY <1>1, <1>3, <2>1, <2>2, OverlapRun DEF Launchable
  <1>4. ASSUME NEW k \in Cancels, CommitCancel(k)
        PROVE  CanTransitionCampaign(status, status')
    BY <1>1, <1>4 DEF CommitCancel, CanTransitionCampaign, CampaignPredecessors
  <1> QED
    BY <1>2, <1>3, <1>4
    DEF Next, LaunchStep, CancelStep, AcceptLaunch, RefuseLaunch, EnqueueTasks, AcceptCancel,
        RefuseCancel, Refuse, MarkCancelled, Execute, Die

\* The campaign moves along CAMPAIGN_TRANSITIONS, except where a launch revives a campaign
\* that was cancelled, or takes back one that was running, while it was open.
THEOREM TableFollowed == Spec => StatusFollowsTable
  <1>1. LaunchInv /\ OverlapInv /\ [Next]_vars =>
          [status' # status =>
             \/ CanTransitionCampaign(status, status')
             \/ \E l \in Launches :
                  /\ pc'[l] # pc[l]
                  /\ \/ status = "cancelled" /\ l \in BesideCancel
                     \/ status = "running" /\ l \in BesideLaunch]_vars
    BY StatusMoves
  <1> QED
    BY <1>1, LaunchInvariant, OverlapInvariant, PTL DEF Spec, StatusFollowsTable

-----------------------------------------------------------------------------
(* The campaign under its readers                                           *)

LEMMA DashboardStepIsLaunchStep ==
  ASSUME [DashboardNext]_allVars
  PROVE  [Next]_vars
  BY DEF DashboardNext, allVars, Proceed, Process, Tick, ReadStatus, CountJobs, Analyse,
         AnalyseJobs, AnalyseOpened, AnalyseClicked

\* No reader, event or outcome changes a campaign, a job, a lock or a task: with them or
\* without them the campaign behaves as CampaignLaunch says.
THEOREM LaunchUnaffected == DashboardSpec => Spec
  <1>1. DashboardInit => Init
    BY DEF DashboardInit
  <1>2. [DashboardNext]_allVars => [Next]_vars
    BY DashboardStepIsLaunchStep
  <1> QED
    BY <1>1, <1>2, PTL DEF DashboardSpec, Spec

\* What DashboardTypeOK needs to be inductive: the shape of the stream's record, and that
\* an open stream has ticks left.
DashboardInv ==
  /\ DashboardTypeOK
  /\ stream = [phase |-> stream.phase, read |-> stream.read,
               shown |-> stream.shown, ticks |-> stream.ticks]
  /\ stream.phase # "done" => stream.ticks < StopTerminalTicks

LEMMA InitDashboardInv ==
  ASSUME DashboardInit
  PROVE  DashboardInv
  BY DashboardAssumption DEF DashboardInit, DashboardInv, DashboardTypeOK, AnyDelivery

LEMMA ProceedStep ==
  ASSUME LaunchInv, DashboardInv, NEW story \in Stories, Proceed(story)
  PROVE  DashboardInv'
  <1>1. \A j \in Jobs : job[j] = "sent" => job'[j] = "sent"
    BY SettledStep DEF Proceed, JobTerminal
  <1>2. coming' \in [Jobs -> SUBSET UNION Stories]
    BY DEF DashboardInv, DashboardTypeOK, Proceed
  <1>3. \A j \in Jobs : coming'[j] # {} \/ delivery'[j] # "none" \/ engaged'[j] # {}
                          => job'[j] = "sent"
    BY <1>1 DEF DashboardInv, DashboardTypeOK, Proceed
  <1> QED
    BY <1>2, <1>3 DEF DashboardInv, DashboardTypeOK, Proceed, AnyDelivery

LEMMA ProcessStep ==
  ASSUME DashboardInv, NEW j \in Jobs, NEW event \in UNION Stories, Process(j, event)
  PROVE  DashboardInv'
  <1>1. event \in DeliveryStatuses \cup {"opened", "clicked"}
    BY DashboardAssumption DEF ProviderStories, DeliveryStatuses
  <1>2. job[j] = "sent" /\ UNCHANGED <<job, stream>>
    BY DEF DashboardInv, DashboardTypeOK, Process, vars
  <1>3. coming' \in [Jobs -> SUBSET UNION Stories]
        /\ \A i \in Jobs : coming'[i] \subseteq coming[i]
    BY DEF DashboardInv, DashboardTypeOK, Process
  <1>4. delivery' \in [Jobs -> AnyDelivery] /\ \A i \in Jobs \ {j} : delivery'[i] = delivery[i]
    BY DEF DashboardInv, DashboardTypeOK, Process, Applied, AnyDelivery
  <1>5. engaged' \in [Jobs -> SUBSET {"opened", "clicked"}]
        /\ \A i \in Jobs \ {j} : engaged'[i] = engaged[i]
    BY <1>1 DEF DashboardInv, DashboardTypeOK, Process
  <1> QED
    BY <1>2, <1>3, <1>4, <1>5 DEF DashboardInv, DashboardTypeOK

LEMMA ReaderStep ==
  ASSUME DashboardInv, Tick \/ Analyse
  PROVE  DashboardInv'
  <1>1. UNCHANGED <<job, coming, delivery, engaged>>
    BY DEF Tick, ReadStatus, CountJobs, Analyse, AnalyseJobs, AnalyseOpened, AnalyseClicked,
           vars, outcomeVars
  <1>2. CASE ReadStatus
    BY <1>1, <1>2 DEF DashboardInv, DashboardTypeOK, ReadStatus, AnyDelivery
  <1>3. CASE CountJobs
    <2> DEFINE snapshot == [status |-> stream.read, figures |-> Progress]
    <2>1. stream.ticks \in Nat /\ stream.ticks < StopTerminalTicks
      BY <1>3 DEF DashboardInv, DashboardTypeOK, CountJobs
    <2>2. \E n \in {0, stream.ticks + 1} :
            stream' = [phase |-> IF n < StopTerminalTicks THEN "idle" ELSE "done",
                       read |-> "unread", shown |-> snapshot, ticks |-> n]
      BY <1>3 DEF CountJobs, ShownAs
    <2> HIDE DEF snapshot
    <2>3. /\ stream'.phase \in {"idle", "done"}
          /\ stream'.ticks \in 0..StopTerminalTicks
          /\ stream' = [phase |-> stream'.phase, read |-> stream'.read,
                        shown |-> stream'.shown, ticks |-> stream'.ticks]
          /\ stream'.phase # "done" => stream'.ticks < StopTerminalTicks
      BY <2>1, <2>2, DashboardAssumption
    <2> QED
      BY <1>1, <2>3 DEF DashboardInv, DashboardTypeOK
  <1>4. CASE Analyse
    BY <1>1, <1>4 DEF DashboardInv, DashboardTypeOK, Analyse, AnalyseJobs, AnalyseOpened,
                      AnalyseClicked
  <1> QED
    BY <1>2, <1>3, <1>4 DEF Tick

LEMMA DashboardInvStep ==
  ASSUME LaunchInv, DashboardInv, [DashboardNext]_allVars
  PROVE  DashboardInv'
  <1>1. CASE UNCHANGED allVars
    BY <1>1 DEF allVars, vars, outcomeVars, DashboardInv, DashboardTypeOK
  <1>2. CASE DashboardNext
    BY <1>2, ProceedStep, ProcessStep, ReaderStep DEF DashboardNext
  <1> QED
    BY <1>1, <1>2

LEMMA OutcomesFollowSends == DashboardSpec => []DashboardTypeOK
  <1>1. DashboardInit => DashboardInv
    BY InitDashboardInv
  <1>2. LaunchInv /\ DashboardInv /\ [DashboardNext]_allVars => DashboardInv'
    BY DashboardInvStep
  <1>3. DashboardInv => DashboardTypeOK
    BY DEF DashboardInv
  <1>4. DashboardSpec => []LaunchInv
    BY LaunchUnaffected, LaunchInvariant, PTL
  <1> QED
    BY <1>1, <1>2, <1>3, <1>4, PTL DEF DashboardSpec

\* Tasks only ever belong to committed jobs and outcomes to sent ones, for any requests,
\* deaths and outcomes; no launch, cancel or worker takes back a send that has outcomes.
THEOREM RowsStayInAgreement == DashboardSpec => []RowsAgree
  BY LaunchUnaffected, LaunchTyped, TasksExist, OutcomesFollowSends, PTL DEF RowsAgree
-----------------------------------------------------------------------------
(* Counting jobs                                                            *)

Those(sends, deliveries) == {j \in Created : job[j] \in sends /\ delivery[j] \in deliveries}

LEMMA HavingCounts ==
  ASSUME IsFiniteSet(Created), NEW sends, NEW deliveries
  PROVE  /\ Having(sends, deliveries) = Cardinality(Those(sends, deliveries))
         /\ Having(sends, deliveries) \in Nat
         /\ Those(sends, deliveries) \in SUBSET Created
  <1>1. Those(sends, deliveries) \in SUBSET Created
    BY DEF Those
  <1>2. IsFiniteSet(Those(sends, deliveries))
    BY <1>1, FS_Subset
  <1> QED
    BY <1>1, <1>2, FS_CardinalityType DEF Having, Those

LEMMA EngagedCounts ==
  ASSUME IsFiniteSet(Created), NEW kind, NEW S \in SUBSET Created,
         {j \in Created : kind \in engaged[j]} \subseteq S
  PROVE  Engaged(kind) \in Nat /\ Engaged(kind) <= Cardinality(S)
  <1>1. IsFiniteSet(S)
    BY FS_Subset
  <1>2. {j \in Created : kind \in engaged[j]} \in SUBSET S
    OBVIOUS
  <1> QED
    BY <1>1, <1>2, FS_Subset, FS_CardinalityType DEF Engaged

\* Counts of parts that share nothing add up to the count of their union.
LEMMA DisjointCounts ==
  ASSUME NEW S, IsFiniteSet(S), NEW A \in SUBSET S, NEW B \in SUBSET S, A \cap B = {}
  PROVE  /\ Cardinality(A) \in Nat /\ Cardinality(B) \in Nat /\ Cardinality(S) \in Nat
         /\ Cardinality(A \cup B) = Cardinality(A) + Cardinality(B)
         /\ Cardinality(A \cup B) <= Cardinality(S)
         /\ A \cup B \in SUBSET S
  <1>1. IsFiniteSet(A) /\ IsFiniteSet(B)
    BY FS_Subset
  <1>2. Cardinality(A \cup B) = Cardinality(A) + Cardinality(B) - Cardinality(A \cap B)
    BY <1>1, FS_Union
  <1>3. Cardinality(A \cap B) = 0
    BY FS_EmptySet
  <1>4. A \cup B \in SUBSET S
    OBVIOUS
  <1>5. Cardinality(A \cup B) <= Cardinality(S)
    BY <1>4, FS_Subset
  <1>6. Cardinality(A) \in Nat /\ Cardinality(B) \in Nat /\ Cardinality(S) \in Nat
    BY <1>1, FS_CardinalityType
  <1> QED
    BY <1>2, <1>3, <1>4, <1>5, <1>6

LEMMA FourCounts ==
  ASSUME NEW S, IsFiniteSet(S), NEW A \in SUBSET S, NEW B \in SUBSET S, NEW C \in SUBSET S,
         NEW D \in SUBSET S, A \cap B = {}, (A \cup B) \cap (C \cup D) = {}, C \cap D = {}
  PROVE  /\ Cardinality(A) \in Nat /\ Cardinality(B) \in Nat /\ Cardinality(C) \in Nat
         /\ Cardinality(D) \in Nat /\ Cardinality(S) \in Nat
         /\ Cardinality(A) + Cardinality(B) + Cardinality(C) + Cardinality(D) <= Cardinality(S)
  <1> DEFINE L == A \cup B
             R == C \cup D
  <1>1. /\ Cardinality(A) \in Nat /\ Cardinality(B) \in Nat
        /\ Cardinality(L) = Cardinality(A) + Cardinality(B) /\ L \in SUBSET S
    BY DisjointCounts
  <1>2. /\ Cardinality(C) \in Nat /\ Cardinality(D) \in Nat
        /\ Cardinality(R) = Cardinality(C) + Cardinality(D) /\ R \in SUBSET S
    BY DisjointCounts
  <1>3. L \cap R = {}
    OBVIOUS
  <1> HIDE DEF L, R
  <1>4. /\ Cardinality(L \cup R) = Cardinality(L) + Cardinality(R)
        /\ Cardinality(L \cup R) <= Cardinality(S) /\ Cardinality(S) \in Nat
    BY <1>1, <1>2, <1>3, DisjointCounts
  <1> QED
    BY <1>1, <1>2, <1>4

Counts == [total : Nat, delivered : Nat, bounced : Nat, complained : Nat, sending : Nat,
           retrying : Nat, failedPermanent : Nat, attempted : Nat]

FiguresFit(f) ==
  /\ f.delivered + f.bounced + f.complained <= f.attempted - f.failedPermanent
  /\ f.attempted + f.retrying + f.sending <= f.total

\* What one statement counts fits, whatever the rows are.
LEMMA ProgressFits ==
  ASSUME TypeOK, DashboardTypeOK, IsFiniteSet(Created)
  PROVE  /\ Progress \in Counts /\ FiguresFit(Progress)
         /\ Progress.total = Cardinality(Created)
         /\ Having(AnySend, {"delivered"}) + Having(AnySend, {"bounced"})
              + Having(AnySend, {"complained"}) + Having({"failed_permanent"}, AnyDelivery)
              <= Having(AnySend, AnyDelivery)
  <1> DEFINE A == Those(Attempted, AnyDelivery)
             D == Those(AnySend, {"delivered"})
             B == Those(AnySend, {"bounced"})
             C == Those(AnySend, {"complained"})
             F == Those({"failed_permanent"}, AnyDelivery)
             S == Those({"sending"}, AnyDelivery)
             R == Those({"failed_transient"}, AnyDelivery)
  <1>1. Progress \in Counts
    BY HavingCounts DEF Progress, Counts
  <1>2. Those(AnySend, AnyDelivery) = Created
    BY DEF Those, Created, AnySend, TypeOK, DashboardTypeOK
  <1>3. D \subseteq A /\ B \subseteq A /\ C \subseteq A /\ F \subseteq A
    BY DEF Those, Created, DashboardTypeOK, Attempted, AnyDelivery, DeliveryStatuses
  <1>4. D \cap B = {} /\ (D \cup B) \cap C = {} /\ (D \cup B \cup C) \cap F = {}
    BY DEF Those, Created, DashboardTypeOK
  <1>5. A \cap R = {} /\ (A \cup R) \cap S = {}
    BY DEF Those, Attempted
  <1>6. A \in SUBSET Created /\ R \in SUBSET Created /\ S \in SUBSET Created
    BY DEF Those
  <1>7. IsFiniteSet(A)
    BY <1>6, FS_Subset
  <1>8. /\ Having(Attempted, AnyDelivery) = Cardinality(A)
        /\ Having(AnySend, {"delivered"}) = Cardinality(D)
        /\ Having(AnySend, {"bounced"}) = Cardinality(B)
        /\ Having(AnySend, {"complained"}) = Cardinality(C)
        /\ Having({"failed_permanent"}, AnyDelivery) = Cardinality(F)
        /\ Having({"sending"}, AnyDelivery) = Cardinality(S)
        /\ Having({"failed_transient"}, AnyDelivery) = Cardinality(R)
        /\ Having(AnySend, AnyDelivery) = Cardinality(Created)
    BY <1>2, HavingCounts
  <1> HIDE DEF A, D, B, C, F, S, R
  <1>9. /\ Cardinality(D) + Cardinality(B) + Cardinality(C) + Cardinality(F) <= Cardinality(A)
        /\ Cardinality(D) \in Nat /\ Cardinality(B) \in Nat /\ Cardinality(C) \in Nat
        /\ Cardinality(F) \in Nat /\ Cardinality(A) \in Nat
    <2>1. /\ D \in SUBSET A /\ B \in SUBSET A /\ C \in SUBSET A /\ F \in SUBSET A
          /\ D \cap B = {} /\ (D \cup B) \cap (C \cup F) = {} /\ C \cap F = {}
      BY <1>3, <1>4
    <2> QED
      BY <1>7, <2>1, FourCounts
  <1>10. /\ Cardinality(A) + Cardinality(R) + Cardinality(S) <= Cardinality(Created)
         /\ Cardinality(R) \in Nat /\ Cardinality(S) \in Nat
         /\ Cardinality(Created) \in Nat
    <2>1. {} \in SUBSET Created /\ (A \cup R) \cap (S \cup {}) = {} /\ S \cap {} = {}
      BY <1>5
    <2>2. /\ Cardinality(A) + Cardinality(R) + Cardinality(S) + Cardinality({})
               <= Cardinality(Created)
          /\ Cardinality(R) \in Nat /\ Cardinality(S) \in Nat /\ Cardinality(Created) \in Nat
      BY <1>5, <1>6, <2>1, FourCounts
    <2> QED
      BY <1>9, <2>2, FS_EmptySet
  <1>11. FiguresFit(Progress) /\ Progress.total = Cardinality(Created)
    BY <1>8, <1>9, <1>10 DEF FiguresFit, Progress
  <1>12. Cardinality(D) + Cardinality(B) + Cardinality(C) + Cardinality(F)
           <= Cardinality(Created)
    BY <1>9, <1>10
  <1> QED
    BY <1>1, <1>8, <1>11, <1>12
PagesAgree ==
  /\ \A n \in {CampaignStats.delivered + CampaignStats.bounced,
               CampaignStats.opened, CampaignStats.clicked} : n <= CampaignStats.sent
  /\ CampaignStats.sent + Having({"cancelled", "skipped"}, AnyDelivery)
       = Progress.attempted

\* No rate exceeds 100 %, for only a sent job has outcomes.
LEMMA PagesDoAgree ==
  ASSUME TypeOK, DashboardTypeOK, IsFiniteSet(Created)
  PROVE  PagesAgree
  <1> DEFINE A == Those(Attempted, AnyDelivery)
             N == Those(SentInAnalytics, AnyDelivery)
             U == Those({"cancelled", "skipped"}, AnyDelivery)
             D == Those(AnySend, {"delivered"})
             B == Those(AnySend, {"bounced"})
  <1>1. A = N \cup U /\ N \cap U = {} /\ D \cap B = {}
    BY DEF Those, Attempted, SentInAnalytics
  <1>2. D \in SUBSET N /\ B \in SUBSET N /\ N \in SUBSET Created /\ U \in SUBSET Created
    BY DEF Those, Created, DashboardTypeOK, SentInAnalytics, AnyDelivery, DeliveryStatuses
  <1>3. \A kind : {j \in Created : kind \in engaged[j]} \subseteq N
    BY DEF Those, Created, DashboardTypeOK, SentInAnalytics, AnyDelivery
  <1>4. IsFiniteSet(N)
    BY <1>2, FS_Subset
  <1>5. /\ Having(Attempted, AnyDelivery) = Cardinality(A)
        /\ Having(SentInAnalytics, AnyDelivery) = Cardinality(N)
        /\ Having({"cancelled", "skipped"}, AnyDelivery) = Cardinality(U)
        /\ Having(AnySend, {"delivered"}) = Cardinality(D)
        /\ Having(AnySend, {"bounced"}) = Cardinality(B)
    BY HavingCounts
  <1> HIDE DEF A, N, U, D, B
  <1>6. Engaged("opened") <= Cardinality(N) /\ Engaged("clicked") <= Cardinality(N)
    BY <1>2, <1>3, EngagedCounts
  <1>7. Cardinality(N) + Cardinality(U) = Cardinality(A)
    BY <1>1, <1>2, DisjointCounts
  <1>8. Cardinality(D) + Cardinality(B) <= Cardinality(N)
    <2>1. /\ Cardinality(D \cup B) = Cardinality(D) + Cardinality(B)
          /\ Cardinality(D \cup B) <= Cardinality(N)
      BY <1>1, <1>2, <1>4, DisjointCounts
    <2> QED
      BY <2>1
  <1> QED
    BY <1>5, <1>6, <1>7, <1>8 DEF PagesAgree, CampaignStats, Progress

-----------------------------------------------------------------------------
(* What a step does to the counts                                           *)

LEMMA CreatedStep ==
  ASSUME LaunchInv, [Next]_vars
  PROVE  \/ Created' = Created
         \/ \E l \in Launches : StageJobs(l) /\ Created' = Created \cup JobsOf(l)
  <1>1. ASSUME NEW l \in Launches, NEW contacts \in SUBSET Contacts, AcceptLaunch(l, contacts)
        PROVE  Created' = Created
    BY <1>1, AcceptLaunchStep
  <1>2. ASSUME NEW l \in Launches, RefuseLaunch(l) \/ MarkRunning(l)
        PROVE  Created' = Created
    BY <1>2, QuietStep DEF RefuseLaunch, Requests
  <1>3. ASSUME NEW k \in Cancels, AcceptCancel(k) \/ RefuseCancel(k)
        PROVE  Created' = Created
    BY <1>3, QuietStep DEF RefuseCancel, Requests
  <1>4. CASE UNCHANGED vars
    BY <1>4 DEF vars, Created
  <1> QED
    BY <1>1, <1>2, <1>3, <1>4, StageStep, EnqueueStep, MarkStep, CommitStep, ExecuteStep, DieStep
    DEF Next, LaunchStep, CancelStep

LEMMA CreatedStaysFinite ==
  ASSUME LaunchInv, IsFiniteSet(Created), [Next]_vars
  PROVE  IsFiniteSet(Created')
  <1>1. ASSUME NEW l \in Launches
        PROVE  IsFiniteSet(JobsOf(l))
    <2>1. IsFiniteSet(rendered[l])
      BY FS_Subset, DashboardAssumption DEF LaunchInv, TypeOK
    <2> QED
      BY <2>1, FS_Singleton, FS_Product DEF JobsOf
  <1>2. CASE Created' = Created
    BY <1>2
  <1>3. ASSUME NEW l \in Launches, Created' = Created \cup JobsOf(l)
        PROVE  IsFiniteSet(Created')
    BY <1>1, <1>3, FS_Union
  <1> QED
    BY <1>2, <1>3, CreatedStep

\* No attempt is taken back and no outcome that counts is forgotten.
LEMMA OutcomesStay ==
  ASSUME LaunchInv, DashboardTypeOK, [DashboardNext]_allVars
  PROVE  /\ Created \subseteq Created'
         /\ \A j \in Jobs : job[j] \in Attempted => job'[j] = job[j]
         /\ \A j \in Jobs : /\ delivery[j] \in {"bounced", "complained"}
                                 => delivery'[j] \in {"bounced", "complained"}
                            /\ delivery[j] \in {"delivered", "bounced", "complained"}
                                 => delivery'[j] \in {"delivered", "bounced", "complained"}
  <1>1. [Next]_vars
    BY DashboardStepIsLaunchStep
  <1>2. Created \subseteq Created'
    BY <1>1, CreatedStep
  <1>3. \A j \in Jobs : job[j] \in Attempted => job'[j] = job[j]
    BY <1>1, SettledStep DEF Attempted, JobTerminal, vars
  <1>4. UNCHANGED delivery \/ \E j \in Jobs, event \in DeliveryStatuses :
                                delivery' = [delivery EXCEPT ![j] = Applied(event, @)]
    BY DEF DashboardNext, allVars, outcomeVars, Proceed, Process, Tick, ReadStatus, CountJobs,
           Analyse, AnalyseJobs, AnalyseOpened, AnalyseClicked
  <1>5. ASSUME NEW event \in DeliveryStatuses, NEW current \in AnyDelivery
        PROVE  /\ current \in {"bounced", "complained"}
                    => Applied(event, current) \in {"bounced", "complained"}
               /\ current \in {"delivered", "bounced", "complained"}
                    => Applied(event, current) \in {"delivered", "bounced", "complained"}
    BY DEF Applied, Outranks, DeliveryRank, DeliveryStatuses, AnyDelivery
  <1>6. ASSUME NEW j \in Jobs, NEW event \in DeliveryStatuses,
               delivery' = [delivery EXCEPT ![j] = Applied(event, @)], NEW i \in Jobs
        PROVE  /\ delivery[i] \in {"bounced", "complained"}
                    => delivery'[i] \in {"bounced", "complained"}
               /\ delivery[i] \in {"delivered", "bounced", "complained"}
                    => delivery'[i] \in {"delivered", "bounced", "complained"}
    <2>1. delivery[i] \in AnyDelivery /\ delivery \in [Jobs -> AnyDelivery]
      BY DEF DashboardTypeOK
    <2>2. delivery'[i] = IF i = j THEN Applied(event, delivery[i]) ELSE delivery[i]
      BY <1>6, <2>1
    <2> QED
      BY <1>5, <2>1, <2>2
  <1> QED
    BY <1>2, <1>3, <1>4, <1>6

\* Figures f are no more than figures g.
NoMore(f, g) ==
  /\ f.total <= g.total
  /\ f.attempted <= g.attempted
  /\ f.bounced + f.complained <= g.bounced + g.complained
  /\ f.bounced + f.complained + f.delivered <= g.bounced + g.complained + g.delivered

\* Sums of outcomes are counts of jobs.
LEMMA OutcomeSums ==
  ASSUME IsFiniteSet(Created)
  PROVE  /\ Progress.bounced + Progress.complained
              = Cardinality(Those(AnySend, {"bounced", "complained"}))
         /\ Progress.bounced + Progress.complained + Progress.delivered
              = Cardinality(Those(AnySend, {"delivered", "bounced", "complained"}))
         /\ Progress.attempted = Cardinality(Those(Attempted, AnyDelivery))
  <1> DEFINE D == Those(AnySend, {"delivered"})
             B == Those(AnySend, {"bounced"})
             C == Those(AnySend, {"complained"})
             F == B \cup C
             O == F \cup D
  <1>1. /\ F = Those(AnySend, {"bounced", "complained"})
        /\ O = Those(AnySend, {"delivered", "bounced", "complained"})
        /\ B \cap C = {} /\ F \cap D = {}
        /\ B \in SUBSET Created /\ C \in SUBSET Created /\ D \in SUBSET Created
    BY DEF Those
  <1>2. /\ Progress.delivered = Cardinality(D) /\ Progress.bounced = Cardinality(B)
        /\ Progress.complained = Cardinality(C)
        /\ Progress.attempted = Cardinality(Those(Attempted, AnyDelivery))
    BY HavingCounts DEF Progress
  <1>3. Cardinality(F) = Cardinality(B) + Cardinality(C) /\ F \in SUBSET Created
    <2> HIDE DEF B, C
    <2> QED
      BY <1>1, DisjointCounts
  <1>4. Cardinality(O) = Cardinality(F) + Cardinality(D)
    <2> HIDE DEF F, D
    <2> QED
      BY <1>1, <1>3, DisjointCounts
  <1> HIDE DEF O, F, D, B, C
  <1> QED
    BY <1>1, <1>2, <1>3, <1>4

LEMMA ProgressRises ==
  ASSUME LaunchInv, DashboardTypeOK, LaunchInv', DashboardTypeOK', IsFiniteSet(Created),
         IsFiniteSet(Created'), [DashboardNext]_allVars
  PROVE  NoMore(Progress, Progress')
  <1> DEFINE Final == Those(AnySend, {"bounced", "complained"})
             Outcomes == Those(AnySend, {"delivered", "bounced", "complained"})
             Tried == Those(Attempted, AnyDelivery)
  <1>1. /\ Created \subseteq Created'
        /\ \A j \in Created : j \in Jobs /\ job'[j] \in AnySend
                                /\ job[j] \in AnySend /\ delivery'[j] \in AnyDelivery
    BY OutcomesStay DEF Created, LaunchInv, TypeOK, AnySend, DashboardTypeOK
  <1>2. Final \subseteq Final' /\ Outcomes \subseteq Outcomes' /\ Tried \subseteq Tried'
    BY <1>1, OutcomesStay DEF Those
  <1>3. Final' \in SUBSET Created' /\ Outcomes' \in SUBSET Created' /\ Tried' \in SUBSET Created'
    BY DEF Those
  <1>4. IsFiniteSet(Final') /\ IsFiniteSet(Outcomes') /\ IsFiniteSet(Tried')
    BY <1>3, FS_Subset
  <1>5. /\ Cardinality(Final) <= Cardinality(Final')
        /\ Cardinality(Outcomes) <= Cardinality(Outcomes')
        /\ Cardinality(Tried) <= Cardinality(Tried')
        /\ Cardinality(Created) <= Cardinality(Created')
    <2> HIDE DEF Final, Outcomes, Tried
    <2> QED
      BY <1>1, <1>2, <1>4, FS_Subset
  <1>6. Progress.total = Cardinality(Created) /\ Progress.total' = Cardinality(Created')
    <2>1. Progress.total = Cardinality(Created)
      BY ProgressFits DEF LaunchInv
    <2>2. (TypeOK /\ DashboardTypeOK /\ IsFiniteSet(Created)
             => Progress.total = Cardinality(Created))'
      BY ProgressFits, PTL
    <2> QED
      BY <2>1, <2>2 DEF LaunchInv
  <1>7. /\ Progress.bounced' + Progress.complained' = Cardinality(Final')
        /\ Progress.bounced' + Progress.complained' + Progress.delivered'
             = Cardinality(Outcomes')
        /\ Progress.attempted' = Cardinality(Tried')
    <2>1. (IsFiniteSet(Created)
             => /\ Progress.bounced + Progress.complained
                     = Cardinality(Those(AnySend, {"bounced", "complained"}))
                /\ Progress.bounced + Progress.complained + Progress.delivered
                     = Cardinality(Those(AnySend, {"delivered", "bounced", "complained"}))
                /\ Progress.attempted = Cardinality(Those(Attempted, AnyDelivery)))'
      BY OutcomeSums, PTL
    <2> QED
      BY <2>1
  <1> QED
    BY <1>5, <1>6, <1>7, OutcomeSums DEF NoMore
-----------------------------------------------------------------------------
(* Snapshots and analyses, however requests overlap                         *)

\* The last snapshot fits, and nothing it shows has been taken back since.
ShownInv == Shown => Figures \in Counts /\ FiguresFit(Figures) /\ NoMore(Figures, Progress)

Analyses ==
  [phase : {"opened", "clicked", "done"}, status : CampaignStatuses, recipients : Nat,
   delivered : Nat, bounced : Nat, complained : Nat, failed : Nat, opened : Nat, clicked : Nat]

AnalysisInv ==
  analysis.phase # "idle" =>
    /\ analysis \in Analyses
    /\ analysis.delivered + analysis.bounced + analysis.complained + analysis.failed
         <= analysis.recipients

ReadersInv ==
  /\ LaunchInv
  /\ DashboardInv
  /\ IsFiniteSet(Created)
  /\ ShownInv
  /\ AnalysisInv

\* A snapshot is what is counted at the time.
LEMMA CountedFigures ==
  ASSUME CountJobs
  PROVE  stream'.shown = [status |-> stream.read, figures |-> Progress]
  <1> DEFINE snapshot == [status |-> stream.read, figures |-> Progress]
  <1>1. ShownAs(snapshot)
    BY DEF CountJobs
  <1> HIDE DEF snapshot
  <1>2. stream'.shown = snapshot
    BY <1>1 DEF ShownAs
  <1> QED
    BY <1>2 DEF snapshot

LEMMA ShownKept ==
  ASSUME DashboardInv, [DashboardNext]_allVars, ~CountJobs
  PROVE  stream'.shown = stream.shown
  BY DEF DashboardInv, DashboardNext, allVars, outcomeVars, Proceed, Process, Tick, ReadStatus,
         Analyse, AnalyseJobs, AnalyseOpened, AnalyseClicked

LEMMA AnalysisStep ==
  ASSUME ReadersInv, [DashboardNext]_allVars
  PROVE  AnalysisInv'
  <1>1. CASE AnalyseJobs
    <2> DEFINE n == Having(AnySend, AnyDelivery)
               d == Having(AnySend, {"delivered"})
               b == Having(AnySend, {"bounced"})
               c == Having(AnySend, {"complained"})
               f == Having({"failed_permanent"}, AnyDelivery)
    <2>1. /\ n \in Nat /\ d \in Nat /\ b \in Nat /\ c \in Nat /\ f \in Nat
          /\ d + b + c + f <= n
      BY HavingCounts, ProgressFits DEF ReadersInv, LaunchInv, DashboardInv
    <2>2. analysis' = [phase |-> "opened", status |-> status, recipients |-> n,
                       delivered |-> d, bounced |-> b, complained |-> c, failed |-> f,
                       opened |-> 0, clicked |-> 0]
      BY <1>1 DEF AnalyseJobs
    <2>3. status \in CampaignStatuses
      BY DEF ReadersInv, LaunchInv, TypeOK
    <2> HIDE DEF n, d, b, c, f
    <2> QED
      BY <2>1, <2>2, <2>3 DEF AnalysisInv, Analyses
  <1>2. CASE AnalyseOpened
    <2>1. Engaged("opened") \in Nat
      BY EngagedCounts DEF ReadersInv
    <2> QED
      BY <1>2, <2>1 DEF AnalyseOpened, ReadersInv, AnalysisInv, Analyses
  <1>3. CASE AnalyseClicked
    <2>1. Engaged("clicked") \in Nat
      BY EngagedCounts DEF ReadersInv
    <2> QED
      BY <1>3, <2>1 DEF AnalyseClicked, ReadersInv, AnalysisInv, Analyses
  <1>4. UNCHANGED analysis \/ Analyse
    BY DEF DashboardNext, allVars, Proceed, Process, Tick, ReadStatus, CountJobs
  <1> QED
    BY <1>1, <1>2, <1>3, <1>4 DEF ReadersInv, AnalysisInv, Analyse

LEMMA ReadersInvStep ==
  ASSUME ReadersInv, [DashboardNext]_allVars
  PROVE  ReadersInv'
  <1>1. [Next]_vars
    BY DashboardStepIsLaunchStep
  <1>2. LaunchInv' /\ DashboardInv' /\ IsFiniteSet(Created')
    BY <1>1, LaunchInvStep, DashboardInvStep, CreatedStaysFinite DEF ReadersInv
  <1>3. NoMore(Progress, Progress')
    BY <1>2, ProgressRises DEF ReadersInv, DashboardInv
  <1>4. Progress \in Counts /\ FiguresFit(Progress)
    BY ProgressFits DEF ReadersInv, LaunchInv, DashboardInv
  <1>5. Progress' \in Counts
    <2>1. (TypeOK /\ DashboardTypeOK /\ IsFiniteSet(Created) => Progress \in Counts)'
      BY ProgressFits, PTL
    <2> QED
      BY <1>2, <2>1 DEF LaunchInv, DashboardInv
  <1>6. ShownInv'
    <2>1. CASE CountJobs
      BY <1>3, <1>4, <2>1, CountedFigures DEF ShownInv, Figures
    <2>2. CASE ~CountJobs
      <3> SUFFICES ASSUME Shown'
                   PROVE  (Figures \in Counts /\ FiguresFit(Figures) /\ NoMore(Figures, Progress))'
        BY DEF ShownInv
      <3>1. Shown /\ Figures' = Figures
        BY <2>2, ShownKept DEF ReadersInv, Shown, Figures
      <3>2. Figures \in Counts /\ FiguresFit(Figures) /\ NoMore(Figures, Progress)
        BY <3>1 DEF ReadersInv, ShownInv
      <3> DEFINE F == Figures
                 P == Progress
                 Q == Progress'
      <3>3. NoMore(F, P) /\ NoMore(P, Q) /\ F \in Counts /\ P \in Counts /\ Q \in Counts
        BY <1>3, <1>4, <1>5, <3>2
      <3> HIDE DEF F, P, Q
      <3>4. NoMore(F, Q)
        BY <3>3 DEF NoMore, Counts
      <3> QED
        BY <3>1, <3>2, <3>4 DEF F, Q, FiguresFit, NoMore
    <2> QED
      BY <2>1, <2>2
  <1> QED
    BY <1>2, <1>6, AnalysisStep DEF ReadersInv

LEMMA ReadersInvariant == DashboardSpec => []ReadersInv
  <1>1. DashboardInit => ReadersInv
    <2> SUFFICES ASSUME DashboardInit
                 PROVE  ReadersInv
      OBVIOUS
    <2>1. Created = {}
      BY DEF DashboardInit, Init, Created
    <2> QED
      BY <2>1, FS_EmptySet, InitLaunchInv, InitDashboardInv
         DEF DashboardInit, ReadersInv, ShownInv, Shown, AnalysisInv
  <1> QED
    BY <1>1, ReadersInvStep, PTL DEF DashboardSpec

\* Whatever is staged, sent, cancelled and delivered between two snapshots of a stream,
\* the second takes back no job, no attempt and no outcome of the first.
THEOREM ShownOnlyGrows == DashboardSpec => ShownNeverFalls
  <1> DEFINE Grown == LET next == stream'.shown.figures
                          final(f) == f.bounced + f.complained
                      IN /\ Figures.total <= next.total
                         /\ Figures.attempted <= next.attempted
                         /\ final(Figures) <= final(next)
                         /\ final(Figures) + Figures.delivered <= final(next) + next.delivered
  <1>1. ReadersInv /\ [DashboardNext]_allVars
          => [Shown /\ stream'.shown # stream.shown => Grown]_allVars
    <2> SUFFICES ASSUME ReadersInv, [DashboardNext]_allVars, Shown,
                        stream'.shown # stream.shown
                 PROVE  Grown
      OBVIOUS
    <2>1. CountJobs
      BY ShownKept DEF ReadersInv
    <2>2. stream'.shown.figures = Progress
      BY <2>1, CountedFigures
    <2> QED
      BY <2>2 DEF ReadersInv, ShownInv, NoMore
  <1> QED
    BY <1>1, ReadersInvariant, PTL DEF DashboardSpec, ShownNeverFalls
-----------------------------------------------------------------------------
(* Readers beside overlapping requests                                      *)

\* What stays true once the campaign has been running: it cannot be launched any more,
\* and the launches still open have met another one.
WasRunning ==
  /\ status \notin Launchable
  /\ \A l \in Launches : Open(l) => l \in BesideLaunch

\* ... and once it has been cancelled: what is queued, or still to be staged, belongs to
\* launches that were open beside a cancel, and only they revive it.
WasCancelled ==
  /\ status \notin Launchable
  /\ \A l \in Launches : Open(l) => l \in BesideCancel
  /\ \A j \in Queued : j[1] \in BesideCancel
  /\ status \in CampaignTerminal \/ BesideCancel # {}

NoneSending == \A j \in Jobs : job[j] # "sending"

\* The jobs that no launch in S brings.
OthersThan(S) == Created \ JobsFrom(S)

LEMMA RunningNow ==
  ASSUME OverlapInv
  PROVE  /\ status = "running" => WasRunning
         /\ status = "cancelled" => WasCancelled
  BY DEF OverlapInv, OpenIsBeside, CancelledLeavesNothingQueued, WasRunning, WasCancelled,
         Launchable, CampaignTerminal

\* Who is staged, who is accepted, and who moves the status.
LEMMA LaunchMoves ==
  ASSUME LaunchInv, OverlapInv, [Next]_vars
  PROVE  /\ \A q \in Requests : met[q] \subseteq met'[q]
         /\ status \notin Launchable => status' \notin Launchable
         /\ status \notin Launchable => \A l \in Launches : Open(l)' => Open(l)
         /\ \A j \in Created' \ Created : j[1] \in Launches /\ Open(j[1])
         /\ \A j \in Queued' \ Queued : j[1] \in Launches /\ Open(j[1])
         /\ \/ status' \in {status, "cancelled"}
            \/ \E l \in Launches : Open(l)
         /\ NoneSending => NoneSending'
  <1>1. ASSUME NEW l \in Launches, NEW contacts \in SUBSET Contacts, AcceptLaunch(l, contacts)
        PROVE  status \in Launchable /\ UNCHANGED <<status, job>>
    BY <1>1 DEF AcceptLaunch
  <1>2. ASSUME NEW l \in Launches, StageJobs(l)
        PROVE  /\ Open(l) /\ status' \notin Launchable
               /\ Created' = Created \cup JobsOf(l) /\ Queued' \subseteq Queued \cup JobsOf(l)
               /\ \A j \in JobsOf(l) : j[1] = l
               /\ NoneSending => NoneSending'
    BY <1>2, StageStep, JobsOfAreJobs
    DEF StageJobs, Open, Queued, NoneSending, LaunchInv, Launchable
  <1>3. ASSUME NEW l \in Launches, MarkRunning(l)
        PROVE  Open(l) /\ status' \notin Launchable /\ UNCHANGED job
    BY <1>3 DEF MarkRunning, Open, Launchable
  <1>4. ASSUME NEW k \in Cancels, CommitCancel(k)
        PROVE  /\ status' = "cancelled" /\ Created' = Created /\ Queued' \subseteq Queued
               /\ NoneSending => NoneSending'
    BY <1>4, CommitStep DEF CommitCancel, Queued, NoneSending
  <1>5. ASSUME NEW i \in Jobs, NEW outcome \in JobStatuses, Execute(i, outcome)
        PROVE  /\ UNCHANGED status /\ Created' = Created /\ Queued' \subseteq Queued
               /\ NoneSending => NoneSending'
    BY <1>5, ExecuteStep DEF Execute, Queued, NoneSending, LaunchInv, TypeOK
  <1>6. UNCHANGED job => Created' = Created /\ Queued' = Queued /\ (NoneSending => NoneSending')
    BY DEF Created, Queued, NoneSending
  <1>7. \/ \E l \in Launches : \E contacts \in SUBSET Contacts : AcceptLaunch(l, contacts)
        \/ \E l \in Launches : StageJobs(l) \/ MarkRunning(l)
        \/ \E k \in Cancels : CommitCancel(k)
        \/ \E i \in Jobs, outcome \in JobStatuses : Execute(i, outcome)
        \/ UNCHANGED <<status, job>>
    BY DEF Next, LaunchStep, CancelStep, RefuseLaunch, EnqueueTasks, AcceptCancel, RefuseCancel,
           Refuse, MarkCancelled, Die, vars
  <1>8. \A q \in Requests : met[q] \subseteq met'[q]
    <2>1. ASSUME NEW r \in Requests, Accept(r)
          PROVE  \A q \in Requests : met[q] \subseteq met'[q]
      BY <2>1, AcceptMeets DEF OverlapInv
    <2>2. (\E r \in Requests : Accept(r)) \/ UNCHANGED met
      BY DEF Next, LaunchStep, CancelStep, AcceptLaunch, RefuseLaunch, StageJobs, EnqueueTasks,
             MarkRunning, AcceptCancel, RefuseCancel, Refuse, MarkCancelled, CommitCancel,
             Execute, Die, vars, Requests
    <2> QED
      BY <2>1, <2>2
  <1>9. status \notin Launchable => \A l \in Launches : Open(l)' => Open(l)
    <2>1. status \notin Launchable =>
            \A l \in Launches : pc'[l] = pc[l] \/ pc[l] # "waiting" \/ pc'[l] = "answered"
      BY Disjoint
      DEF Next, LaunchStep, CancelStep, AcceptLaunch, RefuseLaunch, StageJobs, EnqueueTasks,
          MarkRunning, AcceptCancel, RefuseCancel, Refuse, MarkCancelled, CommitCancel, Accept,
          Execute, Die, Open, Reaches, vars, LaunchInv, TypeOK, Requests
    <2>2. \A l \in Launches : pc[l] \in {"answered", "lost"} => pc'[l] = pc[l]
      BY Disjoint
      DEF Next, LaunchStep, CancelStep, AcceptLaunch, RefuseLaunch, StageJobs, EnqueueTasks,
          MarkRunning, AcceptCancel, RefuseCancel, Refuse, MarkCancelled, CommitCancel, Accept,
          Arrives, Execute, Die, Open, Reaches, vars, LaunchInv, TypeOK, Requests
    <2> QED
      BY <2>1, <2>2 DEF Open
  <1> QED
    BY <1>1, <1>2, <1>3, <1>4, <1>5, <1>6, <1>7, <1>8, <1>9 DEF Launchable

\* Neither is undone, and what comes after either belongs to the launches it names.
LEMMA StaysSo ==
  ASSUME LaunchInv, OverlapInv, [Next]_vars
  PROVE  /\ JobsFrom(BesideLaunch) \subseteq JobsFrom(BesideLaunch)'
         /\ JobsFrom(BesideCancel) \subseteq JobsFrom(BesideCancel)'
         /\ WasRunning => WasRunning' /\ OthersThan(BesideLaunch)' \subseteq OthersThan(BesideLaunch)
         /\ WasCancelled =>
              WasCancelled' /\ OthersThan(BesideCancel)' \subseteq OthersThan(BesideCancel)
  <1>1. BesideLaunch \subseteq BesideLaunch' /\ BesideCancel \subseteq BesideCancel'
    BY LaunchMoves, BesideGrows
  <1>2. Created \subseteq Created'
    BY CreatedStep
  <1>3. /\ JobsFrom(BesideLaunch) \subseteq JobsFrom(BesideLaunch)'
        /\ JobsFrom(BesideCancel) \subseteq JobsFrom(BesideCancel)'
    BY <1>1, <1>2 DEF JobsFrom
  <1>4. ASSUME WasRunning
        PROVE  WasRunning' /\ OthersThan(BesideLaunch)' \subseteq OthersThan(BesideLaunch)
    BY <1>1, <1>4, LaunchMoves DEF WasRunning, OthersThan, JobsFrom
  <1>5. ASSUME WasCancelled
        PROVE  WasCancelled' /\ OthersThan(BesideCancel)' \subseteq OthersThan(BesideCancel)
    <2>1. \A j \in Created' \ Created : j[1] \in BesideCancel'
      BY <1>1, <1>5, LaunchMoves DEF WasCancelled
    <2>2. \A j \in Queued' : j[1] \in BesideCancel'
      BY <1>1, <1>5, LaunchMoves DEF WasCancelled
    <2>3. \A l \in Launches : Open(l)' => l \in BesideCancel'
      BY <1>1, <1>5, LaunchMoves DEF WasCancelled
    <2>4. status' \notin Launchable /\ (status' \in CampaignTerminal \/ BesideCancel' # {})
      BY <1>1, <1>5, LaunchMoves DEF WasCancelled, CampaignTerminal
    <2> QED
      BY <1>1, <2>1, <2>2, <2>3, <2>4 DEF WasCancelled, OthersThan, JobsFrom
  <1> QED
    BY <1>3, <1>4, <1>5

\* ... and so do the numbers of such jobs.
LEMMA SubsetCounts ==
  ASSUME NEW S, IsFiniteSet(S), NEW A \in SUBSET S
  PROVE  Cardinality(A) \in Nat /\ Cardinality(A) <= Cardinality(S) /\ Cardinality(S) \in Nat
  BY FS_Subset, FS_CardinalityType

LEMMA CountsStaySo ==
  ASSUME LaunchInv, OverlapInv, [Next]_vars, IsFiniteSet(Created), IsFiniteSet(Created')
  PROVE  /\ {Cardinality(JobsFrom(BesideLaunch)), Cardinality(JobsFrom(BesideLaunch)'),
             Cardinality(JobsFrom(BesideCancel)), Cardinality(JobsFrom(BesideCancel)'),
             Cardinality(OthersThan(BesideLaunch)), Cardinality(OthersThan(BesideLaunch)'),
             Cardinality(OthersThan(BesideCancel)), Cardinality(OthersThan(BesideCancel)')}
              \subseteq Nat
         /\ Cardinality(JobsFrom(BesideLaunch)) <= Cardinality(JobsFrom(BesideLaunch)')
         /\ Cardinality(JobsFrom(BesideCancel)) <= Cardinality(JobsFrom(BesideCancel)')
         /\ WasRunning =>
              Cardinality(OthersThan(BesideLaunch)') <= Cardinality(OthersThan(BesideLaunch))
         /\ WasCancelled =>
              Cardinality(OthersThan(BesideCancel)') <= Cardinality(OthersThan(BesideCancel))
  <1> DEFINE L == JobsFrom(BesideLaunch)
             C == JobsFrom(BesideCancel)
             M == OthersThan(BesideLaunch)
             D == OthersThan(BesideCancel)
  <1>1. /\ L \in SUBSET Created /\ C \in SUBSET Created
        /\ M \in SUBSET Created /\ D \in SUBSET Created
        /\ L' \in SUBSET Created' /\ C' \in SUBSET Created'
        /\ M' \in SUBSET Created' /\ D' \in SUBSET Created'
    BY DEF JobsFrom, OthersThan
  <1>2. /\ L \subseteq L' /\ C \subseteq C'
        /\ WasRunning => M' \subseteq M
        /\ WasCancelled => D' \subseteq D
    BY StaysSo
  <1> HIDE DEF L, C, M, D
  <1>3. /\ IsFiniteSet(M) /\ IsFiniteSet(D) /\ IsFiniteSet(L') /\ IsFiniteSet(C')
    BY <1>1, FS_Subset
  <1>4. /\ Cardinality(L) \in Nat /\ Cardinality(C) \in Nat
        /\ Cardinality(M) \in Nat /\ Cardinality(D) \in Nat
        /\ Cardinality(L') \in Nat /\ Cardinality(C') \in Nat
        /\ Cardinality(M') \in Nat /\ Cardinality(D') \in Nat
    BY <1>1, SubsetCounts
  <1>5. Cardinality(L) <= Cardinality(L') /\ Cardinality(C) <= Cardinality(C')
    BY <1>2, <1>3, SubsetCounts
  <1>6. WasRunning => Cardinality(M') <= Cardinality(M)
    BY <1>2, <1>3, SubsetCounts
  <1>7. WasCancelled => Cardinality(D') <= Cardinality(D)
    BY <1>2, <1>3, SubsetCounts
  <1> QED
    BY <1>4, <1>5, <1>6, <1>7 DEF L, C, M, D

\* The statuses a reader meets.
Reached == {"draft", "launching", "running", "cancelled"}

\* A status that was read still says what can become of the campaign.
ReadStands ==
  stream.phase = "counting" =>
    /\ stream.read \in Reached
    /\ stream.read = "running" => WasRunning
    /\ stream.read = "cancelled" => WasCancelled

SnapshotStands ==
  Shown =>
    /\ stream.shown.status \in Reached
    /\ stream.shown.status = "running" =>
         WasRunning /\ Cardinality(OthersThan(BesideLaunch)) <= Figures.total
    /\ stream.shown.status = "cancelled" =>
         /\ WasCancelled
         /\ Cardinality(OthersThan(BesideCancel)) <= Figures.total
         /\ Figures.total <= Figures.attempted + Figures.retrying
                               + Cardinality(JobsFrom(BesideCancel))

AnalysisStands ==
  analysis.phase # "idle" /\ analysis.status = "running" =>
    /\ WasRunning
    /\ Cardinality(OthersThan(BesideLaunch)) <= analysis.recipients
    /\ \A n \in {analysis.opened, analysis.clicked} :
         n <= analysis.recipients + Cardinality(JobsFrom(BesideLaunch))

SeenInv ==
  /\ NoneSending
  /\ ReadStands
  /\ SnapshotStands
  /\ stream.phase = "done" => Shown /\ stream.shown.status = "cancelled"
  /\ AnalysisStands

\* The jobs of S and the others are all jobs.
LEMMA TwoParts ==
  ASSUME NEW S, IsFiniteSet(Created)
  PROVE  /\ Cardinality(JobsFrom(S)) \in Nat /\ Cardinality(OthersThan(S)) \in Nat
         /\ Cardinality(Created) = Cardinality(OthersThan(S)) + Cardinality(JobsFrom(S))
  <1> DEFINE A == OthersThan(S)
             B == JobsFrom(S)
  <1>1. A \in SUBSET Created /\ B \in SUBSET Created /\ A \cap B = {} /\ A \cup B = Created
    BY DEF OthersThan, JobsFrom
  <1> HIDE DEF A, B
  <1>2. /\ Cardinality(A) \in Nat /\ Cardinality(B) \in Nat
        /\ Cardinality(A \cup B) = Cardinality(A) + Cardinality(B)
    BY <1>1, DisjointCounts
  <1> QED
    BY <1>1, <1>2 DEF A, B

\* Once a campaign was cancelled, what was not attempted is waiting to be tried again, or
\* was brought by a launch beside a cancel.
LEMMA CancelledAddsUp ==
  ASSUME TypeOK, DashboardTypeOK, IsFiniteSet(Created), NoneSending, WasCancelled
  PROVE  Progress.total <= Progress.attempted + Progress.retrying
                             + Cardinality(JobsFrom(BesideCancel))
  <1> DEFINE A == Those(Attempted, AnyDelivery)
             R == Those({"failed_transient"}, AnyDelivery)
             Q == JobsFrom(BesideCancel)
             O == A \cup R
  <1>1. O \cup Q = Created
    BY DEF Those, Created, TypeOK, DashboardTypeOK, NoneSending, Queued, Attempted, JobStatuses,
           WasCancelled, JobsFrom
  <1>2. /\ A \cap R = {} /\ A \in SUBSET Created /\ R \in SUBSET Created
        /\ Q \in SUBSET Created
    BY DEF Those, Attempted, JobsFrom
  <1>3. Progress.attempted = Cardinality(A) /\ Progress.retrying = Cardinality(R)
    BY HavingCounts DEF Progress
  <1> HIDE DEF A, R, Q
  <1>4. /\ Cardinality(O) = Cardinality(A) + Cardinality(R) /\ O \in SUBSET Created
        /\ Cardinality(A) \in Nat /\ Cardinality(R) \in Nat
    BY <1>2, DisjointCounts
  <1>5. /\ IsFiniteSet(O) /\ IsFiniteSet(Q)
        /\ Cardinality(O) \in Nat /\ Cardinality(Q) \in Nat /\ Cardinality(O \cap Q) \in Nat
    BY <1>2, <1>4, FS_Subset, FS_CardinalityType
  <1> HIDE DEF O
  <1>6. Cardinality(O \cup Q) = Cardinality(O) + Cardinality(Q) - Cardinality(O \cap Q)
    BY <1>5, FS_Union
  <1>7. Cardinality(Created) <= Cardinality(A) + Cardinality(R) + Cardinality(Q)
    <2>1. Cardinality(Created) = Cardinality(O) + Cardinality(Q) - Cardinality(O \cap Q)
      BY <1>1, <1>6
    <2> QED
      BY <1>4, <1>5, <2>1
  <1>8. Progress.total = Cardinality(Created)
    BY ProgressFits
  <1> QED
    BY <1>3, <1>7, <1>8 DEF Q

\* A snapshot that is not replaced still fits, and so does a status that was read.
LEMMA SnapshotKept ==
  ASSUME ReadersInv, ReadersInv', OverlapInv, SnapshotStands, [Next]_vars,
         stream'.shown = stream.shown
  PROVE  SnapshotStands'
  <1> DEFINE f == Figures
             seen == stream.shown.status
             l == Cardinality(OthersThan(BesideLaunch))
             c == Cardinality(OthersThan(BesideCancel))
             q == Cardinality(JobsFrom(BesideCancel))
  <1> SUFFICES ASSUME Shown'
               PROVE  SnapshotStands'
    BY DEF SnapshotStands
  <1>1. Shown /\ f' = f /\ seen' = seen
    BY DEF Shown, Figures
  <1>2. f.total \in Nat /\ f.attempted \in Nat /\ f.retrying \in Nat
    BY <1>1 DEF ReadersInv, ShownInv, Counts
  <1>3. /\ l \in Nat /\ l' \in Nat /\ c \in Nat /\ c' \in Nat /\ q \in Nat /\ q' \in Nat
        /\ q <= q'
        /\ WasRunning => l' <= l
        /\ WasCancelled => c' <= c
    BY CountsStaySo DEF ReadersInv
  <1>4. (WasRunning => WasRunning') /\ (WasCancelled => WasCancelled')
    BY StaysSo DEF ReadersInv
  <1>5. /\ seen \in Reached
        /\ seen = "running" => WasRunning /\ l <= f.total
        /\ seen = "cancelled" =>
             WasCancelled /\ c <= f.total /\ f.total <= f.attempted + f.retrying + q
    BY <1>1 DEF SnapshotStands
  <1> HIDE DEF f, seen, l, c, q
  <1>6. /\ seen' \in Reached
        /\ seen' = "running" => WasRunning' /\ l' <= f'.total
        /\ seen' = "cancelled" =>
             WasCancelled' /\ c' <= f'.total /\ f'.total <= f'.attempted + f'.retrying + q'
    BY <1>1, <1>2, <1>3, <1>4, <1>5
  <1> USE DEF f, seen, l, c, q
  <1> QED
    BY <1>6 DEF SnapshotStands, Reached

LEMMA SnapshotStep ==
  ASSUME ReadersInv, ReadersInv', OverlapInv, SeenInv, [DashboardNext]_allVars
  PROVE  /\ SnapshotStands'
         /\ ReadStands'
         /\ stream'.phase = "done" => Shown' /\ stream'.shown.status = "cancelled"
  <1>1. [Next]_vars
    BY DashboardStepIsLaunchStep
  <1>2. (WasRunning => WasRunning') /\ (WasCancelled => WasCancelled')
    BY <1>1, StaysSo DEF ReadersInv
  <1>3. CASE CountJobs
    <2> DEFINE P == Progress
               l == Cardinality(OthersThan(BesideLaunch))
               c == Cardinality(OthersThan(BesideCancel))
               q == Cardinality(JobsFrom(BesideCancel))
    <2>1. UNCHANGED vars /\ stream.phase = "counting"
      BY <1>3 DEF CountJobs
    <2>2. /\ stream.read \in Reached
          /\ stream.read = "running" => WasRunning
          /\ stream.read = "cancelled" => WasCancelled
      BY <2>1 DEF SeenInv, ReadStands
    <2>3. stream'.shown = [status |-> stream.read, figures |-> P]
      BY <1>3, CountedFigures
    <2>4. P.total = Cardinality(Created)
      BY ProgressFits DEF ReadersInv, LaunchInv, DashboardInv
    <2>5. stream.read = "cancelled" => P.total <= P.attempted + P.retrying + q
      BY <2>2, CancelledAddsUp DEF ReadersInv, LaunchInv, DashboardInv, SeenInv
    <2>6. c <= P.total /\ l <= P.total
      BY <2>4, TwoParts DEF ReadersInv
    <2>7. l' = l /\ c' = c /\ q' = q
      <3>1. /\ JobsFrom(BesideCancel)' = JobsFrom(BesideCancel)
            /\ OthersThan(BesideCancel)' = OthersThan(BesideCancel)
            /\ OthersThan(BesideLaunch)' = OthersThan(BesideLaunch)
        BY <2>1 DEF vars, JobsFrom, OthersThan, BesideCancel, BesideLaunch, Created
      <3> QED
        BY <3>1
    <2> HIDE DEF P, l, c, q
    <2>8. stream'.shown.status = stream.read /\ stream'.shown.figures = P
      BY <2>3
    <2>9. Shown'
      BY <2>2, <2>8 DEF Shown, Nothing, Reached
    <2>10. /\ stream'.shown.status = "running" => WasRunning' /\ l' <= Figures'.total
           /\ stream'.shown.status = "cancelled" =>
                /\ WasCancelled' /\ c' <= Figures'.total
                /\ Figures'.total <= Figures'.attempted + Figures'.retrying + q'
      BY <1>2, <2>2, <2>5, <2>6, <2>7, <2>8 DEF Figures
    <2>11. SnapshotStands'
      BY <2>2, <2>8, <2>10 DEF SnapshotStands, l, c, q
    <2>12. stream'.phase # "counting" /\ (stream'.phase = "done" => Terminal(stream.read))
      BY <1>3, <2>3, DashboardAssumption DEF CountJobs, ShownAs
    <2> QED
      BY <2>2, <2>8, <2>9, <2>11, <2>12 DEF Terminal, Reached, ReadStands
  <1>4. CASE ~CountJobs
    <2>1. stream'.shown = stream.shown
      BY <1>4, ShownKept DEF ReadersInv
    <2>2. SnapshotStands'
      BY <1>1, <2>1, SnapshotKept DEF SeenInv
    <2>3. CASE ReadStatus
      <3>1. /\ status \in Reached
            /\ status = "running" => WasRunning
            /\ status = "cancelled" => WasCancelled
        BY RunningNow DEF OverlapInv, LaunchPhases, Reached
      <3>2. stream'.read = status /\ stream'.phase = "counting"
        BY <2>3 DEF ReadStatus, ReadersInv, DashboardInv
      <3> QED
        BY <1>2, <2>2, <3>1, <3>2 DEF ReadStands
    <2>4. CASE ~ReadStatus
      <3>1. UNCHANGED stream
        BY <1>4, <2>4 DEF DashboardNext, allVars, Proceed, Process, Tick, Analyse, AnalyseJobs,
                          AnalyseOpened, AnalyseClicked, outcomeVars
      <3> QED
        BY <1>2, <2>2, <3>1 DEF SeenInv, ReadStands, Shown
    <2> QED
      BY <2>3, <2>4
  <1> QED
    BY <1>3, <1>4

\* An analysis that is under way keeps what it has read and adds what it reads now.
LEMMA AnalysisGoesOn ==
  ASSUME analysis.phase # "idle", analysis \in Analyses, [DashboardNext]_allVars
  PROVE  /\ analysis'.phase # "idle"
         /\ analysis'.status = analysis.status /\ analysis'.recipients = analysis.recipients
         /\ analysis'.opened \in {analysis.opened, Engaged("opened")}
         /\ analysis'.clicked \in {analysis.clicked, Engaged("clicked")}
  <1>1. UNCHANGED analysis \/ AnalyseOpened \/ AnalyseClicked
    BY DEF DashboardNext, allVars, Proceed, Process, Tick, ReadStatus, CountJobs, Analyse,
           AnalyseJobs
  <1> QED
    BY <1>1 DEF AnalyseOpened, AnalyseClicked, Analyses

\* The opens and clicks an analysis counts later are those of recipients it has counted,
\* or of jobs brought by a launch beside another one.
LEMMA AnalysisStandsStep ==
  ASSUME ReadersInv, ReadersInv', OverlapInv, SeenInv, [DashboardNext]_allVars
  PROVE  AnalysisStands'
  <1> DEFINE l == Cardinality(OthersThan(BesideLaunch))
             b == Cardinality(JobsFrom(BesideLaunch))
  <1>1. [Next]_vars
    BY DashboardStepIsLaunchStep
  <1>2. /\ l \in Nat /\ l' \in Nat /\ b \in Nat /\ b' \in Nat /\ b <= b'
        /\ WasRunning => l' <= l
    BY <1>1, CountsStaySo DEF ReadersInv
  <1>3. WasRunning => WasRunning'
    BY <1>1, StaysSo DEF ReadersInv
  <1>4. /\ Cardinality(Created) = l + b
        /\ \A kind : Engaged(kind) \in Nat /\ Engaged(kind) <= Cardinality(Created)
    BY TwoParts, EngagedCounts DEF ReadersInv
  <1>5. CASE AnalyseJobs
    <2> DEFINE n == Having(AnySend, AnyDelivery)
    <2>1. n = Cardinality(Created)
      BY ProgressFits DEF ReadersInv, LaunchInv, DashboardInv, Progress
    <2>2. /\ analysis'.status = status /\ analysis'.recipients = n
          /\ analysis'.opened = 0 /\ analysis'.clicked = 0
          /\ UNCHANGED vars
      <3> HIDE DEF n
      <3> QED
        BY <1>5 DEF AnalyseJobs, n
    <2>3. l' = l /\ b' = b
      <3>1. /\ JobsFrom(BesideLaunch)' = JobsFrom(BesideLaunch)
            /\ OthersThan(BesideLaunch)' = OthersThan(BesideLaunch)
        BY <2>2 DEF vars, JobsFrom, OthersThan, BesideLaunch, Created
      <3> QED
        BY <3>1
    <2>4. status = "running" => WasRunning
      BY RunningNow
    <2> HIDE DEF n, l, b
    <2>5. analysis'.status = "running" =>
            /\ WasRunning' /\ l' <= analysis'.recipients
            /\ \A m \in {analysis'.opened, analysis'.clicked} : m <= analysis'.recipients + b'
      BY <1>2, <1>3, <1>4, <2>1, <2>2, <2>3, <2>4
    <2> QED
      BY <2>5 DEF AnalysisStands, l, b
  <1>6. CASE analysis.phase # "idle" /\ analysis \in Analyses
    <2>1. /\ analysis'.status = analysis.status /\ analysis'.recipients = analysis.recipients
          /\ analysis'.opened \in {analysis.opened, Engaged("opened")}
          /\ analysis'.clicked \in {analysis.clicked, Engaged("clicked")}
      BY <1>6, AnalysisGoesOn
    <2>2. analysis.status = "running" =>
            /\ WasRunning /\ l <= analysis.recipients
            /\ \A m \in {analysis.opened, analysis.clicked} : m <= analysis.recipients + b
      BY <1>6 DEF SeenInv, AnalysisStands
    <2>3. analysis.recipients \in Nat /\ analysis.opened \in Nat /\ analysis.clicked \in Nat
      BY <1>6 DEF Analyses
    <2> HIDE DEF l, b
    <2>4. analysis'.status = "running" =>
            /\ WasRunning' /\ l' <= analysis'.recipients
            /\ \A m \in {analysis'.opened, analysis'.clicked} : m <= analysis'.recipients + b'
      BY <1>2, <1>3, <1>4, <2>1, <2>2, <2>3
    <2> QED
      BY <2>4 DEF AnalysisStands, l, b
  <1>7. CASE analysis.phase = "idle" /\ ~AnalyseJobs
    BY <1>7 DEF DashboardNext, allVars, Proceed, Process, Tick, ReadStatus, CountJobs, Analyse,
                AnalyseOpened, AnalyseClicked, AnalysisStands
  <1> QED
    BY <1>5, <1>6, <1>7 DEF ReadersInv, AnalysisInv, AnalyseJobs

LEMMA SeenInvariant == DashboardSpec => [](ReadersInv /\ OverlapInv /\ SeenInv)
  <1>1. DashboardInit => SeenInv
    BY DEF DashboardInit, Init, SeenInv, NoneSending, ReadStands, SnapshotStands, Shown,
           AnalysisStands
  <1>2. ReadersInv /\ ReadersInv' /\ OverlapInv /\ SeenInv /\ [DashboardNext]_allVars => SeenInv'
    <2> SUFFICES ASSUME ReadersInv, ReadersInv', OverlapInv, SeenInv, [DashboardNext]_allVars
                 PROVE  SeenInv'
      OBVIOUS
    <2>1. NoneSending'
      BY DashboardStepIsLaunchStep, LaunchMoves DEF ReadersInv, SeenInv
    <2> QED
      BY <2>1, SnapshotStep, AnalysisStandsStep DEF SeenInv
  <1>3. DashboardSpec => []OverlapInv
    BY LaunchUnaffected, OverlapInvariant, PTL
  <1> QED
    BY <1>1, <1>2, <1>3, ReadersInvariant, PTL DEF DashboardSpec

\* The figures of a snapshot, of the pages and of an analysis add up, whatever happens
\* between the statements that count them.
THEOREM FiguresDoAddUp == DashboardSpec => []FiguresAddUp
  <1>1. ReadersInv /\ SeenInv => FiguresAddUp
    <2> SUFFICES ASSUME ReadersInv, SeenInv
                 PROVE  FiguresAddUp
      OBVIOUS
    <2>1. PagesAgree
      BY PagesDoAgree DEF ReadersInv, LaunchInv, DashboardInv
    <2>2. Shown => FiguresFit(Figures)
      BY DEF ReadersInv, ShownInv
    <2>3. AnalysisAddsUp
      BY DEF AnalysisAddsUp, ReadersInv, AnalysisInv, SeenInv, AnalysisStands
    <2> QED
      BY <2>1, <2>2, <2>3 DEF FiguresAddUp, PagesAgree, FiguresFit
  <1> QED
    BY <1>1, SeenInvariant, PTL

\* The status of a snapshot is never ahead of the jobs counted after it, but for the jobs
\* of launches in flight beside a cancel or another launch.
THEOREM SnapshotsFit == DashboardSpec => []ShownStatusFits
  <1>1. SeenInv => ShownStatusFits
    BY DEF SeenInv, SnapshotStands, ShownStatusFits, OthersThan
  <1> QED
    BY <1>1, SeenInvariant, PTL

\* A stream that has closed showed the last of its campaign, unless a launch in flight
\* beside a cancel revives it.
THEOREM StreamsEndFinally == DashboardSpec => []ClosedStreamIsFinal
  <1>1. SeenInv => ClosedStreamIsFinal
    BY DEF SeenInv, SnapshotStands, ClosedStreamIsFinal, OthersThan, WasCancelled
  <1> QED
    BY <1>1, SeenInvariant, PTL
===============================================================================
