---------------------------- MODULE CampaignLaunch ----------------------------
(***************************************************************************)
(* Launching and cancelling one campaign: the API requests of              *)
(* services/api/routers/campaigns.py, each a sequence of transactions on   *)
(* the campaign, its email jobs and the task queue, against each other,    *)
(* against the workers that send the jobs, and against requests that die   *)
(* between two transactions.                                               *)
(*                                                                         *)
(* A request writes campaigns.status without a guard, from a status it     *)
(* read in an earlier transaction. What a worker does with one job is      *)
(* SendPipeline's subject; here it is one step.                            *)
(***************************************************************************)
EXTENDS Transitions, FiniteSets

CONSTANTS
  Contacts,    \* the contacts the SmartFilter may resolve to
  Launches,    \* POST .../launch requests
  Cancels,     \* POST .../cancel requests
  MaxDeaths    \* bound: how many requests die half-way

Requests == Launches \cup Cancels

ASSUME LaunchAssumption ==
  /\ Launches \cap Cancels = {}
  /\ MaxDeaths \in Nat

VARIABLES
  status,   \* campaigns.status as committed
  pc,       \* how far each request has come
  rendered, \* the contacts a launch request stages a job for
  job,      \* email_jobs.send_status as committed, by the launch that created it
  held,     \* the job rows a cancel request has updated but not committed
  tasks,    \* the jobs a send_email task has been enqueued for
  deaths,   \* history: requests that have died so far
  met       \* history: the requests each request has been open beside

vars == <<status, pc, rendered, job, held, tasks, deaths, met>>

Jobs == Launches \X Contacts

Phases == {"waiting", "accepted", "staged", "enqueued", "marked", "answered", "lost"}

Init ==
  /\ status = "draft"
  /\ pc = [r \in Requests |-> "waiting"]
  /\ rendered = [l \in Launches |-> {}]
  /\ job = [j \in Jobs |-> "absent"]
  /\ held = [k \in Cancels |-> {}]
  /\ tasks = {}
  /\ deaths = 0
  /\ met = [r \in Requests |-> {}]

Open(r) == pc[r] \notin {"waiting", "answered", "lost"}

Arrives(r) == pc[r] = "waiting"

Reaches(r, phase) == pc' = [pc EXCEPT ![r] = phase]

\* From now on the request is open, beside those that are.
Accept(r) ==
  /\ Arrives(r)
  /\ Reaches(r, "accepted")
  /\ met' = [q \in Requests |->
       met[q] \cup {p \in Requests : (q = r /\ Open(p)) \/ (p = r /\ Open(q))}]

\* 409 or 422: the request leaves everything as it is.
Refuse(r) ==
  /\ Arrives(r)
  /\ Reaches(r, "answered")
  /\ UNCHANGED <<status, rendered, job, held, tasks, deaths, met>>

-----------------------------------------------------------------------------
(* launch_campaign                                                         *)

\* Bug: a launch that got stuck may be repeated.
LaunchableWhenStuck == {"draft", "scheduled", "launching"}

\* Bug: a cancelled campaign may be launched.
LaunchableWhenCancelled == {"draft", "scheduled", "cancelled"}

Launchable == {"draft", "scheduled"}

\* The guard is evaluated on a plain read; the recipients are resolved afresh, and
\* those the template does not render for are skipped.
AcceptLaunch(l, contacts) ==
  /\ Accept(l)
  /\ status \in Launchable
  /\ rendered' = [rendered EXCEPT ![l] = contacts]
  /\ UNCHANGED <<status, job, held, tasks, deaths>>

\* 409, or 422 when nobody is resolved.
RefuseLaunch(l) == Refuse(l)

JobsOf(l) == {l} \X rendered[l]

\* Steps 1 and 2: LAUNCHING and the job rows, in one transaction.
StageJobs(l) ==
  /\ pc[l] = "accepted"
  /\ status' = "launching"
  /\ job' = [j \in Jobs |-> IF j \in JobsOf(l) THEN "queued" ELSE job[j]]
  /\ Reaches(l, "staged")
  /\ UNCHANGED <<rendered, held, tasks, deaths, met>>

\* Bug: the tasks are enqueued before the jobs are committed.
EnqueueTasksFirst(l) ==
  /\ pc[l] = "accepted"
  /\ tasks' = tasks \cup JobsOf(l)
  /\ Reaches(l, "enqueued")
  /\ UNCHANGED <<status, rendered, job, held, deaths, met>>

\* Step 3: one task per job, in one transaction.
EnqueueTasks(l) ==
  /\ pc[l] = "staged"
  /\ tasks' = tasks \cup JobsOf(l)
  /\ Reaches(l, "enqueued")
  /\ UNCHANGED <<status, rendered, job, held, deaths, met>>

\* Bug: RUNNING is written before the tasks are enqueued.
MarkRunningFirst(l) ==
  /\ pc[l] = "staged"
  /\ status' = "running"
  /\ Reaches(l, "answered")
  /\ UNCHANGED <<rendered, job, held, tasks, deaths, met>>

\* Step 4.
MarkRunning(l) ==
  /\ pc[l] = "enqueued"
  /\ status' = "running"
  /\ Reaches(l, "answered")
  /\ UNCHANGED <<rendered, job, held, tasks, deaths, met>>

-----------------------------------------------------------------------------
(* cancel_campaign                                                         *)

AcceptCancel(k) ==
  /\ Accept(k)
  /\ status \notin CampaignTerminal
  /\ UNCHANGED <<status, rendered, job, held, tasks, deaths>>

RefuseCancel(k) == status \in CampaignTerminal /\ Refuse(k)

Queued == {j \in Jobs : job[j] = "queued"}

Held == UNION {held[k] : k \in Cancels}

\* Bug: only jobs that already have a task are cancelled.
MarkEnqueuedCancelled(k) ==
  /\ pc[k] = "accepted"
  /\ Held = {}
  /\ held' = [held EXCEPT ![k] = Queued \cap tasks]
  /\ Reaches(k, "marked")
  /\ UNCHANGED <<status, rendered, job, tasks, deaths, met>>

\* UPDATE email_jobs: sees the rows committed by now, waits for those another
\* cancel has updated, and keeps them locked.
MarkCancelled(k) ==
  /\ pc[k] = "accepted"
  /\ Held = {}
  /\ held' = [held EXCEPT ![k] = Queued]
  /\ Reaches(k, "marked")
  /\ UNCHANGED <<status, rendered, job, tasks, deaths, met>>

CommitCancel(k) ==
  /\ pc[k] = "marked"
  /\ status' = "cancelled"
  /\ job' = [j \in Jobs |-> IF j \in held[k] THEN "cancelled" ELSE job[j]]
  /\ held' = [held EXCEPT ![k] = {}]
  /\ Reaches(k, "answered")
  /\ UNCHANGED <<rendered, tasks, deaths, met>>

-----------------------------------------------------------------------------
(* The workers and the failures of a request                              *)

\* Bug: a worker executes a job whose row a cancel has locked.
ExecuteHeld(j, outcome) ==
  /\ j \in tasks
  /\ job[j] \in {"queued", "failed_transient"}
  /\ outcome \in {"sent", "failed_transient", "failed_permanent"}
  /\ job' = [job EXCEPT ![j] = outcome]
  /\ UNCHANGED <<status, pc, rendered, held, tasks, deaths, met>>

\* One execution of the job's task, claim to commit.
Execute(j, outcome) ==
  /\ j \in tasks \ Held
  /\ job[j] \in {"queued", "failed_transient"}
  /\ outcome \in {"sent", "failed_transient", "failed_permanent"}
  /\ job' = [job EXCEPT ![j] = outcome]
  /\ UNCHANGED <<status, pc, rendered, held, tasks, deaths, met>>

\* The API process dies, or a statement fails and the request is answered 500: its
\* open transaction is rolled back and its later ones never happen.
Die(r) ==
  /\ deaths < MaxDeaths
  /\ Open(r)
  /\ Reaches(r, "lost")
  /\ held' = [k \in Cancels |-> IF k = r THEN {} ELSE held[k]]
  /\ deaths' = deaths + 1
  /\ UNCHANGED <<status, rendered, job, tasks, met>>

LaunchStep(l) == StageJobs(l) \/ EnqueueTasks(l) \/ MarkRunning(l)

CancelStep(k) == MarkCancelled(k) \/ CommitCancel(k)

Next ==
  \/ \E l \in Launches : \/ \E contacts \in SUBSET Contacts : AcceptLaunch(l, contacts)
                         \/ RefuseLaunch(l)
                         \/ LaunchStep(l)
  \/ \E k \in Cancels : AcceptCancel(k) \/ RefuseCancel(k) \/ CancelStep(k)
  \/ \E j \in Jobs, outcome \in JobStatuses : Execute(j, outcome)
  \/ \E r \in Requests : Die(r)

Spec == Init /\ [][Next]_vars

-----------------------------------------------------------------------------
(* Properties                                                               *)

Created == {j \in Jobs : job[j] # "absent"}

\* The type of every variable; an open cancel holds only jobs that are still queued.
TypeOK ==
  /\ status \in CampaignStatuses
  /\ pc \in [Requests -> Phases]
  /\ rendered \in [Launches -> SUBSET Contacts]
  /\ job \in [Jobs -> JobStatuses \cup {"absent"}]
  /\ held \in [Cancels -> SUBSET Jobs]
  /\ tasks \subseteq Jobs
  /\ deaths \in 0..MaxDeaths
  /\ met \in [Requests -> SUBSET Requests]
  /\ \A j \in Held : job[j] = "queued"

BesideLaunch == {l \in Launches : met[l] \cap Launches # {}}

BesideCancel == {l \in Launches : met[l] \cap Cancels # {}}

\* transitions.py: a campaign moves along CAMPAIGN_TRANSITIONS, although no request guards
\* its writes. Only a launch in flight leaves it: one that was open beside a cancel revives
\* a cancelled campaign, one that was open beside another launch takes a running one back.
StatusFollowsTable ==
  [][status' # status =>
       \/ CanTransitionCampaign(status, status')
       \/ \E l \in Launches :
            /\ pc'[l] # pc[l]
            /\ \/ status = "cancelled" /\ l \in BesideCancel
               \/ status = "running" /\ l \in BesideLaunch]_vars

\* test_durability.py: "no recipient is emailed twice". A campaign mails a contact at most
\* once: one job per contact, however often and whenever launch is requested.
OneJobPerContact ==
  \A i, j \in Created : i[2] = j[2] => i = j

\* Two jobs of one contact come from launches that were open at the same time: launches
\* that follow each other never add jobs, whatever died and was cancelled in between.
OnlyOverlapMailsTwice ==
  \A i, j \in Created : i[2] = j[2] => i = j \/ i[1] \in met[j[1]]

\* cancel_campaign: "Cancels every job that has not started". Of a cancelled campaign only
\* the jobs of a launch that was open beside a cancel wait to be sent.
CancelledLeavesNothingQueued ==
  status = "cancelled" => \A j \in Queued : j[1] \in BesideCancel

\* The outbox order of launch: RUNNING is written only when the jobs of the launch have
\* their tasks. So no job of a running campaign waits for a task that never comes, unless
\* its launch was open beside another one, which may have written RUNNING for it.
RunningIsEnqueued ==
  status = "running" => \A j \in Created \ tasks : j[1] \in BesideLaunch

\* Tasks are enqueued after the commit of their jobs, so a worker never meets a task
\* whose job does not exist.
TasksHaveJobs == tasks \subseteq Created

\* What is settled stays settled, concurrent launches and cancels included: no cancel
\* recalls a sent job, no worker sends a cancelled one.
JobSettledForGood ==
  [][\A j \in Jobs : job[j] \in JobTerminal => job'[j] = job[j]]_vars

=============================================================================
