------------------------------- MODULE Webhooks -------------------------------
(***************************************************************************)
(* Provider webhooks: ingestion (ingest.py), the background task that      *)
(* applies one event (processor.py), the sweeper that retries events whose *)
(* send was not recorded yet (sweeper.py), and the adoption of waiting     *)
(* events when the send is recorded (SQLAlchemyJobStore.mark_sent).        *)
(*                                                                         *)
(* An event is loaded and applied in one transaction, but its UPDATE is    *)
(* computed from what was read earlier and carries no guard of its own:    *)
(* loading and committing are two steps. A message id is named by the job  *)
(* it belongs to; before mark_sent commits, no job is found for it.        *)
(***************************************************************************)
EXTENDS Transitions, FiniteSets

CONSTANTS
  Jobs,         \* email jobs, one provider message each
  Events,       \* provider_event_ids
  JobOf,        \* the job whose message an event is about
  Kind,         \* event_type of each event
  Sweeping,     \* whether sweep_loop is running
  MaxGiveUps,   \* bound: events found older than ORPHAN_GIVE_UP_AFTER
  MaxLosses     \* bound: background tasks that fail or die

EngagementKinds == {"opened", "clicked"}

ASSUME WebhookAssumption ==
  /\ JobOf \in [Events -> Jobs]
  /\ Kind \in [Events -> DeliveryStatuses \cup EngagementKinds \cup {"sent"}]
  /\ Sweeping \in BOOLEAN
  /\ MaxGiveUps \in Nat
  /\ MaxLosses \in Nat

VARIABLES
  stored,     \* provider_events: the rows inserted so far
  linked,     \* ... those with an email_job_id
  processed,  \* ... those with a processed_at
  abandoned,  \* history: the events the sweeper gave up on
  recorded,   \* jobs whose provider_message_id is committed
  adopting,   \* what open mark_sent transactions have adopted, by job
  delivery,   \* email_jobs.delivery_status as committed
  counted,    \* open_count + click_count of each job
  loads,      \* events being processed, with what was decided on loading them
  sweep,      \* the sweeper's transaction: orphans still to visit, events found too
              \* old, and the statuses it has seen
  applied,    \* history: the events some transaction has applied to their job
  lost,       \* history: the events whose background task was lost
  raced,      \* history: the events in processing while another transaction had an
              \* event of the same job in hand
  twice       \* history: ... had that very event in hand

vars == <<stored, linked, processed, abandoned, recorded, adopting, delivery,
          counted, loads, sweep, applied, lost, raced, twice>>

eventVars == <<stored, linked, processed, abandoned, applied>>
jobVars == <<recorded, adopting, delivery, counted>>
raceVars == <<raced, twice>>

Actors == {"scheduled", "task", "sweeper"}

\* An event in processing: found says whether its job was found, apply whether its
\* status outranked the one read.
Load == [by: Actors, event: Events, found: BOOLEAN, apply: BOOLEAN]

NotMarking == {"none"}
Unread == "unread"
NoSweep == [active |-> FALSE, todo |-> {}, old |-> {}, seen |-> [j \in Jobs |-> Unread]]

Init ==
  /\ stored = {}
  /\ linked = {}
  /\ processed = {}
  /\ abandoned = {}
  /\ recorded = {}
  /\ adopting = [j \in Jobs |-> NotMarking]
  /\ delivery = [j \in Jobs |-> "none"]
  /\ counted = [j \in Jobs |-> 0]
  /\ loads = {}
  /\ sweep = NoSweep
  /\ applied = {}
  /\ lost = {}
  /\ raced = {}
  /\ twice = {}

-----------------------------------------------------------------------------
(* Ingestion                                                               *)

Scheduled(e) == [by |-> "scheduled", event |-> e, found |-> FALSE, apply |-> FALSE]

\* INSERT ... ON CONFLICT (provider_event_id) DO NOTHING; only a row that was really
\* inserted gets a background task.
Ingest(e) ==
  /\ stored' = stored \cup {e}
  /\ loads' = IF e \in stored THEN loads ELSE loads \cup {Scheduled(e)}
  /\ UNCHANGED <<linked, processed, abandoned, applied, jobVars, sweep, lost, raceVars>>

-----------------------------------------------------------------------------
(* process_one_event                                                       *)

IsDelivery(e) == Kind[e] \in DeliveryStatuses

\* Bug: the last event to arrive wins.
DecidesLast(e, current) == IsDelivery(e) /\ Kind[e] # current

\* Bug: the first event to arrive wins.
DecidesFirst(e, current) == IsDelivery(e) /\ current = "none"

\* A `sent` event and one that does not outrank the status read change nothing.
Decides(e, current) == IsDelivery(e) /\ Outranks(Kind[e], current)

Loaded(by, e, current) ==
  [by |-> by, event |-> e, found |-> JobOf[e] \in recorded,
   apply |-> JobOf[e] \in recorded /\ Decides(e, current)]

Swept == {x \in loads : x.by = "sweeper"}

\* The events the sweeper's transaction has in hand, visited or not; and those of the
\* background tasks that have found their job.
SweepHolds == sweep.todo \cup {x.event : x \in Swept}

TasksHold == {x.event : x \in {y \in loads : y.by = "task" /\ y.found}}

Beside(es, fs) == {e \in es : \E f \in fs : JobOf[f] = JobOf[e]}

\* History: a transaction takes the events of mine in hand while others have theirs.
Meet(mine, theirs) ==
  /\ raced' = raced \cup Beside(mine, theirs) \cup Beside(theirs, mine)
  /\ twice' = twice \cup (mine \cap theirs)

\* Bug: `if event.processed_at is not None: return` is missing.
TaskLoadAgain(e) ==
  /\ Scheduled(e) \in loads
  /\ LET x == Loaded("task", e, delivery[JobOf[e]])
     IN /\ loads' = (loads \ {Scheduled(e)}) \cup {x}
        /\ Meet(IF x.found THEN {e} ELSE {}, TasksHold \cup SweepHolds)
  /\ UNCHANGED <<eventVars, jobVars, sweep, lost>>

\* Bug: an event that mark_sent has linked is taken for a processed one.
TaskLoadUnlinked(e) ==
  /\ Scheduled(e) \in loads
  /\ LET x == Loaded("task", e, delivery[JobOf[e]])
         takes == e \notin linked
     IN /\ loads' = (loads \ {Scheduled(e)}) \cup (IF takes THEN {x} ELSE {})
        /\ Meet(IF takes /\ x.found THEN {e} ELSE {}, TasksHold \cup SweepHolds)
  /\ UNCHANGED <<eventVars, jobVars, sweep, lost>>

\* An event already processed is left alone.
TaskLoad(e) ==
  /\ Scheduled(e) \in loads
  /\ LET x == Loaded("task", e, delivery[JobOf[e]])
         takes == e \notin processed
     IN /\ loads' = (loads \ {Scheduled(e)}) \cup (IF takes THEN {x} ELSE {})
        /\ Meet(IF takes /\ x.found THEN {e} ELSE {}, TasksHold \cup SweepHolds)
  /\ UNCHANGED <<eventVars, jobVars, sweep, lost>>

\* What the loads of one transaction write to a job: an unguarded SET for a delivery
\* status, the last of several being the highest, and an increment per engagement.
Sets(xs, j) == {Kind[x.event] : x \in {y \in xs : y.apply /\ JobOf[y.event] = j}}

Engages(xs, j) ==
  {x \in xs : x.found /\ JobOf[x.event] = j /\ Kind[x.event] \in EngagementKinds}

Highest(ss) == CHOOSE s \in ss : \A t \in ss : ~Outranks(t, s)

Apply(xs) ==
  /\ delivery' = [j \in Jobs |-> IF Sets(xs, j) = {} THEN delivery[j] ELSE Highest(Sets(xs, j))]
  /\ counted' = [j \in Jobs |-> counted[j] + Cardinality(Engages(xs, j))]

Found(xs) == {x.event : x \in {y \in xs : y.found}}

\* The sweeper's open transaction has updated the job's row.
RowLocked(j) == Sets(Swept, j) # {} \/ Engages(Swept, j) # {}

\* Bug: an orphan is marked processed.
TaskCommitOrphan(e) ==
  \E x \in loads :
    /\ x.by = "task" /\ x.event = e
    /\ ~RowLocked(JobOf[e])
    /\ Apply({x})
    /\ linked' = linked \cup Found({x})
    /\ processed' = processed \cup {e}
    /\ applied' = applied \cup Found({x})
    /\ loads' = loads \ {x}
    /\ UNCHANGED <<stored, abandoned, recorded, adopting, sweep, lost, raceVars>>

\* An orphan only has its attempts counted and stays unprocessed.
TaskCommit(e) ==
  \E x \in loads :
    /\ x.by = "task" /\ x.event = e
    /\ ~RowLocked(JobOf[e])
    /\ Apply({x})
    /\ linked' = linked \cup Found({x})
    /\ processed' = processed \cup Found({x})
    /\ applied' = applied \cup Found({x})
    /\ loads' = loads \ {x}
    /\ UNCHANGED <<stored, abandoned, recorded, adopting, sweep, lost, raceVars>>

\* An exception is logged, or the API process dies: nothing of it is committed, and
\* nobody runs this task again.
TaskLost(e) ==
  /\ Cardinality(lost) < MaxLosses
  /\ \E x \in loads : x.by \in {"scheduled", "task"} /\ x.event = e /\ loads' = loads \ {x}
  /\ lost' = lost \cup {e}
  /\ UNCHANGED <<eventVars, jobVars, sweep, raceVars>>

-----------------------------------------------------------------------------
(* sweep_once                                                              *)

Orphans == {e \in stored : e \notin linked /\ e \notin processed}

SweepSelect ==
  /\ Sweeping
  /\ ~sweep.active
  /\ Orphans # {}
  /\ sweep' = [NoSweep EXCEPT !.active = TRUE, !.todo = Orphans]
  /\ Meet(Orphans, TasksHold)
  /\ UNCHANGED <<eventVars, jobVars, loads, lost>>

\* A job is read once per session; afterwards the session only sees its own updates.
SweepReads(j) == IF sweep.seen[j] = Unread THEN delivery[j] ELSE sweep.seen[j]

SweepLoad(e) ==
  /\ e \in sweep.todo
  /\ LET j == JobOf[e]
         x == Loaded("sweeper", e, SweepReads(j))
         sees == IF x.apply THEN Kind[e] ELSE SweepReads(j)
     IN /\ loads' = loads \cup {x}
        /\ sweep' = [sweep EXCEPT !.todo = @ \ {e},
                                  !.seen[j] = IF x.found THEN sees ELSE @]
  /\ UNCHANGED <<eventVars, jobVars, lost, raceVars>>

\* An event older than ORPHAN_GIVE_UP_AFTER is marked processed without a look at its
\* job.
SweepGivesUp(e) ==
  /\ e \in sweep.todo
  /\ Cardinality(abandoned \cup sweep.old) < MaxGiveUps
  /\ sweep' = [sweep EXCEPT !.todo = @ \ {e}, !.old = @ \cup {e}]
  /\ UNCHANGED <<eventVars, jobVars, loads, lost, raceVars>>

SweepCommit ==
  /\ sweep.active
  /\ sweep.todo = {}
  /\ Apply(Swept)
  /\ linked' = linked \cup Found(Swept)
  /\ processed' = processed \cup Found(Swept) \cup sweep.old
  /\ abandoned' = abandoned \cup sweep.old
  /\ applied' = applied \cup Found(Swept)
  /\ loads' = loads \ Swept
  /\ sweep' = NoSweep
  /\ UNCHANGED <<stored, recorded, adopting, lost, raceVars>>

\* sweep_loop logs the exception, rolls back and sweeps again at the next tick.
SweepFails ==
  /\ sweep.active
  /\ loads' = loads \ Swept
  /\ sweep' = NoSweep
  /\ UNCHANGED <<eventVars, jobVars, lost, raceVars>>

-----------------------------------------------------------------------------
(* mark_sent                                                               *)

\* The event rows of this message that are committed and not linked yet.
Adoptable(j) == {e \in stored \ linked : JobOf[e] = j}

MarkSent(j) ==
  /\ j \notin recorded
  /\ adopting[j] = NotMarking
  /\ adopting' = [adopting EXCEPT ![j] = Adoptable(j)]
  /\ UNCHANGED <<eventVars, recorded, delivery, counted, loads, sweep, lost, raceVars>>

\* Adoption links the events and does nothing else with them.
CommitSent(j) ==
  /\ adopting[j] # NotMarking
  /\ recorded' = recorded \cup {j}
  /\ linked' = linked \cup adopting[j]
  /\ adopting' = [adopting EXCEPT ![j] = NotMarking]
  /\ UNCHANGED <<stored, processed, abandoned, applied, delivery, counted, loads, sweep,
                 lost, raceVars>>

-----------------------------------------------------------------------------
SweepGoesOn == SweepCommit \/ \E e \in Events : SweepLoad(e)

Next ==
  \/ \E e \in Events : Ingest(e) \/ TaskLoad(e) \/ TaskCommit(e) \/ TaskLost(e)
                       \/ SweepGivesUp(e)
  \/ SweepSelect \/ SweepGoesOn \/ SweepFails
  \/ \E j \in Jobs : MarkSent(j) \/ CommitSent(j)

Spec == Init /\ [][Next]_vars

\* The event loop runs the background tasks, an UPDATE that waits for a row lock is next
\* to get it, and a sweep that has begun goes on. Nothing says that a sweep begins, or that
\* a send is ever recorded.
Fairness ==
  /\ \A e \in Events : WF_vars(TaskLoad(e)) /\ SF_vars(TaskCommit(e))
  /\ WF_vars(SweepGoesOn)

FairSpec == Spec /\ Fairness

\* ... and here the sweeper sweeps and the worker records the send, as the comments of
\* ingest.py and sweeper.py expect.
BestFairness ==
  /\ Fairness
  /\ WF_vars(SweepSelect)
  /\ \A j \in Jobs : WF_vars(MarkSent(j) \/ CommitSent(j))

BestSpec == Spec /\ BestFairness

-----------------------------------------------------------------------------
(* Properties                                                               *)

\* The type of every variable, and the order in which columns are set: an event is stored
\* before it is linked, processed only if it was applied or abandoned, applied only with a
\* link, and to a job whose send is recorded.
TypeOK ==
  /\ linked \subseteq stored
  /\ stored \subseteq Events
  /\ processed \subseteq applied \cup abandoned
  /\ applied \subseteq linked \cap processed
  /\ recorded \subseteq Jobs
  /\ adopting \in [Jobs -> (SUBSET Events) \cup {NotMarking}]
  /\ delivery \in [Jobs -> DeliveryStatuses \cup {"none"}]
  /\ counted \in [Jobs -> Nat]
  /\ loads \subseteq Load
  /\ sweep.todo \subseteq stored
  /\ lost \subseteq stored
  /\ twice \subseteq raced
  /\ raced \subseteq stored
  /\ \A j \in Jobs : delivery[j] # "none" \/ counted[j] > 0 => j \in recorded

About(j) == {e \in Events : JobOf[e] = j}

\* README: "Duplicate and out-of-order provider webhooks converge": at every moment a
\* job's status is that of an event applied to it, and no applied event outranks it, in
\* whatever order they came - but for those that another transaction about the same job
\* was open beside, which the check-then-UPDATE of processor.py does not protect.
Converges ==
  \A j \in Jobs :
    LET outcomes == {e \in About(j) \cap applied : IsDelivery(e)}
    IN /\ \A e \in outcomes : Outranks(Kind[e], delivery[j]) => e \in raced
       /\ delivery[j] # "none" => \E e \in outcomes : Kind[e] = delivery[j]

\* transitions.py: "A late-arriving event can never move a job backwards": a step that
\* does writes the status of an event another transaction was open beside.
DeliveryIsMonotonic ==
  [][\A j \in Jobs : Outranks(delivery[j], delivery'[j]) =>
       \E x \in loads \ loads' :
         /\ x.apply /\ JobOf[x.event] = j /\ Kind[x.event] = delivery'[j]
         /\ x.event \in raced]_vars

\* One open or click counts once, however often its webhook is delivered and its event
\* retried; it counts twice only if its own task and a sweep had it in hand together.
EngagementCountedOnce ==
  \A j \in Jobs :
    LET opens == {e \in About(j) \cap applied : Kind[e] \in EngagementKinds}
    IN /\ Cardinality(opens) <= counted[j]
       /\ counted[j] <= Cardinality(opens) + Cardinality(opens \cap twice)

\* ingest.py and job_store.py: an event whose send is recorded, and with it adopted or
\* not, before its background task runs is applied by that task or a sweep, unless the
\* task is lost or the sweeper found the event too old.
EventsAreApplied ==
  \A e \in Events :
    Scheduled(e) \in loads /\ JobOf[e] \in recorded ~> e \in applied \cup lost \cup abandoned

\* ingest.py: "Never silently drop an event": every stored event is eventually applied.
StoredIsProcessed ==
  \A e \in Events : e \in stored ~> e \in processed
=============================================================================
