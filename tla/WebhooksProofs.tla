---------------------------- MODULE WebhooksProofs ----------------------------
(***************************************************************************)
(* Machine-checked proofs about Webhooks: for any number of messages and   *)
(* events, duplicates, losses and give-ups, and however the transactions   *)
(* of background tasks and sweeps overlap.                                 *)
(***************************************************************************)
EXTENDS Webhooks, FiniteSetTheorems, TLAPS

-----------------------------------------------------------------------------
(* Ranks                                                                    *)

Known == DeliveryStatuses \cup {"none"}

LEMMA RankTyped ==
  ASSUME NEW s \in Known
  PROVE  DeliveryRank[s] \in Nat
  BY DEF Known, DeliveryStatuses, DeliveryRank

LEMMA OutranksOrdered ==
  ASSUME NEW r \in Known, NEW s \in Known, NEW t \in Known
  PROVE  /\ ~Outranks(r, r)
         /\ Outranks(r, s) => ~Outranks(s, r)
         /\ ~Outranks(r, s) /\ ~Outranks(s, t) => ~Outranks(r, t)
         /\ r # s => Outranks(r, s) \/ Outranks(s, r)
  <1>1. DeliveryRank[r] \in Nat /\ DeliveryRank[s] \in Nat /\ DeliveryRank[t] \in Nat
    BY RankTyped
  <1>2. r # s => DeliveryRank[r] # DeliveryRank[s]
    BY DEF Known, DeliveryStatuses, DeliveryRank
  <1> QED
    BY <1>1, <1>2 DEF Outranks

\* Of several statuses one is the highest.
LEMMA HighestExists ==
  ASSUME NEW ss \in SUBSET DeliveryStatuses, ss # {}
  PROVE  /\ Highest(ss) \in ss
         /\ \A t \in ss : ~Outranks(t, Highest(ss))
  <1>1. \E s \in ss : \A t \in ss : ~Outranks(t, s)
    <2>1. CASE "complained" \in ss
      BY <2>1 DEF DeliveryStatuses, Outranks, DeliveryRank
    <2>2. CASE "complained" \notin ss /\ "bounced" \in ss
      BY <2>2 DEF DeliveryStatuses, Outranks, DeliveryRank
    <2>3. CASE ss \subseteq {"deferred", "delivered"} /\ "delivered" \in ss
      BY <2>3 DEF DeliveryStatuses, Outranks, DeliveryRank
    <2>4. CASE ss = {"deferred"}
      BY <2>4 DEF DeliveryStatuses, Outranks, DeliveryRank
    <2> QED
      BY <2>1, <2>2, <2>3, <2>4 DEF DeliveryStatuses
  <1> QED
    BY <1>1 DEF Highest

-----------------------------------------------------------------------------
(* Types                                                                    *)

\* An event in processing is stored; one whose status is to be written, or that is to be
\* linked, belongs to a recorded send.
LoadsSound ==
  /\ IsFiniteSet(loads)
  /\ \A x \in loads :
       /\ x.event \in stored
       /\ x.found => JobOf[x.event] \in recorded
       /\ x.apply => x.found /\ IsDelivery(x.event)

\* Sweeps and adoptions concern stored events; nothing is swept outside a sweep.
TransactionsSound ==
  /\ sweep \in [active: BOOLEAN, todo: SUBSET stored, old: SUBSET stored,
                seen: [Jobs -> Known \cup {Unread}]]
  /\ ~sweep.active => Swept = {} /\ sweep.todo = {} /\ sweep.old = {}
  /\ \A j \in Jobs : adopting[j] # NotMarking => adopting[j] \subseteq stored
  /\ abandoned \subseteq processed \cap stored

WebhookInv == TypeOK /\ LoadsSound /\ TransactionsSound

LEMMA LoadedTyped ==
  ASSUME NEW by \in Actors, NEW e \in Events, NEW current
  PROVE  /\ Loaded(by, e, current) \in Load
         /\ Loaded(by, e, current).by = by
         /\ Loaded(by, e, current).event = e
         /\ Loaded(by, e, current).found => JobOf[e] \in recorded
         /\ Loaded(by, e, current).apply => Loaded(by, e, current).found /\ IsDelivery(e)
  <1> DEFINE found == JobOf[e] \in recorded
             apply == found /\ Decides(e, current)
  <1>1. found \in BOOLEAN /\ apply \in BOOLEAN
    OBVIOUS
  <1>2. Loaded(by, e, current) = [by |-> by, event |-> e, found |-> found, apply |-> apply]
    BY DEF Loaded
  <1>3. apply => found /\ IsDelivery(e)
    BY DEF Decides
  <1> HIDE DEF found, apply
  <1>4. Loaded(by, e, current) \in Load
    BY <1>1, <1>2 DEF Load
  <1>5. Loaded(by, e, current).found = found /\ Loaded(by, e, current).apply = apply
    BY <1>2
  <1>6. found => JobOf[e] \in recorded
    BY DEF found
  <1> QED
    BY <1>1, <1>2, <1>3, <1>4, <1>5, <1>6

LEMMA ScheduledTyped ==
  ASSUME NEW e \in Events
  PROVE  /\ Scheduled(e) \in Load
         /\ Scheduled(e).by = "scheduled" /\ Scheduled(e).event = e
         /\ ~Scheduled(e).found /\ ~Scheduled(e).apply
  BY DEF Scheduled, Load, Actors

\* What a set of loads writes: statuses of delivery events, and engagements, to recorded
\* sends only.
LEMMA ApplyTyped ==
  ASSUME WebhookInv, NEW xs \in SUBSET loads, Apply(xs)
  PROVE  /\ \A j \in Jobs : Sets(xs, j) \subseteq DeliveryStatuses
         /\ delivery' \in [Jobs -> Known]
         /\ counted' \in [Jobs -> Nat]
         /\ \A j \in Jobs : delivery'[j] # "none" \/ counted'[j] > 0 => j \in recorded
  <1>1. \A j \in Jobs : /\ Sets(xs, j) \subseteq DeliveryStatuses
                        /\ Sets(xs, j) # {} => j \in recorded
    BY DEF WebhookInv, LoadsSound, Sets, IsDelivery
  <1>2. \A j \in Jobs : /\ IsFiniteSet(Engages(xs, j))
                        /\ Cardinality(Engages(xs, j)) \in Nat
                        /\ Cardinality(Engages(xs, j)) > 0 => j \in recorded
    <2> SUFFICES ASSUME NEW j \in Jobs
                 PROVE  /\ IsFiniteSet(Engages(xs, j))
                        /\ Cardinality(Engages(xs, j)) \in Nat
                        /\ Cardinality(Engages(xs, j)) > 0 => j \in recorded
      OBVIOUS
    <2>1. Engages(xs, j) \in SUBSET loads
      BY DEF Engages
    <2>2. IsFiniteSet(Engages(xs, j))
      BY <2>1, FS_Subset DEF WebhookInv, LoadsSound
    <2>3. Engages(xs, j) # {} => j \in recorded
      BY DEF WebhookInv, LoadsSound, Engages
    <2> QED
      BY <2>2, <2>3, FS_CardinalityType, FS_EmptySet
  <1>3. delivery' \in [Jobs -> Known]
    BY <1>1, HighestExists DEF Apply, Known, WebhookInv, TypeOK
  <1>4. counted' \in [Jobs -> Nat]
    BY <1>2 DEF Apply, WebhookInv, TypeOK
  <1>5. ASSUME NEW j \in Jobs, delivery'[j] # "none" \/ counted'[j] > 0
        PROVE  j \in recorded
    <2>1. delivery'[j] = IF Sets(xs, j) = {} THEN delivery[j] ELSE Highest(Sets(xs, j))
      BY DEF Apply
    <2>2. counted'[j] = counted[j] + Cardinality(Engages(xs, j))
      BY DEF Apply
    <2>3. counted[j] \in Nat
      BY DEF WebhookInv, TypeOK
    <2> QED
      BY <1>1, <1>2, <1>5, <2>1, <2>2, <2>3 DEF WebhookInv, TypeOK
  <1> QED
    BY <1>1, <1>3, <1>4, <1>5

\* Everything in hand is stored, and so is what is marked when more is taken in hand.
LEMMA MeetTyped ==
  ASSUME WebhookInv, NEW mine \in SUBSET stored, Meet(mine, TasksHold \cup SweepHolds)
  PROVE  /\ twice' \subseteq raced' /\ raced' \subseteq stored
         /\ raced \subseteq raced' /\ twice \subseteq twice'
  <1>1. TasksHold \subseteq stored /\ SweepHolds \subseteq stored
    BY DEF WebhookInv, TypeOK, LoadsSound, TasksHold, SweepHolds, Swept
  <1> DEFINE theirs == TasksHold \cup SweepHolds
  <1>2. mine \cap theirs \subseteq Beside(mine, theirs)
    BY DEF Beside
  <1>3. Beside(mine, theirs) \subseteq mine /\ Beside(theirs, mine) \subseteq theirs
    BY DEF Beside
  <1> QED
    BY <1>1, <1>2, <1>3 DEF Meet, WebhookInv, TypeOK

LEMMA IngestStep ==
  ASSUME WebhookInv, NEW e \in Events, Ingest(e)
  PROVE  WebhookInv' /\ Swept' = Swept
  <1>1. loads' \subseteq loads \cup {Scheduled(e)} /\ IsFiniteSet(loads')
    BY FS_AddElement DEF Ingest, WebhookInv, LoadsSound
  <1>2. \A x \in loads' : x \in loads \/ x = Scheduled(e)
    BY <1>1
  <1>3. Swept' = Swept
    BY ScheduledTyped DEF Ingest, Swept
  <1>4. stored' = stored \cup {e}
    BY DEF Ingest
  <1>5. TypeOK'
    BY <1>1, <1>4, ScheduledTyped DEF Ingest, WebhookInv, TypeOK, eventVars, jobVars, raceVars
  <1>6. LoadsSound'
    BY <1>1, <1>2, <1>4, ScheduledTyped DEF Ingest, WebhookInv, LoadsSound, jobVars
  <1>7. TransactionsSound'
    <2>1. sweep' = sweep /\ adopting' = adopting /\ abandoned' = abandoned
          /\ processed' = processed
      BY DEF Ingest, jobVars
    <2> QED
      BY <1>3, <1>4, <2>1 DEF WebhookInv, TransactionsSound
  <1> QED
    BY <1>3, <1>5, <1>6, <1>7 DEF WebhookInv

LEMMA TaskLoadStep ==
  ASSUME WebhookInv, NEW e \in Events, TaskLoad(e)
  PROVE  WebhookInv' /\ Swept' = Swept
  <1> DEFINE x == Loaded("task", e, delivery[JobOf[e]])
  <1>1. x \in Load /\ x.by = "task" /\ x.event = e /\ (x.found => JobOf[e] \in recorded)
        /\ (x.apply => x.found /\ IsDelivery(e))
    BY LoadedTyped DEF Actors
  <1>2. loads' \subseteq loads \cup {x}
    BY DEF TaskLoad
  <1>3. e \in stored
    BY ScheduledTyped DEF TaskLoad, WebhookInv, LoadsSound
  <1>4. Swept' = Swept
    <2> HIDE DEF x
    <2> QED
      BY <1>1, <1>2, ScheduledTyped DEF TaskLoad, Swept, x
  <1> HIDE DEF x
  <1>5. IsFiniteSet(loads')
    BY <1>2, FS_AddElement, FS_Subset DEF WebhookInv, LoadsSound
  <1>6. TypeOK'
    <2>1. twice' \subseteq raced' /\ raced' \subseteq stored
      <3>1. PICK mine \in {{}, {e}} : Meet(mine, TasksHold \cup SweepHolds)
        BY DEF TaskLoad
      <3> QED
        BY <1>3, <3>1, MeetTyped
    <2> QED
      BY <1>1, <1>2, <2>1 DEF TaskLoad, WebhookInv, TypeOK, eventVars, jobVars
  <1>7. LoadsSound'
    BY <1>1, <1>2, <1>3, <1>5 DEF TaskLoad, WebhookInv, LoadsSound, eventVars, jobVars
  <1>8. TransactionsSound'
    BY <1>4 DEF TaskLoad, WebhookInv, TransactionsSound, eventVars, jobVars
  <1> QED
    BY <1>4, <1>6, <1>7, <1>8 DEF WebhookInv

LEMMA TaskCommitStep ==
  ASSUME WebhookInv, NEW e \in Events, TaskCommit(e)
  PROVE  WebhookInv'
  <1> PICK x \in loads :
        /\ x.by = "task" /\ x.event = e
        /\ Apply({x})
        /\ linked' = linked \cup Found({x})
        /\ processed' = processed \cup Found({x})
        /\ applied' = applied \cup Found({x})
        /\ loads' = loads \ {x}
        /\ UNCHANGED <<stored, abandoned, recorded, adopting, sweep, lost, raceVars>>
    BY DEF TaskCommit
  <1>1. Found({x}) \subseteq stored
    BY DEF Found, WebhookInv, LoadsSound
  <1>2. TypeOK'
    BY <1>1, ApplyTyped DEF WebhookInv, TypeOK, Known, raceVars
  <1>3. LoadsSound'
    BY FS_Subset DEF WebhookInv, LoadsSound
  <1>4. Swept' = Swept
    BY DEF Swept
  <1>5. TransactionsSound'
    BY <1>4 DEF WebhookInv, TransactionsSound
  <1> QED
    BY <1>2, <1>3, <1>5 DEF WebhookInv

LEMMA TaskLostStep ==
  ASSUME WebhookInv, NEW e \in Events, TaskLost(e)
  PROVE  WebhookInv' /\ Swept' = Swept
  <1>1. PICK x \in loads : x.by \in {"scheduled", "task"} /\ loads' = loads \ {x}
    BY DEF TaskLost
  <1>2. Swept' = Swept
    BY <1>1 DEF Swept
  <1>3. TypeOK'
    BY <1>1 DEF TaskLost, WebhookInv, TypeOK, LoadsSound, eventVars, jobVars, raceVars
  <1>4. LoadsSound'
    BY <1>1, FS_Subset DEF TaskLost, WebhookInv, LoadsSound, eventVars, jobVars
  <1>5. TransactionsSound'
    BY <1>2 DEF TaskLost, WebhookInv, TransactionsSound, eventVars, jobVars
  <1> QED
    BY <1>2, <1>3, <1>4, <1>5 DEF WebhookInv

LEMMA SweepSelectStep ==
  ASSUME WebhookInv, SweepSelect
  PROVE  WebhookInv' /\ Swept' = Swept
  <1>1. Swept' = Swept /\ loads' = loads
    BY DEF SweepSelect, Swept
  <1>2. sweep' \in [active: BOOLEAN, todo: SUBSET stored, old: SUBSET stored,
                   seen: [Jobs -> Known \cup {Unread}]]
        /\ sweep'.active
    BY DEF SweepSelect, NoSweep, Orphans
  <1>3. TypeOK'
    <2>1. Orphans \in SUBSET stored /\ SweepHolds = {}
      BY DEF SweepSelect, Orphans, SweepHolds, WebhookInv, TransactionsSound
    <2>2. twice' \subseteq raced' /\ raced' \subseteq stored
      <3>1. Meet(Orphans, TasksHold \cup SweepHolds)
        BY <2>1 DEF SweepSelect
      <3> QED
        BY <2>1, <3>1, MeetTyped
    <2> QED
      BY <1>1, <1>2, <2>2 DEF SweepSelect, WebhookInv, TypeOK, eventVars, jobVars
  <1>4. LoadsSound'
    BY <1>1 DEF SweepSelect, WebhookInv, LoadsSound, eventVars, jobVars
  <1>5. TransactionsSound'
    BY <1>2 DEF SweepSelect, WebhookInv, TransactionsSound, eventVars, jobVars
  <1> QED
    BY <1>1, <1>3, <1>4, <1>5 DEF WebhookInv

LEMMA SweepLoadStep ==
  ASSUME WebhookInv, NEW e \in Events, SweepLoad(e)
  PROVE  /\ WebhookInv'
         /\ Swept' = Swept \cup {Loaded("sweeper", e, SweepReads(JobOf[e]))}
         /\ loads' = loads \cup {Loaded("sweeper", e, SweepReads(JobOf[e]))}
  <1> DEFINE j == JobOf[e]
             x == Loaded("sweeper", e, SweepReads(j))
             sees == IF x.apply THEN Kind[e] ELSE SweepReads(j)
  <1>1. x \in Load /\ x.by = "sweeper" /\ x.event = e /\ (x.found => JobOf[e] \in recorded)
        /\ (x.apply => x.found /\ IsDelivery(e))
    BY LoadedTyped DEF Actors
  <1>2. /\ e \in sweep.todo
        /\ loads' = loads \cup {x}
        /\ sweep' = [sweep EXCEPT !.todo = @ \ {e},
                                  !.seen[j] = IF x.found THEN sees ELSE @]
        /\ UNCHANGED <<eventVars, jobVars, lost, raceVars>>
    BY DEF SweepLoad
  <1>3. sweep.active /\ e \in stored /\ j \in Jobs
    BY <1>2, WebhookAssumption DEF WebhookInv, TransactionsSound
  <1>4. sees \in Known \cup {Unread}
    <2>1. SweepReads(j) \in Known \cup {Unread}
      BY <1>3 DEF SweepReads, WebhookInv, TransactionsSound, TypeOK, Known
    <2> QED
      BY <1>1, <2>1 DEF IsDelivery, Known
  <1> HIDE DEF x, sees
  <1>5. Swept' = Swept \cup {x}
    BY <1>1, <1>2 DEF Swept
  <1>6. sweep' \in [active: BOOLEAN, todo: SUBSET stored, old: SUBSET stored,
                   seen: [Jobs -> Known \cup {Unread}]]
        /\ sweep'.active
    BY <1>2, <1>3, <1>4 DEF WebhookInv, TransactionsSound
  <1>7. TypeOK'
    BY <1>1, <1>2, <1>6 DEF WebhookInv, TypeOK, eventVars, jobVars, raceVars
  <1>8. LoadsSound'
    BY <1>1, <1>2, <1>3, FS_AddElement DEF WebhookInv, LoadsSound, eventVars, jobVars
  <1>9. TransactionsSound'
    BY <1>2, <1>6 DEF WebhookInv, TransactionsSound, eventVars, jobVars
  <1> QED
    BY <1>2, <1>5, <1>7, <1>8, <1>9 DEF WebhookInv, x

LEMMA SweepGivesUpStep ==
  ASSUME WebhookInv, NEW e \in Events, SweepGivesUp(e)
  PROVE  WebhookInv' /\ Swept' = Swept
  <1>1. Swept' = Swept /\ loads' = loads
    BY DEF SweepGivesUp, Swept
  <1>2. sweep' \in [active: BOOLEAN, todo: SUBSET stored, old: SUBSET stored,
                   seen: [Jobs -> Known \cup {Unread}]]
        /\ sweep'.active
    BY DEF SweepGivesUp, WebhookInv, TransactionsSound
  <1>3. TypeOK'
    BY <1>1, <1>2 DEF SweepGivesUp, WebhookInv, TypeOK, eventVars, jobVars, raceVars
  <1>4. LoadsSound'
    BY <1>1 DEF SweepGivesUp, WebhookInv, LoadsSound, eventVars, jobVars
  <1>5. TransactionsSound'
    BY <1>2 DEF SweepGivesUp, WebhookInv, TransactionsSound, eventVars, jobVars
  <1> QED
    BY <1>1, <1>3, <1>4, <1>5 DEF WebhookInv

\* A sweep that ends, committed or not, takes its loads and its selection with it.
LEMMA SweepEnds ==
  ASSUME WebhookInv, loads' = loads \ Swept, sweep' = NoSweep, UNCHANGED stored
  PROVE  /\ Swept' = {}
         /\ IsFiniteSet(loads')
         /\ sweep' \in [active: BOOLEAN, todo: SUBSET stored, old: SUBSET stored,
                        seen: [Jobs -> Known \cup {Unread}]]
         /\ sweep'.todo = {} /\ sweep'.old = {}
  <1>1. Swept' = {}
    BY DEF Swept
  <1>2. IsFiniteSet(loads')
    BY FS_Subset DEF WebhookInv, LoadsSound
  <1> QED
    BY <1>1, <1>2 DEF NoSweep

LEMMA SweepCommitStep ==
  ASSUME WebhookInv, SweepCommit
  PROVE  WebhookInv'
  <1>1. /\ Apply(Swept)
        /\ linked' = linked \cup Found(Swept)
        /\ processed' = processed \cup Found(Swept) \cup sweep.old
        /\ abandoned' = abandoned \cup sweep.old
        /\ applied' = applied \cup Found(Swept)
        /\ loads' = loads \ Swept
        /\ sweep' = NoSweep
        /\ UNCHANGED <<stored, recorded, adopting, lost, raceVars>>
    BY DEF SweepCommit
  <1>2. Found(Swept) \subseteq stored /\ Swept \subseteq loads
    BY DEF Found, Swept, WebhookInv, LoadsSound
  <1>3. sweep.old \subseteq stored
    BY DEF WebhookInv, TransactionsSound
  <1>4. TypeOK'
    BY <1>1, <1>2, <1>3, ApplyTyped, SweepEnds DEF WebhookInv, TypeOK, Known, raceVars
  <1>5. LoadsSound'
    BY <1>1, SweepEnds DEF WebhookInv, LoadsSound
  <1>6. TransactionsSound'
    BY <1>1, <1>3, SweepEnds DEF WebhookInv, TransactionsSound
  <1> QED
    BY <1>4, <1>5, <1>6 DEF WebhookInv

LEMMA SweepFailsStep ==
  ASSUME WebhookInv, SweepFails
  PROVE  WebhookInv'
  <1>1. TypeOK'
    BY SweepEnds DEF SweepFails, WebhookInv, TypeOK, eventVars, jobVars, raceVars
  <1>2. LoadsSound'
    BY SweepEnds DEF SweepFails, WebhookInv, LoadsSound, eventVars, jobVars
  <1>3. TransactionsSound'
    BY SweepEnds DEF SweepFails, WebhookInv, TransactionsSound, eventVars, jobVars
  <1> QED
    BY <1>1, <1>2, <1>3 DEF WebhookInv

LEMMA SentStep ==
  ASSUME WebhookInv, NEW j \in Jobs, MarkSent(j) \/ CommitSent(j)
  PROVE  /\ WebhookInv' /\ Swept' = Swept
         /\ UNCHANGED <<stored, applied, delivery, counted, loads, sweep, raceVars>>
         /\ recorded \subseteq recorded'
  <1>1. UNCHANGED <<stored, processed, abandoned, applied, delivery, counted, loads, sweep,
                    lost, raceVars>>
    BY DEF MarkSent, CommitSent, eventVars
  <1>2. Swept' = Swept
    BY <1>1 DEF Swept
  <1>3. recorded \subseteq recorded' /\ recorded' \subseteq Jobs
    BY DEF MarkSent, CommitSent, WebhookInv, TypeOK
  <1>4. \A i \in Jobs : adopting'[i] # NotMarking => adopting'[i] \subseteq stored
    BY DEF MarkSent, CommitSent, Adoptable, WebhookInv, TransactionsSound, TypeOK
  <1>5. adopting' \in [Jobs -> (SUBSET Events) \cup {NotMarking}]
    BY DEF MarkSent, CommitSent, Adoptable, WebhookInv, TypeOK
  <1>6. linked \subseteq linked' /\ linked' \subseteq stored
    BY DEF MarkSent, CommitSent, WebhookInv, TypeOK, TransactionsSound, eventVars
  <1>7. TypeOK'
    BY <1>1, <1>3, <1>5, <1>6 DEF WebhookInv, TypeOK, raceVars
  <1>8. LoadsSound' /\ TransactionsSound'
    BY <1>1, <1>2, <1>3, <1>4 DEF WebhookInv, LoadsSound, TransactionsSound
  <1> QED
    BY <1>1, <1>2, <1>3, <1>7, <1>8 DEF WebhookInv

LEMMA InitWebhookInv ==
  ASSUME Init
  PROVE  WebhookInv
  <1>1. Swept = {}
    BY DEF Init, Swept
  <1>2. TypeOK
    BY DEF Init, TypeOK, NoSweep
  <1>3. LoadsSound
    BY FS_EmptySet DEF Init, LoadsSound
  <1>4. TransactionsSound
    BY <1>1 DEF Init, TransactionsSound, NoSweep
  <1> QED
    BY <1>2, <1>3, <1>4 DEF WebhookInv

LEMMA WebhookInvStep ==
  ASSUME WebhookInv, [Next]_vars
  PROVE  WebhookInv'
  <1>1. CASE UNCHANGED vars
    BY <1>1 DEF vars, WebhookInv, TypeOK, LoadsSound, TransactionsSound, Swept
  <1>2. CASE Next
    BY <1>2, IngestStep, TaskLoadStep, TaskCommitStep, TaskLostStep, SweepGivesUpStep,
       SweepSelectStep, SweepCommitStep, SweepLoadStep, SweepFailsStep, SentStep
       DEF Next, SweepGoesOn
  <1> QED
    BY <1>1, <1>2

LEMMA WebhookInvariant == Spec => []WebhookInv
  BY InitWebhookInv, WebhookInvStep, PTL DEF Spec

\* However webhooks, tasks, sweeps and sends overlap and fail, an event is stored before it
\* is linked, processed only if applied or abandoned, and a job has outcomes and
\* engagements only once its send is recorded.
THEOREM WebhooksTyped == Spec => []TypeOK
  BY WebhookInvariant, PTL DEF WebhookInv

-----------------------------------------------------------------------------
(* Transactions beside one another                                          *)

\* Every event has one background task.
OneTask ==
  \A x, y \in loads :
    x.by # "sweeper" /\ y.by # "sweeper" /\ x.event = y.event => x = y

\* A task that has not begun has decided nothing.
ScheduledQuiet == \A x \in loads : x.by = "scheduled" => ~x.apply

\* A sweep visits every event it selected once.
SweepVisitsOnce ==
  /\ sweep.todo \cap sweep.old = {}
  /\ \A x \in Swept : x.event \notin sweep.todo \cup sweep.old
  /\ \A x, y \in Swept : x.event = y.event => x = y

\* Events of one job in the hands of two transactions are marked, and so is an event that
\* is itself in the hands of two.
RacesMarked ==
  \A e \in TasksHold :
    /\ \A f \in TasksHold : f # e /\ JobOf[f] = JobOf[e] => e \in raced
    /\ \A f \in SweepHolds : JobOf[f] = JobOf[e] => e \in raced /\ f \in raced
    /\ e \in SweepHolds => e \in twice

\* An applied event still in hand is in hand for the second and last time.
AppliedInHand ==
  \A e \in applied :
    /\ e \in TasksHold \cup SweepHolds => e \in twice
    /\ e \in SweepHolds => \A x \in loads : x.event = e => x.by = "sweeper"

\* What a background task that nobody was beside has decided still holds.
TaskUpToDate ==
  \A x \in loads :
    x.by = "task" /\ x.found /\ IsDelivery(x.event) /\ x.event \notin raced =>
      (x.apply <=> Outranks(Kind[x.event], delivery[JobOf[x.event]]))

\* The sweep's session has a status for the jobs it has found, and for no other.
SweepSeesFound ==
  \A j \in Jobs :
    sweep.seen[j] # Unread <=> \E x \in Swept : x.found /\ JobOf[x.event] = j

\* The status a sweep has in its session is the highest of the one in the row and of
\* those it is going to write.
SeesHighest(j) ==
  LET found == {x \in Swept : x.found /\ JobOf[x.event] = j} IN
  /\ sweep.seen[j] # Unread =>
       /\ \/ sweep.seen[j] \in Sets(Swept, j)
          \/ Sets(Swept, j) = {} /\ sweep.seen[j] = delivery[j]
       /\ ~Outranks(delivery[j], sweep.seen[j])
       /\ \A x \in found : IsDelivery(x.event) => ~Outranks(Kind[x.event], sweep.seen[j])
  /\ \A x \in found : x.apply => Outranks(Kind[x.event], delivery[j])

\* ... as long as no background task was beside it.
SweepUpToDate ==
  \A e \in SweepHolds : e \notin raced => SeesHighest(JobOf[e])

\* The delivery outcomes that have been applied to a job.
Outcomes(j) == {e \in About(j) \cap applied : IsDelivery(e)}

\* No status read, decided on or written since is below that of an event applied with
\* nobody beside it.
StatusHolds ==
  \A j \in Jobs : \A e \in Outcomes(j) : e \notin raced =>
    /\ ~Outranks(Kind[e], delivery[j])
    /\ \A x \in loads : x.apply /\ JobOf[x.event] = j => ~Outranks(Kind[e], Kind[x.event])
    /\ sweep.seen[j] # Unread => ~Outranks(Kind[e], sweep.seen[j])

StatusIsOfApplied ==
  \A j \in Jobs : delivery[j] # "none" => \E e \in Outcomes(j) : Kind[e] = delivery[j]

\* The engagements that have been applied to a job, and the events two transactions had in
\* hand and none has any more.
Opens(j) == {e \in About(j) \cap applied : Kind[e] \in EngagementKinds}

TwiceDone == twice \ (TasksHold \cup SweepHolds)

CountsHold ==
  \A j \in Jobs :
    /\ Cardinality(Opens(j)) <= counted[j]
    /\ counted[j] <= Cardinality(Opens(j)) + Cardinality(Opens(j) \cap TwiceDone)

RaceInv ==
  /\ WebhookInv
  /\ IsFiniteSet(stored)
  /\ OneTask
  /\ ScheduledQuiet
  /\ SweepVisitsOnce
  /\ RacesMarked
  /\ AppliedInHand
  /\ TaskUpToDate
  /\ SweepSeesFound
  /\ SweepUpToDate
  /\ StatusHolds
  /\ StatusIsOfApplied
  /\ CountsHold

-----------------------------------------------------------------------------
(* What one transaction does to a job                                       *)

\* What a transaction about to commit writes to a job, if nobody was beside it: statuses
\* above the one in the row, and every status left out is below one of the two.
Fresh(xs, j) ==
  /\ \A x \in xs : x.apply /\ JobOf[x.event] = j => Outranks(Kind[x.event], delivery[j])
  /\ \A x \in xs : x.found /\ JobOf[x.event] = j /\ IsDelivery(x.event) =>
       \E s \in Sets(xs, j) \cup {delivery[j]} : ~Outranks(Kind[x.event], s)

\* The new status is the old one or that of one of the events, and above all of them.
LEMMA ApplyHighest ==
  ASSUME WebhookInv, NEW xs \in SUBSET loads, Apply(xs), NEW j \in Jobs, Fresh(xs, j)
  PROVE  \A x \in xs : x.found /\ JobOf[x.event] = j /\ IsDelivery(x.event)
                         => ~Outranks(Kind[x.event], delivery'[j])
  <1>1. delivery[j] \in Known /\ delivery'[j] \in Known /\ Sets(xs, j) \subseteq DeliveryStatuses
    BY ApplyTyped DEF WebhookInv, TypeOK, Known
  <1>2. delivery'[j] = IF Sets(xs, j) = {} THEN delivery[j] ELSE Highest(Sets(xs, j))
    BY DEF Apply
  <1>3. \A s \in Sets(xs, j) : s \in Known /\ Outranks(s, delivery[j])
    BY <1>1 DEF Sets, Fresh, Known
  <1>4. \A s \in Sets(xs, j) \cup {delivery[j]} : ~Outranks(s, delivery'[j])
    <2>1. CASE Sets(xs, j) = {}
      BY <1>1, <1>2, <2>1, OutranksOrdered
    <2>2. CASE Sets(xs, j) # {}
      <3>1. delivery'[j] \in Sets(xs, j) /\ \A s \in Sets(xs, j) : ~Outranks(s, delivery'[j])
        BY <1>1, <1>2, <2>2, HighestExists
      <3>2. Outranks(delivery'[j], delivery[j])
        BY <1>3, <3>1
      <3>3. ~Outranks(delivery[j], delivery'[j])
        BY <1>1, <3>2, OutranksOrdered
      <3> QED
        BY <3>1, <3>3
    <2> QED
      BY <2>1, <2>2
  <1>5. ASSUME NEW x \in xs, x.found, JobOf[x.event] = j, IsDelivery(x.event)
        PROVE  ~Outranks(Kind[x.event], delivery'[j])
    <2>1. PICK s \in Sets(xs, j) \cup {delivery[j]} : ~Outranks(Kind[x.event], s)
      BY <1>5 DEF Fresh
    <2>2. s \in Known /\ Kind[x.event] \in Known
      BY <1>1, <1>3, <1>5 DEF IsDelivery, Known
    <2> QED
      BY <1>1, <1>4, <2>1, <2>2, OutranksOrdered
  <1> QED
    BY <1>5

\* The new status is that of an event the transaction applies, or the old one.
LEMMA ApplyWrites ==
  ASSUME WebhookInv, NEW xs \in SUBSET loads, Apply(xs), NEW j \in Jobs
  PROVE  /\ delivery[j] \in Known /\ delivery'[j] \in Known
         /\ \/ delivery'[j] = delivery[j]
            \/ \E x \in xs : /\ x.apply /\ x.found /\ JobOf[x.event] = j
                             /\ IsDelivery(x.event) /\ Kind[x.event] = delivery'[j]
  <1>1. delivery[j] \in Known /\ delivery'[j] \in Known /\ Sets(xs, j) \subseteq DeliveryStatuses
    BY ApplyTyped DEF WebhookInv, TypeOK, Known
  <1>2. delivery'[j] = IF Sets(xs, j) = {} THEN delivery[j] ELSE Highest(Sets(xs, j))
    BY DEF Apply
  <1>3. delivery'[j] = delivery[j] \/ delivery'[j] \in Sets(xs, j)
    BY <1>1, <1>2, HighestExists
  <1> QED
    BY <1>1, <1>3 DEF Sets, WebhookInv, LoadsSound

\* A commit after which nothing decided beside it is left: what holds of the statuses
\* before holds after it, and it lowers one only with an event somebody was beside.
LEMMA CommitStatus ==
  ASSUME RaceInv, NEW xs \in SUBSET loads, Apply(xs),
         applied' = applied \cup Found(xs), loads' = loads \ xs, raced' = raced,
         \A x \in xs : x.apply /\ x.event \notin raced => Fresh(xs, JobOf[x.event]),
         \A x \in xs : x.found /\ IsDelivery(x.event) /\ x.event \notin raced =>
           /\ Fresh(xs, JobOf[x.event])
           /\ \A y \in loads' : JobOf[y.event] = JobOf[x.event] => ~y.apply
           /\ sweep'.seen[JobOf[x.event]] = Unread,
         \A j \in Jobs : sweep'.seen[j] # Unread => sweep'.seen[j] = sweep.seen[j]
  PROVE  /\ StatusHolds' /\ StatusIsOfApplied'
         /\ \A j \in Jobs : Outranks(delivery[j], delivery'[j]) =>
              \E x \in loads \ loads' :
                /\ x.apply /\ JobOf[x.event] = j /\ Kind[x.event] = delivery'[j]
                /\ x.event \in raced
  <1>1. WebhookInv
    BY DEF RaceInv
  <1>2. \A x \in xs : x.event \in Events /\ JobOf[x.event] \in Jobs
    BY <1>1, WebhookAssumption DEF WebhookInv, TypeOK, LoadsSound
  <1>3. StatusHolds'
    <2> SUFFICES ASSUME NEW j \in Jobs, NEW e \in Outcomes(j)', e \notin raced
                 PROVE  /\ ~Outranks(Kind[e], delivery'[j])
                        /\ \A x \in loads' : x.apply /\ JobOf[x.event] = j
                                               => ~Outranks(Kind[e], Kind[x.event])
                        /\ sweep'.seen[j] # Unread => ~Outranks(Kind[e], sweep'.seen[j])
      BY DEF StatusHolds
    <2>1. JobOf[e] = j /\ IsDelivery(e) /\ e \in Events
      BY DEF Outcomes, About, IsDelivery
    <2>2. CASE e \in applied
      <3>1. e \in Outcomes(j)
        BY <2>1, <2>2 DEF Outcomes, About
      <3>2. /\ ~Outranks(Kind[e], delivery[j])
            /\ \A x \in loads : x.apply /\ JobOf[x.event] = j => ~Outranks(Kind[e], Kind[x.event])
            /\ sweep.seen[j] # Unread => ~Outranks(Kind[e], sweep.seen[j])
        BY <3>1 DEF RaceInv, StatusHolds
      <3> QED
        BY <1>1, <3>2, ApplyWrites
    <2>3. CASE e \notin applied
      <3>1. PICK x \in xs : x.found /\ x.event = e
        BY <2>3 DEF Outcomes, Found
      <3>2. Fresh(xs, j) /\ (\A y \in loads' : JobOf[y.event] = j => ~y.apply)
            /\ sweep'.seen[j] = Unread
        BY <2>1, <3>1
      <3> QED
        BY <1>1, <2>1, <3>1, <3>2, ApplyHighest
    <2> QED
      BY <2>2, <2>3
  <1>4. StatusIsOfApplied'
    <2> SUFFICES ASSUME NEW j \in Jobs, delivery'[j] # "none"
                 PROVE  \E e \in Outcomes(j)' : Kind[e] = delivery'[j]
      BY DEF StatusIsOfApplied
    <2>1. CASE delivery'[j] = delivery[j]
      <3>1. Outcomes(j) \subseteq Outcomes(j)'
        BY DEF Outcomes, About, IsDelivery
      <3> QED
        BY <2>1, <3>1 DEF RaceInv, StatusIsOfApplied
    <2>2. ASSUME NEW x \in xs, x.found, JobOf[x.event] = j, IsDelivery(x.event),
                 Kind[x.event] = delivery'[j]
          PROVE  \E e \in Outcomes(j)' : Kind[e] = delivery'[j]
      <3>1. x.event \in Outcomes(j)'
        BY <1>2, <2>2 DEF Outcomes, About, IsDelivery, Found
      <3> QED
        BY <2>2, <3>1
    <2> QED
      BY <1>1, <2>1, <2>2, ApplyWrites
  <1>5. ASSUME NEW j \in Jobs, Outranks(delivery[j], delivery'[j])
        PROVE  \E x \in loads \ loads' :
                 /\ x.apply /\ JobOf[x.event] = j /\ Kind[x.event] = delivery'[j]
                 /\ x.event \in raced
    <2>1. delivery[j] \in Known /\ delivery'[j] \in Known
      BY <1>1, ApplyWrites
    <2>2. delivery'[j] # delivery[j]
      BY <1>5, <2>1, OutranksOrdered
    <2>3. PICK x \in xs : x.apply /\ JobOf[x.event] = j /\ Kind[x.event] = delivery'[j]
      BY <1>1, <2>2, ApplyWrites
    <2>4. x.event \in raced
      <3>1. ASSUME x.event \notin raced
            PROVE  FALSE
        <4>1. Outranks(delivery'[j], delivery[j])
          BY <2>3, <3>1 DEF Fresh
        <4> QED
          BY <1>5, <2>1, <4>1, OutranksOrdered
      <3> QED
        BY <3>1
    <2> QED
      BY <2>3, <2>4
  <1> QED
    BY <1>3, <1>4, <1>5

LEMMA DisjointUnion ==
  ASSUME NEW s, NEW t, IsFiniteSet(s), IsFiniteSet(t), s \cap t = {}
  PROVE  Cardinality(s \cup t) = Cardinality(s) + Cardinality(t)
  <1>1. Cardinality(s \cup t) = Cardinality(s) + Cardinality(t) - Cardinality(s \cap t)
    BY FS_Union
  <1>2. Cardinality(s \cap t) = 0
    BY FS_EmptySet
  <1>3. Cardinality(s) \in Nat /\ Cardinality(t) \in Nat
    BY FS_CardinalityType
  <1> QED
    BY <1>1, <1>2, <1>3

\* An engagement in hand for the first time is counted and applied, one in hand for the
\* second and last time is counted and done with.
LEMMA CommitCounts ==
  ASSUME RaceInv, WebhookInv', stored' = stored, NEW xs \in SUBSET loads, Apply(xs),
         applied' = applied \cup Found(xs), twice' = twice,
         \A x, y \in xs : x.event = y.event => x = y,
         Found(xs) \subseteq TasksHold \cup SweepHolds,
         TasksHold' \cup SweepHolds' \subseteq TasksHold \cup SweepHolds,
         \A e \in Found(xs) \cap applied : e \notin TasksHold' \cup SweepHolds'
  PROVE  CountsHold'
  <1> SUFFICES ASSUME NEW j \in Jobs
               PROVE  /\ Cardinality(Opens(j)') <= counted'[j]
                      /\ counted'[j] <= Cardinality(Opens(j)')
                                          + Cardinality((Opens(j) \cap TwiceDone)')
    BY DEF CountsHold
  <1> DEFINE ms == {x.event : x \in Engages(xs, j)}
             first == ms \ Opens(j)
             again == ms \cap Opens(j)
             done == Opens(j) \cap TwiceDone
             f == [x \in Engages(xs, j) |-> x.event]
  <1>1. /\ WebhookInv /\ IsFiniteSet(stored)
        /\ Opens(j) \in SUBSET stored /\ Opens(j)' \in SUBSET stored
    BY DEF RaceInv, Opens, WebhookInv, TypeOK
  <1>2. /\ counted'[j] = counted[j] + Cardinality(Engages(xs, j)) /\ counted[j] \in Nat
        /\ Cardinality(Opens(j)) <= counted[j]
        /\ counted[j] <= Cardinality(Opens(j)) + Cardinality(done)
    BY <1>1 DEF Apply, RaceInv, CountsHold, WebhookInv, TypeOK
  <1>3. ms \subseteq Found(xs) /\ ms \in SUBSET stored
    BY <1>1 DEF Engages, Found, WebhookInv, LoadsSound
  <1>4. Cardinality(Engages(xs, j)) = Cardinality(ms)
    <2>1. f \in Bijection(Engages(xs, j), ms)
      BY DEF Bijection, Injection, Surjection, IsInjective, Engages
    <2>2. ExistsBijection(Engages(xs, j), ms)
      BY <2>1 DEF ExistsBijection
    <2>3. Engages(xs, j) \in SUBSET loads
      BY DEF Engages
    <2>4. IsFiniteSet(Engages(xs, j))
      BY <1>1, <2>3, FS_Subset DEF WebhookInv, LoadsSound
    <2> HIDE DEF f, ms
    <2> QED
      BY <2>2, <2>4, FS_Bijection
  <1>5. Opens(j)' = Opens(j) \cup first
    BY <1>1, <1>3 DEF Opens, About, Engages, Found, WebhookInv, TypeOK, LoadsSound
  <1>6. again \cap done = {} /\ again \cup done \subseteq (Opens(j) \cap TwiceDone)'
    <2>1. \A e \in again : e \in TasksHold \cup SweepHolds /\ e \in applied /\ e \in Found(xs)
      BY <1>3 DEF Opens
    <2>2. \A e \in again : e \in twice' /\ e \notin TasksHold' \cup SweepHolds'
      BY <2>1 DEF RaceInv, AppliedInHand
    <2>3. again \cup done \subseteq Opens(j)'
      BY <1>5
    <2> QED
      BY <2>1, <2>2, <2>3 DEF TwiceDone
  <1> HIDE DEF ms, done
  <1>7. /\ IsFiniteSet(first) /\ IsFiniteSet(again) /\ IsFiniteSet(done)
        /\ IsFiniteSet(Opens(j)) /\ IsFiniteSet((Opens(j) \cap TwiceDone)')
    <2>1. first \in SUBSET stored /\ again \in SUBSET stored /\ done \in SUBSET stored
          /\ (Opens(j) \cap TwiceDone)' \in SUBSET stored
      BY <1>1, <1>3 DEF done
    <2> QED
      BY <1>1, <2>1, FS_Subset
  <1>8. /\ Cardinality(first) \in Nat /\ Cardinality(again) \in Nat /\ Cardinality(done) \in Nat
        /\ Cardinality(Opens(j)) \in Nat /\ Cardinality((Opens(j) \cap TwiceDone)') \in Nat
    BY <1>7, FS_CardinalityType
  <1>9. Cardinality(ms) = Cardinality(first) + Cardinality(again)
    <2>1. ms = first \cup again /\ first \cap again = {}
      OBVIOUS
    <2> QED
      BY <1>7, <2>1, DisjointUnion
  <1>10. Cardinality(Opens(j)') = Cardinality(Opens(j)) + Cardinality(first)
    <2>1. Opens(j) \cap first = {}
      OBVIOUS
    <2> QED
      BY <1>5, <1>7, <2>1, DisjointUnion
  <1>11. Cardinality(again) + Cardinality(done) <= Cardinality((Opens(j) \cap TwiceDone)')
    <2>1. Cardinality(again \cup done) = Cardinality(again) + Cardinality(done)
      BY <1>6, <1>7, DisjointUnion
    <2> QED
      BY <1>6, <1>7, <2>1, FS_Subset
  <1> QED
    BY <1>2, <1>4, <1>8, <1>9, <1>10, <1>11

-----------------------------------------------------------------------------
(* Each step keeps RaceInv                                                  *)

\* A step that applies nothing, and takes nothing in hand that has been applied.
LEMMA QuietStep ==
  ASSUME RaceInv, IsFiniteSet(stored'), WebhookInv', UNCHANGED <<applied, delivery, counted>>,
         twice \subseteq twice',
         (TasksHold' \cup SweepHolds') \cap applied \subseteq TasksHold \cup SweepHolds
  PROVE  StatusIsOfApplied' /\ CountsHold'
  <1>1. StatusIsOfApplied'
    BY DEF RaceInv, StatusIsOfApplied, Outcomes, About, IsDelivery
  <1>2. CountsHold'
    <2> SUFFICES ASSUME NEW j \in Jobs
                 PROVE  /\ Cardinality(Opens(j)') <= counted'[j]
                        /\ counted'[j] <= Cardinality(Opens(j)')
                                            + Cardinality((Opens(j) \cap TwiceDone)')
      BY DEF CountsHold
    <2>1. Opens(j)' = Opens(j) /\ (Opens(j) \cap TwiceDone)' \in SUBSET stored'
      BY DEF Opens, About, WebhookInv, TypeOK
    <2>2. Opens(j) \cap TwiceDone \subseteq (Opens(j) \cap TwiceDone)'
      BY <2>1 DEF Opens, TwiceDone
    <2>3. IsFiniteSet((Opens(j) \cap TwiceDone)') /\ IsFiniteSet(Opens(j) \cap TwiceDone)
      BY <2>1, <2>2, FS_Subset
    <2> DEFINE done == Opens(j) \cap TwiceDone
               doneThen == (Opens(j) \cap TwiceDone)'
    <2>4. /\ Cardinality(done) <= Cardinality(doneThen)
          /\ Cardinality(done) \in Nat /\ Cardinality(doneThen) \in Nat
      BY <2>2, <2>3, FS_Subset, FS_CardinalityType
    <2>5. IsFiniteSet(Opens(j)) /\ Cardinality(Opens(j)) \in Nat
      <3>1. Opens(j) \in SUBSET stored'
        BY <2>1 DEF Opens, WebhookInv, TypeOK
      <3> QED
        BY <3>1, FS_Subset, FS_CardinalityType
    <2>6. /\ Cardinality(Opens(j)) <= counted[j] /\ counted[j] \in Nat
          /\ counted[j] <= Cardinality(Opens(j)) + Cardinality(done)
      BY DEF RaceInv, CountsHold, WebhookInv, TypeOK
    <2> HIDE DEF done, doneThen
    <2>7. counted[j] <= Cardinality(Opens(j)) + Cardinality(doneThen)
      BY <2>4, <2>5, <2>6
    <2> QED
      BY <2>1, <2>6, <2>7 DEF doneThen
  <1> QED
    BY <1>1, <1>2

\* What the invariant says of the sweep only depends on the sweep and on the rows it
\* reads, and is said of fewer jobs the more is marked.
LEMMA SweepUntouched ==
  ASSUME RaceInv, Swept' = Swept, sweep'.seen = sweep.seen, delivery' = delivery,
         SweepHolds' \subseteq SweepHolds, raced \subseteq raced'
  PROVE  SweepSeesFound' /\ SweepUpToDate'
  <1>1. SweepSeesFound'
    BY DEF RaceInv, SweepSeesFound
  <1>2. \A j : Sets(Swept, j)' = Sets(Swept, j)
    BY DEF Sets
  <1>3. \A j : SeesHighest(j) => SeesHighest(j)'
    BY <1>2 DEF SeesHighest, IsDelivery
  <1>4. SweepUpToDate'
    BY <1>3 DEF RaceInv, SweepUpToDate
  <1> QED
    BY <1>1, <1>4

\* A step that decides nothing and reads no status.
LEMMA StatusUntouched ==
  ASSUME RaceInv, UNCHANGED <<applied, delivery>>, raced \subseteq raced',
         \A x \in loads' : x \in loads \/ ~x.apply,
         \A j \in Jobs : sweep'.seen[j] # Unread => sweep'.seen[j] = sweep.seen[j]
  PROVE  StatusHolds'
  BY DEF RaceInv, StatusHolds, Outcomes, About, IsDelivery

\* What a task decided holds as long as the statuses stay.
LEMMA TasksUntouched ==
  ASSUME RaceInv, delivery' = delivery, raced \subseteq raced',
         \A x \in loads' : x \in loads \/ x.by # "task"
  PROVE  TaskUpToDate'
  BY DEF RaceInv, TaskUpToDate, IsDelivery

\* Less in hand, and nothing newly applied.
LEMMA FewerInHand ==
  ASSUME RaceInv, loads' \subseteq loads, applied' = applied, UNCHANGED raceVars,
         SweepHolds' \subseteq SweepHolds
  PROVE  /\ TasksHold' \subseteq TasksHold
         /\ OneTask' /\ ScheduledQuiet' /\ RacesMarked' /\ AppliedInHand'
  <1>1. TasksHold' \subseteq TasksHold
    BY DEF TasksHold
  <1>2. OneTask' /\ ScheduledQuiet'
    BY DEF RaceInv, OneTask, ScheduledQuiet
  <1>3. RacesMarked'
    BY <1>1 DEF RaceInv, RacesMarked, raceVars
  <1>4. AppliedInHand'
    BY <1>1 DEF RaceInv, AppliedInHand, raceVars
  <1> QED
    BY <1>1, <1>2, <1>3, <1>4

LEMMA IngestKeeps ==
  ASSUME RaceInv, NEW e \in Events, Ingest(e)
  PROVE  RaceInv'
  <1>1. WebhookInv /\ WebhookInv' /\ Swept' = Swept
    BY IngestStep DEF RaceInv
  <1>2. IsFiniteSet(stored')
    BY FS_AddElement DEF Ingest, RaceInv
  <1>3. /\ UNCHANGED <<applied, delivery, counted, sweep, raced, twice>>
        /\ loads' = IF e \in stored THEN loads ELSE loads \cup {Scheduled(e)}
    BY DEF Ingest, jobVars, raceVars
  <1>4. \A x \in loads' : x \in loads \/ (x = Scheduled(e) /\ e \notin stored)
    BY <1>3
  <1>5. TasksHold' = TasksHold /\ SweepHolds' = SweepHolds
    BY <1>1, <1>3, ScheduledTyped DEF TasksHold, SweepHolds
  <1>6. \A x \in loads : x.event \in stored
    BY <1>1 DEF WebhookInv, LoadsSound
  <1>7. OneTask' /\ ScheduledQuiet'
    BY <1>4, <1>6, ScheduledTyped DEF RaceInv, OneTask, ScheduledQuiet
  <1>8. RacesMarked'
    BY <1>3, <1>5 DEF RaceInv, RacesMarked
  <1>9. AppliedInHand'
    <2>1. applied \subseteq stored
      BY <1>1 DEF WebhookInv, TypeOK
    <2> QED
      BY <1>3, <1>4, <1>5, <2>1, ScheduledTyped DEF RaceInv, AppliedInHand
  <1>10. TaskUpToDate' /\ StatusHolds'
    BY <1>3, <1>4, ScheduledTyped, TasksUntouched, StatusUntouched
  <1>11. SweepVisitsOnce'
    BY <1>1, <1>3 DEF RaceInv, SweepVisitsOnce
  <1>12. SweepSeesFound' /\ SweepUpToDate'
    BY <1>1, <1>3, <1>5, SweepUntouched
  <1>13. StatusIsOfApplied' /\ CountsHold'
    BY <1>1, <1>2, <1>3, <1>5, QuietStep
  <1> QED
    BY <1>1, <1>2, <1>7, <1>8, <1>9, <1>10, <1>11, <1>12, <1>13 DEF RaceInv

\* A task reads the status of the moment, and is marked with whoever is beside it.
LEMMA TaskLoadKeeps ==
  ASSUME RaceInv, NEW e \in Events, TaskLoad(e)
  PROVE  RaceInv'
  <1> DEFINE x == Loaded("task", e, delivery[JobOf[e]])
             takes == e \notin processed
             mine == IF takes /\ x.found THEN {e} ELSE {}
             theirs == TasksHold \cup SweepHolds
  <1>1. WebhookInv /\ WebhookInv' /\ Swept' = Swept
    BY TaskLoadStep DEF RaceInv
  <1>2. /\ Scheduled(e) \in loads
        /\ loads' = (loads \ {Scheduled(e)}) \cup (IF takes THEN {x} ELSE {})
        /\ Meet(mine, theirs)
        /\ UNCHANGED <<stored, applied, delivery, counted, sweep>>
    BY DEF TaskLoad, eventVars, jobVars
  <1>3. x.by = "task" /\ x.event = e
        /\ (x.apply => x.found /\ Outranks(Kind[e], delivery[JobOf[e]]))
        /\ (IsDelivery(e) /\ x.found => (x.apply <=> Outranks(Kind[e], delivery[JobOf[e]])))
    BY DEF Loaded, Decides
  <1>4. Scheduled(e).by = "scheduled" /\ Scheduled(e).event = e
    BY ScheduledTyped
  <1>5. takes => e \notin applied
    BY <1>1 DEF WebhookInv, TypeOK
  <1>6. \A y \in loads' : y \in loads \/ (takes /\ y = x)
    BY <1>2
  <1>7. \A y \in loads : y.event = e /\ y.by # "sweeper" => y = Scheduled(e)
    BY <1>2, <1>4 DEF RaceInv, OneTask
  <1> HIDE DEF x, takes
  <1>8. TasksHold' = TasksHold \cup mine /\ SweepHolds' = SweepHolds
    BY <1>1, <1>2, <1>3, <1>4 DEF TasksHold, SweepHolds
  <1>9. /\ raced \subseteq raced' /\ twice \subseteq twice'
        /\ mine \cap SweepHolds \subseteq twice'
        /\ \A g \in mine, h \in theirs : JobOf[g] = JobOf[h] => g \in raced' /\ h \in raced'
    BY <1>2 DEF Meet, Beside
  <1>10. OneTask' /\ ScheduledQuiet'
    BY <1>2, <1>3, <1>4, <1>6, <1>7 DEF RaceInv, OneTask, ScheduledQuiet
  <1>11. RacesMarked'
    <2> SUFFICES ASSUME NEW g \in TasksHold'
                 PROVE  /\ \A h \in TasksHold' : h # g /\ JobOf[h] = JobOf[g] => g \in raced'
                        /\ \A h \in SweepHolds' :
                             JobOf[h] = JobOf[g] => g \in raced' /\ h \in raced'
                        /\ g \in SweepHolds' => g \in twice'
      BY DEF RacesMarked
    <2>1. mine \subseteq {e}
      OBVIOUS
    <2> QED
      BY <1>8, <1>9, <2>1 DEF RaceInv, RacesMarked
  <1>12. AppliedInHand'
    BY <1>2, <1>3, <1>5, <1>6, <1>8, <1>9 DEF RaceInv, AppliedInHand
  <1>13. TaskUpToDate'
    BY <1>2, <1>3, <1>6, <1>9 DEF RaceInv, TaskUpToDate, IsDelivery
  <1>14. StatusHolds'
    <2> SUFFICES ASSUME NEW j \in Jobs, NEW g \in Outcomes(j), g \notin raced'
                 PROVE  /\ ~Outranks(Kind[g], delivery[j])
                        /\ \A y \in loads' : y.apply /\ JobOf[y.event] = j
                                               => ~Outranks(Kind[g], Kind[y.event])
                        /\ sweep.seen[j] # Unread => ~Outranks(Kind[g], sweep.seen[j])
      BY <1>2 DEF StatusHolds, Outcomes, About, IsDelivery
    <2>1. /\ ~Outranks(Kind[g], delivery[j])
          /\ \A y \in loads : y.apply /\ JobOf[y.event] = j => ~Outranks(Kind[g], Kind[y.event])
          /\ sweep.seen[j] # Unread => ~Outranks(Kind[g], sweep.seen[j])
      BY <1>9 DEF RaceInv, StatusHolds
    <2>2. ASSUME x.apply, JobOf[e] = j
          PROVE  ~Outranks(Kind[g], Kind[e])
      <3>1. Outranks(Kind[e], delivery[j]) /\ Kind[g] \in Known /\ delivery[j] \in Known
        BY <1>1, <1>3, <2>2 DEF Outcomes, IsDelivery, Known, WebhookInv, TypeOK
      <3>2. Kind[e] \in Known
        BY <2>2 DEF x, Loaded, Decides, IsDelivery, Known
      <3>3. ~Outranks(delivery[j], Kind[e])
        BY <3>1, <3>2, OutranksOrdered
      <3> QED
        BY <2>1, <3>1, <3>2, <3>3, OutranksOrdered
    <2> QED
      BY <1>3, <1>6, <2>1, <2>2
  <1>15. SweepVisitsOnce'
    BY <1>1, <1>2 DEF RaceInv, SweepVisitsOnce
  <1>16. SweepSeesFound' /\ SweepUpToDate'
    BY <1>1, <1>2, <1>8, <1>9, SweepUntouched
  <1>17. StatusIsOfApplied' /\ CountsHold'
    <2>1. (TasksHold' \cup SweepHolds') \cap applied \subseteq TasksHold \cup SweepHolds
      BY <1>5, <1>8
    <2> QED
      BY <1>1, <1>2, <1>9, <2>1, QuietStep DEF RaceInv
  <1> QED
    BY <1>1, <1>2, <1>10, <1>11, <1>12, <1>13, <1>14, <1>15, <1>16, <1>17 DEF RaceInv

LEMMA TaskLostKeeps ==
  ASSUME RaceInv, NEW e \in Events, TaskLost(e)
  PROVE  RaceInv'
  <1>1. WebhookInv /\ WebhookInv' /\ Swept' = Swept
    BY TaskLostStep DEF RaceInv
  <1>2. /\ UNCHANGED <<stored, applied, delivery, counted, sweep, raced, twice>>
        /\ loads' \subseteq loads
    BY DEF TaskLost, eventVars, jobVars, raceVars
  <1>3. SweepHolds' = SweepHolds
    BY <1>1, <1>2 DEF SweepHolds
  <1>4. /\ TasksHold' \subseteq TasksHold
        /\ OneTask' /\ ScheduledQuiet' /\ RacesMarked' /\ AppliedInHand'
    BY <1>2, <1>3, FewerInHand DEF raceVars
  <1>5. TaskUpToDate' /\ StatusHolds'
    BY <1>2, TasksUntouched, StatusUntouched
  <1>6. SweepVisitsOnce'
    BY <1>1, <1>2 DEF RaceInv, SweepVisitsOnce
  <1>7. SweepSeesFound' /\ SweepUpToDate'
    BY <1>1, <1>2, <1>3, SweepUntouched
  <1>8. StatusIsOfApplied' /\ CountsHold'
    BY <1>1, <1>2, <1>3, <1>4, QuietStep DEF RaceInv
  <1> QED
    BY <1>1, <1>2, <1>4, <1>5, <1>6, <1>7, <1>8 DEF RaceInv

LEMMA SentKeeps ==
  ASSUME RaceInv, NEW j \in Jobs, MarkSent(j) \/ CommitSent(j)
  PROVE  RaceInv'
  <1>1. /\ WebhookInv /\ WebhookInv' /\ Swept' = Swept
        /\ UNCHANGED <<stored, applied, delivery, counted, loads, sweep, raced, twice>>
    BY SentStep DEF RaceInv, raceVars
  <1>2. SweepHolds' = SweepHolds
    BY <1>1 DEF SweepHolds
  <1>3. /\ TasksHold' \subseteq TasksHold
        /\ OneTask' /\ ScheduledQuiet' /\ RacesMarked' /\ AppliedInHand'
    BY <1>1, <1>2, FewerInHand DEF raceVars
  <1>4. TaskUpToDate' /\ StatusHolds'
    BY <1>1, TasksUntouched, StatusUntouched
  <1>5. SweepVisitsOnce'
    BY <1>1 DEF RaceInv, SweepVisitsOnce
  <1>6. SweepSeesFound' /\ SweepUpToDate'
    BY <1>1, <1>2, SweepUntouched
  <1>7. StatusIsOfApplied' /\ CountsHold'
    BY <1>1, <1>2, <1>3, QuietStep DEF RaceInv
  <1> QED
    BY <1>1, <1>3, <1>4, <1>5, <1>6, <1>7 DEF RaceInv

LEMMA SweepGivesUpKeeps ==
  ASSUME RaceInv, NEW e \in Events, SweepGivesUp(e)
  PROVE  RaceInv'
  <1>1. WebhookInv /\ WebhookInv' /\ Swept' = Swept
    BY SweepGivesUpStep DEF RaceInv
  <1>2. /\ UNCHANGED <<stored, applied, delivery, counted, loads, raced, twice>>
        /\ e \in sweep.todo /\ sweep'.todo = sweep.todo \ {e} /\ sweep'.old = sweep.old \cup {e}
        /\ sweep'.seen = sweep.seen
    BY <1>1 DEF SweepGivesUp, WebhookInv, TransactionsSound, eventVars, jobVars, raceVars
  <1>3. SweepHolds' \subseteq SweepHolds
    BY <1>1, <1>2 DEF SweepHolds
  <1>4. /\ TasksHold' \subseteq TasksHold
        /\ OneTask' /\ ScheduledQuiet' /\ RacesMarked' /\ AppliedInHand'
    BY <1>2, <1>3, FewerInHand DEF raceVars
  <1>5. TaskUpToDate' /\ StatusHolds'
    BY <1>2, TasksUntouched, StatusUntouched
  <1>6. SweepVisitsOnce'
    BY <1>1, <1>2 DEF RaceInv, SweepVisitsOnce
  <1>7. SweepSeesFound' /\ SweepUpToDate'
    BY <1>1, <1>2, <1>3, SweepUntouched
  <1>8. StatusIsOfApplied' /\ CountsHold'
    BY <1>1, <1>2, <1>3, <1>4, QuietStep DEF RaceInv
  <1> QED
    BY <1>1, <1>2, <1>4, <1>5, <1>6, <1>7, <1>8 DEF RaceInv

\* The sweep selects only what nobody has processed, and marks what tasks have in hand.
LEMMA SweepSelectKeeps ==
  ASSUME RaceInv, SweepSelect
  PROVE  RaceInv'
  <1>1. WebhookInv /\ WebhookInv' /\ Swept' = Swept /\ Swept = {}
    BY SweepSelectStep DEF SweepSelect, RaceInv, WebhookInv, TransactionsSound
  <1>2. /\ UNCHANGED <<stored, applied, delivery, counted, loads>>
        /\ Meet(Orphans, TasksHold)
        /\ sweep'.todo = Orphans /\ sweep'.old = {} /\ \A j \in Jobs : sweep'.seen[j] = Unread
    BY DEF SweepSelect, NoSweep, eventVars, jobVars
  <1>3. SweepHolds' = Orphans /\ TasksHold' = TasksHold
    BY <1>1, <1>2 DEF SweepHolds, TasksHold
  <1>4. Orphans \cap applied = {}
    BY <1>1 DEF Orphans, WebhookInv, TypeOK
  <1>5. /\ raced \subseteq raced' /\ twice \subseteq twice'
        /\ Orphans \cap TasksHold \subseteq twice'
        /\ \A g \in Orphans, h \in TasksHold : JobOf[g] = JobOf[h] => g \in raced' /\ h \in raced'
    BY <1>2 DEF Meet, Beside
  <1>6. OneTask' /\ ScheduledQuiet'
    BY <1>2 DEF RaceInv, OneTask, ScheduledQuiet
  <1>7. RacesMarked'
    BY <1>3, <1>5 DEF RaceInv, RacesMarked
  <1>8. AppliedInHand'
    BY <1>2, <1>3, <1>4, <1>5 DEF RaceInv, AppliedInHand
  <1>9. TaskUpToDate' /\ StatusHolds'
    BY <1>2, <1>5, TasksUntouched, StatusUntouched
  <1>10. SweepVisitsOnce'
    BY <1>1, <1>2 DEF SweepVisitsOnce
  <1>11. SweepSeesFound'
    BY <1>1, <1>2 DEF SweepSeesFound
  <1>12. SweepUpToDate'
    <2>1. \A e \in Orphans : JobOf[e] \in Jobs
      BY <1>1, WebhookAssumption DEF Orphans, WebhookInv, TypeOK
    <2> QED
      BY <1>1, <1>2, <1>3, <2>1 DEF SweepUpToDate, SeesHighest
  <1>13. StatusIsOfApplied' /\ CountsHold'
    BY <1>1, <1>2, <1>3, <1>4, <1>5, QuietStep DEF RaceInv
  <1> QED
    BY <1>1, <1>2, <1>6, <1>7, <1>8, <1>9, <1>10, <1>11, <1>12, <1>13 DEF RaceInv

\* The sweep adds one event to what it has loaded. Its status was compared with the
\* highest of the row's, when the sweep read it, and of those the sweep is going to write.
LEMMA SweepLoadKeeps ==
  ASSUME RaceInv, NEW e \in Events, SweepLoad(e)
  PROVE  RaceInv'
  <1> DEFINE j == JobOf[e]
             read == SweepReads(j)
             x == Loaded("sweeper", e, read)
             seen == IF x.found THEN (IF x.apply THEN Kind[e] ELSE read) ELSE sweep.seen[j]
  <1>1. WebhookInv /\ WebhookInv' /\ Swept' = Swept \cup {x} /\ loads' = loads \cup {x}
    BY SweepLoadStep DEF RaceInv
  <1>2. x.by = "sweeper" /\ x.event = e /\ (x.apply => x.found /\ IsDelivery(e))
        /\ (x.found /\ IsDelivery(e) => (x.apply <=> Outranks(Kind[e], read)))
    BY DEF Loaded, Decides
  <1>3. UNCHANGED <<stored, applied, delivery, counted, raced, twice>>
    BY DEF SweepLoad, eventVars, jobVars, raceVars
  <1>4. j \in Jobs /\ delivery[j] \in Known /\ sweep.seen[j] \in Known \cup {Unread}
        /\ sweep.active /\ e \in sweep.todo
    BY <1>1, WebhookAssumption DEF SweepLoad, WebhookInv, TypeOK, TransactionsSound, Known
  <1>5. /\ sweep'.todo = sweep.todo \ {e} /\ sweep'.old = sweep.old
        /\ \A i \in Jobs : sweep'.seen[i] = IF i = j THEN seen ELSE sweep.seen[i]
    BY <1>1, <1>4 DEF SweepLoad, WebhookInv, TransactionsSound
  <1>6. read \in Known /\ read = IF sweep.seen[j] = Unread THEN delivery[j] ELSE sweep.seen[j]
    BY <1>4 DEF SweepReads
  <1> HIDE DEF x, read
  <1>7. x.apply => Kind[e] \in Known /\ Outranks(Kind[e], read) /\ ~Outranks(read, Kind[e])
    <2>1. x.apply => Kind[e] \in Known /\ Outranks(Kind[e], read)
      BY <1>2 DEF IsDelivery, Known
    <2> QED
      BY <1>6, <2>1, OutranksOrdered
  <1>8. seen \in Known \cup {Unread} /\ (x.found => seen \in Known /\ seen # Unread)
    <2>1. Unread \notin Known
      BY DEF Known, DeliveryStatuses, Unread
    <2> QED
      BY <1>4, <1>6, <1>7, <2>1
  <1>9. SweepHolds' = SweepHolds /\ TasksHold' = TasksHold
    BY <1>1, <1>2, <1>4, <1>5 DEF SweepHolds, TasksHold
  <1>10. OneTask' /\ ScheduledQuiet' /\ TaskUpToDate'
    BY <1>1, <1>2, <1>3, TasksUntouched DEF RaceInv, OneTask, ScheduledQuiet
  <1>11. RacesMarked' /\ AppliedInHand'
    BY <1>1, <1>2, <1>3, <1>9 DEF RaceInv, RacesMarked, AppliedInHand
  <1>12. SweepVisitsOnce'
    BY <1>1, <1>2, <1>4, <1>5 DEF RaceInv, SweepVisitsOnce
  <1>13. SweepSeesFound'
    BY <1>1, <1>2, <1>4, <1>5, <1>8 DEF RaceInv, SweepSeesFound
  <1>14. StatusHolds'
    <2> SUFFICES ASSUME NEW i \in Jobs, NEW g \in Outcomes(i), g \notin raced
                 PROVE  /\ ~Outranks(Kind[g], delivery[i])
                        /\ \A y \in loads' : y.apply /\ JobOf[y.event] = i
                                               => ~Outranks(Kind[g], Kind[y.event])
                        /\ sweep'.seen[i] # Unread => ~Outranks(Kind[g], sweep'.seen[i])
      BY <1>3 DEF StatusHolds, Outcomes, About, IsDelivery
    <2>1. /\ ~Outranks(Kind[g], delivery[i])
          /\ \A y \in loads : y.apply /\ JobOf[y.event] = i => ~Outranks(Kind[g], Kind[y.event])
          /\ sweep.seen[i] # Unread => ~Outranks(Kind[g], sweep.seen[i])
      BY DEF RaceInv, StatusHolds
    <2>2. i = j => ~Outranks(Kind[g], read)
      BY <1>6, <2>1
    <2>3. Kind[g] \in Known
      BY DEF Outcomes, IsDelivery, Known
    <2>4. i = j /\ x.apply => ~Outranks(Kind[g], Kind[e])
      BY <1>6, <1>7, <2>2, <2>3, OutranksOrdered
    <2>5. sweep'.seen[i] # Unread => ~Outranks(Kind[g], sweep'.seen[i])
      BY <1>5, <2>1, <2>2, <2>4
    <2> QED
      BY <1>1, <1>2, <2>1, <2>4, <2>5
  <1>15. SweepUpToDate'
    <2>1. \A i : Sets(Swept, i)' = IF i = j /\ x.apply THEN Sets(Swept, i) \cup {Kind[e]}
                                                       ELSE Sets(Swept, i)
      BY <1>1, <1>2 DEF Sets
    <2> SUFFICES ASSUME NEW g \in SweepHolds, g \notin raced
                 PROVE  SeesHighest(JobOf[g])'
      BY <1>3, <1>9 DEF SweepUpToDate
    <2> DEFINE i == JobOf[g]
    <2>2. SeesHighest(i) /\ i \in Jobs
      <3>1. g \in stored
        BY <1>1 DEF SweepHolds, Swept, WebhookInv, TypeOK, LoadsSound
      <3> QED
        BY <1>1, <3>1, WebhookAssumption DEF RaceInv, SweepUpToDate, WebhookInv, TypeOK
    <2> HIDE DEF i
    <2>3. CASE i # j \/ ~x.found
      <3>1. sweep'.seen[i] = sweep.seen[i] /\ Sets(Swept, i)' = Sets(Swept, i)
        BY <1>2, <1>5, <2>1, <2>2, <2>3
      <3>2. {y \in Swept' : y.found /\ JobOf[y.event] = i}
              = {y \in Swept : y.found /\ JobOf[y.event] = i}
        BY <1>1, <1>2, <2>3
      <3> HIDE DEF j, seen
      <3>3. SeesHighest(i)'
        BY <1>3, <2>2, <3>1, <3>2 DEF SeesHighest, IsDelivery
      <3> QED
        BY <3>3 DEF i
    <2>4. CASE i = j /\ x.found
      <3>1. SeesHighest(j)
        BY <2>2, <2>4
      <3>2. sweep'.seen[j] = seen /\ seen \in Known /\ seen # Unread
        BY <1>4, <1>5, <1>8, <2>4
      <3>3. ~Outranks(delivery[j], read)
        BY <1>4, <1>6, <3>1, OutranksOrdered DEF SeesHighest
      <3>4. x.apply => Outranks(Kind[e], delivery[j])
        <4>1. ASSUME x.apply, ~Outranks(Kind[e], delivery[j])
              PROVE  FALSE
          BY <1>4, <1>6, <1>7, <3>3, <4>1, OutranksOrdered
        <4> QED
          BY <4>1
      <3>5. ~Outranks(delivery[j], seen)
        BY <1>4, <1>7, <2>4, <3>3, <3>4, OutranksOrdered
      <3>6. \A y \in Swept : y.found /\ JobOf[y.event] = j /\ IsDelivery(y.event)
                               => ~Outranks(Kind[y.event], read)
        BY <1>4, <1>6, <3>1 DEF RaceInv, SweepSeesFound, SeesHighest
      <3>7. read \in Sets(Swept, j) \/ (Sets(Swept, j) = {} /\ read = delivery[j])
        <4>1. \A y \in Swept : y.apply => y.found
          BY <1>1 DEF WebhookInv, LoadsSound, Swept
        <4> QED
          BY <1>4, <1>6, <3>1, <4>1 DEF RaceInv, SweepSeesFound, SeesHighest, Sets
      <3>8. seen \in Sets(Swept, j)' \/ (Sets(Swept, j)' = {} /\ seen = delivery[j])
        BY <2>1, <2>4, <3>7
      <3>9. \A y \in Swept' : y.found /\ JobOf[y.event] = j /\ IsDelivery(y.event)
                                => ~Outranks(Kind[y.event], seen)
        <4> SUFFICES ASSUME NEW y \in Swept', y.found, JobOf[y.event] = j, IsDelivery(y.event)
                     PROVE  ~Outranks(Kind[y.event], seen)
          OBVIOUS
        <4>1. Kind[y.event] \in Known
          BY DEF IsDelivery, Known
        <4>2. CASE y = x
          BY <1>2, <1>7, <2>4, <4>1, <4>2, OutranksOrdered
        <4>3. CASE y \in Swept /\ ~x.apply
          BY <2>4, <3>6, <4>3
        <4>4. CASE y \in Swept /\ x.apply
          BY <1>6, <1>7, <2>4, <3>6, <4>1, <4>4, OutranksOrdered
        <4> QED
          BY <1>1, <4>2, <4>3, <4>4
      <3>10. \A y \in Swept' : y.found /\ JobOf[y.event] = j /\ y.apply
                                 => Outranks(Kind[y.event], delivery[j])
        BY <1>1, <1>2, <3>1, <3>4 DEF SeesHighest
      <3> HIDE DEF seen, j
      <3>11. SeesHighest(j)'
        BY <1>3, <3>2, <3>5, <3>8, <3>9, <3>10 DEF SeesHighest, IsDelivery
      <3> QED
        BY <2>4, <3>11 DEF i
    <2> QED
      BY <2>3, <2>4
  <1>16. StatusIsOfApplied' /\ CountsHold'
    BY <1>1, <1>3, <1>9, QuietStep DEF RaceInv
  <1> QED
    BY <1>1, <1>3, <1>10, <1>11, <1>12, <1>13, <1>14, <1>15, <1>16 DEF RaceInv

\* After a sweep that ends nothing of it is left in hand.
LEMMA AfterSweep ==
  ASSUME RaceInv, WebhookInv', loads' = loads \ Swept, sweep' = NoSweep, UNCHANGED raceVars,
         stored' = stored
  PROVE  /\ TasksHold' = TasksHold /\ SweepHolds' = {} /\ Swept' = {}
         /\ \A j \in Jobs : sweep'.seen[j] = Unread
         /\ \A x \in loads' : x.by # "sweeper"
         /\ OneTask' /\ ScheduledQuiet' /\ RacesMarked'
         /\ SweepVisitsOnce' /\ SweepSeesFound' /\ SweepUpToDate'
  <1>1. Swept' = {} /\ sweep'.todo = {} /\ \A j \in Jobs : sweep'.seen[j] = Unread
    BY SweepEnds DEF RaceInv, NoSweep
  <1>2. SweepHolds' = {} /\ TasksHold' = TasksHold
    BY <1>1 DEF SweepHolds, TasksHold, Swept
  <1>3. \A x \in loads' : x.by # "sweeper"
    BY DEF Swept
  <1>4. OneTask' /\ ScheduledQuiet'
    BY DEF RaceInv, OneTask, ScheduledQuiet
  <1>5. RacesMarked'
    BY <1>2 DEF RaceInv, RacesMarked, raceVars
  <1>6. SweepVisitsOnce' /\ SweepSeesFound' /\ SweepUpToDate'
    BY <1>1, <1>2 DEF SweepVisitsOnce, SweepSeesFound, SweepUpToDate, NoSweep
  <1> QED
    BY <1>1, <1>2, <1>3, <1>4, <1>5, <1>6

LEMMA SweepFailsKeeps ==
  ASSUME RaceInv, SweepFails
  PROVE  RaceInv'
  <1>1. WebhookInv /\ WebhookInv'
    BY SweepFailsStep DEF RaceInv
  <1>2. /\ UNCHANGED <<stored, applied, delivery, counted, raced, twice>>
        /\ loads' = loads \ Swept /\ sweep' = NoSweep
    BY DEF SweepFails, eventVars, jobVars, raceVars
  <1>3. /\ TasksHold' = TasksHold /\ SweepHolds' = {}
        /\ \A j \in Jobs : sweep'.seen[j] = Unread
        /\ OneTask' /\ ScheduledQuiet' /\ RacesMarked'
        /\ SweepVisitsOnce' /\ SweepSeesFound' /\ SweepUpToDate'
    BY <1>1, <1>2, AfterSweep DEF raceVars
  <1>4. AppliedInHand'
    BY <1>2, <1>3, FewerInHand DEF raceVars
  <1>5. TaskUpToDate' /\ StatusHolds'
    BY <1>2, <1>3, TasksUntouched, StatusUntouched
  <1>6. StatusIsOfApplied' /\ CountsHold'
    BY <1>1, <1>2, <1>3, QuietStep DEF RaceInv
  <1> QED
    BY <1>1, <1>2, <1>3, <1>4, <1>5, <1>6 DEF RaceInv

NeverFalls ==
  \A j \in Jobs : Outranks(delivery[j], delivery'[j]) =>
    \E x \in loads \ loads' :
      /\ x.apply /\ JobOf[x.event] = j /\ Kind[x.event] = delivery'[j]
      /\ x.event \in raced

\* A task commits what it decided on loading its event.
LEMMA TaskCommitKeeps ==
  ASSUME RaceInv, NEW e \in Events, TaskCommit(e)
  PROVE  RaceInv' /\ NeverFalls
  <1> PICK x \in loads :
        /\ x.by = "task" /\ x.event = e
        /\ Apply({x})
        /\ linked' = linked \cup Found({x})
        /\ processed' = processed \cup Found({x})
        /\ applied' = applied \cup Found({x})
        /\ loads' = loads \ {x}
        /\ UNCHANGED <<stored, abandoned, recorded, adopting, sweep, lost, raceVars>>
    BY DEF TaskCommit
  <1>1. WebhookInv /\ WebhookInv' /\ JobOf[e] \in Jobs
    BY TaskCommitStep, WebhookAssumption DEF RaceInv
  <1>2. raced' = raced /\ twice' = twice /\ Swept' = Swept /\ {x} \in SUBSET loads
        /\ (x.apply => x.found /\ IsDelivery(e))
    BY <1>1 DEF raceVars, Swept, WebhookInv, LoadsSound
  <1>3. SweepHolds' = SweepHolds /\ TasksHold' \subseteq TasksHold
        /\ (x.found => e \in TasksHold) /\ e \notin TasksHold'
    <2>1. \A y \in loads' : y.by = "task" => y.event # e
      BY DEF RaceInv, OneTask
    <2> QED
      BY <1>2, <2>1 DEF SweepHolds, TasksHold
  <1>4. Found({x}) = IF x.found THEN {e} ELSE {}
    BY DEF Found
  <1>5. x.found => \A y \in loads' : /\ y.by # "sweeper" => y.event # e
                                     /\ y.apply /\ JobOf[y.event] = JobOf[e] => e \in raced
    <2> SUFFICES ASSUME x.found, NEW y \in loads'
                 PROVE  /\ y.by # "sweeper" => y.event # e
                        /\ y.apply /\ JobOf[y.event] = JobOf[e] => e \in raced
      OBVIOUS
    <2>1. y \in loads /\ y # x
      OBVIOUS
    <2>2. y.by # "sweeper" => y.event # e
      BY <2>1 DEF RaceInv, OneTask
    <2>3. CASE y.by = "sweeper"
      BY <1>3, <2>1, <2>3 DEF RaceInv, RacesMarked, SweepHolds, Swept
    <2>4. CASE y.by = "task"
      BY <1>1, <1>3, <2>1, <2>2, <2>4 DEF RaceInv, RacesMarked, TasksHold, WebhookInv, LoadsSound
    <2>5. y.by = "scheduled" => ~y.apply
      BY <2>1 DEF RaceInv, ScheduledQuiet
    <2>6. y.by \in Actors
      BY <1>1, <2>1 DEF WebhookInv, TypeOK, Load
    <2> QED
      BY <2>2, <2>3, <2>4, <2>5, <2>6 DEF Actors
  <1>6. x.found /\ IsDelivery(e) /\ e \notin raced => Fresh({x}, JobOf[e])
    <2>1. x.apply => Kind[e] \in Sets({x}, JobOf[e]) /\ ~Outranks(Kind[e], Kind[e])
      <3>1. x.apply => Kind[e] \in Known
        BY <1>2 DEF IsDelivery, Known
      <3> QED
        BY <3>1, OutranksOrdered DEF Sets
    <2> QED
      BY <2>1 DEF RaceInv, TaskUpToDate, Fresh
  <1>7. x.found /\ e \notin raced => sweep'.seen[JobOf[e]] = Unread
    <2>1. x.found /\ e \notin raced => \A f \in SweepHolds : JobOf[f] # JobOf[e]
      BY <1>3 DEF RaceInv, RacesMarked
    <2> QED
      BY <1>1, <2>1 DEF RaceInv, SweepSeesFound, SweepHolds
  <1>8. StatusHolds' /\ StatusIsOfApplied' /\ NeverFalls
    BY <1>2, <1>5, <1>6, <1>7, CommitStatus DEF NeverFalls
  <1>9. CountsHold'
    <2>1. Found({x}) \subseteq TasksHold
      BY <1>3, <1>4
    <2>2. \A f \in Found({x}) \cap applied : f \notin TasksHold' \cup SweepHolds'
      BY <1>3, <1>4 DEF RaceInv, AppliedInHand
    <2>3. \A y, z \in {x} : y.event = z.event => y = z
      OBVIOUS
    <2> QED
      BY <1>1, <1>2, <1>3, <2>1, <2>2, <2>3, CommitCounts
  <1>10. OneTask' /\ ScheduledQuiet'
    BY DEF RaceInv, OneTask, ScheduledQuiet
  <1>11. RacesMarked'
    BY <1>2, <1>3 DEF RaceInv, RacesMarked
  <1>12. AppliedInHand'
    <2> SUFFICES ASSUME NEW f \in applied'
                 PROVE  /\ f \in TasksHold' \cup SweepHolds' => f \in twice'
                        /\ f \in SweepHolds' => \A y \in loads' : y.event = f => y.by = "sweeper"
      BY DEF AppliedInHand
    <2>1. CASE f \in applied
      BY <1>2, <1>3, <2>1 DEF RaceInv, AppliedInHand
    <2>2. CASE f = e /\ x.found
      BY <1>2, <1>3, <1>5, <2>2 DEF RaceInv, RacesMarked
    <2> QED
      BY <1>4, <2>1, <2>2
  <1>13. \A j \in Jobs : j # JobOf[e] \/ ~x.found => delivery'[j] = delivery[j]
    BY <1>1, <1>2, ApplyWrites
  <1>14. TaskUpToDate'
    <2> SUFFICES ASSUME NEW y \in loads', y.by = "task", y.found, IsDelivery(y.event),
                        y.event \notin raced
                 PROVE  y.apply <=> Outranks(Kind[y.event], delivery'[JobOf[y.event]])
      BY <1>2 DEF TaskUpToDate, IsDelivery
    <2>1. y \in loads /\ y.event \in TasksHold /\ JobOf[y.event] \in Jobs
      BY <1>1, WebhookAssumption DEF TasksHold, WebhookInv, TypeOK, LoadsSound
    <2>2. x.found => JobOf[y.event] # JobOf[e]
      BY <1>3, <1>5, <2>1 DEF RaceInv, RacesMarked
    <2>3. delivery'[JobOf[y.event]] = delivery[JobOf[y.event]]
      BY <1>13, <2>1, <2>2
    <2> QED
      BY <2>1, <2>3 DEF RaceInv, TaskUpToDate
  <1>15. SweepVisitsOnce' /\ SweepSeesFound'
    BY <1>2 DEF RaceInv, SweepVisitsOnce, SweepSeesFound
  <1>16. SweepUpToDate'
    <2> SUFFICES ASSUME NEW f \in SweepHolds, f \notin raced
                 PROVE  SeesHighest(JobOf[f])'
      BY <1>2, <1>3 DEF SweepUpToDate
    <2>1. JobOf[f] \in Jobs
      <3>1. f \in stored
        BY <1>1 DEF SweepHolds, Swept, WebhookInv, TypeOK, LoadsSound
      <3> QED
        BY <1>1, <3>1, WebhookAssumption DEF WebhookInv, TypeOK
    <2>2. x.found => JobOf[f] # JobOf[e]
      BY <1>3 DEF RaceInv, RacesMarked
    <2>3. delivery'[JobOf[f]] = delivery[JobOf[f]]
      BY <1>13, <2>1, <2>2
    <2>4. Sets(Swept, JobOf[f])' = Sets(Swept, JobOf[f])
      BY <1>2 DEF Sets
    <2> QED
      BY <1>2, <2>3, <2>4 DEF RaceInv, SweepUpToDate, SeesHighest, IsDelivery
  <1> QED
    BY <1>1, <1>8, <1>9, <1>10, <1>11, <1>12, <1>14, <1>15, <1>16 DEF RaceInv

\* A sweep commits all it has loaded.
LEMMA SweepCommitKeeps ==
  ASSUME RaceInv, SweepCommit
  PROVE  RaceInv' /\ NeverFalls
  <1>1. /\ Apply(Swept)
        /\ applied' = applied \cup Found(Swept)
        /\ loads' = loads \ Swept /\ sweep' = NoSweep /\ stored' = stored
        /\ UNCHANGED raceVars
    BY DEF SweepCommit
  <1>2. /\ WebhookInv /\ WebhookInv' /\ Swept \in SUBSET loads
        /\ raced' = raced /\ twice' = twice
    BY <1>1, SweepCommitStep DEF RaceInv, Swept, raceVars
  <1>3. /\ TasksHold' = TasksHold /\ SweepHolds' = {} /\ Swept' = {}
        /\ \A j \in Jobs : sweep'.seen[j] = Unread
        /\ \A x \in loads' : x.by # "sweeper"
        /\ OneTask' /\ ScheduledQuiet' /\ RacesMarked'
        /\ SweepVisitsOnce' /\ SweepSeesFound' /\ SweepUpToDate'
    BY <1>1, <1>2, AfterSweep
  <1>4. \A x \in Swept : /\ JobOf[x.event] \in Jobs /\ x.event \in SweepHolds
                         /\ x.apply => x.found /\ IsDelivery(x.event)
    BY <1>2, WebhookAssumption DEF WebhookInv, TypeOK, LoadsSound, SweepHolds
  <1>5. ASSUME NEW x \in Swept, x.found, IsDelivery(x.event), x.event \notin raced
        PROVE  /\ Fresh(Swept, JobOf[x.event])
               /\ \A y \in loads' : JobOf[y.event] = JobOf[x.event] => ~y.apply
    <2> DEFINE j == JobOf[x.event]
    <2>1. SeesHighest(j) /\ j \in Jobs
      BY <1>4, <1>5 DEF RaceInv, SweepUpToDate
    <2>2. sweep.seen[j] # Unread
      BY <1>5, <2>1 DEF RaceInv, SweepSeesFound
    <2>3. \A y \in Swept : y.apply => y.found
      BY <1>4
    <2>4. Fresh(Swept, j)
      BY <2>1, <2>2, <2>3 DEF SeesHighest, Fresh
    <2>5. ASSUME NEW y \in loads', JobOf[y.event] = j, y.apply
          PROVE  FALSE
      <3>1. y.by = "task"
        BY <1>2, <1>3, <2>5 DEF RaceInv, ScheduledQuiet, WebhookInv, TypeOK, Load, Actors
      <3>2. y.event \in TasksHold
        BY <1>1, <1>2, <2>5, <3>1 DEF TasksHold, WebhookInv, LoadsSound
      <3> QED
        BY <1>4, <1>5, <2>5, <3>2 DEF RaceInv, RacesMarked
    <2> QED
      BY <2>4, <2>5
  <1>6. StatusHolds' /\ StatusIsOfApplied' /\ NeverFalls
    BY <1>1, <1>2, <1>3, <1>4, <1>5, CommitStatus DEF NeverFalls
  <1>7. CountsHold'
    <2>1. Found(Swept) \subseteq SweepHolds
      BY DEF Found, SweepHolds
    <2>2. \A e \in Found(Swept) \cap applied : e \notin TasksHold'
      BY <1>3, <2>1 DEF RaceInv, AppliedInHand, TasksHold
    <2>3. \A x, y \in Swept : x.event = y.event => x = y
      BY DEF RaceInv, SweepVisitsOnce
    <2> QED
      BY <1>1, <1>2, <1>3, <2>1, <2>2, <2>3, CommitCounts
  <1>8. AppliedInHand'
    <2>1. \A e \in Found(Swept) : e \in SweepHolds
      BY DEF Found, SweepHolds
    <2> QED
      BY <1>1, <1>2, <1>3, <2>1 DEF RaceInv, AppliedInHand, RacesMarked
  <1>9. TaskUpToDate'
    <2> SUFFICES ASSUME NEW y \in loads', y.by = "task", y.found, IsDelivery(y.event),
                        y.event \notin raced
                 PROVE  y.apply <=> Outranks(Kind[y.event], delivery'[JobOf[y.event]])
      BY <1>2 DEF TaskUpToDate, IsDelivery
    <2>1. y \in loads /\ y.event \in TasksHold /\ JobOf[y.event] \in Jobs
      BY <1>1, <1>2, WebhookAssumption DEF TasksHold, WebhookInv, TypeOK, LoadsSound
    <2>2. \A x \in Swept : JobOf[x.event] # JobOf[y.event]
      BY <1>4, <2>1 DEF RaceInv, RacesMarked
    <2>3. delivery'[JobOf[y.event]] = delivery[JobOf[y.event]]
      BY <1>1, <1>2, <2>1, <2>2, ApplyWrites
    <2> QED
      BY <2>1, <2>3 DEF RaceInv, TaskUpToDate
  <1> QED
    BY <1>1, <1>2, <1>3, <1>6, <1>7, <1>8, <1>9 DEF RaceInv

-----------------------------------------------------------------------------
(* The theorems                                                             *)

LEMMA InitRaceInv ==
  ASSUME Init
  PROVE  RaceInv
  <1>1. WebhookInv
    BY InitWebhookInv
  <1>2. /\ Swept = {} /\ loads = {} /\ applied = {} /\ IsFiniteSet(stored)
        /\ TasksHold = {} /\ SweepHolds = {} /\ sweep.todo = {} /\ sweep.old = {}
        /\ \A j \in Jobs : sweep.seen[j] = Unread /\ delivery[j] = "none" /\ counted[j] = 0
    BY FS_EmptySet DEF Init, Swept, NoSweep, TasksHold, SweepHolds
  <1>3. OneTask /\ ScheduledQuiet /\ SweepVisitsOnce /\ RacesMarked /\ AppliedInHand
    BY <1>2 DEF OneTask, ScheduledQuiet, SweepVisitsOnce, RacesMarked, AppliedInHand
  <1>4. TaskUpToDate /\ SweepSeesFound /\ SweepUpToDate
    BY <1>2 DEF TaskUpToDate, SweepSeesFound, SweepUpToDate
  <1>5. StatusHolds /\ StatusIsOfApplied
    BY <1>2 DEF StatusHolds, StatusIsOfApplied, Outcomes
  <1>6. CountsHold
    <2> SUFFICES ASSUME NEW j \in Jobs
                 PROVE  /\ Cardinality(Opens(j)) <= counted[j]
                        /\ counted[j] <= Cardinality(Opens(j))
                                            + Cardinality(Opens(j) \cap TwiceDone)
      BY DEF CountsHold
    <2>1. Opens(j) = {} /\ Opens(j) \cap TwiceDone = {} /\ counted[j] = 0
      BY <1>2 DEF Opens
    <2>2. Cardinality(Opens(j)) = 0 /\ Cardinality(Opens(j) \cap TwiceDone) = 0
      BY <2>1, FS_EmptySet
    <2> QED
      BY <2>1, <2>2
  <1> QED
    BY <1>1, <1>2, <1>3, <1>4, <1>5, <1>6 DEF RaceInv

LEMMA RaceInvStep ==
  ASSUME RaceInv, [Next]_vars
  PROVE  RaceInv' /\ NeverFalls
  <1>1. \A j \in Jobs : delivery[j] \in Known /\ ~Outranks(delivery[j], delivery[j])
    BY OutranksOrdered DEF RaceInv, WebhookInv, TypeOK, Known
  <1>2. CASE UNCHANGED vars
    <2>1. WebhookInv /\ WebhookInv'
      BY <1>2, WebhookInvStep DEF RaceInv
    <2>2. UNCHANGED <<stored, loads, sweep, applied, delivery, counted, raced, twice>>
      BY <1>2 DEF vars, raceVars
    <2>3. Swept' = Swept /\ SweepHolds' = SweepHolds
      BY <2>2 DEF Swept, SweepHolds
    <2>4. /\ TasksHold' \subseteq TasksHold
          /\ OneTask' /\ ScheduledQuiet' /\ RacesMarked' /\ AppliedInHand'
      BY <2>2, <2>3, FewerInHand DEF raceVars
    <2>5. TaskUpToDate' /\ StatusHolds'
      BY <2>2, TasksUntouched, StatusUntouched
    <2>6. SweepVisitsOnce'
      BY <2>2, <2>3 DEF RaceInv, SweepVisitsOnce
    <2>7. SweepSeesFound' /\ SweepUpToDate'
      BY <2>2, <2>3, SweepUntouched
    <2>8. StatusIsOfApplied' /\ CountsHold'
      BY <2>1, <2>2, <2>3, <2>4, QuietStep DEF RaceInv
    <2>9. RaceInv'
      BY <2>1, <2>2, <2>4, <2>5, <2>6, <2>7, <2>8 DEF RaceInv
    <2> QED
      BY <1>1, <2>2, <2>9 DEF NeverFalls
  <1>3. CASE \E e \in Events : TaskCommit(e)
    BY <1>3, TaskCommitKeeps
  <1>4. CASE SweepCommit
    BY <1>4, SweepCommitKeeps
  <1>5. CASE \/ SweepSelect \/ SweepFails
             \/ \E e \in Events : \/ Ingest(e) \/ TaskLoad(e) \/ TaskLost(e)
                                  \/ SweepLoad(e) \/ SweepGivesUp(e)
             \/ \E j \in Jobs : MarkSent(j) \/ CommitSent(j)
    <2>1. delivery' = delivery
      BY <1>5 DEF SweepSelect, SweepFails, Ingest, TaskLoad, TaskLost, SweepLoad, SweepGivesUp,
                  MarkSent, CommitSent, jobVars
    <2>2. RaceInv'
      BY <1>5, SweepSelectKeeps, SweepFailsKeeps, IngestKeeps, TaskLoadKeeps, TaskLostKeeps,
         SweepLoadKeeps, SweepGivesUpKeeps, SentKeeps
    <2> QED
      BY <1>1, <2>1, <2>2 DEF NeverFalls
  <1> QED
    BY <1>2, <1>3, <1>4, <1>5 DEF Next, SweepGoesOn

LEMMA RaceInvariant == Spec => []RaceInv
  BY InitRaceInv, RaceInvStep, PTL DEF Spec

\* However background tasks, sweeps and sends overlap, a job's status is that of an event
\* applied to it, and none applied outranks it but one some other transaction about the
\* job was open beside.
THEOREM StatusConverges == Spec => []Converges
  <1>1. RaceInv => Converges
    BY DEF RaceInv, StatusHolds, StatusIsOfApplied, Outcomes, Converges
  <1> QED
    BY <1>1, RaceInvariant, PTL

\* A step that moves a job's status backwards writes that of an event some other
\* transaction about the job was open beside.
THEOREM StatusNeverFalls == Spec => DeliveryIsMonotonic
  <1>1. RaceInv /\ [Next]_vars => NeverFalls
    BY RaceInvStep
  <1> QED
    BY <1>1, RaceInvariant, PTL DEF Spec, DeliveryIsMonotonic, NeverFalls

\* Every open or click applied is counted, and once, however often its webhook is repeated
\* and its event retried, or twice if its task and a sweep had it in hand together.
THEOREM EngagementsCountOnce == Spec => []EngagementCountedOnce
  <1>1. RaceInv => EngagementCountedOnce
    <2> SUFFICES ASSUME RaceInv, NEW j \in Jobs
                 PROVE  /\ Cardinality(Opens(j)) <= counted[j]
                        /\ counted[j] <= Cardinality(Opens(j)) + Cardinality(Opens(j) \cap twice)
      BY DEF EngagementCountedOnce, Opens
    <2>1. Opens(j) \cap TwiceDone \subseteq Opens(j) \cap twice /\ Opens(j) \in SUBSET stored
      BY DEF TwiceDone, Opens, RaceInv, WebhookInv, TypeOK
    <2> DEFINE done == Opens(j) \cap TwiceDone
               all == Opens(j) \cap twice
    <2>2. IsFiniteSet(Opens(j)) /\ IsFiniteSet(all)
      BY <2>1, FS_Subset DEF RaceInv
    <2>3. Cardinality(done) <= Cardinality(all) /\ Cardinality(done) \in Nat
          /\ Cardinality(all) \in Nat /\ Cardinality(Opens(j)) \in Nat
      BY <2>1, <2>2, FS_Subset, FS_CardinalityType
    <2>4. /\ Cardinality(Opens(j)) <= counted[j] /\ counted[j] \in Nat
          /\ counted[j] <= Cardinality(Opens(j)) + Cardinality(done)
      BY DEF RaceInv, CountsHold, WebhookInv, TypeOK
    <2> HIDE DEF done, all
    <2>5. counted[j] <= Cardinality(Opens(j)) + Cardinality(all)
      BY <2>3, <2>4
    <2> QED
      BY <2>4, <2>5 DEF all
  <1> QED
    BY <1>1, RaceInvariant, PTL
=============================================================================
