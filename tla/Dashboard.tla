------------------------------- MODULE Dashboard -------------------------------
(***************************************************************************)
(* What a user is shown of a campaign while it is launched, sent and       *)
(* cancelled (CampaignLaunch) and its delivery events come in: the         *)
(* progress stream (progress.py over get_progress), the analytics page     *)
(* (analytics.py) and the statistics an analysis is asked about            *)
(* (agents.py). Each reader runs several statements, and every statement   *)
(* sees what is committed by then.                                         *)
(*                                                                         *)
(* The events of a sent job are those the provider decides on (fake.py);   *)
(* how one is stored, found and applied is Webhooks' subject, and here it  *)
(* is one step, in any order.                                              *)
(***************************************************************************)
EXTENDS CampaignLaunch

CONSTANTS
  Stories,           \* the outcomes the provider chooses from
  StopTerminalTicks  \* STOP_STREAMING_AFTER_TERMINAL_TICKS

\* _deliver_outcome: a hard bounce, a soft bounce or a delivery, which may be opened,
\* then clicked, and complained about. A `sent` event changes no column.
ProviderStories ==
  {{"bounced"}, {"deferred", "delivered"}} \cup
  {{"delivered"} \cup reads \cup complains :
     reads \in {{}, {"opened"}, {"opened", "clicked"}}, complains \in {{}, {"complained"}}}

\* A campaign has finitely many contacts to count.
ASSUME DashboardAssumption ==
  /\ IsFiniteSet(Contacts)
  /\ Stories \subseteq ProviderStories
  /\ StopTerminalTicks \in Nat \ {0}

VARIABLES
  coming,    \* the events of each job that are still to be applied
  delivery,  \* email_jobs.delivery_status
  engaged,   \* the counters of each job, open_count and click_count, that are not 0
  stream,    \* the progress stream: what it has read, its last snapshot, its ticks
  analysis   \* the figures an analysis has collected so far

outcomeVars == <<coming, delivery, engaged>>
allVars == <<vars, outcomeVars, stream, analysis>>

Nothing == [status |-> "unread"]

DashboardInit ==
  /\ Init
  /\ coming = [j \in Jobs |-> {}]
  /\ delivery = [j \in Jobs |-> "none"]
  /\ engaged = [j \in Jobs |-> {}]
  /\ stream = [phase |-> "idle", read |-> "unread", shown |-> Nothing, ticks |-> 0]
  /\ analysis = [phase |-> "idle"]

-----------------------------------------------------------------------------
(* Outcomes                                                                *)

\* A step of the launch, a cancel or a worker. With a job that is sent by it the provider
\* has decided what will become of the message.
Proceed(story) ==
  /\ Next
  /\ coming' = [j \in Jobs |-> IF job[j] # "sent" /\ job'[j] = "sent" THEN story ELSE coming[j]]
  /\ UNCHANGED <<delivery, engaged, stream, analysis>>

\* Bug: the last event to arrive wins.
AppliedLast(event, current) == event

\* _apply_delivery_status: only an event that outranks the recorded status is applied.
Applied(event, current) == IF Outranks(event, current) THEN event ELSE current

\* One event is processed; an engagement raises a counter and never the status.
Process(j, event) ==
  /\ event \in coming[j]
  /\ coming' = [coming EXCEPT ![j] = @ \ {event}]
  /\ IF event \in DeliveryStatuses
     THEN /\ delivery' = [delivery EXCEPT ![j] = Applied(event, @)]
          /\ UNCHANGED engaged
     ELSE /\ engaged' = [engaged EXCEPT ![j] = @ \cup {event}]
          /\ UNCHANGED delivery
  /\ UNCHANGED <<vars, stream, analysis>>

-----------------------------------------------------------------------------
(* get_progress and stream_progress                                        *)

Having(sends, deliveries) ==
  Cardinality({j \in Created : job[j] \in sends /\ delivery[j] \in deliveries})

AnySend == JobStatuses
AnyDelivery == DeliveryStatuses \cup {"none"}

Attempted == {"sent", "failed_permanent", "cancelled", "skipped"}

\* The aggregate query of get_progress, which is one statement.
Progress ==
  [total |-> Having(AnySend, AnyDelivery),
   delivered |-> Having(AnySend, {"delivered"}),
   bounced |-> Having(AnySend, {"bounced"}),
   complained |-> Having(AnySend, {"complained"}),
   sending |-> Having({"sending"}, AnyDelivery),
   retrying |-> Having({"failed_transient"}, AnyDelivery),
   failedPermanent |-> Having({"failed_permanent"}, AnyDelivery),
   attempted |-> Having(Attempted, AnyDelivery)]

\* Readers change nothing another one sees, so one of either kind is enough.
Streaming == analysis.phase = "idle"
Analysing == stream.shown = Nothing /\ stream.phase = "idle"

\* The campaign is loaded before the jobs are counted.
ReadStatus ==
  /\ Streaming
  /\ stream.phase = "idle"
  /\ stream' = [stream EXCEPT !.phase = "counting", !.read = status]
  /\ UNCHANGED <<vars, outcomeVars, analysis>>

\* Bug: everything but RUNNING ends the stream.
TerminalIfNotRunning(read) == read # "running"

Terminal(read) == read \in {"completed", "cancelled", "failed"}

\* A tick sends the snapshot and counts the terminal ones in a row.
ShownAs(snapshot) ==
  LET ticks == IF Terminal(snapshot.status) THEN stream.ticks + 1 ELSE 0
  IN stream' = [phase |-> IF ticks < StopTerminalTicks THEN "idle" ELSE "done",
                read |-> "unread", shown |-> snapshot, ticks |-> ticks]

CountJobs ==
  /\ stream.phase = "counting"
  /\ ShownAs([status |-> stream.read, figures |-> Progress])
  /\ UNCHANGED <<vars, outcomeVars, analysis>>

\* Bug: the jobs are counted before the campaign is loaded.
TickCountsFirst ==
  \/ /\ Streaming
     /\ stream.phase = "idle"
     /\ stream' = [stream EXCEPT !.phase = "counting", !.read = Progress]
     /\ UNCHANGED <<vars, outcomeVars, analysis>>
  \/ /\ stream.phase = "counting"
     /\ ShownAs([status |-> status, figures |-> stream.read])
     /\ UNCHANGED <<vars, outcomeVars, analysis>>

Tick == ReadStatus \/ CountJobs

-----------------------------------------------------------------------------
(* get_analytics and analyze_campaign                                      *)

\* Bug: what the provider was never given counts as sent.
SentInAnalyticsIfSettled == JobTerminal

SentInAnalytics == {"sent", "failed_permanent"}

Engaged(kind) == Cardinality({j \in Created : kind \in engaged[j]})

\* The row of a campaign on the analytics page: one statement.
CampaignStats ==
  [sent |-> Having(SentInAnalytics, AnyDelivery),
   delivered |-> Having(AnySend, {"delivered"}),
   bounced |-> Having(AnySend, {"bounced"}),
   opened |-> Engaged("opened"),
   clicked |-> Engaged("clicked")]

\* The first statement of _campaign_stats, on a campaign in any status.
AnalyseJobs ==
  /\ Analysing
  /\ analysis.phase = "idle"
  /\ analysis' = [phase |-> "opened", status |-> status,
                  recipients |-> Having(AnySend, AnyDelivery),
                  delivered |-> Having(AnySend, {"delivered"}),
                  bounced |-> Having(AnySend, {"bounced"}),
                  complained |-> Having(AnySend, {"complained"}),
                  failed |-> Having({"failed_permanent"}, AnyDelivery),
                  opened |-> 0, clicked |-> 0]
  /\ UNCHANGED <<vars, outcomeVars, stream>>

AnalyseOpened ==
  /\ analysis.phase = "opened"
  /\ analysis' = [analysis EXCEPT !.phase = "clicked", !.opened = Engaged("opened")]
  /\ UNCHANGED <<vars, outcomeVars, stream>>

AnalyseClicked ==
  /\ analysis.phase = "clicked"
  /\ analysis' = [analysis EXCEPT !.phase = "done", !.clicked = Engaged("clicked")]
  /\ UNCHANGED <<vars, outcomeVars, stream>>

Analyse == AnalyseJobs \/ AnalyseOpened \/ AnalyseClicked

-----------------------------------------------------------------------------
DashboardNext ==
  \/ \E story \in Stories : Proceed(story)
  \/ \E j \in Jobs, event \in UNION Stories : Process(j, event)
  \/ Tick
  \/ Analyse

DashboardSpec == DashboardInit /\ [][DashboardNext]_allVars

-----------------------------------------------------------------------------
(* Properties                                                               *)

Shown == stream.shown # Nothing

Figures == stream.shown.figures

\* The types of the dashboard's variables; only a sent job has outcomes.
DashboardTypeOK ==
  /\ coming \in [Jobs -> SUBSET UNION Stories]
  /\ delivery \in [Jobs -> AnyDelivery]
  /\ engaged \in [Jobs -> SUBSET {"opened", "clicked"}]
  /\ stream.phase \in {"idle", "counting", "done"}
  /\ stream.ticks \in 0..StopTerminalTicks
  /\ \A j \in Jobs : coming[j] # {} \/ delivery[j] # "none" \/ engaged[j] # {} => job[j] = "sent"

\* Nothing refers to what is not committed: the types hold, no task is ahead of its job
\* and no outcome ahead of its send, whatever overlaps or dies.
RowsAgree == TypeOK /\ TasksHaveJobs /\ DashboardTypeOK

\* The jobs of launches in S.
JobsFrom(S) == {j \in Created : j[1] \in S}

\* The statements of an analysis see different states, yet once the campaign was running
\* the opens and clicks it reports are those of recipients it counted, but for the jobs of
\* launches that were open beside another one.
AnalysisAddsUp ==
  analysis.phase = "done" =>
    /\ analysis.delivered + analysis.bounced + analysis.complained + analysis.failed
         <= analysis.recipients
    /\ analysis.status = "running" =>
         \A n \in {analysis.opened, analysis.clicked} :
           n <= analysis.recipients + Cardinality(JobsFrom(BesideLaunch))

\* The figures shown together add up, although each is a count of its own and neither
\* delivery_status nor the counters are guarded by send_status: outcomes never exceed
\* the attempts, no rate of the analytics page exceeds 100 %, the pages agree on what was
\* attempted, and an analysis adds up as well.
FiguresAddUp ==
  /\ Shown => /\ Figures.delivered + Figures.bounced + Figures.complained
                   <= Figures.attempted - Figures.failedPermanent
              /\ Figures.attempted + Figures.retrying + Figures.sending <= Figures.total
  /\ \A n \in {CampaignStats.delivered + CampaignStats.bounced,
               CampaignStats.opened, CampaignStats.clicked} : n <= CampaignStats.sent
  /\ CampaignStats.sent + Having({"cancelled", "skipped"}, AnyDelivery)
       = Progress.attempted
  /\ AnalysisAddsUp

\* From one snapshot of a stream to the next no job disappears, no attempt is taken back
\* and no outcome is forgotten, while launches, workers, cancels and webhooks go on. (The
\* delivered count alone may fall: a complaint takes its place.)
ShownNeverFalls ==
  [][Shown /\ stream'.shown # stream.shown =>
       LET next == stream'.shown.figures
           final(f) == f.bounced + f.complained
       IN /\ Figures.total <= next.total
          /\ Figures.attempted <= next.attempted
          /\ final(Figures) <= final(next)
          /\ final(Figures) + Figures.delivered <= final(next) + next.delivered]_allVars

\* The status of a snapshot is read before its jobs are counted, so it is never ahead of
\* them: of a campaign shown as cancelled only jobs of launches that were open beside a
\* cancel wait to start, and one shown as running has all its jobs but those of launches
\* that were open beside another one.
ShownStatusFits ==
  Shown =>
    /\ stream.shown.status = "cancelled" =>
         Figures.total <= Figures.attempted + Figures.retrying
                            + Cardinality(JobsFrom(BesideCancel))
    /\ stream.shown.status = "running" =>
         Cardinality(Created \ JobsFrom(BesideLaunch)) <= Figures.total

\* A stream only closes on a campaign that will not change any more: nothing is queued and
\* no job is added after the last snapshot, but by a launch that was open beside a cancel;
\* without one the campaign stays cancelled.
ClosedStreamIsFinal ==
  stream.phase = "done" =>
    /\ status \in CampaignTerminal \/ BesideCancel # {}
    /\ \A j \in Queued : j[1] \in BesideCancel
    /\ Cardinality(Created \ JobsFrom(BesideCancel)) <= Figures.total
=============================================================================
