---------------------------- MODULE SendPipeline ----------------------------
(***************************************************************************)
(* One email campaign being sent: the durable queue (DurableQueue) with    *)
(* the handler its workers run, handle_send_email, which sends one         *)
(* EmailJob in three phases (claim, provider call, record).                *)
(*                                                                         *)
(* services/worker/main.py runs the three phases in ONE database           *)
(* transaction, committed when the handler is left. So the claim is a row  *)
(* lock held across the provider call, `sending` is never committed, and a *)
(* crash anywhere in between restores the status the job had before.       *)
(***************************************************************************)
EXTENDS DurableQueue, Transitions

CONSTANT
  SharedCache   \* TRUE: the provider remembers idempotency keys across calls, as
                \* EmailProvider demands. FALSE: every call starts with an empty
                \* memory, as get_provider() of the worker sets it up.

ASSUME PipelineAssumption == SharedCache \in BOOLEAN

VARIABLES
  job,        \* email_jobs.send_status as committed; a job is named by its task
  tx,         \* the open handler transaction that has claimed the job's row
  known,      \* idempotency keys the provider recognises
  sends,      \* how many messages the provider has accepted for each job
  cancelled   \* whether the campaign has been cancelled

sendVars == <<job, tx, known, sends, cancelled>>
vars == <<queueVars, sendVars>>

SendStatuses == {"queued", "sent", "failed_transient", "failed_permanent", "cancelled"}
SendTerminal == {"sent", "failed_permanent", "cancelled"}

\* Bug: only a job that failed for good is left alone.
ClaimableUnlessFailed == SendStatuses \ {"failed_permanent"}

\* Bug: a failed job cannot be claimed for its retry.
ClaimableOnce == {"queued"}

\* The WHERE clause of the claim. `sending` is listed there too; it is never
\* committed, and whoever holds it uncommitted holds the row lock.
Claimable == {"queued", "failed_transient"}

\* What the open transaction would leave in the row: phase "sending" until the
\* provider has answered, then the status mark_* has written.
Phases == {"sending", "sent", "failed_transient", "failed_permanent"}
NoTx == [worker |-> NoWorker, attempt |-> 0, phase |-> "none"]
Tx == [worker: Workers, attempt: Nat, phase: Phases]

Init ==
  /\ QueueInit
  /\ job = [j \in Tasks |-> "queued"]
  /\ tx = [j \in Tasks |-> NoTx]
  /\ known = {}
  /\ sends = [j \in Tasks |-> 0]
  /\ cancelled = FALSE

-----------------------------------------------------------------------------
(* The handler                                                             *)

Claimed(x) == tx[x.task].worker = x.worker /\ tx[x.task].attempt = x.attempt

InPhase(x, phase) == Claimed(x) /\ tx[x.task].phase = phase

\* Phase 1: waits for the row lock, then re-evaluates the guard.
Claim(x) ==
  /\ x.verdict = "running"
  /\ tx[x.task] = NoTx
  /\ job[x.task] \in Claimable
  /\ tx' = [tx EXCEPT ![x.task] =
              [worker |-> x.worker, attempt |-> x.attempt, phase |-> "sending"]]
  /\ UNCHANGED <<queueVars, job, known, sends, cancelled>>

\* Bug: the claim skips a locked row and reports the job as done.
ClaimSkipsLocked(x) ==
  /\ ~Claimed(x)
  /\ tx[x.task] # NoTx \/ job[x.task] \notin Claimable
  /\ HandlerReturns(x, "ok")
  /\ UNCHANGED sendVars

\* The claim matched no row: report the settled state, which is a success.
ClaimFindsSettled(x) ==
  /\ tx[x.task] = NoTx
  /\ job[x.task] \notin Claimable
  /\ HandlerReturns(x, "ok")
  /\ UNCHANGED sendVars

\* Bug: a fresh idempotency key for every attempt.
AcceptAnew(j) ==
  /\ sends' = [sends EXCEPT ![j] = @ + 1]
  /\ UNCHANGED known

\* The provider accepts the request or, knowing its key, replays its first answer.
Accept(j) ==
  /\ sends' = [sends EXCEPT ![j] = IF j \in known THEN @ ELSE @ + 1]
  /\ known' = IF SharedCache THEN known \cup {j} ELSE known

Record(j, phase) == tx' = [tx EXCEPT ![j].phase = phase]

\* Bug: an answer the handler cannot read counts as a transient error.
ProviderAcceptsUnread(x) ==
  /\ InPhase(x, "sending")
  /\ Accept(x.task)
  /\ \E phase \in {"sent", "failed_transient"} : Record(x.task, phase)
  /\ UNCHANGED <<queueVars, job, cancelled>>

\* Phase 2 and mark_sent.
ProviderAccepts(x) ==
  /\ InPhase(x, "sending")
  /\ Accept(x.task)
  /\ Record(x.task, "sent")
  /\ UNCHANGED <<queueVars, job, cancelled>>

\* Bug: the handler repeats the call itself before it gives the attempt up.
ProviderTimesOutRetried(x) ==
  /\ Fault("timeout")
  /\ InPhase(x, "sending")
  /\ Accept(x.task)
  /\ UNCHANGED <<row, locks, exec, wstate, reaper, reaps, job, tx, cancelled>>

\* The provider accepts, but its answer is lost: a timeout is a TransientProviderError.
ProviderTimesOut(x) ==
  /\ Fault("timeout")
  /\ InPhase(x, "sending")
  /\ Accept(x.task)
  /\ Record(x.task, "failed_transient")
  /\ UNCHANGED <<row, locks, exec, wstate, reaper, reaps, job, cancelled>>

\* The provider refuses a request whose key it does not know; then mark_transient
\* or mark_permanent.
ProviderRefuses(x, phase) ==
  /\ InPhase(x, "sending")
  /\ x.task \notin known
  /\ phase \in {"failed_transient", "failed_permanent"}
  /\ Record(x.task, phase)
  /\ UNCHANGED <<queueVars, job, known, sends, cancelled>>

Verdict(phase) ==
  CASE phase = "sent" -> "ok"
    [] phase = "failed_transient" -> "transient"
    [] phase = "failed_permanent" -> "permanent"

\* The `finally` of handle_send_email.
Commit(x) ==
  /\ Claimed(x)
  /\ tx[x.task].phase # "sending"
  /\ job' = [job EXCEPT ![x.task] = tx[x.task].phase]
  /\ tx' = [tx EXCEPT ![x.task] = NoTx]
  /\ HandlerReturns(x, Verdict(tx[x.task].phase))
  /\ UNCHANGED <<known, sends, cancelled>>

\* A statement or the commit fails: an unexpected exception, hence transient. The
\* transaction is rolled back, unless only the answer to the commit was lost.
CommitFails(x) ==
  /\ Fault("commit")
  /\ Claimed(x)
  /\ \/ UNCHANGED job
     \/ /\ tx[x.task].phase # "sending"
        /\ job' = [job EXCEPT ![x.task] = tx[x.task].phase]
  /\ tx' = [tx EXCEPT ![x.task] = NoTx]
  /\ Finish(x, "transient")
  /\ UNCHANGED <<row, locks, wstate, reaper, reaps, known, sends, cancelled>>

-----------------------------------------------------------------------------
(* The rest of the system                                                  *)

\* A crash also rolls back the transactions of the worker's handlers.
CrashWithRollback(w) ==
  /\ Crash(w)
  /\ tx' = [j \in Tasks |-> IF tx[j].worker = w THEN NoTx ELSE tx[j]]
  /\ UNCHANGED <<job, known, sends, cancelled>>

Queued == {j \in Tasks : job[j] = "queued"}

\* Bug: the cancellation overwrites jobs that are being sent.
CancelClaimed ==
  /\ ~cancelled
  /\ job' = [j \in Tasks |-> IF j \in Queued THEN "cancelled" ELSE job[j]]
  /\ cancelled' = TRUE
  /\ UNCHANGED <<queueVars, tx, known, sends>>

\* cancel_campaign: one UPDATE over the queued jobs, which waits for the row locks
\* of those a handler has claimed and then skips the ones that moved on.
CancelCampaign ==
  /\ ~cancelled
  /\ \A j \in Queued : tx[j] = NoTx
  /\ job' = [j \in Tasks |-> IF j \in Queued THEN "cancelled" ELSE job[j]]
  /\ cancelled' = TRUE
  /\ UNCHANGED <<queueVars, tx, known, sends>>

SendStep(x) ==
  \/ Claim(x) \/ ClaimFindsSettled(x)
  \/ ProviderAccepts(x)
  \/ \E phase \in Phases : ProviderRefuses(x, phase)
  \/ Commit(x)

Next ==
  \/ QueueStep /\ UNCHANGED sendVars
  \/ IdlePoll /\ UNCHANGED sendVars
  \/ \E w \in Workers : CrashWithRollback(w)
  \/ \E x \in exec : SendStep(x) \/ ProviderTimesOut(x) \/ CommitFails(x)
  \/ CancelCampaign

Spec == Init /\ [][Next]_vars

\* As QueueFairness; the provider answers every call and Postgres every statement.
Fairness ==
  /\ \A t \in Tasks :
        WF_vars((Enqueue(t) \/ BackoffElapses(t) \/ LeaseLapses(t)) /\ UNCHANGED sendVars)
  /\ \A w \in Workers :
        /\ WF_vars(DispatchStep(w) /\ UNCHANGED sendVars)
        /\ WF_vars(ReapOnce(w) /\ UNCHANGED sendVars)
        /\ WF_vars((Exit(w) \/ Restart(w)) /\ UNCHANGED sendVars)
        /\ WF_vars(\E x \in ExecutorsOf(w) : SettleStep(x) /\ UNCHANGED sendVars)
        /\ WF_vars(\E x \in ExecutorsOf(w) : SendStep(x))

FairSpec == Spec /\ Fairness

-----------------------------------------------------------------------------
(* Properties                                                               *)

\* The variables of the handler, and that an open transaction is one of a running
\* executor.
SendTypeOK ==
  /\ job \in [Tasks -> SendStatuses]
  /\ tx \in [Tasks -> Tx \cup {NoTx}]
  /\ known \subseteq Tasks
  /\ sends \in [Tasks -> Nat]
  /\ cancelled \in BOOLEAN
  /\ \A j \in Tasks : tx[j] # NoTx =>
        \E x \in exec : x.task = j /\ x.verdict = "running" /\ Claimed(x)

\* README: "nothing is sent twice". Crashes, overrun leases, retries and concurrent
\* executors included, the provider accepts at most one message per job.
AtMostOneSend == \A j \in Tasks : sends[j] <= 1

\* The faults that come between the acceptance of a message and the commit of its record.
Interruptions == {"crash", "timeout", "commit"}

\* What the claims and the queue alone are good for, without a provider that remembers:
\* every message after the first takes a fault, and one between the acceptance and the
\* commit. Overrun leases, executors of several workers, retries, drained workers, dead
\* reapers and settlements that fail never repeat a message.
DuplicatesNeedFaults ==
  \A j \in Tasks :
    sends[j] <= 1 + (IF FaultKinds \cap Interruptions = {} THEN 0 ELSE faults)

\* However many executors of a job there are, every lease of its task hands the provider
\* at most one message; so RetryBudget bounds the duplicates, too.
OneSendPerLease == \A j \in Tasks : sends[j] <= row[j].attempt

\* The duplicates that a provider without memory lets through, as the worker wires it, are
\* bounded both by the faults that befell the handlers and by the leases of the task.
DuplicatesAreBounded == DuplicatesNeedFaults /\ OneSendPerLease

\* The queue's verdict on a task agrees with the job behind it: succeeded only when
\* the job is terminal, failed only when it failed permanently.
TaskAgreesWithJob ==
  \A t \in Tasks :
    /\ row[t].status = "succeeded" => job[t] \in SendTerminal
    /\ row[t].status = "failed" => job[t] = "failed_permanent"

\* Queue, handler and job agree, whatever crashes or overruns: no transaction outlives its
\* executor, and no settled task contradicts its job.
PipelineAgrees == SendTypeOK /\ TaskAgreesWithJob

\* What the row of a job holds, seen from within the transaction that has it locked.
RowStatus(j) == IF tx[j] = NoTx THEN job[j] ELSE tx[j].phase

\* transitions.py: a job only moves along SEND_TRANSITIONS, although neither the worker
\* nor a cancel consults the table; a rollback takes it back to what was committed.
SendFollowsTable ==
  [][\A j \in Tasks : \/ RowStatus(j)' = RowStatus(j)
                      \/ CanTransitionSend(RowStatus(j), RowStatus(j)')
                      \/ tx'[j] = NoTx /\ job'[j] = job[j]]_vars

\* The pipeline implements the promise EffectivelyOnce: the email is the provider's
\* accepted message, the outcome is the committed send_status.
Once == INSTANCE EffectivelyOnce WITH
  Jobs <- Tasks,
  mailed <- {j \in Tasks : sends[j] > 0},
  outcome <- [j \in Tasks |->
                CASE job[j] = "sent" -> "sent"
                  [] job[j] = "failed_permanent" -> "failed"
                  [] job[j] = "cancelled" -> "cancelled"
                  [] OTHER -> "open"]

ImplementsOnce == Once!OnceSpec

\* README: "nothing is lost". Every task is settled in the end, whatever crashed, overran or
\* failed to be recorded, and its job terminal by then, or the task in the dead-letter queue
\* for an operator; unless its lease was lost when no reaper was left to notice.
NothingIsLost ==
  \A j \in Tasks :
    TRUE ~> \/ /\ row[j].status \in Settled
               /\ job[j] \in SendTerminal \/ row[j].status = "dead"
            \/ row[j].status = "leased" /\ \A w \in Workers : ~reaper[w]

=============================================================================
