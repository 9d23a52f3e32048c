----------------------------- MODULE DurableQueue -----------------------------
(***************************************************************************)
(* The durable task queue of packages/durable: the rows of the `tasks`     *)
(* table and the worker processes that lease, execute and settle them.     *)
(*                                                                         *)
(* Every SQL statement of queue.py commits on its own, so it is one        *)
(* atomic step, except DEQUEUE, whose row locks (FOR UPDATE SKIP LOCKED)   *)
(* are visible to other workers before its commit: it is two steps.        *)
(* Time is two facts about a row: whether its `run_after` has passed (due) *)
(* and whether its `lease_until` has passed (expired).                     *)
(***************************************************************************)
EXTENDS Naturals, FiniteSets

CONSTANTS
  Tasks,        \* task rows, named by the idempotency key they are enqueued with
  Unhandled,    \* the tasks whose task_type no handler is registered for
  Workers,      \* worker ids (lease_owner values), one process each
  NoWorker,     \* lease_owner IS NULL
  MaxAttempts,  \* RetryPolicy.max_attempts
  BatchSize,    \* WorkerConfig.batch_size
  FaultKinds,   \* the faults the environment may inject
  MaxFaults     \* bound: how many faults a behaviour contains

ASSUME QueueAssumption ==
  /\ Unhandled \subseteq Tasks
  /\ NoWorker \notin Workers
  /\ MaxAttempts \in Nat \ {0}
  /\ BatchSize \in Nat \ {0}
  /\ MaxFaults \in Nat

VARIABLES
  row,     \* the tasks table
  locks,   \* rows a worker's open DEQUEUE transaction has locked
  exec,    \* in-flight _run_one coroutines, each the executor of one attempt
  wstate,  \* state of each worker process
  reaper,  \* whether a worker's _reap_loop coroutine is still alive
  reaps,   \* history: how often each task was returned to pending by a reaper
  faults   \* history: faults injected so far

queueVars == <<row, locks, exec, wstate, reaper, reaps, faults>>

Statuses == {"absent", "pending", "leased", "succeeded", "failed", "dead"}

\* What COMPLETE and KILL write: SUCCEEDED, FAILED for a PermanentTaskError, DEAD. It is not
\* TASK_TERMINAL, which lists CANCELLED, written only by CANCEL_PENDING_CHILDREN, which
\* nothing executes, and not FAILED, which no statement takes back.
Settled == {"succeeded", "failed", "dead"}

Verdicts == {"running", "ok", "transient", "permanent", "nohandler"}
WorkerStates == {"running", "stopping", "down"}

Row == [status: Statuses, owner: Workers \cup {NoWorker}, attempt: Nat,
        due: BOOLEAN, expired: BOOLEAN]
Executor == [task: Tasks, worker: Workers, attempt: Nat, verdict: Verdicts]

AbsentRow == [status |-> "absent", owner |-> NoWorker, attempt |-> 0,
              due |-> FALSE, expired |-> FALSE]
NewRow == [status |-> "pending", owner |-> NoWorker, attempt |-> 0,
           due |-> TRUE, expired |-> FALSE]

QueueInit ==
  /\ row = [t \in Tasks |-> AbsentRow]
  /\ locks = [w \in Workers |-> {}]
  /\ exec = {}
  /\ wstate = [w \in Workers |-> "running"]
  /\ reaper = [w \in Workers |-> TRUE]
  /\ reaps = [t \in Tasks |-> 0]
  /\ faults = 0

Fault(kind) ==
  /\ kind \in FaultKinds
  /\ faults < MaxFaults
  /\ faults' = faults + 1

-----------------------------------------------------------------------------
(* Enqueue: INSERT ... ON CONFLICT (idempotency_key) DO NOTHING            *)

Enqueue(t) ==
  /\ row[t].status = "absent"
  /\ row' = [row EXCEPT ![t] = NewRow]
  /\ UNCHANGED <<locks, exec, wstate, reaper, reaps, faults>>

\* run_after passes; nothing but the clock is involved.
BackoffElapses(t) ==
  /\ row[t].status = "pending"
  /\ ~row[t].due
  /\ row' = [row EXCEPT ![t].due = TRUE]
  /\ UNCHANGED <<locks, exec, wstate, reaper, reaps, faults>>

-----------------------------------------------------------------------------
(* Dequeue                                                                  *)

Runnable(t) == row[t].status = "pending" /\ row[t].due

LockedByOther(w, t) == \E v \in Workers \ {w} : t \in locks[v]

\* SELECT ... FOR UPDATE SKIP LOCKED LIMIT :limit
DequeueLock(w, batch) ==
  /\ wstate[w] = "running"
  /\ locks[w] = {}
  /\ batch # {}
  /\ Cardinality(batch) <= BatchSize
  /\ \A t \in batch : Runnable(t) /\ ~LockedByOther(w, t)
  /\ locks' = [locks EXCEPT ![w] = batch]
  /\ UNCHANGED <<row, exec, wstate, reaper, reaps, faults>>

\* Bug: DEQUEUE forgets `attempt = attempt + 1`.
LeasedSameAttempt(w, r) == [status |-> "leased", owner |-> w, attempt |-> r.attempt,
                            due |-> r.due, expired |-> FALSE]

LeasedTo(w, r) == [status |-> "leased", owner |-> w, attempt |-> r.attempt + 1,
                   due |-> r.due, expired |-> FALSE]

Lease(w) ==
  row' = [t \in Tasks |-> IF t \in locks[w] THEN LeasedTo(w, row[t]) ELSE row[t]]

\* The executor _run_one starts for a row returned by DEQUEUE.
NewExecutor(w, t) ==
  [task |-> t, worker |-> w, attempt |-> row[t].attempt + 1,
   verdict |-> IF t \in Unhandled THEN "nohandler" ELSE "running"]

\* UPDATE ... SET status = 'leased', then COMMIT, then one coroutine per row.
DequeueCommit(w) ==
  /\ locks[w] # {}
  /\ Lease(w)
  /\ exec' = exec \cup {NewExecutor(w, t) : t \in locks[w]}
  /\ locks' = [locks EXCEPT ![w] = {}]
  /\ UNCHANGED <<wstate, reaper, reaps, faults>>

\* A database error in _dequeue_batch leaves the dispatch loop by exception: the
\* process drains and exits. The transaction may have committed all the same.
DequeueFails(w) ==
  /\ Fault("dequeue")
  /\ wstate[w] = "running"
  /\ \/ Lease(w)
     \/ UNCHANGED row
  /\ locks' = [locks EXCEPT ![w] = {}]
  /\ wstate' = [wstate EXCEPT ![w] = "stopping"]
  /\ reaper' = [reaper EXCEPT ![w] = FALSE]
  /\ UNCHANGED <<exec, reaps>>

-----------------------------------------------------------------------------
(* Executing and settling                                                  *)

Finish(x, verdict) == exec' = (exec \ {x}) \cup {[x EXCEPT !.verdict = verdict]}

\* The handler returns or raises; the row is only written by the next step.
HandlerReturns(x, verdict) ==
  /\ x.verdict = "running"
  /\ Finish(x, verdict)
  /\ UNCHANGED <<row, locks, wstate, reaper, reaps, faults>>

\* Bug: the settling statements lose `AND lease_owner = :owner`.
HoldsAnyLease(x) == row[x.task].status = "leased"

\* Bug: they lose `AND status = 'leased'` as well.
AlwaysHolds(x) == row[x.task].status # "absent"

\* WHERE id = :id AND status = 'leased' AND lease_owner = :owner
HoldsLease(x) == row[x.task].status = "leased" /\ row[x.task].owner = x.worker

\* Bug: off by one in RetryPolicy.exhausted.
ExhaustedLate(x) == x.attempt > MaxAttempts

Exhausted(x) == x.attempt >= MaxAttempts

\* Bug: a statement forgets `lease_owner = NULL`.
ReleasedOwned(r, status, due) == [status |-> status, owner |-> r.owner,
                                  attempt |-> r.attempt, due |-> due, expired |-> FALSE]

Released(r, status, due) == [status |-> status, owner |-> NoWorker,
                             attempt |-> r.attempt, due |-> due, expired |-> FALSE]

\* One settling statement: the row is written if the guard still holds, and the
\* executor is gone either way.
Settle(x, status) ==
  /\ row' = IF HoldsLease(x)
            THEN [row EXCEPT ![x.task] = Released(@, status, status # "pending")]
            ELSE row
  /\ exec' = exec \ {x}
  /\ UNCHANGED <<locks, wstate, reaper, reaps, faults>>

Complete(x) == x.verdict = "ok" /\ Settle(x, "succeeded")

RetryLater(x) == x.verdict = "transient" /\ ~Exhausted(x) /\ Settle(x, "pending")

KillExhausted(x) == x.verdict = "transient" /\ Exhausted(x) /\ Settle(x, "dead")

KillPermanent(x) == x.verdict = "permanent" /\ Settle(x, "failed")

KillUnhandled(x) == x.verdict = "nohandler" /\ Settle(x, "dead")

\* A database error while settling is raised inside the coroutine, which nobody
\* awaits: the executor is gone and the row keeps its lease.
RecordFails(x) ==
  /\ Fault("record")
  /\ x.verdict # "running"
  /\ exec' = exec \ {x}
  /\ UNCHANGED <<row, locks, wstate, reaper, reaps>>

\* Worker.heartbeat, called by a running handler. When the guard fails it returns
\* False and changes nothing.
Heartbeat(x) ==
  /\ x.verdict = "running"
  /\ HoldsLease(x)
  /\ row' = [row EXCEPT ![x.task].expired = FALSE]
  /\ UNCHANGED <<locks, exec, wstate, reaper, reaps, faults>>

-----------------------------------------------------------------------------
(* Lease expiry and the reaper                                             *)

IsExecuted(t) == \E x \in exec : x.task = t /\ x.attempt = row[t].attempt

\* lease_until passes although the attempt is still executing.
Overrun(t) ==
  /\ Fault("overrun")
  /\ row[t].status = "leased"
  /\ ~row[t].expired
  /\ IsExecuted(t)
  /\ row' = [row EXCEPT ![t].expired = TRUE]
  /\ UNCHANGED <<locks, exec, wstate, reaper, reaps>>

\* lease_until passes for a lease whose executor is gone.
LeaseLapses(t) ==
  /\ row[t].status = "leased"
  /\ ~row[t].expired
  /\ ~IsExecuted(t)
  /\ row' = [row EXCEPT ![t].expired = TRUE]
  /\ UNCHANGED <<locks, exec, wstate, reaper, reaps, faults>>

\* Bug: the reaper skips tasks that have used up their attempts.
ExpiredWithBudget ==
  {t \in Tasks : row[t].status = "leased" /\ row[t].expired /\ row[t].attempt < MaxAttempts}

Expired == {t \in Tasks : row[t].status = "leased" /\ row[t].expired}

\* run_after is left alone, so a reaped task is due at once.
ReapOnce(w) ==
  /\ wstate[w] = "running"
  /\ reaper[w]
  /\ Expired # {}
  /\ row' = [t \in Tasks |-> IF t \in Expired
                             THEN Released(row[t], "pending", row[t].due) ELSE row[t]]
  /\ reaps' = [t \in Tasks |-> IF t \in Expired THEN reaps[t] + 1 ELSE reaps[t]]
  /\ UNCHANGED <<locks, exec, wstate, reaper, faults>>

\* _reap_loop catches only CancelledError: any other exception ends it for good
\* while the dispatch loop carries on.
ReapFails(w) ==
  /\ Fault("reap")
  /\ wstate[w] = "running"
  /\ reaper[w]
  /\ reaper' = [reaper EXCEPT ![w] = FALSE]
  /\ UNCHANGED <<row, locks, exec, wstate, reaps>>

-----------------------------------------------------------------------------
(* Processes                                                               *)

ExecutorsOf(w) == {x \in exec : x.worker = w}

\* SIGTERM: no new batch, no new reap; a batch already being dequeued is dispatched.
Stop(w) ==
  /\ Fault("stop")
  /\ wstate[w] = "running"
  /\ wstate' = [wstate EXCEPT ![w] = "stopping"]
  /\ reaper' = [reaper EXCEPT ![w] = FALSE]
  /\ UNCHANGED <<row, locks, exec, reaps>>

\* run() returns once the in-flight coroutines have been gathered.
Exit(w) ==
  /\ wstate[w] = "stopping"
  /\ locks[w] = {}
  /\ ExecutorsOf(w) = {}
  /\ wstate' = [wstate EXCEPT ![w] = "down"]
  /\ UNCHANGED <<row, locks, exec, reaper, reaps, faults>>

\* SIGKILL at any point: open transactions roll back, coroutines vanish.
Crash(w) ==
  /\ Fault("crash")
  /\ wstate[w] # "down"
  /\ wstate' = [wstate EXCEPT ![w] = "down"]
  /\ reaper' = [reaper EXCEPT ![w] = FALSE]
  /\ locks' = [locks EXCEPT ![w] = {}]
  /\ exec' = exec \ ExecutorsOf(w)
  /\ UNCHANGED <<row, reaps>>

\* The platform's supervisor starts the process again under the same worker id.
Restart(w) ==
  /\ wstate[w] = "down"
  /\ wstate' = [wstate EXCEPT ![w] = "running"]
  /\ reaper' = [reaper EXCEPT ![w] = TRUE]
  /\ UNCHANGED <<row, locks, exec, reaps, faults>>

\* Every task is settled and the poll loops find nothing to do.
IdlePoll ==
  /\ \A t \in Tasks : row[t].status \in Settled
  /\ UNCHANGED queueVars

-----------------------------------------------------------------------------
DispatchStep(w) == (\E batch \in SUBSET Tasks : DequeueLock(w, batch)) \/ DequeueCommit(w)

SettleStep(x) ==
  Complete(x) \/ RetryLater(x) \/ KillExhausted(x) \/ KillPermanent(x) \/ KillUnhandled(x)

\* Everything but what handlers do, the crashes and the idle poll.
QueueStep ==
  \/ \E t \in Tasks : Enqueue(t) \/ BackoffElapses(t) \/ Overrun(t) \/ LeaseLapses(t)
  \/ \E w \in Workers : \/ DispatchStep(w) \/ DequeueFails(w)
                        \/ ReapOnce(w) \/ ReapFails(w)
                        \/ Stop(w) \/ Exit(w) \/ Restart(w)
  \/ \E x \in exec : SettleStep(x) \/ RecordFails(x)

HandlerVerdicts == {"ok", "transient", "permanent"}

QueueNext ==
  \/ QueueStep
  \/ \E w \in Workers : Crash(w)
  \/ \E x \in exec : Heartbeat(x) \/ \E v \in HandlerVerdicts : HandlerReturns(x, v)
  \/ IdlePoll

QueueSpec == QueueInit /\ [][QueueNext]_queueVars

\* The event loop runs ready coroutines, timers fire, handlers return and the
\* supervisor restarts what exited. Nothing is assumed of the faults.
QueueFairness ==
  /\ \A t \in Tasks : /\ WF_queueVars(Enqueue(t))
                      /\ WF_queueVars(BackoffElapses(t))
                      /\ WF_queueVars(LeaseLapses(t))
  /\ \A w \in Workers : /\ WF_queueVars(DispatchStep(w))
                        /\ WF_queueVars(ReapOnce(w))
                        /\ WF_queueVars(Exit(w))
                        /\ WF_queueVars(Restart(w))
                        /\ WF_queueVars(\E x \in ExecutorsOf(w) : SettleStep(x))
                        /\ WF_queueVars(\E x \in ExecutorsOf(w), v \in HandlerVerdicts :
                                            HandlerReturns(x, v))

FairQueueSpec == QueueSpec /\ QueueFairness

-----------------------------------------------------------------------------
(* Properties                                                               *)

\* The type of every variable, and that a row has an owner exactly while leased.
QueueTypeOK ==
  /\ row \in [Tasks -> Row]
  /\ \A t \in Tasks : row[t].owner # NoWorker <=> row[t].status = "leased"
  /\ locks \in [Workers -> SUBSET Tasks]
  /\ exec \subseteq Executor
  /\ wstate \in [Workers -> WorkerStates]
  /\ reaper \in [Workers -> BOOLEAN]
  /\ reaps \in [Tasks -> Nat]
  /\ faults \in 0..MaxFaults

\* However many workers poll at once, one attempt of a task has one executor:
\* DEQUEUE hands each row to one worker and bumps the attempt with the lease.
OneExecutorPerAttempt ==
  \A x, y \in exec : x.task = y.task /\ x.attempt = y.attempt => x = y

\* The retry budget of RetryPolicy is a budget for failures: a task is leased at
\* most max_attempts times, plus once for every lease that had to be reaped.
RetryBudget ==
  \A t \in Tasks : row[t].attempt <= MaxAttempts + reaps[t]

\* The lease is a fence between workers: when an executor finishes after its task
\* has been reaped and leased to another worker, or settled, it changes nothing.
FencedAcrossWorkers ==
  [][\A x \in exec \ exec' :
        row[x.task].owner # x.worker => row'[x.task] = row[x.task]]_queueVars

\* A settled task is never run, leased or settled again: late executors, reapers
\* and repeated enqueues all miss it.
SettledIsFinal ==
  [][\A t \in Tasks : row[t].status \in Settled => row'[t] = row[t]]_queueVars

\* worker.py on heartbeat: it "returns False if the lease was already reaped out
\* from under it", so an executor of a superseded attempt can never hold the lease.
ReapedLosesLease ==
  \A x \in exec : x.attempt # row[x.task].attempt => ~HoldsLease(x)
=============================================================================
