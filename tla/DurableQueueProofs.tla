------------------------- MODULE DurableQueueProofs -------------------------
(***************************************************************************)
(* Machine-checked proofs about DurableQueue, for any sets of tasks and    *)
(* workers, any retry budget, batch size and set and number of faults.     *)
(***************************************************************************)
EXTENDS DurableQueue, FiniteSetTheorems, TLAPS

-----------------------------------------------------------------------------
(* Typing                                                                   *)

LEMMA RowUpdates ==
  ASSUME NEW r \in Row, NEW w \in Workers, NEW s \in Statuses, NEW d \in BOOLEAN
  PROVE  LeasedTo(w, r) \in Row /\ Released(r, s, d) \in Row
  BY DEF Row, Statuses, LeasedTo, Released

LEMMA FlagUpdates ==
  ASSUME NEW r \in Row, NEW d \in BOOLEAN
  PROVE  /\ [r EXCEPT !.due = d] \in Row
         /\ [r EXCEPT !.expired = d] \in Row
  BY DEF Row

LEMMA LeasedFields ==
  ASSUME NEW r, NEW w
  PROVE  /\ LeasedTo(w, r).owner = w
         /\ LeasedTo(w, r).status = "leased"
         /\ LeasedTo(w, r).attempt = r.attempt + 1
  BY DEF LeasedTo

LEMMA ReleasedFields ==
  ASSUME NEW r, NEW s, NEW d
  PROVE  /\ Released(r, s, d).owner = NoWorker
         /\ Released(r, s, d).status = s
         /\ Released(r, s, d).attempt = r.attempt
  BY DEF Released

LEMMA LeaseTyped ==
  ASSUME QueueTypeOK, NEW w \in Workers, Lease(w)
  PROVE  /\ row' \in [Tasks -> Row]
         /\ \A t \in Tasks : row'[t].owner # NoWorker <=> row'[t].status = "leased"
  <1>1. \A t \in Tasks : row'[t] = IF t \in locks[w] THEN LeasedTo(w, row[t]) ELSE row[t]
    BY DEF Lease
  <1>2. \A t \in Tasks : row[t] \in Row
    BY DEF QueueTypeOK
  <1>3. \A t \in Tasks : row'[t] \in Row
    BY <1>1, <1>2, RowUpdates DEF Statuses
  <1>4. \A t \in Tasks : row'[t].owner # NoWorker <=> row'[t].status = "leased"
    <2>1. w # NoWorker
      BY QueueAssumption
    <2>2. ASSUME NEW t \in Tasks, t \in locks[w]
          PROVE  row'[t].owner # NoWorker <=> row'[t].status = "leased"
      BY <1>1, <2>1, <2>2, LeasedFields
    <2>3. ASSUME NEW t \in Tasks, t \notin locks[w]
          PROVE  row'[t].owner # NoWorker <=> row'[t].status = "leased"
      BY <1>1, <2>3 DEF QueueTypeOK
    <2> QED
      BY <2>2, <2>3
  <1> QED
    BY <1>3, <1>4 DEF Lease

LEMMA SettleTyped ==
  ASSUME QueueTypeOK, NEW x \in exec, NEW s \in Statuses \ {"leased"}, Settle(x, s)
  PROVE  QueueTypeOK'
  <1>1. x.task \in Tasks /\ row[x.task] \in Row
    BY DEF QueueTypeOK, Executor
  <1>2. Released(row[x.task], s, s # "pending") \in Row
        /\ Released(row[x.task], s, s # "pending").owner = NoWorker
        /\ Released(row[x.task], s, s # "pending").status = s
    BY <1>1, QueueAssumption DEF Row, Statuses, Released
  <1>3. /\ row' \in [Tasks -> Row]
        /\ \A t \in Tasks : row'[t].owner # NoWorker <=> row'[t].status = "leased"
    BY <1>1, <1>2, QueueAssumption DEF QueueTypeOK, Settle
  <1> QED
    BY <1>3 DEF QueueTypeOK, Settle

LEMMA TypeStep ==
  ASSUME QueueTypeOK, [QueueNext]_queueVars
  PROVE  QueueTypeOK'
  <1> USE QueueAssumption
  <1>1. ASSUME NEW t \in Tasks, Enqueue(t) \/ BackoffElapses(t) \/ Overrun(t) \/ LeaseLapses(t)
        PROVE  QueueTypeOK'
    <2>1. row[t] \in Row
      BY DEF QueueTypeOK
    <2>2. faults' \in 0..MaxFaults
      BY <1>1 DEF QueueTypeOK, Enqueue, BackoffElapses, Overrun, LeaseLapses, Fault
    <2>3. NewRow \in Row
      BY DEF NewRow, Row, Statuses
    <2>4. [row[t] EXCEPT !.due = TRUE] \in Row /\ [row[t] EXCEPT !.expired = TRUE] \in Row
      BY <2>1, FlagUpdates
    <2>5. row' \in [Tasks -> Row]
      BY <1>1, <2>3, <2>4 DEF QueueTypeOK, Enqueue, BackoffElapses, Overrun, LeaseLapses
    <2>6. \A u \in Tasks : row'[u].owner # NoWorker <=> row'[u].status = "leased"
      BY <1>1, <2>1 DEF QueueTypeOK, Enqueue, BackoffElapses, Overrun, LeaseLapses, NewRow, Row
    <2> QED
      BY <1>1, <2>2, <2>5, <2>6 DEF QueueTypeOK, Enqueue, BackoffElapses, Overrun, LeaseLapses
  <1>2. ASSUME NEW w \in Workers, NEW batch \in SUBSET Tasks, DequeueLock(w, batch)
        PROVE  QueueTypeOK'
    BY <1>2 DEF QueueTypeOK, DequeueLock
  <1>3. ASSUME NEW w \in Workers, DequeueCommit(w)
        PROVE  QueueTypeOK'
    <2>1. ASSUME NEW t \in locks[w] PROVE NewExecutor(w, t) \in Executor
      <3>1. t \in Tasks /\ row[t].attempt \in Nat
        BY DEF QueueTypeOK, Row
      <3> QED
        BY <3>1 DEF NewExecutor, Executor, Verdicts
    <2>2. exec' \subseteq Executor
      BY <1>3, <2>1 DEF DequeueCommit, QueueTypeOK
    <2> QED
      BY <1>3, <2>2, LeaseTyped DEF QueueTypeOK, DequeueCommit
  <1>4. ASSUME NEW w \in Workers, DequeueFails(w)
        PROVE  QueueTypeOK'
    <2>1. /\ row' \in [Tasks -> Row]
          /\ \A t \in Tasks : row'[t].owner # NoWorker <=> row'[t].status = "leased"
      BY <1>4, LeaseTyped DEF DequeueFails, QueueTypeOK
    <2> QED
      BY <1>4, <2>1 DEF QueueTypeOK, DequeueFails, Fault, WorkerStates
  <1>5. ASSUME NEW w \in Workers, ReapOnce(w)
        PROVE  QueueTypeOK'
    <2>1. \A t \in Tasks : row[t] \in Row /\ row[t].due \in BOOLEAN
      BY DEF QueueTypeOK, Row
    <2>2. \A t \in Tasks : row'[t] = IF t \in Expired
                                    THEN Released(row[t], "pending", row[t].due) ELSE row[t]
      BY <1>5 DEF ReapOnce
    <2>3. \A t \in Tasks : row'[t] \in Row
      BY <2>1, <2>2, RowUpdates DEF Statuses
    <2>4. \A t \in Tasks : row'[t].owner # NoWorker <=> row'[t].status = "leased"
      BY <2>2, ReleasedFields DEF QueueTypeOK, Expired
    <2> QED
      BY <1>5, <2>3, <2>4 DEF QueueTypeOK, ReapOnce
  <1>6. ASSUME NEW w \in Workers, ReapFails(w) \/ Stop(w) \/ Exit(w) \/ Restart(w) \/ Crash(w)
        PROVE  QueueTypeOK'
    <2>1. /\ UNCHANGED row
          /\ exec' \subseteq exec
          /\ faults' \in 0..MaxFaults
          /\ UNCHANGED reaps
      BY <1>6 DEF QueueTypeOK, ReapFails, Stop, Exit, Restart, Crash, Fault
    <2>2. locks' \in [Workers -> SUBSET Tasks]
      BY <1>6 DEF QueueTypeOK, ReapFails, Stop, Exit, Restart, Crash
    <2>3. wstate' \in [Workers -> WorkerStates]
      BY <1>6 DEF QueueTypeOK, ReapFails, Stop, Exit, Restart, Crash, WorkerStates
    <2>4. reaper' \in [Workers -> BOOLEAN]
      BY <1>6 DEF QueueTypeOK, ReapFails, Stop, Exit, Restart, Crash
    <2> QED
      BY <2>1, <2>2, <2>3, <2>4 DEF QueueTypeOK
  <1>7. ASSUME NEW x \in exec, SettleStep(x)
        PROVE  QueueTypeOK'
    BY <1>7, SettleTyped DEF SettleStep, Complete, RetryLater, KillExhausted, KillPermanent,
                             KillUnhandled, Statuses
  <1>8. ASSUME NEW x \in exec, RecordFails(x)
        PROVE  QueueTypeOK'
    BY <1>8 DEF QueueTypeOK, RecordFails, Fault
  <1>9. ASSUME NEW x \in exec, Heartbeat(x)
        PROVE  QueueTypeOK'
    <2>1. x.task \in Tasks /\ row[x.task] \in Row
      BY DEF QueueTypeOK, Executor
    <2> QED
      BY <1>9, <2>1 DEF QueueTypeOK, Heartbeat, Row
  <1>10. ASSUME NEW x \in exec, NEW v \in HandlerVerdicts, HandlerReturns(x, v)
         PROVE  QueueTypeOK'
    <2>1. [x EXCEPT !.verdict = v] \in Executor
      BY DEF QueueTypeOK, Executor, HandlerVerdicts, Verdicts
    <2> QED
      BY <1>10, <2>1 DEF QueueTypeOK, HandlerReturns, Finish
  <1>11. CASE UNCHANGED queueVars
    BY <1>11 DEF QueueTypeOK, queueVars
  <1> QED
    BY <1>1, <1>2, <1>3, <1>4, <1>5, <1>6, <1>7, <1>8, <1>9, <1>10, <1>11
       DEF QueueNext, QueueStep, DispatchStep, IdlePoll

LEMMA TypeInit == QueueInit => QueueTypeOK
  BY QueueAssumption
     DEF QueueInit, QueueTypeOK, AbsentRow, Row, Statuses, WorkerStates

\* The tables and processes of the queue keep their types, and a row names an owner
\* exactly while it is leased.
THEOREM QueueTyped == QueueSpec => []QueueTypeOK
  BY TypeInit, TypeStep, PTL DEF QueueSpec

-----------------------------------------------------------------------------
(* Row locks, attempts and executors                                       *)

\* A row is locked by at most one open DEQUEUE, and stays pending while it is.
LocksExclusive ==
  \A w \in Workers : \A t \in locks[w] :
    /\ row[t].status = "pending"
    /\ \A v \in Workers \ {w} : t \notin locks[v]

\* No executor runs an attempt that has not been leased yet.
AttemptsIssued == \A x \in exec : x.attempt <= row[x.task].attempt

NothingBeforeEnqueue == \A t \in Tasks : row[t].status = "absent" => row[t].attempt = 0

ClaimInv ==
  /\ QueueTypeOK
  /\ LocksExclusive
  /\ AttemptsIssued
  /\ NothingBeforeEnqueue
  /\ OneExecutorPerAttempt

\* What a step does to one row, whoever takes it: its attempt only grows, and only a
\* lease taken by the worker that locked the row moves it away from pending.
LEMMA RowSteps ==
  ASSUME ClaimInv, [QueueNext]_queueVars, NEW t \in Tasks
  PROVE  /\ row[t].attempt <= row'[t].attempt
         /\ row'[t].status = "absent" => row[t].status = "absent" /\ row'[t].attempt = 0
         /\ row[t].status = "pending" =>
              \/ row'[t].status = "pending"
              \/ \E w \in Workers : t \in locks[w] /\ locks' = [locks EXCEPT ![w] = {}]
  <1> DEFINE Goal ==
        /\ row[t].attempt <= row'[t].attempt
        /\ row'[t].status = "absent" => row[t].status = "absent" /\ row'[t].attempt = 0
        /\ row[t].status = "pending" =>
             \/ row'[t].status = "pending"
             \/ \E w \in Workers : t \in locks[w] /\ locks' = [locks EXCEPT ![w] = {}]
  <1>1. row[t] \in Row /\ row[t].attempt \in Nat
    BY DEF ClaimInv, QueueTypeOK, Row
  <1>2. CASE row'[t] = row[t]
    BY <1>1, <1>2 DEF ClaimInv, NothingBeforeEnqueue
  <1>3. ASSUME NEW u \in Tasks, Enqueue(u)
        PROVE  Goal
    <2>1. row' = [row EXCEPT ![u] = NewRow] /\ row[u].status = "absent"
      BY <1>3 DEF Enqueue
    <2>2. CASE t = u
      BY <1>1, <2>1, <2>2 DEF ClaimInv, QueueTypeOK, NothingBeforeEnqueue, NewRow
    <2>3. CASE t # u
      BY <1>2, <2>1, <2>3 DEF ClaimInv, QueueTypeOK
    <2> QED
      BY <2>2, <2>3
  <1>4. ASSUME NEW u \in Tasks, BackoffElapses(u) \/ Overrun(u) \/ LeaseLapses(u)
        PROVE  Goal
    <2>1. row'[t] = row[t] \/ row'[t] = [row[t] EXCEPT !.due = TRUE]
                          \/ row'[t] = [row[t] EXCEPT !.expired = TRUE]
      BY <1>4 DEF BackoffElapses, Overrun, LeaseLapses, ClaimInv, QueueTypeOK
    <2>2. row'[t].attempt = row[t].attempt /\ row'[t].status = row[t].status
      BY <1>1, <2>1 DEF Row
    <2> QED
      BY <1>1, <2>2 DEF ClaimInv, NothingBeforeEnqueue
  <1>5. ASSUME NEW w \in Workers, Lease(w), locks' = [locks EXCEPT ![w] = {}]
        PROVE  Goal
    <2>1. CASE t \in locks[w]
      <3>1. row'[t] = LeasedTo(w, row[t])
        BY <1>5, <2>1 DEF Lease
      <3>2. row'[t].attempt = row[t].attempt + 1 /\ row'[t].status = "leased"
        BY <3>1, LeasedFields
      <3>3. \E v \in Workers : t \in locks[v] /\ locks' = [locks EXCEPT ![v] = {}]
        BY <1>5, <2>1
      <3>4. row[t].attempt <= row'[t].attempt /\ row'[t].status # "absent"
        BY <1>1, <3>2
      <3> QED
        BY <3>3, <3>4, Zenon
    <2>2. CASE t \notin locks[w]
      BY <1>2, <1>5, <2>2 DEF Lease
    <2> QED
      BY <2>1, <2>2
  <1>6. ASSUME NEW w \in Workers, ReapOnce(w)
        PROVE  Goal
    <2>1. CASE t \in Expired
      <3>1. row'[t] = Released(row[t], "pending", row[t].due)
        BY <1>6, <2>1 DEF ReapOnce
      <3> QED
        BY <1>1, <3>1, ReleasedFields
    <2>2. CASE t \notin Expired
      BY <1>2, <1>6, <2>2 DEF ReapOnce
    <2> QED
      BY <2>1, <2>2
  <1>7. ASSUME NEW x \in exec, NEW s \in Statuses \ {"absent"}, Settle(x, s)
        PROVE  Goal
    <2>1. CASE HoldsLease(x) /\ x.task = t
      <3>1. row'[t] = Released(row[t], s, s # "pending") /\ row[t].status = "leased"
        BY <1>7, <2>1 DEF Settle, HoldsLease, ClaimInv, QueueTypeOK
      <3> QED
        BY <1>1, <1>7, <3>1, ReleasedFields
    <2>2. CASE ~(HoldsLease(x) /\ x.task = t)
      BY <1>2, <1>7, <2>2 DEF Settle, ClaimInv, QueueTypeOK
    <2> QED
      BY <2>1, <2>2
  <1>8. ASSUME NEW x \in exec, Heartbeat(x)
        PROVE  Goal
    <2>1. row'[t] = row[t] \/ row'[t] = [row[t] EXCEPT !.expired = FALSE]
      BY <1>8 DEF Heartbeat, ClaimInv, QueueTypeOK
    <2>2. row'[t].attempt = row[t].attempt /\ row'[t].status = row[t].status
      BY <1>1, <2>1 DEF Row
    <2> QED
      BY <1>1, <2>2 DEF ClaimInv, NothingBeforeEnqueue
  <1>9. CASE UNCHANGED row
    BY <1>2, <1>9
  <1>10. ASSUME NEW w \in Workers, DequeueCommit(w) \/ DequeueFails(w)
         PROVE  Goal
    BY <1>5, <1>9, <1>10 DEF DequeueCommit, DequeueFails
  <1>11. ASSUME NEW x \in exec, SettleStep(x)
         PROVE  Goal
    BY <1>7, <1>11 DEF SettleStep, Complete, RetryLater, KillExhausted, KillPermanent,
                       KillUnhandled, Statuses
  <1>12. ASSUME \/ \E w \in Workers : \/ \E batch \in SUBSET Tasks : DequeueLock(w, batch)
                                       \/ ReapFails(w) \/ Stop(w) \/ Exit(w) \/ Restart(w)
                                       \/ Crash(w)
                \/ \E x \in exec : RecordFails(x) \/ \E v \in HandlerVerdicts : HandlerReturns(x, v)
                \/ UNCHANGED queueVars
         PROVE  UNCHANGED row
    BY <1>12 DEF DequeueLock, ReapFails, Stop, Exit, Restart, Crash, RecordFails,
                 HandlerReturns, queueVars
  <1> QED
    BY <1>3, <1>4, <1>6, <1>8, <1>9, <1>10, <1>11, <1>12
       DEF QueueNext, QueueStep, DispatchStep, IdlePoll

LEMMA ClaimInit == QueueInit => ClaimInv
  BY TypeInit DEF QueueInit, ClaimInv, LocksExclusive, AttemptsIssued, NothingBeforeEnqueue,
                  OneExecutorPerAttempt, AbsentRow

LEMMA LocksStep ==
  ASSUME ClaimInv, [QueueNext]_queueVars
  PROVE  LocksExclusive'
  <1> USE DEF ClaimInv
  <1>1. ASSUME NEW w \in Workers, NEW batch \in SUBSET Tasks, DequeueLock(w, batch)
        PROVE  LocksExclusive'
    <2>1. row' = row /\ locks' = [locks EXCEPT ![w] = batch] /\ locks[w] = {}
      BY <1>1 DEF DequeueLock
    <2>2. \A t \in batch : row[t].status = "pending" /\ \A v \in Workers \ {w} : t \notin locks[v]
      BY <1>1 DEF DequeueLock, Runnable, LockedByOther
    <2>3. \A v \in Workers : locks'[v] = IF v = w THEN batch ELSE locks[v]
      BY <2>1 DEF QueueTypeOK
    <2> QED
      BY <2>1, <2>2, <2>3 DEF LocksExclusive
  <1>2. ASSUME \A v \in Workers : locks'[v] \subseteq locks[v]
        PROVE  LocksExclusive'
    <2>1. ASSUME NEW v \in Workers, NEW t \in locks'[v]
          PROVE  row'[t].status = "pending"
      <3>1. t \in Tasks /\ t \in locks[v] /\ row[t].status = "pending"
        BY <1>2, <2>1 DEF QueueTypeOK, LocksExclusive
      <3>2. ASSUME NEW w \in Workers, t \in locks[w], locks' = [locks EXCEPT ![w] = {}]
            PROVE  FALSE
        <4>1. w = v
          BY <3>1, <3>2 DEF LocksExclusive
        <4>2. locks'[v] = {}
          BY <3>2, <4>1 DEF QueueTypeOK
        <4> QED
          BY <2>1, <4>2
      <3> QED
        BY <3>1, <3>2, RowSteps
    <2>2. ASSUME NEW v \in Workers, NEW t \in locks'[v], NEW w \in Workers \ {v}
          PROVE  t \notin locks'[w]
      BY <1>2, <2>2 DEF LocksExclusive
    <2> QED
      BY <2>1, <2>2 DEF LocksExclusive
  <1>3. ASSUME NEW w \in Workers, locks' = [locks EXCEPT ![w] = {}]
        PROVE  LocksExclusive'
    <2>1. \A v \in Workers : locks'[v] \subseteq locks[v]
      BY <1>3 DEF QueueTypeOK
    <2> QED
      BY <1>2, <2>1
  <1>4. CASE UNCHANGED locks
    BY <1>2, <1>4
  <1>5. ASSUME NEW w \in Workers, DequeueCommit(w) \/ DequeueFails(w) \/ Crash(w)
        PROVE  LocksExclusive'
    BY <1>3, <1>5 DEF DequeueCommit, DequeueFails, Crash
  <1>6. ASSUME \/ \E t \in Tasks : Enqueue(t) \/ BackoffElapses(t) \/ Overrun(t) \/ LeaseLapses(t)
               \/ \E w \in Workers : \/ ReapOnce(w) \/ ReapFails(w) \/ Stop(w) \/ Exit(w)
                                     \/ Restart(w)
               \/ \E x \in exec : \/ SettleStep(x) \/ RecordFails(x) \/ Heartbeat(x)
                                  \/ \E v \in HandlerVerdicts : HandlerReturns(x, v)
               \/ UNCHANGED queueVars
        PROVE  UNCHANGED locks
    BY <1>6 DEF Enqueue, BackoffElapses, Overrun, LeaseLapses, ReapOnce, ReapFails, Stop, Exit,
                Restart, SettleStep, Complete, RetryLater, KillExhausted, KillPermanent,
                KillUnhandled, Settle, RecordFails, Heartbeat, HandlerReturns, queueVars
  <1> QED
    BY <1>1, <1>4, <1>5, <1>6 DEF QueueNext, QueueStep, DispatchStep, IdlePoll

\* Executors appear only with a new lease, and otherwise keep their task, worker and
\* attempt while they are there.
LEMMA ExecutorSteps ==
  ASSUME ClaimInv, [QueueNext]_queueVars
  PROVE  \/ exec' \subseteq exec
         \/ \E x \in exec, v \in HandlerVerdicts : Finish(x, v)
         \/ \E w \in Workers : /\ exec' = exec \cup {NewExecutor(w, t) : t \in locks[w]}
                               /\ Lease(w)
                               /\ UNCHANGED reaps
  <1>1. ASSUME NEW w \in Workers, DequeueCommit(w)
        PROVE  /\ exec' = exec \cup {NewExecutor(w, t) : t \in locks[w]}
               /\ Lease(w)
               /\ UNCHANGED reaps
    BY <1>1 DEF DequeueCommit
  <1>2. ASSUME NEW x \in exec, NEW v \in HandlerVerdicts, HandlerReturns(x, v)
        PROVE  Finish(x, v)
    BY <1>2 DEF HandlerReturns
  <1>3. ASSUME \/ \E t \in Tasks : Enqueue(t) \/ BackoffElapses(t) \/ Overrun(t) \/ LeaseLapses(t)
               \/ \E w \in Workers : \/ \E batch \in SUBSET Tasks : DequeueLock(w, batch)
                                     \/ DequeueFails(w) \/ ReapOnce(w) \/ ReapFails(w)
                                     \/ Stop(w) \/ Exit(w) \/ Restart(w) \/ Crash(w)
               \/ \E x \in exec : SettleStep(x) \/ RecordFails(x) \/ Heartbeat(x)
               \/ UNCHANGED queueVars
        PROVE  exec' \subseteq exec
    BY <1>3 DEF Enqueue, BackoffElapses, Overrun, LeaseLapses, DequeueLock, DequeueFails,
                ReapOnce, ReapFails, Stop, Exit, Restart, Crash, SettleStep, Complete,
                RetryLater, KillExhausted, KillPermanent, KillUnhandled, Settle, RecordFails,
                Heartbeat, queueVars
  <1> QED
    BY <1>1, <1>2, <1>3 DEF QueueNext, QueueStep, DispatchStep, IdlePoll

\* A handler that ends keeps its executor, which only takes a verdict.
LEMMA FinishKeepsExecutors ==
  ASSUME ClaimInv, NEW x \in exec, NEW v \in HandlerVerdicts, Finish(x, v),
         \A z \in exec : z.attempt <= row'[z.task].attempt
  PROVE  AttemptsIssued' /\ OneExecutorPerAttempt'
  <1> DEFINE y == [x EXCEPT !.verdict = v]
  <1>1. exec' = (exec \ {x}) \cup {y}
    BY DEF Finish
  <1>2. y.task = x.task /\ y.attempt = x.attempt
    BY DEF ClaimInv, QueueTypeOK, Executor
  <1>3. AttemptsIssued'
    BY <1>1, <1>2 DEF AttemptsIssued
  <1>4. ASSUME NEW a \in exec', NEW b \in exec', a.task = b.task, a.attempt = b.attempt
        PROVE  a = b
    BY <1>1, <1>2, <1>4 DEF ClaimInv, OneExecutorPerAttempt
  <1> QED
    BY <1>3, <1>4 DEF OneExecutorPerAttempt

LEMMA ExecutorsStep ==
  ASSUME ClaimInv, [QueueNext]_queueVars
  PROVE  AttemptsIssued' /\ OneExecutorPerAttempt'
  <1>1. \A x \in exec : /\ x.task \in Tasks /\ x.attempt \in Nat
                       /\ x.attempt <= row[x.task].attempt
                       /\ row[x.task].attempt \in Nat
                       /\ row'[x.task].attempt \in Nat
                       /\ row[x.task].attempt <= row'[x.task].attempt
    <2>1. QueueTypeOK'
      BY TypeStep DEF ClaimInv
    <2> QED
      BY <2>1, RowSteps DEF ClaimInv, QueueTypeOK, Executor, Row, AttemptsIssued
  <1>2. \A x \in exec : x.attempt <= row'[x.task].attempt
    BY <1>1
  <1>3. CASE exec' \subseteq exec
    BY <1>2, <1>3 DEF ClaimInv, AttemptsIssued, OneExecutorPerAttempt
  <1>4. ASSUME NEW x \in exec, NEW v \in HandlerVerdicts, Finish(x, v)
        PROVE  AttemptsIssued' /\ OneExecutorPerAttempt'
    BY <1>2, <1>4, FinishKeepsExecutors
  <1>5. ASSUME NEW w \in Workers, exec' = exec \cup {NewExecutor(w, t) : t \in locks[w]}, Lease(w)
        PROVE  AttemptsIssued' /\ OneExecutorPerAttempt'
    <2>1. ASSUME NEW t \in locks[w]
          PROVE  /\ NewExecutor(w, t).task = t
                 /\ NewExecutor(w, t).attempt = row[t].attempt + 1
                 /\ row'[t].attempt = row[t].attempt + 1
                 /\ row[t].attempt \in Nat
      <3>1. t \in Tasks
        BY DEF ClaimInv, QueueTypeOK
      <3>2. row'[t] = LeasedTo(w, row[t])
        BY <1>5, <3>1 DEF Lease
      <3> QED
        BY <3>1, <3>2, LeasedFields DEF NewExecutor, ClaimInv, QueueTypeOK, Row
    <2>2. ASSUME NEW a \in exec'
          PROVE  a \in exec \/ \E t \in locks[w] : a = NewExecutor(w, t)
      BY <1>5
    <2>3. AttemptsIssued'
      BY <1>2, <2>1, <2>2 DEF AttemptsIssued
    <2>4. ASSUME NEW a \in exec, NEW t \in locks[w], a.task = t
          PROVE  a.attempt # NewExecutor(w, t).attempt
      BY <1>1, <2>1, <2>4
    <2>5. ASSUME NEW a \in exec', NEW b \in exec', a.task = b.task, a.attempt = b.attempt
          PROVE  a = b
      BY <2>1, <2>2, <2>4, <2>5 DEF ClaimInv, OneExecutorPerAttempt
    <2> QED
      BY <2>3, <2>5 DEF OneExecutorPerAttempt
  <1> QED
    BY <1>3, <1>4, <1>5, ExecutorSteps

LEMMA ClaimStep ==
  ASSUME ClaimInv, [QueueNext]_queueVars
  PROVE  ClaimInv'
  <1>1. QueueTypeOK' /\ LocksExclusive' /\ AttemptsIssued' /\ OneExecutorPerAttempt'
    BY TypeStep, LocksStep, ExecutorsStep DEF ClaimInv
  <1>2. NothingBeforeEnqueue'
    BY RowSteps DEF NothingBeforeEnqueue
  <1> QED
    BY <1>1, <1>2 DEF ClaimInv

LEMMA ClaimCorrect == QueueSpec => []ClaimInv
  BY ClaimInit, ClaimStep, PTL DEF QueueSpec

\* However many workers poll the table, an attempt of a task has one executor.
THEOREM SingleExecutor == QueueSpec => []OneExecutorPerAttempt
  BY ClaimCorrect, PTL DEF ClaimInv

-----------------------------------------------------------------------------
(* The retry budget                                                        *)

\* The executors that may still put their task back for another attempt.
Retriers(t) == {x \in exec : x.task = t /\ x.attempt < MaxAttempts}

\* The attempts of t early enough to be retried after a transient failure.
Retryable(t) == IF row[t].attempt < MaxAttempts THEN row[t].attempt ELSE MaxAttempts - 1

\* The attempt that was leased last and not put back since.
Current(t) == IF row[t].status \in {"absent", "pending"} THEN 0 ELSE 1

\* Each attempt but the current one ended in a reap or in the retry of a retryable
\* attempt whose executor is gone.
BudgetOf(t) ==
  /\ IsFiniteSet(Retriers(t))
  /\ row[t].attempt + Cardinality(Retriers(t)) <= reaps[t] + Current(t) + Retryable(t)

BudgetInv == \A t \in Tasks : BudgetOf(t)

LEMMA BudgetImplies ==
  ASSUME QueueTypeOK, BudgetInv
  PROVE  RetryBudget
  <1>1. ASSUME NEW t \in Tasks
        PROVE  row[t].attempt <= MaxAttempts + reaps[t]
    <2>1. row[t].attempt \in Nat /\ reaps[t] \in Nat /\ MaxAttempts \in Nat \ {0}
      BY QueueAssumption DEF QueueTypeOK, Row
    <2>2. Cardinality(Retriers(t)) \in Nat
      BY FS_CardinalityType DEF BudgetInv, BudgetOf
    <2>3. Current(t) \in 0..1 /\ Retryable(t) <= MaxAttempts - 1 /\ Retryable(t) \in Nat
      BY <2>1 DEF Current, Retryable
    <2> QED
      BY <2>1, <2>2, <2>3 DEF BudgetInv, BudgetOf
  <1> QED
    BY <1>1 DEF RetryBudget

LEMMA BudgetInit ==
  ASSUME QueueInit
  PROVE  BudgetInv
  <1>1. ASSUME NEW t \in Tasks
        PROVE  BudgetOf(t)
    <2>1. Retriers(t) = {}
      BY DEF QueueInit, Retriers
    <2>2. row[t].attempt = 0 /\ reaps[t] = 0 /\ row[t].status = "absent"
      BY DEF QueueInit, AbsentRow
    <2>3. Current(t) = 0 /\ Retryable(t) = 0
      BY <2>2, QueueAssumption DEF Current, Retryable
    <2> QED
      BY <2>1, <2>2, <2>3, FS_EmptySet DEF BudgetOf
  <1> QED
    BY <1>1 DEF BudgetInv

\* A step keeps the budget of t if its attempt stays, its retriers do not multiply and
\* a current attempt is only given up against a reap or a retrier.
LEMMA BudgetFrame ==
  ASSUME ClaimInv, BudgetInv, QueueTypeOK', NEW t \in Tasks,
         row'[t].attempt = row[t].attempt,
         IsFiniteSet(Retriers(t)'),
         Cardinality(Retriers(t)') + reaps[t] + Current(t)
           <= Cardinality(Retriers(t)) + reaps'[t] + Current(t)'
  PROVE  BudgetOf(t)'
  <1>1. /\ row[t].attempt \in Nat /\ row'[t].attempt \in Nat
        /\ reaps[t] \in Nat /\ reaps'[t] \in Nat /\ MaxAttempts \in Nat
    BY QueueAssumption DEF ClaimInv, QueueTypeOK, Row
  <1>2. Retryable(t)' = Retryable(t) /\ Retryable(t) \in Int
    BY <1>1 DEF Retryable
  <1>3. Current(t) \in Nat /\ Current(t)' \in Nat
    BY DEF Current
  <1>4. Cardinality(Retriers(t)) \in Nat /\ Cardinality(Retriers(t)') \in Nat
    BY FS_CardinalityType DEF BudgetInv, BudgetOf
  <1> QED
    BY <1>1, <1>2, <1>3, <1>4 DEF BudgetInv, BudgetOf

LEMMA RetriersShrink ==
  ASSUME BudgetInv, NEW t \in Tasks, exec' \subseteq exec
  PROVE  /\ IsFiniteSet(Retriers(t)')
         /\ Cardinality(Retriers(t)') <= Cardinality(Retriers(t))
  <1>1. Retriers(t)' \in SUBSET Retriers(t)
    BY DEF Retriers
  <1> QED
    BY <1>1, FS_Subset DEF BudgetInv, BudgetOf

LEMMA RetriersFinish ==
  ASSUME QueueTypeOK, BudgetInv, NEW t \in Tasks,
         NEW x \in exec, NEW v \in HandlerVerdicts, Finish(x, v)
  PROVE  /\ IsFiniteSet(Retriers(t)')
         /\ Cardinality(Retriers(t)') <= Cardinality(Retriers(t))
  <1> DEFINE y == [x EXCEPT !.verdict = v]
             Rest == Retriers(t) \ {x}
  <1>1. exec' = (exec \ {x}) \cup {y} /\ y.task = x.task /\ y.attempt = x.attempt
    BY DEF Finish, QueueTypeOK, Executor
  <1>2. IsFiniteSet(Retriers(t)) /\ Cardinality(Retriers(t)) \in Nat
    BY FS_CardinalityType DEF BudgetInv, BudgetOf
  <1>3. CASE x \in Retriers(t)
    <2>1. Retriers(t)' = Rest \cup {y}
      BY <1>1, <1>3 DEF Retriers
    <2>2. IsFiniteSet(Rest) /\ Cardinality(Rest) = Cardinality(Retriers(t)) - 1
      BY <1>2, <1>3, FS_RemoveElement
    <2>3. /\ IsFiniteSet(Rest \cup {y})
          /\ Cardinality(Rest \cup {y}) = Cardinality(Rest)
             \/ Cardinality(Rest \cup {y}) = Cardinality(Rest) + 1
      BY <2>2, FS_AddElement
    <2> QED
      BY <1>2, <2>1, <2>2, <2>3
  <1>4. CASE x \notin Retriers(t)
    <2>1. Retriers(t)' \in SUBSET Retriers(t)
      BY <1>1, <1>4 DEF Retriers
    <2> QED
      BY <1>2, <2>1, FS_Subset
  <1> QED
    BY <1>3, <1>4

\* A lease opens one attempt, with at most one new retrier, and only if it is retryable.
LEMMA BudgetLease ==
  ASSUME ClaimInv, BudgetInv, QueueTypeOK', NEW t \in Tasks, NEW w \in Workers,
         Lease(w), t \in locks[w], UNCHANGED reaps,
         \/ exec' = exec
         \/ exec' = exec \cup {NewExecutor(w, u) : u \in locks[w]}
  PROVE  BudgetOf(t)'
  <1>1. row'[t].attempt = row[t].attempt + 1 /\ row'[t].status = "leased"
    BY LeasedFields DEF Lease
  <1>2. row[t].attempt \in Nat /\ reaps[t] \in Nat /\ MaxAttempts \in Nat \ {0}
    BY QueueAssumption DEF ClaimInv, QueueTypeOK, Row
  <1>3. row[t].status = "pending"
    BY DEF ClaimInv, LocksExclusive
  <1>4. Current(t) = 0 /\ Current(t)' = 1
    BY <1>1, <1>3 DEF Current
  <1>5. IsFiniteSet(Retriers(t)) /\ Cardinality(Retriers(t)) \in Nat
    BY FS_CardinalityType DEF BudgetInv, BudgetOf
  <1>6. row[t].attempt + Cardinality(Retriers(t)) <= reaps[t] + Retryable(t)
    BY <1>2, <1>4 DEF BudgetInv, BudgetOf, Retryable
  <1>7. CASE Retriers(t)' = Retriers(t)
    <2>1. Retryable(t) <= Retryable(t)' /\ Retryable(t) \in Nat /\ Retryable(t)' \in Nat
      BY <1>1, <1>2 DEF Retryable
    <2> QED
      BY <1>1, <1>2, <1>4, <1>5, <1>6, <1>7, <2>1 DEF BudgetOf
  <1>8. CASE exec' = exec \cup {NewExecutor(w, u) : u \in locks[w]} /\ row[t].attempt + 1 < MaxAttempts
    <2>1. NewExecutor(w, t).task = t /\ NewExecutor(w, t).attempt = row[t].attempt + 1
      BY DEF NewExecutor
    <2>2. \A u \in locks[w] : NewExecutor(w, u).task = u
      BY DEF NewExecutor
    <2>3. Retriers(t)' = Retriers(t) \cup {NewExecutor(w, t)}
      BY <1>8, <2>1, <2>2 DEF Retriers
    <2>4. /\ IsFiniteSet(Retriers(t)')
          /\ Cardinality(Retriers(t)') <= Cardinality(Retriers(t)) + 1
          /\ Cardinality(Retriers(t)') \in Nat
      <3>1. /\ IsFiniteSet(Retriers(t)')
            /\ Cardinality(Retriers(t)') = Cardinality(Retriers(t))
               \/ Cardinality(Retriers(t)') = Cardinality(Retriers(t)) + 1
        BY <1>5, <2>3, FS_AddElement
      <3> QED
        BY <1>5, <3>1
    <2>5. Retryable(t) = row[t].attempt /\ Retryable(t)' = row[t].attempt + 1
      BY <1>1, <1>2, <1>8 DEF Retryable
    <2> QED
      BY <1>1, <1>2, <1>4, <1>5, <1>6, <2>4, <2>5 DEF BudgetOf
  <1>9. CASE exec' = exec \cup {NewExecutor(w, u) : u \in locks[w]} /\ ~(row[t].attempt + 1 < MaxAttempts)
    <2>1. NewExecutor(w, t).attempt = row[t].attempt + 1
      BY DEF NewExecutor
    <2>2. \A u \in locks[w] : NewExecutor(w, u).task = u
      BY DEF NewExecutor
    <2>3. Retriers(t)' = Retriers(t)
      BY <1>9, <2>1, <2>2 DEF Retriers
    <2> QED
      BY <1>7, <2>3
  <1>10. CASE exec' = exec
    BY <1>7, <1>10 DEF Retriers
  <1> QED
    BY <1>8, <1>9, <1>10

\* Settling gives up the current attempt only for a retry, by an executor that was one
\* of the retriers.
LEMMA BudgetSettle ==
  ASSUME ClaimInv, BudgetInv, QueueTypeOK', NEW t \in Tasks, NEW x \in exec,
         NEW s \in Statuses \ {"absent"}, Settle(x, s), s = "pending" => ~Exhausted(x)
  PROVE  BudgetOf(t)'
  <1>1. reaps' = reaps /\ reaps[t] \in Nat /\ exec' = exec \ {x}
    BY DEF Settle, ClaimInv, QueueTypeOK
  <1>2. /\ IsFiniteSet(Retriers(t)')
        /\ Cardinality(Retriers(t)') <= Cardinality(Retriers(t))
    BY <1>1, RetriersShrink
  <1>3. IsFiniteSet(Retriers(t)) /\ Cardinality(Retriers(t)) \in Nat /\ Cardinality(Retriers(t)') \in Nat
    BY <1>2, FS_CardinalityType DEF BudgetInv, BudgetOf
  <1>4. CASE ~(HoldsLease(x) /\ x.task = t)
    <2>1. row'[t] = row[t]
      BY <1>4 DEF Settle, ClaimInv, QueueTypeOK
    <2>2. Current(t)' = Current(t) /\ Current(t) \in Nat
      BY <2>1 DEF Current
    <2> QED
      BY <1>1, <1>2, <1>3, <2>1, <2>2, BudgetFrame
  <1>5. CASE HoldsLease(x) /\ x.task = t
    <2>1. row'[t] = Released(row[t], s, s # "pending") /\ row[t].status = "leased"
      BY <1>5 DEF Settle, HoldsLease, ClaimInv, QueueTypeOK
    <2>2. row'[t].attempt = row[t].attempt /\ row'[t].status = s
      BY <2>1, ReleasedFields
    <2>3. Current(t) = 1
      BY <2>1 DEF Current
    <2>4. CASE s # "pending"
      <3>1. Current(t)' = 1
        BY <2>2, <2>4 DEF Current
      <3> QED
        BY <1>1, <1>2, <1>3, <2>2, <2>3, <3>1, BudgetFrame
    <2>5. CASE s = "pending"
      <3>1. Current(t)' = 0
        BY <2>2, <2>5 DEF Current
      <3>2. x.attempt \in Nat /\ MaxAttempts \in Nat
        BY QueueAssumption DEF ClaimInv, QueueTypeOK, Executor
      <3>3. x \in Retriers(t)
        BY <1>5, <2>5, <3>2 DEF Exhausted, Retriers
      <3>4. Retriers(t)' = Retriers(t) \ {x}
        BY <1>1 DEF Retriers
      <3>5. Cardinality(Retriers(t)') = Cardinality(Retriers(t)) - 1
        BY <1>3, <3>3, <3>4, FS_RemoveElement
      <3> QED
        BY <1>1, <1>2, <1>3, <2>2, <2>3, <3>1, <3>5, BudgetFrame
    <2> QED
      BY <2>4, <2>5
  <1> QED
    BY <1>4, <1>5

LEMMA BudgetStep ==
  ASSUME ClaimInv, BudgetInv, [QueueNext]_queueVars
  PROVE  BudgetInv'
  <1> SUFFICES ASSUME NEW t \in Tasks PROVE BudgetOf(t)'
    BY DEF BudgetInv
  <1>1. QueueTypeOK'
    BY TypeStep DEF ClaimInv
  <1>2. /\ row[t] \in Row /\ row[t].attempt \in Nat /\ reaps[t] \in Nat
        /\ IsFiniteSet(Retriers(t)) /\ Cardinality(Retriers(t)) \in Nat
    BY FS_CardinalityType DEF ClaimInv, QueueTypeOK, Row, BudgetInv, BudgetOf
  <1>3. ASSUME /\ row'[t].attempt = row[t].attempt
               /\ row'[t].status = row[t].status
               /\ reaps'[t] = reaps[t]
               /\ exec' \subseteq exec \/ \E x \in exec, v \in HandlerVerdicts : Finish(x, v)
        PROVE  BudgetOf(t)'
    <2>1. Current(t)' = Current(t) /\ Current(t) \in Nat
      BY <1>3 DEF Current
    <2>2. IsFiniteSet(Retriers(t)') /\ Cardinality(Retriers(t)') <= Cardinality(Retriers(t))
      BY <1>3, RetriersShrink, RetriersFinish DEF ClaimInv
    <2>3. Cardinality(Retriers(t)') \in Nat
      BY <2>2, FS_CardinalityType
    <2> QED
      BY <1>1, <1>2, <1>3, <2>1, <2>2, <2>3, BudgetFrame
  <1>4. ASSUME NEW u \in Tasks, Enqueue(u)
        PROVE  BudgetOf(t)'
    <2>1. row' = [row EXCEPT ![u] = NewRow] /\ row[u].status = "absent" /\ exec' = exec /\ reaps' = reaps
      BY <1>4 DEF Enqueue
    <2>2. CASE t = u
      <3>1. row'[t] = NewRow
        BY <2>1, <2>2 DEF ClaimInv, QueueTypeOK
      <3>2. row'[t].attempt = row[t].attempt /\ Current(t) = 0 /\ Current(t)' = 0
        BY <2>1, <2>2, <3>1 DEF ClaimInv, NothingBeforeEnqueue, NewRow, Current
      <3>3. IsFiniteSet(Retriers(t)') /\ Cardinality(Retriers(t)') = Cardinality(Retriers(t))
        BY <1>2, <2>1 DEF Retriers
      <3> QED
        BY <1>1, <1>2, <2>1, <3>2, <3>3, BudgetFrame
    <2>3. CASE t # u
      <3>1. row'[t] = row[t]
        BY <2>1, <2>3 DEF ClaimInv, QueueTypeOK
      <3> QED
        BY <1>3, <2>1, <3>1
    <2> QED
      BY <2>2, <2>3
  <1>5. ASSUME NEW u \in Tasks, BackoffElapses(u) \/ Overrun(u) \/ LeaseLapses(u)
        PROVE  BudgetOf(t)'
    <2>1. row'[t] = row[t] \/ row'[t] = [row[t] EXCEPT !.due = TRUE]
                          \/ row'[t] = [row[t] EXCEPT !.expired = TRUE]
      BY <1>5 DEF BackoffElapses, Overrun, LeaseLapses, ClaimInv, QueueTypeOK
    <2>2. row'[t].attempt = row[t].attempt /\ row'[t].status = row[t].status
      BY <1>2, <2>1 DEF Row
    <2>3. exec' \subseteq exec /\ reaps' = reaps
      BY <1>5 DEF BackoffElapses, Overrun, LeaseLapses
    <2> QED
      BY <1>3, <2>2, <2>3
  <1>6. ASSUME NEW x \in exec, Heartbeat(x)
        PROVE  BudgetOf(t)'
    <2>1. row'[t] = row[t] \/ row'[t] = [row[t] EXCEPT !.expired = FALSE]
      BY <1>6 DEF Heartbeat, ClaimInv, QueueTypeOK
    <2>2. row'[t].attempt = row[t].attempt /\ row'[t].status = row[t].status
      BY <1>2, <2>1 DEF Row
    <2>3. exec' \subseteq exec /\ reaps' = reaps
      BY <1>6 DEF Heartbeat
    <2> QED
      BY <1>3, <2>2, <2>3
  <1>7. ASSUME NEW w \in Workers, DequeueCommit(w)
        PROVE  BudgetOf(t)'
    <2>1. /\ Lease(w) /\ UNCHANGED reaps
          /\ exec' = exec \cup {NewExecutor(w, u) : u \in locks[w]}
      BY <1>7 DEF DequeueCommit
    <2>2. CASE t \in locks[w]
      BY <1>1, <2>1, <2>2, BudgetLease
    <2>3. CASE t \notin locks[w]
      <3>1. row'[t] = row[t]
        BY <2>1, <2>3 DEF Lease
      <3>2. \A u \in locks[w] : NewExecutor(w, u).task = u
        BY DEF NewExecutor
      <3>3. Retriers(t)' = Retriers(t)
        BY <2>1, <2>3, <3>2 DEF Retriers
      <3>4. Current(t)' = Current(t) /\ Current(t) \in Nat
        BY <3>1 DEF Current
      <3> QED
        BY <1>1, <1>2, <2>1, <3>1, <3>3, <3>4, BudgetFrame
    <2> QED
      BY <2>2, <2>3
  <1>8. ASSUME NEW w \in Workers, DequeueFails(w)
        PROVE  BudgetOf(t)'
    <2>1. exec' = exec /\ UNCHANGED reaps /\ (Lease(w) \/ UNCHANGED row)
      BY <1>8 DEF DequeueFails
    <2>2. CASE Lease(w) /\ t \in locks[w]
      BY <1>1, <2>1, <2>2, BudgetLease
    <2>3. CASE ~(Lease(w) /\ t \in locks[w])
      <3>1. row'[t] = row[t]
        BY <2>1, <2>3 DEF Lease
      <3> QED
        BY <1>3, <2>1, <3>1
    <2> QED
      BY <2>2, <2>3
  <1>9. ASSUME NEW w \in Workers, ReapOnce(w)
        PROVE  BudgetOf(t)'
    <2>1. exec' \subseteq exec
      BY <1>9 DEF ReapOnce
    <2>2. CASE t \in Expired
      <3>1. /\ row'[t] = Released(row[t], "pending", row[t].due)
            /\ reaps'[t] = reaps[t] + 1
            /\ row[t].status = "leased"
        BY <1>9, <2>2 DEF ReapOnce, Expired
      <3>2. row'[t].attempt = row[t].attempt /\ row'[t].status = "pending"
        BY <3>1, ReleasedFields
      <3>3. Current(t) = 1 /\ Current(t)' = 0
        BY <3>1, <3>2 DEF Current
      <3>4. IsFiniteSet(Retriers(t)') /\ Cardinality(Retriers(t)') <= Cardinality(Retriers(t))
        BY <2>1, RetriersShrink
      <3>5. Cardinality(Retriers(t)') \in Nat
        BY <3>4, FS_CardinalityType
      <3> QED
        BY <1>1, <1>2, <3>1, <3>2, <3>3, <3>4, <3>5, BudgetFrame
    <2>3. CASE t \notin Expired
      <3>1. row'[t] = row[t] /\ reaps'[t] = reaps[t]
        BY <1>9, <2>3 DEF ReapOnce
      <3> QED
        BY <1>3, <2>1, <3>1
    <2> QED
      BY <2>2, <2>3
  <1>10. ASSUME NEW x \in exec, SettleStep(x)
         PROVE  BudgetOf(t)'
    <2>1. \E s \in Statuses \ {"absent"} : Settle(x, s) /\ (s = "pending" => ~Exhausted(x))
      BY <1>10 DEF SettleStep, Complete, RetryLater, KillExhausted, KillPermanent,
                   KillUnhandled, Statuses
    <2> QED
      BY <1>1, <2>1, BudgetSettle
  <1>11. ASSUME NEW x \in exec, NEW v \in HandlerVerdicts, HandlerReturns(x, v)
         PROVE  BudgetOf(t)'
    <2>1. UNCHANGED <<row, reaps>> /\ Finish(x, v)
      BY <1>11 DEF HandlerReturns
    <2> QED
      BY <1>3, <2>1
  <1>12. ASSUME \/ \E w \in Workers : \/ \E batch \in SUBSET Tasks : DequeueLock(w, batch)
                                       \/ ReapFails(w) \/ Stop(w) \/ Exit(w) \/ Restart(w)
                                       \/ Crash(w)
                \/ \E x \in exec : RecordFails(x)
                \/ UNCHANGED queueVars
         PROVE  BudgetOf(t)'
    <2>1. UNCHANGED <<row, reaps>> /\ exec' \subseteq exec
      BY <1>12 DEF DequeueLock, ReapFails, Stop, Exit, Restart, Crash, RecordFails, queueVars
    <2> QED
      BY <1>3, <2>1
  <1> QED
    BY <1>4, <1>5, <1>6, <1>7, <1>8, <1>9, <1>10, <1>11, <1>12
       DEF QueueNext, QueueStep, DispatchStep, IdlePoll

\* For any retry budget and any mix of crashes, overruns and failed writes, a task is
\* leased at most max_attempts times plus once per reap: only leases that are lost can
\* run a task more often than its policy says.
THEOREM BudgetRespected == QueueSpec => []RetryBudget
  <1>1. QueueInit => ClaimInv /\ BudgetInv
    BY ClaimInit, BudgetInit
  <1>2. ClaimInv /\ BudgetInv /\ [QueueNext]_queueVars => (ClaimInv /\ BudgetInv)'
    BY ClaimStep, BudgetStep
  <1>3. ClaimInv /\ BudgetInv => RetryBudget
    BY BudgetImplies DEF ClaimInv
  <1> QED
    BY <1>1, <1>2, <1>3, PTL DEF QueueSpec

-----------------------------------------------------------------------------
(* Action properties                                                       *)

LEMMA FenceStep ==
  ASSUME QueueTypeOK, [QueueNext]_queueVars, NEW x \in exec \ exec',
         row[x.task].owner # x.worker
  PROVE  row'[x.task] = row[x.task]
  <1>1. ASSUME NEW y \in exec, NEW s \in Statuses, Settle(y, s)
        PROVE  row'[x.task] = row[x.task]
    <2>1. x = y
      BY <1>1 DEF Settle
    <2> QED
      BY <1>1, <2>1 DEF Settle, HoldsLease
  <1>2. ASSUME NEW y \in exec, SettleStep(y)
        PROVE  row'[x.task] = row[x.task]
    BY <1>1, <1>2 DEF SettleStep, Complete, RetryLater, KillExhausted, KillPermanent,
                      KillUnhandled, Statuses
  <1>3. ASSUME \/ \E w \in Workers : Crash(w)
               \/ \E y \in exec : RecordFails(y) \/ \E v \in HandlerVerdicts : HandlerReturns(y, v)
        PROVE  row'[x.task] = row[x.task]
    BY <1>3 DEF Crash, RecordFails, HandlerReturns
  <1>4. ASSUME \/ \E t \in Tasks : Enqueue(t) \/ BackoffElapses(t) \/ Overrun(t) \/ LeaseLapses(t)
               \/ \E w \in Workers : \/ DispatchStep(w) \/ DequeueFails(w) \/ ReapOnce(w)
                                     \/ ReapFails(w) \/ Stop(w) \/ Exit(w) \/ Restart(w)
               \/ \E y \in exec : Heartbeat(y)
               \/ UNCHANGED queueVars
        PROVE  exec \subseteq exec'
    BY <1>4 DEF Enqueue, BackoffElapses, Overrun, LeaseLapses, DispatchStep, DequeueLock,
                DequeueCommit, DequeueFails, ReapOnce, ReapFails, Stop, Exit, Restart,
                Heartbeat, queueVars
  <1> QED
    BY <1>2, <1>3, <1>4 DEF QueueNext, QueueStep, IdlePoll

\* An executor whose task belongs to another worker, or to nobody, by the time it
\* finishes leaves the task as it is.
THEOREM LeaseFences == QueueSpec => FencedAcrossWorkers
  <1>1. QueueTypeOK /\ [QueueNext]_queueVars =>
          \A x \in exec \ exec' : row[x.task].owner # x.worker => row'[x.task] = row[x.task]
    BY FenceStep
  <1> QED
    BY <1>1, QueueTyped, PTL DEF QueueSpec, FencedAcrossWorkers

LEMMA SettledStep ==
  ASSUME ClaimInv, [QueueNext]_queueVars, NEW t \in Tasks, row[t].status \in Settled
  PROVE  row'[t] = row[t]
  <1> USE DEF ClaimInv
  <1>1. row[t].status \notin {"absent", "pending", "leased"}
    BY DEF Settled
  <1>2. ASSUME NEW u \in Tasks, Enqueue(u) \/ BackoffElapses(u) \/ Overrun(u) \/ LeaseLapses(u)
        PROVE  row'[t] = row[t]
    BY <1>1, <1>2 DEF Enqueue, BackoffElapses, Overrun, LeaseLapses, QueueTypeOK
  <1>3. ASSUME NEW w \in Workers, Lease(w)
        PROVE  row'[t] = row[t]
    BY <1>1, <1>3 DEF Lease, LocksExclusive
  <1>4. ASSUME NEW w \in Workers, DequeueCommit(w) \/ DequeueFails(w)
        PROVE  row'[t] = row[t]
    BY <1>3, <1>4 DEF DequeueCommit, DequeueFails
  <1>5. ASSUME NEW w \in Workers, ReapOnce(w)
        PROVE  row'[t] = row[t]
    BY <1>1, <1>5 DEF ReapOnce, Expired
  <1>6. ASSUME NEW x \in exec, NEW s \in Statuses, Settle(x, s)
        PROVE  row'[t] = row[t]
    BY <1>1, <1>6 DEF Settle, HoldsLease, QueueTypeOK
  <1>7. ASSUME NEW x \in exec, SettleStep(x)
        PROVE  row'[t] = row[t]
    BY <1>6, <1>7 DEF SettleStep, Complete, RetryLater, KillExhausted, KillPermanent,
                      KillUnhandled, Statuses
  <1>8. ASSUME NEW x \in exec, Heartbeat(x)
        PROVE  row'[t] = row[t]
    BY <1>1, <1>8 DEF Heartbeat, HoldsLease, QueueTypeOK
  <1>9. ASSUME \/ \E w \in Workers : \/ \E batch \in SUBSET Tasks : DequeueLock(w, batch)
                                      \/ ReapFails(w) \/ Stop(w) \/ Exit(w) \/ Restart(w)
                                      \/ Crash(w)
               \/ \E x \in exec : RecordFails(x) \/ \E v \in HandlerVerdicts : HandlerReturns(x, v)
               \/ UNCHANGED queueVars
        PROVE  row'[t] = row[t]
    BY <1>9 DEF DequeueLock, ReapFails, Stop, Exit, Restart, Crash, RecordFails,
                HandlerReturns, queueVars
  <1> QED
    BY <1>2, <1>4, <1>5, <1>7, <1>8, <1>9 DEF QueueNext, QueueStep, DispatchStep, IdlePoll

\* A settled task is final.
THEOREM SettledForGood == QueueSpec => SettledIsFinal
  <1>1. ClaimInv /\ [QueueNext]_queueVars =>
          \A t \in Tasks : row[t].status \in Settled => row'[t] = row[t]
    BY SettledStep
  <1> QED
    BY <1>1, ClaimCorrect, PTL DEF QueueSpec, SettledIsFinal
=============================================================================
