--------------------------- MODULE SendPipelineProofs ---------------------------
(***************************************************************************)
(* Machine-checked proofs about SendPipeline, for any sets of tasks and    *)
(* workers and any faults: the queue agrees with the jobs and keeps its    *)
(* guarantees; what is sent twice is bounded by faults and by leases; with *)
(* a provider that remembers idempotency keys nothing is sent twice, and   *)
(* the pipeline implements EffectivelyOnce.                                *)
(***************************************************************************)
EXTENDS SendPipeline, DurableQueueProofs

-----------------------------------------------------------------------------
(* The invariant                                                            *)

\* Only a job that was claimable stays claimed: nobody else gets past the row lock.
ClaimsAreOpen == \A j \in Tasks : tx[j] # NoTx => job[j] \in Claimable

\* A verdict is reached only after the job's transaction has ended.
VerdictsAgree ==
  \A x \in exec : /\ x.verdict = "ok" => job[x.task] \in SendTerminal
                  /\ x.verdict = "permanent" => job[x.task] = "failed_permanent"

SendInv ==
  /\ QueueTypeOK
  /\ SendTypeOK
  /\ ClaimsAreOpen
  /\ VerdictsAgree
  /\ TaskAgreesWithJob

LEMMA InitSendInv ==
  ASSUME Init
  PROVE  SendInv
  <1>1. QueueTypeOK
    BY TypeInit DEF Init
  <1>2. SendTypeOK
    BY DEF Init, QueueInit, SendTypeOK, SendStatuses
  <1>3. ClaimsAreOpen
    BY DEF Init, ClaimsAreOpen
  <1>4. VerdictsAgree /\ TaskAgreesWithJob
    BY DEF Init, QueueInit, VerdictsAgree, TaskAgreesWithJob, AbsentRow
  <1> QED
    BY <1>1, <1>2, <1>3, <1>4 DEF SendInv

-----------------------------------------------------------------------------
(* Steps of the queue                                                       *)

\* The queue never touches a running executor, starts none with a verdict of a handler,
\* and settles a row only along the verdict of an executor.
QueueKeeps ==
  /\ \A x \in exec : x.verdict = "running" => x \in exec'
  /\ \A x \in exec' \ exec : x.verdict \in {"running", "nohandler"}
  /\ \A t \in Tasks :
       /\ row'[t].status = "succeeded" => \/ row[t].status = "succeeded"
                                          \/ \E x \in exec : x.task = t /\ x.verdict = "ok"
       /\ row'[t].status = "failed" => \/ row[t].status = "failed"
                                       \/ \E x \in exec : x.task = t /\ x.verdict = "permanent"

LEMMA LeaseKeepsRows ==
  ASSUME QueueTypeOK, NEW w \in Workers, Lease(w), NEW t \in Tasks
  PROVE  row'[t].status = row[t].status \/ row'[t].status = "leased"
  <1>1. row'[t] = IF t \in locks[w] THEN LeasedTo(w, row[t]) ELSE row[t]
    BY DEF Lease
  <1> QED
    BY <1>1, LeasedFields

LEMMA SettleKeepsRows ==
  ASSUME QueueTypeOK, NEW x \in exec, NEW s \in Statuses, Settle(x, s), NEW t \in Tasks
  PROVE  row'[t].status = row[t].status \/ (t = x.task /\ row'[t].status = s)
  <1>1. \/ row' = row
        \/ row' = [row EXCEPT ![x.task] = Released(row[x.task], s, s # "pending")]
    BY DEF Settle
  <1> QED
    BY <1>1, ReleasedFields DEF QueueTypeOK

LEMMA QueueStepKeeps ==
  ASSUME QueueTypeOK, QueueStep \/ IdlePoll
  PROVE  QueueTypeOK' /\ QueueKeeps
  <1>1. QueueTypeOK'
    BY TypeStep DEF QueueNext
  <1>2. ASSUME NEW t \in Tasks, Enqueue(t) \/ BackoffElapses(t) \/ Overrun(t) \/ LeaseLapses(t)
        PROVE  QueueKeeps
    <2>1. exec' = exec
      BY <1>2 DEF Enqueue, BackoffElapses, Overrun, LeaseLapses
    <2>2. ASSUME NEW u \in Tasks
          PROVE  row'[u].status = row[u].status \/ row'[u].status = "pending"
      <3>1. row[u] \in Row
        BY DEF QueueTypeOK
      <3>2. \/ row'[u] = row[u] \/ row'[u] = NewRow
            \/ row'[u] = [row[u] EXCEPT !.due = TRUE]
            \/ row'[u] = [row[u] EXCEPT !.expired = TRUE]
        BY <1>2 DEF Enqueue, BackoffElapses, Overrun, LeaseLapses, QueueTypeOK
      <3> QED
        BY <3>1, <3>2 DEF NewRow, Row
    <2> QED
      BY <2>1, <2>2 DEF QueueKeeps
  <1>3. ASSUME NEW w \in Workers, DequeueCommit(w)
        PROVE  QueueKeeps
    <2>1. \A x \in exec' \ exec : x.verdict \in {"running", "nohandler"}
      BY <1>3 DEF DequeueCommit, NewExecutor
    <2>2. \A t \in Tasks : row'[t].status = row[t].status \/ row'[t].status = "leased"
      BY <1>3, LeaseKeepsRows DEF DequeueCommit
    <2> QED
      BY <1>3, <2>1, <2>2 DEF QueueKeeps, DequeueCommit
  <1>4. ASSUME NEW w \in Workers, DequeueFails(w)
        PROVE  QueueKeeps
    <2>1. \A t \in Tasks : row'[t].status = row[t].status \/ row'[t].status = "leased"
      BY <1>4, LeaseKeepsRows DEF DequeueFails
    <2> QED
      BY <1>4, <2>1 DEF QueueKeeps, DequeueFails
  <1>5. ASSUME NEW w \in Workers, ReapOnce(w)
        PROVE  QueueKeeps
    <2>1. \A t \in Tasks : row'[t].status = row[t].status \/ row'[t].status = "pending"
      BY <1>5, ReleasedFields DEF ReapOnce
    <2> QED
      BY <1>5, <2>1 DEF QueueKeeps, ReapOnce
  <1>6. ASSUME NEW x \in exec, SettleStep(x)
        PROVE  QueueKeeps
    <2>1. PICK s \in Statuses : /\ Settle(x, s)
                                /\ s = "succeeded" => x.verdict = "ok"
                                /\ s = "failed" => x.verdict = "permanent"
                                /\ x.verdict # "running"
      BY <1>6 DEF SettleStep, Complete, RetryLater, KillExhausted, KillPermanent,
                  KillUnhandled, Statuses
    <2>2. \A t \in Tasks : row'[t].status = row[t].status \/ (t = x.task /\ row'[t].status = s)
      BY <2>1, SettleKeepsRows
    <2>3. exec' = exec \ {x}
      BY <2>1 DEF Settle
    <2> QED
      BY <2>1, <2>2, <2>3 DEF QueueKeeps
  <1>7. ASSUME \/ \E w \in Workers : \/ \E batch \in SUBSET Tasks : DequeueLock(w, batch)
                                     \/ ReapFails(w) \/ Stop(w) \/ Exit(w) \/ Restart(w)
               \/ \E x \in exec : RecordFails(x)
               \/ IdlePoll
        PROVE  QueueKeeps
    <2>1. row' = row
      BY <1>7 DEF DequeueLock, ReapFails, Stop, Exit, Restart, RecordFails, IdlePoll, queueVars
    <2>2. exec' = exec \/ \E x \in exec : x.verdict # "running" /\ exec' = exec \ {x}
      BY <1>7 DEF DequeueLock, ReapFails, Stop, Exit, Restart, RecordFails, IdlePoll, queueVars
    <2> QED
      BY <2>1, <2>2 DEF QueueKeeps
  <1> QED
    BY <1>1, <1>2, <1>3, <1>4, <1>5, <1>6, <1>7 DEF QueueStep, DispatchStep

LEMMA SendInvQueue ==
  ASSUME SendInv, QueueStep \/ IdlePoll, UNCHANGED sendVars
  PROVE  SendInv'
  <1>1. QueueTypeOK' /\ QueueKeeps
    BY QueueStepKeeps DEF SendInv
  <1>2. SendTypeOK'
    BY <1>1 DEF SendInv, SendTypeOK, sendVars, QueueKeeps, Claimed
  <1>3. VerdictsAgree'
    BY <1>1 DEF SendInv, VerdictsAgree, sendVars, QueueKeeps
  <1>4. TaskAgreesWithJob'
    BY <1>1 DEF SendInv, VerdictsAgree, TaskAgreesWithJob, sendVars, QueueKeeps
  <1> QED
    BY <1>1, <1>2, <1>3, <1>4 DEF SendInv, ClaimsAreOpen, sendVars

LEMMA SendInvCrash ==
  ASSUME SendInv, NEW w \in Workers, CrashWithRollback(w)
  PROVE  SendInv'
  <1>1. QueueTypeOK'
    BY TypeStep DEF CrashWithRollback, QueueNext, SendInv
  <1>2. /\ UNCHANGED <<row, job, known, sends, cancelled>>
        /\ exec' = {x \in exec : x.worker # w}
        /\ \A j \in Tasks : tx'[j] = IF tx[j].worker = w THEN NoTx ELSE tx[j]
    BY DEF CrashWithRollback, Crash, ExecutorsOf
  <1>3. SendTypeOK'
    <2>1. tx' \in [Tasks -> Tx \cup {NoTx}]
      BY DEF SendInv, SendTypeOK, CrashWithRollback
    <2>2. ASSUME NEW j \in Tasks, tx'[j] # NoTx
          PROVE  \E x \in exec' : x.task = j /\ x.verdict = "running" /\ Claimed(x)'
      <3>1. tx'[j] = tx[j] /\ tx[j].worker # w
        BY <1>2, <2>2
      <3>2. PICK x \in exec : x.task = j /\ x.verdict = "running" /\ Claimed(x)
        BY <2>2, <3>1 DEF SendInv, SendTypeOK
      <3>3. x.worker # w
        BY <3>1, <3>2 DEF Claimed
      <3> QED
        BY <1>2, <3>1, <3>2, <3>3 DEF Claimed
    <2> QED
      BY <1>2, <2>1, <2>2 DEF SendInv, SendTypeOK
  <1>4. ClaimsAreOpen'
    BY <1>2 DEF SendInv, ClaimsAreOpen
  <1>5. VerdictsAgree' /\ TaskAgreesWithJob'
    BY <1>2 DEF SendInv, VerdictsAgree, TaskAgreesWithJob
  <1> QED
    BY <1>1, <1>3, <1>4, <1>5 DEF SendInv

-----------------------------------------------------------------------------
(* Steps of a handler                                                       *)

LEMMA ClaimedTx ==
  ASSUME SendInv, NEW x \in exec, Claimed(x)
  PROVE  /\ x.task \in Tasks /\ x.worker \in Workers /\ x.attempt \in Nat
         /\ tx[x.task] \in Tx
         /\ job[x.task] \in Claimable
  <1>1. x.task \in Tasks /\ x.worker \in Workers /\ x.attempt \in Nat
    BY DEF SendInv, QueueTypeOK, Executor
  <1>2. tx[x.task] # NoTx
    BY <1>1, QueueAssumption DEF Claimed, NoTx
  <1> QED
    BY <1>1, <1>2 DEF SendInv, SendTypeOK, ClaimsAreOpen

\* The handler ends, with its transaction: the executor takes a verdict that agrees with
\* what is committed by then.
LEMMA HandlerEnds ==
  ASSUME SendInv, NEW x \in exec, NEW v \in HandlerVerdicts, Finish(x, v),
         UNCHANGED <<row, locks, wstate, reaper, reaps, known, sends, cancelled>>,
         faults' \in 0..MaxFaults,
         tx' = [tx EXCEPT ![x.task] = NoTx],
         job' \in [Tasks -> SendStatuses],
         \A j \in Tasks : j # x.task \/ job[j] \in SendTerminal => job'[j] = job[j],
         v = "ok" => job'[x.task] \in SendTerminal,
         v = "permanent" => job'[x.task] = "failed_permanent"
  PROVE  SendInv'
  <1> DEFINE y == [x EXCEPT !.verdict = v]
  <1>1. x \in Executor /\ v \in Verdicts
    BY DEF SendInv, QueueTypeOK, HandlerVerdicts, Verdicts
  <1>2. y \in Executor /\ y.task = x.task /\ y.verdict = v
    BY <1>1 DEF Executor
  <1>3. exec' = (exec \ {x}) \cup {y}
    BY DEF Finish
  <1> HIDE DEF y
  <1>4. QueueTypeOK'
    BY <1>2, <1>3 DEF SendInv, QueueTypeOK
  <1>5. \A j \in Tasks : tx'[j] = IF j = x.task THEN NoTx ELSE tx[j]
    BY DEF SendInv, SendTypeOK
  <1>6. SendTypeOK'
    <2>1. tx' \in [Tasks -> Tx \cup {NoTx}]
      BY DEF SendInv, SendTypeOK
    <2>2. ASSUME NEW j \in Tasks, tx'[j] # NoTx
          PROVE  \E z \in exec' : z.task = j /\ z.verdict = "running" /\ Claimed(z)'
      <3>1. j # x.task /\ tx'[j] = tx[j]
        BY <1>5, <2>2
      <3>2. PICK z \in exec : z.task = j /\ z.verdict = "running" /\ Claimed(z)
        BY <2>2, <3>1 DEF SendInv, SendTypeOK
      <3> QED
        BY <1>3, <3>1, <3>2 DEF Claimed
    <2> QED
      BY <2>1, <2>2 DEF SendInv, SendTypeOK
  <1>7. ClaimsAreOpen'
    BY <1>5 DEF SendInv, ClaimsAreOpen
  <1>8. VerdictsAgree'
    <2> SUFFICES ASSUME NEW z \in exec'
                 PROVE  /\ z.verdict = "ok" => job'[z.task] \in SendTerminal
                        /\ z.verdict = "permanent" => job'[z.task] = "failed_permanent"
      BY DEF VerdictsAgree
    <2>1. CASE z = y
      BY <1>2, <2>1
    <2>2. CASE z \in exec
      <3>1. z.task \in Tasks
        BY <2>2 DEF SendInv, QueueTypeOK, Executor
      <3> QED
        BY <2>2, <3>1 DEF SendInv, VerdictsAgree, SendTerminal
    <2> QED
      BY <1>3, <2>1, <2>2
  <1>9. TaskAgreesWithJob'
    BY DEF SendInv, TaskAgreesWithJob, SendTerminal
  <1> QED
    BY <1>4, <1>6, <1>7, <1>8, <1>9 DEF SendInv

\* A step of an open transaction: only what it is going to record changes.
LEMMA HandlerRecords ==
  ASSUME SendInv, NEW x \in exec, Claimed(x), NEW phase \in Phases, Record(x.task, phase),
         UNCHANGED <<row, locks, exec, wstate, reaper, reaps, job, cancelled>>,
         faults' \in 0..MaxFaults,
         known' \subseteq Tasks, sends' \in [Tasks -> Nat]
  PROVE  SendInv'
  <1>1. x.task \in Tasks /\ tx[x.task] \in Tx /\ job[x.task] \in Claimable
    BY ClaimedTx
  <1>2. \A j \in Tasks : /\ tx'[j].worker = tx[j].worker
                         /\ tx'[j].attempt = tx[j].attempt
                         /\ tx'[j] # NoTx => tx[j] # NoTx
    <2> SUFFICES ASSUME NEW j \in Tasks
                 PROVE  /\ tx'[j].worker = tx[j].worker
                        /\ tx'[j].attempt = tx[j].attempt
                        /\ tx'[j] # NoTx => tx[j] # NoTx
      OBVIOUS
    <2>1. CASE j = x.task
      BY <1>1, <2>1, QueueAssumption DEF Record, SendInv, SendTypeOK, Tx, NoTx
    <2>2. CASE j # x.task
      BY <2>2 DEF Record, SendInv, SendTypeOK
    <2> QED
      BY <2>1, <2>2
  <1>3. tx' \in [Tasks -> Tx \cup {NoTx}]
    BY <1>1 DEF Record, SendInv, SendTypeOK, Tx
  <1>4. QueueTypeOK'
    BY DEF SendInv, QueueTypeOK
  <1>5. SendTypeOK'
    BY <1>2, <1>3 DEF SendInv, SendTypeOK, Claimed
  <1>6. ClaimsAreOpen' /\ VerdictsAgree' /\ TaskAgreesWithJob'
    BY <1>2 DEF SendInv, ClaimsAreOpen, VerdictsAgree, TaskAgreesWithJob
  <1> QED
    BY <1>4, <1>5, <1>6 DEF SendInv

LEMMA AcceptTyped ==
  ASSUME SendInv, NEW j \in Tasks, Accept(j)
  PROVE  known' \subseteq Tasks /\ sends' \in [Tasks -> Nat]
  BY DEF SendInv, SendTypeOK, Accept

LEMMA FaultTyped ==
  ASSUME QueueTypeOK, NEW kind, Fault(kind)
  PROVE  faults' \in 0..MaxFaults
  BY QueueAssumption DEF QueueTypeOK, Fault

LEMMA NoTxPhase == NoTx.phase = "none"
  BY DEF NoTx

LEMMA RecordChanges ==
  ASSUME SendInv, NEW x \in exec, Claimed(x), NEW phase, Record(x.task, phase)
  PROVE  \A j \in Tasks : tx'[j].phase = IF j = x.task THEN phase ELSE tx[j].phase
  <1>1. x.task \in Tasks /\ tx[x.task] \in Tx
    BY ClaimedTx
  <1> QED
    BY <1>1 DEF Record, SendInv, SendTypeOK, Tx

LEMMA SendInvHandler ==
  ASSUME SendInv, NEW x \in exec, SendStep(x) \/ ProviderTimesOut(x) \/ CommitFails(x)
  PROVE  SendInv'
  <1> USE DEF Phases
  <1>1. x \in Executor /\ x.task \in Tasks /\ x.worker \in Workers /\ x.attempt \in Nat
    BY DEF SendInv, QueueTypeOK, Executor
  <1>2. CASE Claim(x)
    <2>1. /\ UNCHANGED <<queueVars, job, known, sends, cancelled>>
          /\ \A j \in Tasks :
               tx'[j] = IF j = x.task
                        THEN [worker |-> x.worker, attempt |-> x.attempt, phase |-> "sending"]
                        ELSE tx[j]
      BY <1>2 DEF Claim, SendInv, SendTypeOK
    <2>2. tx' \in [Tasks -> Tx \cup {NoTx}]
      BY <1>1, <1>2 DEF Claim, SendInv, SendTypeOK, Tx
    <2>3. SendTypeOK'
      BY <1>1, <1>2, <2>1, <2>2 DEF Claim, SendInv, SendTypeOK, Claimed, queueVars
    <2>4. ClaimsAreOpen' /\ VerdictsAgree' /\ TaskAgreesWithJob' /\ QueueTypeOK'
      BY <1>2, <2>1
      DEF Claim, SendInv, ClaimsAreOpen, VerdictsAgree, TaskAgreesWithJob, QueueTypeOK, queueVars
    <2> QED
      BY <2>3, <2>4 DEF SendInv
  <1>3. CASE ClaimFindsSettled(x)
    <2>1. tx' = [tx EXCEPT ![x.task] = NoTx] /\ UNCHANGED <<job, known, sends, cancelled>>
      BY <1>3 DEF ClaimFindsSettled, sendVars, SendInv, SendTypeOK
    <2>2. job[x.task] \in SendTerminal
      BY <1>1, <1>3
      DEF ClaimFindsSettled, SendInv, SendTypeOK, SendStatuses, Claimable, SendTerminal
    <2>3. Finish(x, "ok") /\ UNCHANGED <<row, locks, wstate, reaper, reaps, faults>>
      BY <1>3 DEF ClaimFindsSettled, HandlerReturns
    <2> QED
      BY <2>1, <2>2, <2>3, HandlerEnds DEF HandlerVerdicts, SendInv, SendTypeOK, QueueTypeOK
  <1>4. CASE ProviderAccepts(x)
    BY <1>1, <1>4, AcceptTyped, HandlerRecords
    DEF ProviderAccepts, InPhase, queueVars, SendInv, QueueTypeOK
  <1>5. CASE ProviderTimesOut(x)
    BY <1>1, <1>5, AcceptTyped, FaultTyped, HandlerRecords
    DEF ProviderTimesOut, InPhase, SendInv
  <1>6. ASSUME NEW phase \in Phases, ProviderRefuses(x, phase)
        PROVE  SendInv'
    <2>1. known' \subseteq Tasks /\ sends' \in [Tasks -> Nat] /\ faults' \in 0..MaxFaults
      BY <1>6 DEF ProviderRefuses, SendInv, SendTypeOK, QueueTypeOK, queueVars
    <2> QED
      BY <1>6, <2>1, HandlerRecords DEF ProviderRefuses, InPhase, queueVars
  <1>7. CASE Commit(x)
    <2>1. tx[x.task].phase \in {"sent", "failed_transient", "failed_permanent"}
          /\ job[x.task] \in Claimable
      BY <1>7, ClaimedTx DEF Commit, Tx
    <2>2. job' \in [Tasks -> SendStatuses]
          /\ \A j \in Tasks : job'[j] = IF j = x.task THEN tx[j].phase ELSE job[j]
      BY <1>7, <2>1 DEF Commit, SendInv, SendTypeOK, SendStatuses
    <2>3. PICK v \in HandlerVerdicts : v = Verdict(tx[x.task].phase)
      BY <2>1 DEF Verdict, HandlerVerdicts
    <2>4. /\ v = "ok" => tx[x.task].phase = "sent"
          /\ v = "permanent" => tx[x.task].phase = "failed_permanent"
      BY <2>1, <2>3 DEF Verdict
    <2>5. /\ Finish(x, v) /\ UNCHANGED <<row, locks, wstate, reaper, reaps, faults>>
          /\ tx' = [tx EXCEPT ![x.task] = NoTx] /\ UNCHANGED <<known, sends, cancelled>>
      BY <1>7, <2>3 DEF Commit, HandlerReturns
    <2>6. \A j \in Tasks : j # x.task \/ job[j] \in SendTerminal => job'[j] = job[j]
      BY <2>1, <2>2 DEF Claimable, SendTerminal
    <2>7. /\ v = "ok" => job'[x.task] \in SendTerminal
          /\ v = "permanent" => job'[x.task] = "failed_permanent"
      BY <1>1, <2>2, <2>4 DEF SendTerminal
    <2>8. faults' \in 0..MaxFaults
      BY <2>5 DEF SendInv, QueueTypeOK
    <2> QED
      BY <2>2, <2>5, <2>6, <2>7, <2>8, HandlerEnds
  <1>8. CASE CommitFails(x)
    <2>1. tx[x.task].phase \in Phases /\ job[x.task] \in Claimable
      BY <1>8, ClaimedTx DEF CommitFails, Tx
    <2>2. /\ job' \in [Tasks -> SendStatuses]
          /\ \A j \in Tasks : j # x.task => job'[j] = job[j]
      BY <1>8, <2>1 DEF CommitFails, SendInv, SendTypeOK, SendStatuses
    <2>3. \A j \in Tasks : j # x.task \/ job[j] \in SendTerminal => job'[j] = job[j]
      BY <2>1, <2>2 DEF Claimable, SendTerminal
    <2>4. /\ Finish(x, "transient") /\ UNCHANGED <<row, locks, wstate, reaper, reaps>>
          /\ tx' = [tx EXCEPT ![x.task] = NoTx] /\ UNCHANGED <<known, sends, cancelled>>
      BY <1>8 DEF CommitFails
    <2>5. faults' \in 0..MaxFaults
      BY <1>8, FaultTyped DEF CommitFails, SendInv
    <2> QED
      BY <2>2, <2>3, <2>4, <2>5, HandlerEnds DEF HandlerVerdicts
  <1> QED
    BY <1>2, <1>3, <1>4, <1>5, <1>6, <1>7, <1>8 DEF SendStep

LEMMA CancelChanges ==
  ASSUME SendInv, CancelCampaign
  PROVE  /\ \A j \in Tasks : job'[j] = IF j \in Queued THEN "cancelled" ELSE job[j]
         /\ \A j \in Queued : j \in Tasks /\ tx[j] = NoTx /\ job[j] = "queued"
         /\ UNCHANGED <<queueVars, tx, known, sends>>
  BY DEF CancelCampaign, Queued

LEMMA SendInvCancel ==
  ASSUME SendInv, CancelCampaign
  PROVE  SendInv'
  <1>1. job' \in [Tasks -> SendStatuses] /\ cancelled' \in BOOLEAN
    BY DEF SendInv, SendTypeOK, SendStatuses, CancelCampaign
  <1>2. QueueTypeOK' /\ SendTypeOK'
    BY <1>1, CancelChanges DEF SendInv, QueueTypeOK, SendTypeOK, Claimed, queueVars
  <1>3. ClaimsAreOpen'
    BY CancelChanges DEF SendInv, ClaimsAreOpen
  <1>4. \A j \in Tasks : job[j] \in SendTerminal => job'[j] = job[j]
    BY CancelChanges DEF SendTerminal
  <1>5. VerdictsAgree'
    BY <1>4, CancelChanges
    DEF SendInv, VerdictsAgree, QueueTypeOK, Executor, SendTerminal, queueVars
  <1>6. TaskAgreesWithJob'
    BY <1>4, CancelChanges DEF SendInv, TaskAgreesWithJob, SendTerminal, queueVars
  <1> QED
    BY <1>2, <1>3, <1>5, <1>6 DEF SendInv

LEMMA SendInvStep ==
  ASSUME SendInv, [Next]_vars
  PROVE  SendInv'
  <1>1. CASE UNCHANGED vars
    BY <1>1 DEF vars, queueVars, sendVars, SendInv, QueueTypeOK, SendTypeOK, Claimed,
                ClaimsAreOpen, VerdictsAgree, TaskAgreesWithJob
  <1>2. CASE Next
    BY <1>2, SendInvQueue, SendInvCrash, SendInvHandler, SendInvCancel DEF Next
  <1> QED
    BY <1>1, <1>2

LEMMA SendInvariant == Spec => []SendInv
  BY InitSendInv, SendInvStep, PTL DEF Spec

LEMMA SendTyped == Spec => []SendTypeOK
  BY SendInvariant, PTL DEF SendInv

LEMMA VerdictsAgreeWithJobs == Spec => []TaskAgreesWithJob
  BY SendInvariant, PTL DEF SendInv

\* Whatever crashes, overruns or fails, an open claim is always that of a running
\* executor, and the queue's verdict on a task never contradicts the committed status of
\* its job, with any number of workers and a campaign that may be cancelled at any time.
THEOREM QueueAgreesWithJobs == Spec => []PipelineAgrees
  BY SendTyped, VerdictsAgreeWithJobs, PTL DEF PipelineAgrees

-----------------------------------------------------------------------------
(* The guarantees of the queue                                              *)

\* What a failed commit does to the queue: the handler ends, and a fault is counted, which
\* the queue alone does not know of.
LEMMA HandlerFailureKeepsQueue ==
  ASSUME ClaimInv, BudgetInv, NEW x \in exec, NEW v \in HandlerVerdicts, Finish(x, v),
         UNCHANGED <<row, locks, wstate, reaper, reaps>>, faults' \in 0..MaxFaults
  PROVE  ClaimInv' /\ BudgetInv'
  <1>1. [x EXCEPT !.verdict = v] \in Executor
    BY DEF ClaimInv, QueueTypeOK, Executor, HandlerVerdicts, Verdicts
  <1>2. QueueTypeOK'
    BY <1>1 DEF ClaimInv, QueueTypeOK, Finish
  <1>3. LocksExclusive' /\ NothingBeforeEnqueue'
    BY DEF ClaimInv, LocksExclusive, NothingBeforeEnqueue
  <1>4. \A z \in exec : z.attempt <= row'[z.task].attempt
    BY DEF ClaimInv, AttemptsIssued
  <1>5. AttemptsIssued' /\ OneExecutorPerAttempt'
    BY <1>4, FinishKeepsExecutors
  <1>6. ASSUME NEW t \in Tasks
        PROVE  BudgetOf(t)'
    <2>1. IsFiniteSet(Retriers(t)') /\ Cardinality(Retriers(t)') <= Cardinality(Retriers(t))
      BY RetriersFinish DEF ClaimInv
    <2>2. Cardinality(Retriers(t)) \in Nat /\ Cardinality(Retriers(t)') \in Nat
      BY <2>1, FS_CardinalityType DEF BudgetInv, BudgetOf
    <2>3. /\ row'[t].attempt = row[t].attempt /\ reaps'[t] = reaps[t] /\ reaps[t] \in Nat
          /\ Current(t)' = Current(t) /\ Current(t) \in Nat
      BY DEF Current, ClaimInv, QueueTypeOK
    <2> QED
      BY <1>2, <2>1, <2>2, <2>3, BudgetFrame
  <1> QED
    BY <1>2, <1>3, <1>5, <1>6 DEF ClaimInv, BudgetInv

\* A step of the pipeline is one of the queue, or a handler loses an answer.
LEMMA PipelineSteps ==
  ASSUME SendInv, [Next]_vars
  PROVE  \/ [QueueNext]_queueVars
         \/ \E x \in exec : ProviderTimesOut(x) \/ CommitFails(x)
  <1>1. ASSUME NEW x \in exec, Commit(x) \/ ClaimFindsSettled(x)
        PROVE  [QueueNext]_queueVars
    <2>1. Commit(x) => tx[x.task].phase \in {"sent", "failed_transient", "failed_permanent"}
      BY ClaimedTx DEF Commit, Tx, Phases
    <2>2. \E v \in HandlerVerdicts : HandlerReturns(x, v)
      BY <1>1, <2>1 DEF Commit, ClaimFindsSettled, Verdict, HandlerVerdicts
    <2> QED
      BY <2>2 DEF QueueNext
  <1>2. ASSUME NEW x \in exec,
               \/ Claim(x) \/ ProviderAccepts(x)
               \/ \E phase \in Phases : ProviderRefuses(x, phase)
        PROVE  UNCHANGED queueVars
    BY <1>2 DEF Claim, ProviderAccepts, ProviderRefuses
  <1>3. CASE CancelCampaign \/ UNCHANGED vars
    BY <1>3 DEF CancelCampaign, vars
  <1>4. CASE QueueStep \/ IdlePoll \/ \E w \in Workers : CrashWithRollback(w)
    BY <1>4 DEF CrashWithRollback, QueueNext
  <1> QED
    BY <1>1, <1>2, <1>3, <1>4 DEF Next, SendStep

LEMMA QueueInvStep ==
  ASSUME SendInv, ClaimInv, BudgetInv, [Next]_vars
  PROVE  ClaimInv' /\ BudgetInv'
  <1>1. CASE [QueueNext]_queueVars
    BY <1>1, ClaimStep, BudgetStep
  <1>2. ASSUME NEW x \in exec, ProviderTimesOut(x)
        PROVE  ClaimInv' /\ BudgetInv'
    <2>1. UNCHANGED <<row, locks, exec, wstate, reaper, reaps>> /\ faults' \in 0..MaxFaults
      BY <1>2, FaultTyped DEF ProviderTimesOut, ClaimInv
    <2>2. ClaimInv'
      BY <2>1 DEF ClaimInv, QueueTypeOK, LocksExclusive, AttemptsIssued, NothingBeforeEnqueue,
                  OneExecutorPerAttempt
    <2>3. BudgetInv'
      BY <2>1 DEF BudgetInv, BudgetOf, Retriers, Current, Retryable
    <2> QED
      BY <2>2, <2>3
  <1>3. ASSUME NEW x \in exec, CommitFails(x)
        PROVE  ClaimInv' /\ BudgetInv'
    <2>1. Finish(x, "transient") /\ UNCHANGED <<row, locks, wstate, reaper, reaps>>
          /\ faults' \in 0..MaxFaults
      BY <1>3, FaultTyped DEF CommitFails, ClaimInv
    <2> QED
      BY <2>1, HandlerFailureKeepsQueue DEF HandlerVerdicts
  <1> QED
    BY <1>1, <1>2, <1>3, PipelineSteps

LEMMA QueueInvariant == Spec => [](ClaimInv /\ BudgetInv)
  <1>1. Init => ClaimInv /\ BudgetInv
    BY ClaimInit, BudgetInit DEF Init
  <1>2. SendInv /\ (ClaimInv /\ BudgetInv) /\ [Next]_vars => (ClaimInv /\ BudgetInv)'
    BY QueueInvStep
  <1> QED
    BY <1>1, <1>2, SendInvariant, PTL DEF Spec

\* The queue serves the handler as it serves any: with the send pipeline on it, an attempt
\* of a job has one executor, and the retry budget holds for every job.
THEOREM PipelineKeepsBudget == Spec => [](OneExecutorPerAttempt /\ RetryBudget)
  <1>1. ClaimInv /\ BudgetInv => OneExecutorPerAttempt /\ RetryBudget
    BY BudgetImplies DEF ClaimInv
  <1> QED
    BY <1>1, QueueInvariant, PTL

LEMMA LostAnswersKeepRows ==
  ASSUME NEW x \in exec, ProviderTimesOut(x) \/ CommitFails(x)
  PROVE  UNCHANGED row
  BY DEF ProviderTimesOut, CommitFails

\* With the send pipeline on the queue, a late executor never touches a job that was
\* leased to another worker, and a settled task stays as it is.
THEOREM PipelineKeepsFences == Spec => FencedAcrossWorkers /\ SettledIsFinal
  <1>1. SendInv /\ ClaimInv /\ [Next]_vars =>
          [\A x \in exec \ exec' : row[x.task].owner # x.worker => row'[x.task] = row[x.task]]_queueVars
    BY PipelineSteps, FenceStep, LostAnswersKeepRows DEF ClaimInv
  <1>2. SendInv /\ ClaimInv /\ [Next]_vars =>
          [\A t \in Tasks : row[t].status \in Settled => row'[t] = row[t]]_queueVars
    BY PipelineSteps, SettledStep, LostAnswersKeepRows
  <1> QED
    BY <1>1, <1>2, SendInvariant, QueueInvariant, PTL
    DEF Spec, FencedAcrossWorkers, SettledIsFinal

-----------------------------------------------------------------------------
(* Without the provider's memory                                            *)

\* The faults that may have cost a duplicate so far.
Price == IF FaultKinds \cap Interruptions = {} THEN 0 ELSE faults

\* The job's message is accounted for, in the row or in the transaction that holds it.
Recorded(j) == job[j] = "sent" \/ tx[j].phase = "sent"

\* Every message of a job is recorded or was paid for by a fault.
PaidFor(j) == sends[j] <= IF Recorded(j) THEN Price + 1 ELSE Price

PaidInv == \A j \in Tasks : PaidFor(j)

LEMMA PriceGrows ==
  ASSUME SendInv, [Next]_vars
  PROVE  Price \in Nat /\ Price' \in Nat /\ Price <= Price'
  <1>1. faults \in Nat /\ faults' \in Nat
    BY SendInvStep, QueueAssumption DEF SendInv, QueueTypeOK
  <1>2. faults' = faults \/ faults' = faults + 1
    <2>1. ASSUME NEW kind, Fault(kind)
          PROVE  faults' = faults + 1
      BY <2>1 DEF Fault
    <2>2. ASSUME QueueStep
          PROVE  faults' = faults \/ faults' = faults + 1
      BY <2>1, <2>2
      DEF QueueStep, Enqueue, BackoffElapses, Overrun, LeaseLapses, DispatchStep, DequeueLock,
          DequeueCommit, DequeueFails, ReapOnce, ReapFails, Stop, Exit, Restart, SettleStep,
          Complete, RetryLater, KillExhausted, KillPermanent, KillUnhandled, Settle, RecordFails
    <2>3. ASSUME NEW x \in exec, SendStep(x) \/ ProviderTimesOut(x) \/ CommitFails(x)
          PROVE  faults' = faults \/ faults' = faults + 1
      BY <2>1, <2>3
      DEF SendStep, Claim, ClaimFindsSettled, ProviderAccepts, ProviderTimesOut, ProviderRefuses,
          Commit, CommitFails, HandlerReturns, queueVars
    <2>4. CASE \/ IdlePoll \/ CancelCampaign \/ UNCHANGED vars
               \/ \E w \in Workers : CrashWithRollback(w)
      BY <2>1, <2>4 DEF IdlePoll, CancelCampaign, vars, queueVars, CrashWithRollback, Crash
    <2> QED
      BY <2>2, <2>3, <2>4 DEF Next
  <1> QED
    BY <1>1, <1>2 DEF Price

\* A fault between the acceptance of a message and its record raises the price.
LEMMA InterruptionPays ==
  ASSUME SendInv, NEW kind \in Interruptions, Fault(kind)
  PROVE  Price' = Price + 1
  BY DEF Price, Fault

\* Nothing is sent and no record is lost.
LEMMA PaidFrame ==
  ASSUME PaidInv, SendInv, SendInv', NEW j \in Tasks,
         sends'[j] = sends[j], Price \in Nat, Price' \in Nat, Price <= Price',
         Recorded(j) => Recorded(j)' \/ Price < Price'
  PROVE  PaidFor(j)'
  <1>1. sends[j] \in Nat
    BY DEF SendInv, SendTypeOK
  <1> QED
    BY <1>1 DEF PaidInv, PaidFor

LEMMA PaidStep ==
  ASSUME SendInv, PaidInv, [Next]_vars
  PROVE  PaidInv'
  <1> SUFFICES ASSUME NEW j \in Tasks PROVE PaidFor(j)'
    BY DEF PaidInv
  <1>1. SendInv' /\ Price \in Nat /\ Price' \in Nat /\ Price <= Price' /\ sends[j] \in Nat
    BY SendInvStep, PriceGrows DEF SendInv, SendTypeOK
  <1>2. ASSUME UNCHANGED sendVars
        PROVE  PaidFor(j)'
    BY <1>1, <1>2, PaidFrame DEF sendVars, Recorded
  <1>3. ASSUME NEW w \in Workers, CrashWithRollback(w)
        PROVE  PaidFor(j)'
    <2>1. Price < Price'
      BY <1>1, <1>3, InterruptionPays DEF CrashWithRollback, Crash, Interruptions
    <2> QED
      BY <1>1, <1>3, <2>1, PaidFrame DEF CrashWithRollback
  <1>4. ASSUME NEW x \in exec, Claim(x)
        PROVE  PaidFor(j)'
    <2>1. tx'[j] = tx[j] \/ tx[j] = NoTx
      BY <1>4 DEF Claim, SendInv, SendTypeOK
    <2>2. Recorded(j) => Recorded(j)'
      BY <1>4, <2>1, NoTxPhase DEF Claim, Recorded
    <2> QED
      BY <1>1, <1>4, <2>2, PaidFrame DEF Claim
  <1>5. ASSUME NEW x \in exec, ProviderAccepts(x) \/ ProviderTimesOut(x)
        PROVE  PaidFor(j)'
    <2>1. Claimed(x) /\ tx[x.task].phase = "sending" /\ Accept(x.task) /\ UNCHANGED job
      BY <1>5 DEF ProviderAccepts, ProviderTimesOut, InPhase
    <2>2. PICK phase \in {"sent", "failed_transient"} :
            Record(x.task, phase) /\ (phase = "failed_transient" => Price' = Price + 1)
      BY <1>5, InterruptionPays DEF ProviderAccepts, ProviderTimesOut, Interruptions
    <2>3. \A i \in Tasks : tx'[i].phase = IF i = x.task THEN phase ELSE tx[i].phase
      BY <2>1, <2>2, RecordChanges
    <2>4. CASE j = x.task
      <3>1. ~Recorded(j)
        BY <2>1, <2>4, ClaimedTx DEF Recorded, Claimable
      <3>2. sends'[j] <= sends[j] + 1 /\ sends'[j] \in Nat
        BY <1>1, <2>1, <2>4 DEF Accept, SendInv, SendTypeOK
      <3>3. sends[j] <= Price
        BY <3>1 DEF PaidInv, PaidFor
      <3>4. CASE phase = "sent"
        <4>1. Recorded(j)'
          BY <2>3, <2>4, <3>4 DEF Recorded
        <4> QED
          BY <1>1, <3>2, <3>3, <4>1 DEF PaidFor
      <3>5. CASE phase = "failed_transient"
        BY <1>1, <2>2, <3>2, <3>3, <3>5 DEF PaidFor
      <3> QED
        BY <3>4, <3>5
    <2>5. CASE j # x.task
      <3>1. sends'[j] = sends[j] /\ Recorded(j)' = Recorded(j)
        BY <2>1, <2>3, <2>5 DEF Accept, Recorded, SendInv, SendTypeOK
      <3> QED
        BY <1>1, <3>1, PaidFrame
    <2> QED
      BY <2>4, <2>5
  <1>6. ASSUME NEW x \in exec, NEW phase \in Phases, ProviderRefuses(x, phase)
        PROVE  PaidFor(j)'
    <2>1. \A i \in Tasks : tx'[i].phase = IF i = x.task THEN phase ELSE tx[i].phase
      BY <1>6, RecordChanges DEF ProviderRefuses, InPhase
    <2>2. Recorded(j) => Recorded(j)'
      BY <1>6, <2>1 DEF ProviderRefuses, InPhase, Recorded
    <2> QED
      BY <1>1, <1>6, <2>2, PaidFrame DEF ProviderRefuses
  <1>7. ASSUME NEW x \in exec, Commit(x)
        PROVE  PaidFor(j)'
    <2>1. Recorded(j) => Recorded(j)'
      BY <1>7, ClaimedTx DEF Commit, Recorded, SendInv, SendTypeOK, Claimable
    <2> QED
      BY <1>1, <1>7, <2>1, PaidFrame DEF Commit
  <1>8. ASSUME NEW x \in exec, CommitFails(x)
        PROVE  PaidFor(j)'
    <2>1. Price < Price'
      BY <1>1, <1>8, InterruptionPays DEF CommitFails, Interruptions
    <2> QED
      BY <1>1, <1>8, <2>1, PaidFrame DEF CommitFails
  <1>9. CASE CancelCampaign
    <2>1. Recorded(j) => Recorded(j)'
      BY <1>9, CancelChanges, NoTxPhase DEF Recorded
    <2> QED
      BY <1>1, <1>9, <2>1, CancelChanges, PaidFrame
  <1> QED
    BY <1>2, <1>3, <1>4, <1>5, <1>6, <1>7, <1>8, <1>9
    DEF Next, SendStep, ClaimFindsSettled, vars

LEMMA PaidInvariant == Spec => []PaidInv
  <1>1. Init => PaidInv
    BY NoTxPhase, QueueAssumption DEF Init, QueueInit, PaidInv, PaidFor, Recorded, Price
  <1>2. SendInv /\ PaidInv /\ [Next]_vars => PaidInv'
    BY PaidStep
  <1> QED
    BY <1>1, <1>2, SendInvariant, PTL DEF Spec

\* Whatever the provider remembers, a message after the first was paid for by a fault, and
\* there is none unless a crash, a lost answer or a failed commit is possible at all.
THEOREM DuplicatesArePaidFor == Spec => []DuplicatesNeedFaults
  <1>1. SendInv /\ PaidInv => DuplicatesNeedFaults
    <2> SUFFICES ASSUME SendInv, PaidInv, NEW j \in Tasks
                 PROVE  sends[j] <= 1 + Price
      BY DEF DuplicatesNeedFaults, Price
    <2>1. sends[j] \in Nat /\ Price \in Nat
      BY QueueAssumption DEF SendInv, SendTypeOK, QueueTypeOK, Price
    <2> QED
      BY <2>1 DEF PaidInv, PaidFor
  <1> QED
    BY <1>1, SendInvariant, PaidInvariant, PTL

\* The claim alone keeps the executors of a job apart: without crashes, lost answers and
\* failed commits, overrun leases, several workers and retries included, nothing is sent
\* twice even by a provider that forgets every key.
THEOREM ClaimsSuffice ==
  ASSUME FaultKinds \cap Interruptions = {}
  PROVE  Spec => []AtMostOneSend
  <1>1. DuplicatesNeedFaults => AtMostOneSend
    BY DEF DuplicatesNeedFaults, AtMostOneSend
  <1> QED
    BY <1>1, DuplicatesArePaidFor, PTL

\* The executors of j that may still call the provider.
Senders(j) ==
  {x \in exec : /\ x.task = j
                /\ x.verdict = "running"
                /\ ~(Claimed(x) /\ tx[j].phase # "sending")}

\* Every lease has one call to the provider to spend: an executor that has not called yet
\* still holds the call of its attempt.
CallsOf(j) ==
  /\ IsFiniteSet(Senders(j))
  /\ sends[j] + Cardinality(Senders(j)) <= row[j].attempt

CallsInv == \A j \in Tasks : CallsOf(j)

LEMMA CallsTyped ==
  ASSUME SendInv, CallsInv, NEW j \in Tasks
  PROVE  /\ IsFiniteSet(Senders(j)) /\ Cardinality(Senders(j)) \in Nat
         /\ sends[j] \in Nat /\ row[j].attempt \in Nat
         /\ sends[j] + Cardinality(Senders(j)) <= row[j].attempt
  BY FS_CardinalityType DEF CallsInv, CallsOf, SendInv, SendTypeOK, QueueTypeOK, Row

\* Nothing is sent and no executor gains a call.
LEMMA CallsFrame ==
  ASSUME SendInv, CallsInv, SendInv', NEW j \in Tasks,
         sends'[j] = sends[j], row[j].attempt <= row'[j].attempt,
         Senders(j)' \subseteq Senders(j)
  PROVE  CallsOf(j)'
  <1>1. IsFiniteSet(Senders(j)') /\ Cardinality(Senders(j)') <= Cardinality(Senders(j))
    BY CallsTyped, FS_Subset
  <1>2. Cardinality(Senders(j)') \in Nat /\ row'[j].attempt \in Nat
    BY <1>1, FS_CardinalityType DEF SendInv, QueueTypeOK, Row
  <1> QED
    BY <1>1, <1>2, CallsTyped DEF CallsOf

\* An executor calls the provider: one sender fewer, and one message more at most.
LEMMA CallSpent ==
  ASSUME SendInv, CallsInv, SendInv', NEW x \in exec, x.verdict = "running",
         InPhase(x, "sending"), Accept(x.task),
         NEW phase \in {"sent", "failed_transient"}, Record(x.task, phase),
         UNCHANGED <<row, exec>>, NEW j \in Tasks
  PROVE  CallsOf(j)'
  <1>1. Claimed(x) /\ x.task \in Tasks /\ tx[x.task].phase = "sending"
    BY ClaimedTx DEF InPhase
  <1>2. \A i \in Tasks : /\ tx'[i].phase = IF i = x.task THEN phase ELSE tx[i].phase
                         /\ tx'[i].worker = tx[i].worker
                         /\ tx'[i].attempt = tx[i].attempt
    <2>1. tx[x.task] \in Tx
      BY <1>1, ClaimedTx
    <2> QED
      BY <1>1, <2>1 DEF Record, SendInv, SendTypeOK, Tx
  <1>3. Senders(j)' = {z \in exec : /\ z.task = j
                                    /\ z.verdict = "running"
                                    /\ ~(Claimed(z)' /\ tx'[j].phase # "sending")}
    BY DEF Senders
  <1>4. CASE j = x.task
    <2>1. x \in Senders(j) /\ x \notin Senders(j)'
      BY <1>1, <1>2, <1>3, <1>4 DEF Senders, Claimed
    <2>2. Senders(j)' \subseteq Senders(j)
      BY <1>2, <1>3, <1>4 DEF Senders, Claimed
    <2>3. Senders(j)' \subseteq Senders(j) \ {x}
      BY <2>1, <2>2
    <2>4. IsFiniteSet(Senders(j) \ {x})
          /\ Cardinality(Senders(j) \ {x}) = Cardinality(Senders(j)) - 1
      BY <2>1, CallsTyped, FS_RemoveElement
    <2>5. IsFiniteSet(Senders(j)') /\ Cardinality(Senders(j)') <= Cardinality(Senders(j)) - 1
      BY <2>3, <2>4, FS_Subset
    <2>6. Cardinality(Senders(j)') \in Nat
      BY <2>5, FS_CardinalityType
    <2>7. sends'[j] <= sends[j] + 1 /\ sends'[j] \in Nat
      BY <1>1, <1>4 DEF Accept, SendInv, SendTypeOK
    <2> QED
      BY <2>5, <2>6, <2>7, CallsTyped DEF CallsOf
  <1>5. CASE j # x.task
    <2>1. Senders(j)' \subseteq Senders(j)
      BY <1>2, <1>3, <1>5 DEF Senders, Claimed
    <2>2. sends'[j] = sends[j] /\ row[j].attempt <= row'[j].attempt
      BY <1>5, CallsTyped DEF Accept, SendInv, SendTypeOK
    <2> QED
      BY <2>1, <2>2, CallsFrame
  <1> QED
    BY <1>4, <1>5

\* The executors dequeued in one batch are of different tasks.
LEMMA LeaseAddsSender ==
  ASSUME SendInv, NEW w \in Workers, NEW j \in Tasks, UNCHANGED tx,
         exec' = exec \cup {NewExecutor(w, t) : t \in locks[w]}
  PROVE  IF j \in locks[w] THEN Senders(j)' \subseteq Senders(j) \cup {NewExecutor(w, j)}
                           ELSE Senders(j)' \subseteq Senders(j)
  <1>1. \A t \in locks[w] : NewExecutor(w, t).task = t
    BY DEF NewExecutor
  <1>2. \A x \in exec' : x \in exec \/ \E t \in locks[w] : x = NewExecutor(w, t)
    OBVIOUS
  <1>3. \A x \in Senders(j)' : x \in Senders(j) \/ (j \in locks[w] /\ x = NewExecutor(w, j))
    BY <1>1, <1>2 DEF Senders, Claimed
  <1> QED
    BY <1>3

\* A handler ends, and takes its transaction with it.
LEMMA EndSpendsNothing ==
  ASSUME SendInv, ClaimInv, CallsInv, SendInv', NEW x \in exec, NEW v \in HandlerVerdicts,
         Finish(x, v), \A j \in Tasks : tx'[j] = tx[j] \/ (Claimed(x) /\ j = x.task),
         UNCHANGED <<row, sends>>, NEW j \in Tasks
  PROVE  CallsOf(j)'
  <1> DEFINE y == [x EXCEPT !.verdict = v]
  <1>1. exec' = (exec \ {x}) \cup {y} /\ y.verdict # "running"
    BY DEF Finish, SendInv, QueueTypeOK, Executor, HandlerVerdicts
  <1> HIDE DEF y
  <1>2. ASSUME NEW z \in exec, z # x, Claimed(x), z.task = x.task
        PROVE  ~Claimed(z)
    BY <1>2 DEF Claimed, ClaimInv, OneExecutorPerAttempt
  <1>3. Senders(j)' \subseteq Senders(j)
    BY <1>1, <1>2 DEF Senders, Claimed
  <1>4. row[j].attempt <= row'[j].attempt
    BY CallsTyped
  <1> QED
    BY <1>3, <1>4, CallsFrame

\* Whoever holds an open claim is still running.
LEMMA ClaimantRuns ==
  ASSUME SendInv, ClaimInv, NEW x \in exec, Claimed(x)
  PROVE  x.verdict = "running"
  <1>1. x.task \in Tasks /\ tx[x.task] # NoTx
    BY ClaimedTx, QueueAssumption DEF Claimed, NoTx
  <1>2. PICK z \in exec : z.task = x.task /\ z.verdict = "running" /\ Claimed(z)
    BY <1>1 DEF SendInv, SendTypeOK
  <1>3. z = x
    BY <1>2 DEF Claimed, ClaimInv, OneExecutorPerAttempt
  <1> QED
    BY <1>2, <1>3

LEMMA CallsStep ==
  ASSUME SendInv, ClaimInv, CallsInv, [Next]_vars
  PROVE  CallsInv'
  <1> SUFFICES ASSUME NEW j \in Tasks PROVE CallsOf(j)'
    BY DEF CallsInv
  <1>1. SendInv' /\ row[j].attempt \in Nat /\ row'[j].attempt \in Nat
    BY SendInvStep DEF SendInv, QueueTypeOK, Row
  <1>2. ASSUME [QueueNext]_queueVars, UNCHANGED sendVars
        PROVE  CallsOf(j)'
    <2>1. row[j].attempt <= row'[j].attempt
      BY <1>2, RowSteps
    <2>2. CASE exec' \subseteq exec
      <3>1. Senders(j)' \subseteq Senders(j) /\ sends'[j] = sends[j]
        BY <1>2, <2>2 DEF sendVars, Senders, Claimed
      <3> QED
        BY <1>1, <2>1, <3>1, CallsFrame
    <2>3. ASSUME NEW x \in exec, NEW v \in HandlerVerdicts, Finish(x, v)
          PROVE  CallsOf(j)'
      <3> DEFINE y == [x EXCEPT !.verdict = v]
      <3>1. exec' = (exec \ {x}) \cup {y} /\ y.verdict # "running"
        BY <2>3 DEF Finish, SendInv, QueueTypeOK, Executor, HandlerVerdicts
      <3> HIDE DEF y
      <3>2. Senders(j)' \subseteq Senders(j) /\ sends'[j] = sends[j]
        BY <1>2, <3>1 DEF sendVars, Senders, Claimed
      <3> QED
        BY <1>1, <2>1, <3>2, CallsFrame
    <2>4. ASSUME NEW w \in Workers, Lease(w),
                 exec' = exec \cup {NewExecutor(w, t) : t \in locks[w]}
          PROVE  CallsOf(j)'
      <3>1. CASE j \in locks[w]
        <4>1. Senders(j)' \subseteq Senders(j) \cup {NewExecutor(w, j)}
          BY <1>2, <2>4, <3>1, LeaseAddsSender DEF sendVars
        <4>2. /\ IsFiniteSet(Senders(j) \cup {NewExecutor(w, j)})
              /\ Cardinality(Senders(j) \cup {NewExecutor(w, j)}) = Cardinality(Senders(j))
                 \/ Cardinality(Senders(j) \cup {NewExecutor(w, j)})
                      = Cardinality(Senders(j)) + 1
          BY CallsTyped, FS_AddElement
        <4>3. /\ IsFiniteSet(Senders(j)')
              /\ Cardinality(Senders(j)')
                   <= Cardinality(Senders(j) \cup {NewExecutor(w, j)})
          BY <4>1, <4>2, FS_Subset
        <4>4. Cardinality(Senders(j)') \in Nat
          BY <4>3, FS_CardinalityType
        <4>5. row'[j].attempt = row[j].attempt + 1
          BY <2>4, <3>1, LeasedFields DEF Lease
        <4>6. sends'[j] = sends[j]
          BY <1>2 DEF sendVars
        <4>7. Cardinality(Senders(j)') <= Cardinality(Senders(j)) + 1
          BY <4>2, <4>3, <4>4, CallsTyped
        <4> QED
          BY <4>3, <4>4, <4>5, <4>6, <4>7, CallsTyped DEF CallsOf
      <3>2. CASE j \notin locks[w]
        <4>1. Senders(j)' \subseteq Senders(j) /\ sends'[j] = sends[j]
          BY <1>2, <2>4, <3>2, LeaseAddsSender DEF sendVars
        <4> QED
          BY <1>1, <2>1, <4>1, CallsFrame
      <3> QED
        BY <3>1, <3>2
    <2> QED
      BY <1>2, <2>2, <2>3, <2>4, ExecutorSteps
  <1>3. ASSUME UNCHANGED <<row, exec, sends>>, Senders(j)' \subseteq Senders(j)
        PROVE  CallsOf(j)'
    BY <1>1, <1>3, CallsFrame
  <1>4. ASSUME NEW w \in Workers, CrashWithRollback(w)
        PROVE  CallsOf(j)'
    <2>1. /\ UNCHANGED <<row, sends>>
          /\ exec' = {x \in exec : x.worker # w}
          /\ tx'[j] = IF tx[j].worker = w THEN NoTx ELSE tx[j]
      BY <1>4 DEF CrashWithRollback, Crash, ExecutorsOf
    <2>2. Senders(j)' \subseteq Senders(j)
      BY <2>1 DEF Senders, Claimed
    <2> QED
      BY <1>1, <2>1, <2>2, CallsFrame
  <1>5. ASSUME NEW x \in exec, Claim(x)
        PROVE  CallsOf(j)'
    <2>1. tx'[j] = tx[j] \/ (tx[j] = NoTx /\ tx'[j].phase = "sending")
      BY <1>5 DEF Claim, SendInv, SendTypeOK
    <2>2. \A z \in exec : tx[z.task] = NoTx => ~Claimed(z)
      BY QueueAssumption DEF Claimed, NoTx, SendInv, QueueTypeOK, Executor
    <2>3. UNCHANGED <<row, exec, sends>>
      BY <1>5 DEF Claim, queueVars
    <2>4. Senders(j)' \subseteq Senders(j)
      BY <2>1, <2>2, <2>3 DEF Senders, Claimed
    <2> QED
      BY <1>3, <2>3, <2>4
  <1>6. ASSUME NEW x \in exec, ProviderAccepts(x) \/ ProviderTimesOut(x)
        PROVE  CallsOf(j)'
    <2>1. /\ InPhase(x, "sending") /\ Accept(x.task) /\ UNCHANGED <<row, exec>>
          /\ \E phase \in {"sent", "failed_transient"} : Record(x.task, phase)
      BY <1>6 DEF ProviderAccepts, ProviderTimesOut, queueVars
    <2>2. x.verdict = "running"
      BY <2>1, ClaimantRuns DEF InPhase
    <2> QED
      BY <1>1, <2>1, <2>2, CallSpent
  <1>7. ASSUME NEW x \in exec, NEW phase \in Phases, ProviderRefuses(x, phase)
        PROVE  CallsOf(j)'
    <2>1. /\ InPhase(x, "sending") /\ UNCHANGED <<row, exec, sends>>
          /\ Record(x.task, phase) /\ Claimed(x)
      BY <1>7 DEF ProviderRefuses, InPhase, queueVars
    <2>2. tx'[j].worker = tx[j].worker /\ tx'[j].attempt = tx[j].attempt
          /\ (tx'[j].phase = tx[j].phase \/ tx[j].phase = "sending")
      BY <2>1, ClaimedTx DEF Record, InPhase, SendInv, SendTypeOK, Tx
    <2>3. Senders(j)' \subseteq Senders(j)
      BY <2>1, <2>2 DEF Senders, Claimed
    <2> QED
      BY <1>3, <2>1, <2>3
  <1>8. ASSUME NEW x \in exec, Commit(x) \/ CommitFails(x)
        PROVE  CallsOf(j)'
    <2>1. Claimed(x) /\ tx' = [tx EXCEPT ![x.task] = NoTx] /\ UNCHANGED <<row, sends>>
      BY <1>8 DEF Commit, CommitFails, HandlerReturns
    <2>2. \A i \in Tasks : tx'[i] = tx[i] \/ (Claimed(x) /\ i = x.task)
      BY <2>1 DEF SendInv, SendTypeOK
    <2>3. Commit(x) => tx[x.task].phase \in {"sent", "failed_transient", "failed_permanent"}
      BY ClaimedTx DEF Commit, Tx, Phases
    <2>4. \E v \in HandlerVerdicts : Finish(x, v)
      BY <1>8, <2>3 DEF Commit, CommitFails, HandlerReturns, Verdict, HandlerVerdicts
    <2> QED
      BY <1>1, <2>1, <2>2, <2>4, EndSpendsNothing
  <1>9. ASSUME NEW x \in exec, ClaimFindsSettled(x)
        PROVE  CallsOf(j)'
    <2>1. [QueueNext]_queueVars /\ UNCHANGED sendVars
      BY <1>9 DEF ClaimFindsSettled, QueueNext, HandlerVerdicts
    <2> QED
      BY <1>2, <2>1
  <1>10. CASE CancelCampaign \/ UNCHANGED vars
    <2>1. UNCHANGED <<row, exec, sends, tx>>
      BY <1>10 DEF CancelCampaign, queueVars, vars, sendVars
    <2> QED
      BY <1>3, <2>1 DEF Senders, Claimed
  <1>11. CASE (QueueStep \/ IdlePoll) /\ UNCHANGED sendVars
    BY <1>2, <1>11 DEF QueueNext
  <1> QED
    BY <1>4, <1>5, <1>6, <1>7, <1>8, <1>9, <1>10, <1>11 DEF Next, SendStep

LEMMA CallsInvariant == Spec => []CallsInv
  <1>1. Init => CallsInv
    <2> SUFFICES ASSUME Init, NEW j \in Tasks PROVE CallsOf(j)
      BY DEF CallsInv
    <2>1. Senders(j) = {} /\ sends[j] = 0 /\ row[j].attempt = 0
      BY DEF Init, QueueInit, Senders, AbsentRow
    <2> QED
      BY <2>1, FS_EmptySet DEF CallsOf
  <1>2. SendInv /\ (ClaimInv /\ BudgetInv) /\ CallsInv /\ [Next]_vars => CallsInv'
    BY CallsStep
  <1> QED
    BY <1>1, <1>2, SendInvariant, QueueInvariant, PTL DEF Spec

\* Whatever the provider remembers, a lease of a job's task hands it one message at most,
\* however many executors the job has and however they end.
THEOREM LeasesBoundSends == Spec => []OneSendPerLease
  <1>1. SendInv /\ CallsInv => OneSendPerLease
    BY CallsTyped DEF OneSendPerLease
  <1> QED
    BY <1>1, SendInvariant, CallsInvariant, PTL

\* Faults and leases both bound what a provider without memory lets through twice.
THEOREM DuplicatesBounded == Spec => []DuplicatesAreBounded
  BY DuplicatesArePaidFor, LeasesBoundSends, PTL DEF DuplicatesAreBounded

\* So the retry budget is also the bound on duplicates: a job is sent at most max_attempts
\* times, plus once for every lease that had to be reaped.
THEOREM DuplicatesAreBudgeted ==
  Spec => [](\A j \in Tasks : sends[j] <= MaxAttempts + reaps[j])
  <1>1. SendInv /\ OneSendPerLease /\ OneExecutorPerAttempt /\ RetryBudget =>
          \A j \in Tasks : sends[j] <= MaxAttempts + reaps[j]
    BY QueueAssumption
    DEF OneSendPerLease, RetryBudget, SendInv, SendTypeOK, QueueTypeOK, Row
  <1> QED
    BY <1>1, SendInvariant, LeasesBoundSends, PipelineKeepsBudget, PTL

-----------------------------------------------------------------------------
(* What the provider knows                                                  *)

\* What an open transaction is about to record is what the provider has done, and an
\* email has been sent exactly if its key is known.
KnownInv ==
  \A j \in Tasks :
    /\ tx[j].phase = "sent" => j \in known
    /\ tx[j].phase = "failed_permanent" => j \notin known
    /\ sends[j] = IF j \in known THEN 1 ELSE 0

LEMMA InitKnown ==
  ASSUME Init
  PROVE  KnownInv
  BY NoTxPhase DEF Init, KnownInv

\* What the provider's part of a step does.
LEMMA AcceptChanges ==
  ASSUME SharedCache, SendInv, NEW j \in Tasks, Accept(j)
  PROVE  /\ known' = known \cup {j}
         /\ \A i \in Tasks : sends'[i] = IF i = j /\ j \notin known THEN sends[i] + 1
                                         ELSE sends[i]
  BY DEF Accept, SendInv, SendTypeOK

LEMMA KnownStep ==
  ASSUME SharedCache, SendInv, KnownInv, [Next]_vars
  PROVE  KnownInv'
  <1>1. ASSUME UNCHANGED <<known, sends>>,
               \A j \in Tasks : tx'[j].phase \in {tx[j].phase, "none", "sending"}
        PROVE  KnownInv'
    BY <1>1 DEF KnownInv
  <1>2. ASSUME UNCHANGED sendVars
        PROVE  KnownInv'
    BY <1>1, <1>2 DEF sendVars
  <1>3. ASSUME NEW w \in Workers, CrashWithRollback(w)
        PROVE  KnownInv'
    BY <1>1, <1>3, NoTxPhase DEF CrashWithRollback
  <1>4. ASSUME NEW x \in exec, Claim(x)
        PROVE  KnownInv'
    <2>1. \A j \in Tasks : tx'[j].phase \in {tx[j].phase, "sending"}
      BY <1>4 DEF Claim, SendInv, SendTypeOK
    <2> QED
      BY <1>1, <1>4, <2>1 DEF Claim
  <1>5. ASSUME NEW x \in exec, Commit(x) \/ CommitFails(x)
        PROVE  KnownInv'
    <2>1. \A j \in Tasks : tx'[j].phase \in {tx[j].phase, "none"}
      BY <1>5, NoTxPhase DEF Commit, CommitFails, SendInv, SendTypeOK
    <2> QED
      BY <1>1, <1>5, <2>1 DEF Commit, CommitFails
  <1>6. ASSUME NEW x \in exec, ProviderAccepts(x) \/ ProviderTimesOut(x)
        PROVE  KnownInv'
    <2>1. Claimed(x) /\ Accept(x.task) /\ x.task \in Tasks
      BY <1>6, ClaimedTx DEF ProviderAccepts, ProviderTimesOut, InPhase
    <2>2. \E phase \in {"sent", "failed_transient"} : Record(x.task, phase)
      BY <1>6 DEF ProviderAccepts, ProviderTimesOut
    <2>3. \E phase \in {"sent", "failed_transient"} :
            \A j \in Tasks : tx'[j].phase = IF j = x.task THEN phase ELSE tx[j].phase
      BY <2>1, <2>2, RecordChanges
    <2> QED
      BY <2>1, <2>3, AcceptChanges DEF KnownInv
  <1>7. ASSUME NEW x \in exec, NEW phase \in Phases, ProviderRefuses(x, phase)
        PROVE  KnownInv'
    <2>1. \A j \in Tasks : tx'[j].phase = IF j = x.task THEN phase ELSE tx[j].phase
      BY <1>7, RecordChanges DEF ProviderRefuses, InPhase
    <2> QED
      BY <1>7, <2>1 DEF ProviderRefuses, KnownInv
  <1>8. CASE CancelCampaign
    BY <1>1, <1>8 DEF CancelCampaign
  <1> QED
    BY <1>2, <1>3, <1>4, <1>5, <1>6, <1>7, <1>8
    DEF Next, SendStep, ClaimFindsSettled, vars

LEMMA KnownInvariant ==
  ASSUME SharedCache
  PROVE  Spec => []KnownInv
  <1>1. SendInv /\ KnownInv /\ [Next]_vars => KnownInv'
    BY KnownStep
  <1> QED
    BY <1>1, InitKnown, SendInvariant, PTL DEF Spec

\* README: "nothing is sent twice". If the provider remembers idempotency keys, no number
\* of workers, crashes, overrun leases, lost answers and retries makes it accept a second
\* message for a job.
THEOREM NothingSentTwice ==
  ASSUME SharedCache
  PROVE  Spec => []AtMostOneSend
  <1>1. KnownInv => AtMostOneSend
    BY DEF KnownInv, AtMostOneSend
  <1> QED
    BY <1>1, KnownInvariant, PTL

-----------------------------------------------------------------------------
(* The pipeline implements EffectivelyOnce                                  *)

\* The refinement mapping.
OutcomeOf(status) ==
  CASE status = "sent" -> "sent"
    [] status = "failed_permanent" -> "failed"
    [] status = "cancelled" -> "cancelled"
    [] OTHER -> "open"

Mailed == {j \in Tasks : sends[j] > 0}

Outcome == [j \in Tasks |->
              CASE job[j] = "sent" -> "sent"
                [] job[j] = "failed_permanent" -> "failed"
                [] job[j] = "cancelled" -> "cancelled"
                [] OTHER -> "open"]

LEMMA OutcomeAt ==
  ASSUME NEW j \in Tasks
  PROVE  Outcome[j] = OutcomeOf(job[j]) /\ Outcome'[j] = OutcomeOf(job'[j])
  BY DEF Outcome, OutcomeOf

LEMMA OutcomeOpen ==
  ASSUME NEW status \in Claimable
  PROVE  OutcomeOf(status) = "open"
  BY DEF OutcomeOf, Claimable

LEMMA SameOutcome ==
  ASSUME \A j \in Tasks : OutcomeOf(job'[j]) = OutcomeOf(job[j])
  PROVE  Outcome' = Outcome
  <1>1. Outcome = [j \in Tasks |-> OutcomeOf(job[j])]
    BY DEF Outcome, OutcomeOf
  <1>2. Outcome' = [j \in Tasks |-> OutcomeOf(job'[j])]
    BY DEF Outcome, OutcomeOf
  <1> QED
    BY <1>1, <1>2

LEMMA MailedIsKnown ==
  ASSUME SendInv, KnownInv
  PROVE  Mailed = known
  BY DEF SendInv, SendTypeOK, KnownInv, Mailed

LEMMA OneConcludes ==
  ASSUME NEW j \in Tasks, NEW status \in SendStatuses, job' = [job EXCEPT ![j] = status],
         job \in [Tasks -> SendStatuses]
  PROVE  Outcome' = [Outcome EXCEPT ![j] = OutcomeOf(status)]
  <1>1. Outcome = [i \in Tasks |-> OutcomeOf(job[i])]
    BY DEF Outcome, OutcomeOf
  <1>2. Outcome' = [i \in Tasks |-> OutcomeOf(job'[i])]
    BY DEF Outcome, OutcomeOf
  <1>3. \A i \in Tasks : job'[i] = IF i = j THEN status ELSE job[i]
    OBVIOUS
  <1>4. [Outcome EXCEPT ![j] = OutcomeOf(status)]
          = [i \in Tasks |-> IF i = j THEN OutcomeOf(status) ELSE OutcomeOf(job[i])]
    BY <1>1
  <1> QED
    BY <1>2, <1>3, <1>4

\* A transaction commits: the job of a sent email concludes as sent, that of a refused
\* one as failed, and one that failed for now stays open.
LEMMA CommitImplements ==
  ASSUME SendInv, KnownInv, NEW x \in exec, Claimed(x), tx[x.task].phase # "sending",
         job' = [job EXCEPT ![x.task] = tx[x.task].phase], UNCHANGED <<known, sends>>
  PROVE  [Once!OnceNext]_<<Mailed, Outcome>>
  <1> DEFINE t == x.task
             phase == tx[x.task].phase
  <1>1. t \in Tasks /\ phase \in {"sent", "failed_transient", "failed_permanent"}
        /\ job[t] \in Claimable
    BY ClaimedTx DEF Tx, Phases
  <1>2. Mailed' = Mailed /\ Mailed = known
    BY MailedIsKnown DEF Mailed
  <1>3. Outcome' = [Outcome EXCEPT ![t] = OutcomeOf(phase)] /\ Outcome[t] = "open"
    <2>1. phase \in SendStatuses /\ job \in [Tasks -> SendStatuses]
      BY <1>1 DEF SendInv, SendTypeOK, SendStatuses
    <2>2. Outcome' = [Outcome EXCEPT ![t] = OutcomeOf(phase)]
      BY <1>1, <2>1, OneConcludes
    <2> QED
      BY <1>1, <2>2, OutcomeAt, OutcomeOpen
  <1>4. CASE phase = "sent"
    <2>1. OutcomeOf(phase) = "sent" /\ t \in Mailed
      BY <1>1, <1>2, <1>4 DEF OutcomeOf, KnownInv
    <2>2. Once!Conclude(t, "sent")
      BY <1>2, <1>3, <2>1 DEF Once!Conclude, Mailed, Outcome
    <2> QED
      BY <1>1, <2>2 DEF Once!OnceNext
  <1>5. CASE phase = "failed_permanent"
    <2>1. OutcomeOf(phase) = "failed" /\ t \notin Mailed
      BY <1>1, <1>2, <1>5 DEF OutcomeOf, KnownInv
    <2>2. Once!Conclude(t, "failed")
      BY <1>2, <1>3, <2>1 DEF Once!Conclude, Mailed, Outcome
    <2> QED
      BY <1>1, <2>2 DEF Once!OnceNext
  <1>6. CASE phase = "failed_transient"
    <2>1. OutcomeOf(phase) = "open"
      BY <1>6 DEF OutcomeOf
    <2>2. Outcome' = Outcome
      BY <1>1, <1>3, <2>1 DEF Outcome
    <2> QED
      BY <1>2, <2>2
  <1> QED
    BY <1>1, <1>4, <1>5, <1>6

\* The provider is called: it takes the email of an open job, or knows it already.
LEMMA AcceptImplements ==
  ASSUME SharedCache, SendInv, KnownInv, NEW x \in exec, Claimed(x), Accept(x.task),
         UNCHANGED job
  PROVE  [Once!OnceNext]_<<Mailed, Outcome>>
  <1>1. x.task \in Tasks /\ job[x.task] \in Claimable
    BY ClaimedTx
  <1>2. Outcome' = Outcome /\ Outcome[x.task] = "open"
    BY <1>1, OutcomeAt, OutcomeOpen DEF Outcome
  <1>3. Mailed = known
    BY MailedIsKnown
  <1>4. Mailed' = Mailed \cup {x.task}
    BY <1>1, <1>3, AcceptChanges DEF Mailed, KnownInv
  <1>5. CASE x.task \in known
    BY <1>2, <1>3, <1>4, <1>5
  <1>6. CASE x.task \notin known
    <2>1. Once!Mail(x.task)
      BY <1>2, <1>3, <1>4, <1>6 DEF Once!Mail, Mailed, Outcome
    <2> QED
      BY <1>1, <2>1 DEF Once!OnceNext
  <1> QED
    BY <1>5, <1>6

LEMMA CancelImplements ==
  ASSUME SendInv, KnownInv, CancelCampaign
  PROVE  [Once!OnceNext]_<<Mailed, Outcome>>
  <1>1. Mailed' = Mailed
    BY CancelChanges DEF Mailed
  <1>2. \A j \in Queued : j \in Tasks /\ Outcome[j] = "open"
    BY OutcomeAt, OutcomeOpen, CancelChanges DEF Claimable
  <1>3. \A j \in Tasks : OutcomeOf(job'[j]) = IF j \in Queued THEN "cancelled" ELSE Outcome[j]
    BY OutcomeAt, CancelChanges DEF OutcomeOf
  <1>4. Outcome' = [j \in Tasks |-> IF j \in Queued THEN "cancelled" ELSE Outcome[j]]
    <2>1. Outcome' = [j \in Tasks |-> OutcomeOf(job'[j])]
      BY DEF Outcome, OutcomeOf
    <2> QED
      BY <1>3, <2>1
  <1>5. CASE Queued = {}
    <2>1. \A j \in Tasks : OutcomeOf(job'[j]) = OutcomeOf(job[j])
      BY <1>5, CancelChanges
    <2> QED
      BY <1>1, <2>1, SameOutcome
  <1>6. CASE Queued # {}
    <2>1. PICK js \in SUBSET Tasks : js = Queued
      BY DEF Queued
    <2>2. Once!CancelOpen(js)
      BY <1>1, <1>2, <1>4, <1>6, <2>1 DEF Once!CancelOpen, Mailed, Outcome
    <2> QED
      BY <2>2 DEF Once!OnceNext
  <1> QED
    BY <1>5, <1>6

LEMMA StepImplements ==
  ASSUME SharedCache, SendInv, KnownInv, [Next]_vars
  PROVE  [Once!OnceNext]_<<Mailed, Outcome>>
  <1>1. ASSUME UNCHANGED <<job, sends>>
        PROVE  [Once!OnceNext]_<<Mailed, Outcome>>
    BY <1>1 DEF Mailed, Outcome
  <1>2. ASSUME NEW x \in exec, ProviderAccepts(x) \/ ProviderTimesOut(x)
        PROVE  [Once!OnceNext]_<<Mailed, Outcome>>
    BY <1>2, AcceptImplements DEF ProviderAccepts, ProviderTimesOut, InPhase
  <1>3. ASSUME NEW x \in exec, Commit(x)
        PROVE  [Once!OnceNext]_<<Mailed, Outcome>>
    BY <1>3, CommitImplements DEF Commit
  <1>4. ASSUME NEW x \in exec, CommitFails(x)
        PROVE  [Once!OnceNext]_<<Mailed, Outcome>>
    BY <1>1, <1>4, CommitImplements DEF CommitFails
  <1>5. CASE CancelCampaign
    BY <1>5, CancelImplements
  <1>6. ASSUME \/ UNCHANGED sendVars
               \/ \E w \in Workers : CrashWithRollback(w)
               \/ \E x \in exec : \/ Claim(x) \/ ClaimFindsSettled(x)
                                  \/ \E phase \in Phases : ProviderRefuses(x, phase)
        PROVE  UNCHANGED <<job, sends>>
    BY <1>6 DEF sendVars, CrashWithRollback, Claim, ClaimFindsSettled, ProviderRefuses
  <1> QED
    BY <1>1, <1>2, <1>3, <1>4, <1>5, <1>6 DEF Next, SendStep, vars

LEMMA InitImplements ==
  ASSUME Init
  PROVE  Once!OnceInit
  <1>1. {j \in Tasks : sends[j] > 0} = {}
    BY DEF Init
  <1>2. \A j \in Tasks : job[j] = "queued"
    BY DEF Init
  <1> QED
    BY <1>1, <1>2 DEF Once!OnceInit

\* The queue, its workers and the handler together keep the promise EffectivelyOnce makes
\* per recipient, whatever crashes, overruns or is cancelled: the email goes out at most
\* once, while its job is open, and the job concludes once and truthfully.
THEOREM PipelineImplementsOnce ==
  ASSUME SharedCache
  PROVE  Spec => ImplementsOnce
  <1>1. Init => Once!OnceInit
    BY InitImplements
  <1>2. SendInv /\ KnownInv /\ [Next]_vars => [Once!OnceNext]_<<Mailed, Outcome>>
    BY StepImplements
  <1>3. Spec => []SendInv /\ []KnownInv
    BY SendInvariant, KnownInvariant, PTL
  <1> QED
    BY <1>1, <1>2, <1>3, PTL DEF Spec, ImplementsOnce, Once!OnceSpec, Mailed, Outcome

-----------------------------------------------------------------------------
(* SEND_TRANSITIONS                                                         *)

LEMMA TableStep ==
  ASSUME SendInv, Next, NEW j \in Tasks
  PROVE  \/ RowStatus(j)' = RowStatus(j)
         \/ CanTransitionSend(RowStatus(j), RowStatus(j)')
         \/ tx'[j] = NoTx /\ job'[j] = job[j]
  <1> DEFINE Goal == \/ RowStatus(j)' = RowStatus(j)
                     \/ CanTransitionSend(RowStatus(j), RowStatus(j)')
                     \/ tx'[j] = NoTx /\ job'[j] = job[j]
  <1> USE DEF RowStatus
  <1>1. ASSUME tx'[j] = tx[j], job'[j] = job[j]
        PROVE  Goal
    BY <1>1
  <1>2. ASSUME UNCHANGED sendVars
        PROVE  Goal
    BY <1>1, <1>2 DEF sendVars
  <1>3. ASSUME NEW w \in Workers, CrashWithRollback(w)
        PROVE  Goal
    BY <1>3 DEF CrashWithRollback
  <1>4. ASSUME NEW x \in exec, Claim(x)
        PROVE  Goal
    BY <1>1, <1>4
    DEF Claim, SendInv, SendTypeOK, NoTx, Claimable, CanTransitionSend, JobPredecessors
  <1>5. ASSUME NEW x \in exec, Claimed(x), tx[x.task].phase = "sending",
               NEW phase \in {"sent", "failed_transient", "failed_permanent"},
               Record(x.task, phase), UNCHANGED job
        PROVE  Goal
    <2>1. CASE j = x.task
      <3>1. tx[j] # NoTx /\ tx'[j] # NoTx /\ tx'[j].phase = phase
        BY <1>5, <2>1, ClaimedTx, RecordChanges, QueueAssumption DEF NoTx, Claimed
      <3> QED
        BY <1>5, <2>1, <3>1 DEF CanTransitionSend, JobPredecessors
    <2>2. CASE j # x.task
      BY <1>1, <1>5, <2>2 DEF Record, SendInv, SendTypeOK
    <2> QED
      BY <2>1, <2>2
  <1>6. ASSUME NEW x \in exec, Commit(x) \/ CommitFails(x)
        PROVE  Goal
    <2>1. Claimed(x) /\ tx' = [tx EXCEPT ![x.task] = NoTx]
          /\ (job' = job \/ job' = [job EXCEPT ![x.task] = tx[x.task].phase])
      BY <1>6 DEF Commit, CommitFails
    <2>2. CASE j = x.task
      <3>1. tx[j] # NoTx
        BY <2>1, <2>2, ClaimedTx, QueueAssumption DEF Claimed, NoTx
      <3> QED
        BY <2>1, <2>2, <3>1 DEF SendInv, SendTypeOK
    <2>3. CASE j # x.task
      BY <1>1, <2>1, <2>3 DEF SendInv, SendTypeOK
    <2> QED
      BY <2>2, <2>3
  <1>7. CASE CancelCampaign
    <2>1. CASE j \in Queued
      BY <1>7, <2>1, CancelChanges DEF CanTransitionSend, JobPredecessors
    <2>2. CASE j \notin Queued
      BY <1>1, <1>7, <2>2, CancelChanges
    <2> QED
      BY <2>1, <2>2
  <1>8. ASSUME NEW x \in exec, ProviderAccepts(x) \/ ProviderTimesOut(x)
        PROVE  Goal
    BY <1>5, <1>8 DEF ProviderAccepts, ProviderTimesOut, InPhase
  <1>9. ASSUME NEW x \in exec, NEW phase \in Phases, ProviderRefuses(x, phase)
        PROVE  Goal
    BY <1>5, <1>9 DEF ProviderRefuses, InPhase
  <1> QED
    BY <1>2, <1>3, <1>4, <1>6, <1>7, <1>8, <1>9 DEF Next, SendStep, ClaimFindsSettled

\* No interleaving of workers, cancels, crashes and lost answers moves a job along an edge
\* that SEND_TRANSITIONS lacks, though nothing at run time consults the table.
THEOREM SendTableFollowed == Spec => SendFollowsTable
  <1>1. SendInv /\ [Next]_vars =>
          [\A j \in Tasks : \/ RowStatus(j)' = RowStatus(j)
                            \/ CanTransitionSend(RowStatus(j), RowStatus(j)')
                            \/ tx'[j] = NoTx /\ job'[j] = job[j]]_vars
    BY TableStep
  <1> QED
    BY <1>1, SendInvariant, PTL DEF Spec, SendFollowsTable
=============================================================================
