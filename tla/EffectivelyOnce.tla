--------------------------- MODULE EffectivelyOnce ---------------------------
(***************************************************************************)
(* What a send promises, per recipient and whatever crashes underneath:    *)
(* the email is handed to the provider at most once, only while its job is *)
(* open, and a job settles once, as `sent` only if the email went out and  *)
(* as `failed` only if it did not.                                         *)
(***************************************************************************)
CONSTANT Jobs

VARIABLES
  mailed,   \* the jobs whose email the provider has accepted
  outcome   \* what became of each job: open, sent, failed or cancelled

Outcomes == {"open", "sent", "failed", "cancelled"}

OnceInit ==
  /\ mailed = {}
  /\ outcome = [j \in Jobs |-> "open"]

Mail(j) ==
  /\ outcome[j] = "open"
  /\ j \notin mailed
  /\ mailed' = mailed \cup {j}
  /\ UNCHANGED outcome

Conclude(j, o) ==
  /\ outcome[j] = "open"
  /\ o = "sent" => j \in mailed
  /\ o = "failed" => j \notin mailed
  /\ outcome' = [outcome EXCEPT ![j] = o]
  /\ UNCHANGED mailed

\* Cancelling a campaign concludes any number of open jobs at once.
CancelOpen(js) ==
  /\ js # {}
  /\ \A j \in js : outcome[j] = "open"
  /\ outcome' = [j \in Jobs |-> IF j \in js THEN "cancelled" ELSE outcome[j]]
  /\ UNCHANGED mailed

OnceNext ==
  \/ \E j \in Jobs : Mail(j) \/ Conclude(j, "sent") \/ Conclude(j, "failed")
  \/ \E js \in SUBSET Jobs : CancelOpen(js)

OnceSpec == OnceInit /\ [][OnceNext]_<<mailed, outcome>>
=============================================================================
