------------------------------ MODULE MCDashboard ------------------------------
(* Small instances of Dashboard, and so of CampaignLaunch, for TLC.          *)
EXTENDS Dashboard, TLC

CONSTANTS c1, launch1, launch2, cancel1, cancel2

OneContact == {c1}
TwoLaunches == {launch1, launch2}
TwoCancels == {cancel1, cancel2}

SomeStories == {{"delivered", "opened", "complained"}}

Reading == Shown \/ stream.phase # "idle" \/ analysis.phase # "idle"

\* A bound: the second cancel is requested, and a request dies, only where nobody reads.
ReadersWatchOneCancel == Reading => deaths = 0 /\ \E k \in Cancels : pc[k] = "waiting"

\* A bound: events of one job are processed, the open, which has a column of its own, before
\* the delivery events.
OneJobHasOutcomes ==
  /\ Cardinality({j \in Jobs : engaged[j] # {}}) <= 1
  /\ \A j \in Jobs : delivery[j] # "none" => engaged[j] # {}

RequestSymmetry == Permutations(TwoLaunches) \cup Permutations(TwoCancels)
=============================================================================
