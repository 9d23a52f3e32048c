------------------------------ MODULE Transitions ------------------------------
(***************************************************************************)
(* The tables of packages/shared/transitions.py: which status a campaign   *)
(* or an email job may move to, and how delivery outcomes are ranked.      *)
(***************************************************************************)
EXTENDS Naturals

CampaignStatuses == {"draft", "scheduled", "launching", "running", "paused",
                     "completed", "cancelled", "failed"}

CampaignTerminal == {"completed", "cancelled", "failed"}

\* CAMPAIGN_TRANSITIONS: the allowed predecessors of each status.
CampaignPredecessors(to) ==
  CASE to = "scheduled" -> {"draft"}
    [] to = "launching" -> {"draft", "scheduled"}
    [] to = "running" -> {"launching", "paused", "running"}
    [] to = "paused" -> {"running"}
    [] to = "completed" -> {"running", "paused"}
    [] to = "cancelled" -> {"draft", "scheduled", "launching", "running", "paused"}
    [] to = "failed" -> {"launching", "running", "paused"}
    [] OTHER -> {}

CanTransitionCampaign(from, to) == from \in CampaignPredecessors(to)

JobStatuses == {"queued", "sending", "sent", "failed_transient", "failed_permanent",
                "cancelled", "skipped"}

JobTerminal == {"sent", "failed_permanent", "cancelled", "skipped"}

\* SEND_TRANSITIONS: the allowed predecessors of each send_status.
JobPredecessors(to) ==
  CASE to = "sending" -> {"queued", "sending", "failed_transient"}
    [] to = "sent" -> {"sending"}
    [] to = "failed_transient" -> {"sending"}
    [] to = "failed_permanent" -> {"sending", "queued"}
    [] to = "cancelled" -> {"queued", "failed_transient"}
    [] to = "skipped" -> {"queued"}
    [] OTHER -> {}

CanTransitionSend(from, to) == from \in JobPredecessors(to)

DeliveryStatuses == {"deferred", "delivered", "bounced", "complained"}

\* DELIVERY_RANK, with "none" for a delivery_status that is still NULL.
DeliveryRank ==
  [none |-> 0, deferred |-> 1, delivered |-> 3, bounced |-> 90, complained |-> 95]

Outranks(new, current) == DeliveryRank[new] > DeliveryRank[current]
=============================================================================
