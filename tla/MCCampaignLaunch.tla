--------------------------- MODULE MCCampaignLaunch ---------------------------
(* The smallest instance of CampaignLaunch with two overlapping launches.   *)
EXTENDS CampaignLaunch

CONSTANTS c1, launch1, launch2

OneContact == {c1}
TwoLaunches == {launch1, launch2}
NoCancel == {}
=============================================================================
