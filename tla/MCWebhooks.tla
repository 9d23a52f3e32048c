------------------------------ MODULE MCWebhooks ------------------------------
(* Small instances of Webhooks for TLC.                                     *)
EXTENDS Webhooks, TLC

CONSTANTS j1, e1, e2, e3

OneJob == {j1}

\* Two delivery outcomes and an open of one message.
ThreeEvents == {e1, e2, e3}
ThreeJobOf == [e \in ThreeEvents |-> j1]
ThreeKind == e1 :> "bounced" @@ e2 :> "delivered" @@ e3 :> "opened"

TwoOutcomes == {e1, e2}
TwoJobOf == [e \in TwoOutcomes |-> j1]
TwoKind == e1 :> "bounced" @@ e2 :> "delivered"

OneEvent == {e1}
OneJobOf == e1 :> j1
Opened == e1 :> "opened"

\* A bound: one event is lost or given up, not one of each.
OneMishap == Cardinality(lost) + Cardinality(abandoned \cup sweep.old) <= 1

\* A bound: the open arrives once the task of one of the outcomes is over. It shares the
\* sweep with them and no column.
OpenedAfter ==
  e3 \in stored =>
    /\ {e1, e2} \subseteq stored
    /\ \E e \in {e1, e2} : \A x \in loads : x.by # "sweeper" => x.event # e
=============================================================================
