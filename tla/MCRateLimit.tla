----------------------------- MODULE MCRateLimit -----------------------------
(* A small instance of RateLimit for TLC.                                    *)
EXTENDS RateLimit

\* A signed-in user, a colleague behind the same address, and a webhook.
SomeCallers ==
  {[webhook |-> FALSE, session |-> "ada", ip |-> "office"],
   [webhook |-> FALSE, session |-> "bob", ip |-> "office"],
   [webhook |-> TRUE, session |-> "", ip |-> "provider"]}

Ada == <<"user", "ada">>
================================================================================
