-------------------------------- MODULE MCAccess --------------------------------
(* A small instance of Access for TLC.                                       *)
EXTENDS Access, TLC

\* The second name collides with the first and a suffix.
TwoNames == {<<"club">>, <<"club", 2>>}

TwoPatches == {[name |-> <<"club">>, from_address |-> "a"], [name |-> <<"guild">>]}

Symmetric == Permutations(Requests)
================================================================================
