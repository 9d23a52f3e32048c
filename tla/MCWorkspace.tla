------------------------------ MODULE MCWorkspace ------------------------------
(* A small instance of Workspace for TLC.                                    *)
EXTENDS Workspace

TwoEmails == {"ada", "bob"}

Row(email, name, cells) == [email |-> email, name |-> name, cells |-> cells]

Cell(key, value) == [key |-> key, value |-> value]

SomeProfiles ==
  {[name |-> <<"Ada">>, fields |-> FirstName :> "", tags |-> <<"t">>],
   [name |-> <<>>, fields |-> FirstName :> "A", tags |-> <<"t", "t">>]}

\* An empty cell; two rows of one address; rows that are skipped beside a good one;
\* more rows than are allowed.
SomeBatches ==
  {<<Row("ada", <<>>, <<Cell("topic", "")>>)>>,
   <<Row("ada", <<"Ada">>, <<Cell("topic", "tla")>>), Row("ada", <<>>, <<Cell(FirstName, "A")>>)>>,
   <<Row("bob", <<"Bob">>, <<Cell("topic", "tla")>>), Row("", <<>>, <<>>),
     Row("ada", <<>>, <<Cell("topic", "x"), Cell("topic", "y")>>)>>,
   [i \in 1..4 |-> Row("bob", <<>>, <<>>)]}

Plain ==
  [declared |-> {FirstName, "topic"}, plain |-> {FirstName, "topic"}, hidden |-> {},
   parses |-> TRUE, runs |-> TRUE]

Hiding == [Plain EXCEPT !.plain = {"topic"}, !.hidden = {"surname"}]

UnknownFilter == [Plain EXCEPT !.hidden = {"topic"}, !.plain = {}, !.runs = FALSE]

Undeclared == [Plain EXCEPT !.plain = @ \cup {"venue"}]

SomeContents == {Plain, Hiding, UnknownFilter, Undeclared}

SomeFilters ==
  {[tags |-> {}, group |-> 1, exclude_suppressed |-> TRUE, matching |-> Emails],
   [tags |-> {"t"}, group |-> 0, exclude_suppressed |-> TRUE, matching |-> Emails]}

Symmetric == Permutations(Imports) \cup Permutations(Edits)
================================================================================
