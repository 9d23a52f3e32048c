-------------------------------- MODULE Tables --------------------------------
(***************************************************************************)
(* Database tables as the schema modules describe them: which columns a    *)
(* table has, which of them an INSERT must supply, what is unique and what *)
(* refers to other tables. Column types, lengths and indexes that are not  *)
(* unique are left out.                                                    *)
(***************************************************************************)
EXTENDS Naturals

\* required: NOT NULL, optional: nullable, defaulted: has a server default,
\* unique: sets of columns, refs: pairs of a column and the table it points to.
Relation(required, optional, unique, refs) ==
  [required |-> required, optional |-> optional, defaulted |-> {},
   unique |-> unique, refs |-> refs]

\* A table with a UUID primary key.
Table(required, optional, unique, refs) ==
  Relation({"id"} \cup required, optional, {{"id"}} \cup unique, refs)

Defaulted(t, columns) ==
  [t EXCEPT !.required = @ \cup columns, !.defaulted = @ \cup columns]

\* TimestampMixin: created_at and updated_at, both defaulted to now().
Stamped(t) == Defaulted(t, {"created_at", "updated_at"})

\* A table that links rows of two others, keyed by the pair.
Link(a, tableA, b, tableB) ==
  Relation({a, b}, {}, {{a, b}}, {<<a, tableA>>, <<b, tableB>>})

Columns(t) == t.required \cup t.optional

Targets(t) == {ref[2] : ref \in t.refs}

NoTables == [name \in {} |-> {}]

\* Whether the table takes an INSERT that names these columns.
TakesInsert(t, columns) ==
  /\ columns \subseteq Columns(t)
  /\ t.required \ t.defaulted \subseteq columns
===============================================================================
