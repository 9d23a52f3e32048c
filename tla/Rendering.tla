------------------------------- MODULE Rendering -------------------------------
(***************************************************************************)
(* What becomes of a template: validate_template and render_for_contact of *)
(* packages/shared/render.py, run_preflight of packages/shared/preflight.py*)
(* and the values their callers hand them. All of it is pure.              *)
(*                                                                         *)
(* A content is one saved text of a template, as far as these functions    *)
(* tell texts apart:                                                       *)
(*   declared   the variables the author listed                            *)
(*   plain      the variables written {{ name }}, which VAR_PATTERN finds  *)
(*   hidden     the variables that only occur inside a longer expression,  *)
(*              {{ name | upper }} for one, which VAR_PATTERN does not find*)
(*   parses     whether it is well-formed Jinja2                           *)
(*   runs       whether the engine knows all it names: a text with an      *)
(*              unknown filter is well-formed and does not run             *)
(* A contact has fields, a function from some variables to values, and a   *)
(* name, the sequence of its words. "" is the empty value, <<>> no name.   *)
(* Left out: markup, escaping and sanitizing, and what the report says of  *)
(* links, subject and spam, which depends on the text alone.               *)
(***************************************************************************)
EXTENDS Naturals, Sequences

FirstName == "first_name"

-----------------------------------------------------------------------------
(* validate_template                                                       *)

\* extract_used_variables
Used(content) == content.plain

\* Bug: only the syntax is checked.
ValidSyntax(content) == content.parses

Valid(content) == content.parses /\ Used(content) \subseteq content.declared

-----------------------------------------------------------------------------
(* The values a contact supplies                                           *)

\* name.split(" ")[0], and "" for a contact without a name.
FirstWord(name) == IF name = <<>> THEN "" ELSE Head(name)

\* {**fields, **over}: where both have a key, over decides.
Overlaid(over, fields) ==
  [key \in DOMAIN over \cup DOMAIN fields |->
     IF key \in DOMAIN over THEN over[key] ELSE fields[key]]

Named(contact) == Overlaid([key \in {FirstName} |-> FirstWord(contact.name)], contact.fields)

\* launch_campaign: the name decides, whatever the fields say.
LaunchFields(content, contact) == Named(contact)

\* _audit_personalization: the name fills in for a missing field.
PreviewFields(content, contact) ==
  IF /\ FirstName \in content.declared \ DOMAIN contact.fields
     /\ contact.name # <<>>
  THEN Named(contact)
  ELSE contact.fields

-----------------------------------------------------------------------------
(* render_for_contact                                                      *)

\* _resolve_context
Missing(content, fields) ==
  {v \in content.declared : v \notin DOMAIN fields \/ fields[v] = ""}

\* TemplateValidationError. Missing variables render as the fallback, "", and never raise.
\* StrictUndefined raises for what is not in the context, which holds exactly the declared
\* variables. Any other error of the engine (~ content.runs, or one that the values of a
\* contact cause) is not caught.
Raises(content) == ~ content.plain \cup content.hidden \subseteq content.declared

\* The values that go into a message, for the variables it shows.
Rendered(content, fields) ==
  [v \in content.plain \cup content.hidden |->
     IF v \in Missing(content, fields) THEN "" ELSE fields[v]]

-----------------------------------------------------------------------------
(* run_preflight                                                           *)

\* Bug: a field counts as filled when the contact has it.
UnfilledAbsent(content, contact) == content.declared \ DOMAIN PreviewFields(content, contact)

\* _audit_personalization: the declared variables without a value in the context.
Unfilled(content, contact) ==
  LET context == PreviewFields(content, contact) IN
  {v \in content.declared : ~ (v \in DOMAIN context /\ context[v] # "")}

\* The contacts with a gap and what they lack. An address stands for its contact.
Gaps(content, contacts) ==
  LET lacking == [c \in contacts |-> Unfilled(content, c)] IN
  [c \in {d \in contacts : lacking[d] # {}} |-> lacking[c]]

\* The report: the gaps, of which the check missing_variables warns when there are any,
\* and what the check undeclared_variables finds.
Preflight(content, contacts) ==
  [gaps |-> Gaps(content, contacts), undeclared |-> Used(content) \ content.declared]
===============================================================================
