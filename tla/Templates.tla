------------------------------- MODULE Templates -------------------------------
(***************************************************************************)
(* One template and its versions: services/api/routers/templates.py. An    *)
(* edit reads the current version number and later stores the next one;    *)
(* edits may overlap, with each other and with the archiving.              *)
(***************************************************************************)
EXTENDS Rendering, TLC

CONSTANTS
  Contents,    \* what authors submit
  Edits,       \* update requests
  MaxVersions  \* bound: versions the template ever has

ASSUME TemplatesAssumption == MaxVersions \in Nat \ {0}

VARIABLES
  current,   \* email_templates.current_version, 0 before the template is created
  versions,  \* template_versions: the content of each version there is
  archived,  \* email_templates.archived
  edits      \* what each update request has read and was told

templateVars == <<current, versions, archived, edits>>

Unread == [phase |-> "waiting", seen |-> 0, content |-> {}]

TemplatesInit ==
  /\ current = 0
  /\ versions = <<>>
  /\ archived = FALSE
  /\ edits = [e \in Edits |-> Unread]

\* create_template, and _seed_starter_templates for the templates every organization
\* starts with.
CreateTemplate(content) ==
  /\ current = 0
  /\ Valid(content)
  /\ current' = 1
  /\ versions' = <<content>>
  /\ UNCHANGED <<archived, edits>>

\* update_template loads the template and validates the text. Archived templates can be
\* edited as well.
BeginEdit(e, content) ==
  /\ edits[e].phase = "waiting"
  /\ current > 0
  /\ Valid(content)
  /\ edits' = [edits EXCEPT ![e] = [phase |-> "loaded", seen |-> current, content |-> content]]
  /\ UNCHANGED <<current, versions, archived>>

\* Bug: the number of the new version is not checked against those there are.
CommitEditOver(e) ==
  LET next == edits[e].seen + 1 IN
  /\ edits[e].phase = "loaded"
  /\ next <= MaxVersions
  /\ current' = next
  /\ versions' = next :> edits[e].content @@ versions
  /\ edits' = [edits EXCEPT ![e].phase = "answered"]
  /\ UNCHANGED archived

\* The number of the new version is the one that was loaded plus one. template_id and
\* version are a key: of two edits that loaded the same number only one is stored.
CommitEdit(e) ==
  LET next == edits[e].seen + 1 IN
  /\ edits[e].phase = "loaded"
  /\ next <= MaxVersions
  /\ next \notin DOMAIN versions
  /\ current' = next
  /\ versions' = Append(versions, edits[e].content)
  /\ edits' = [edits EXCEPT ![e].phase = "answered"]
  /\ UNCHANGED archived

\* The key refuses the edit, or its connection is lost.
AbortEdit(e) ==
  /\ edits[e].phase = "loaded"
  /\ edits' = [edits EXCEPT ![e].phase = "lost"]
  /\ UNCHANGED <<current, versions, archived>>

\* archive_template hides the template from the list and changes nothing else.
ArchiveTemplate ==
  /\ current > 0
  /\ archived' = TRUE
  /\ UNCHANGED <<current, versions, edits>>

\* A request comes in; those that are one step are answered at once.
TemplatesArrival ==
  \/ \E content \in Contents : CreateTemplate(content)
  \/ \E e \in Edits, content \in Contents : BeginEdit(e, content)
  \/ ArchiveTemplate

TemplatesEnd == \E e \in Edits : CommitEdit(e) \/ AbortEdit(e)
===============================================================================
