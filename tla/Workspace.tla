------------------------------- MODULE Workspace -------------------------------
(***************************************************************************)
(* From an address book and a template to the messages of a campaign:      *)
(* Directory and Templates, which other requests keep changing, with one   *)
(* campaign that is created and launched over them                         *)
(* (services/api/routers/campaigns.py), and the preflight reports that are *)
(* asked for beside it (services/api/routers/preflight.py). The launch is  *)
(* followed until its jobs are staged; CampaignLaunch has what happens     *)
(* then, and several launches at once.                                     *)
(*                                                                         *)
(* Both resolve the recipients in one statement and load their contacts in *)
(* the next; others may commit in between. Versions are only ever added,   *)
(* so it does not matter when exactly one is read.                         *)
(***************************************************************************)
EXTENDS Directory, Templates

CONSTANTS
  Filters,     \* the recipients a launch may ask for
  MaxRequests  \* bound: requests that ever come in

ASSUME WorkspaceAssumption == MaxRequests \in Nat

VARIABLES
  campaign,  \* the campaign, the version it pins and how far its launch has come
  report,    \* the latest preflight request and its answer
  jobs,      \* email_jobs: the values each contact's message shows
  pinned,    \* history: the content of the pinned version when the campaign was created
  barred,    \* history: the contacts that were suppressed when a launch left them out
  requests   \* history: the requests that have come in

campaignVars == <<campaign, jobs, pinned, barred>>

vars == <<directoryVars, templateVars, campaignVars, report, requests>>

NoCampaign ==
  [phase |-> "none", version |-> 0, content |-> {}, ids |-> {}, recipients |-> {}]

\* contacts is a history: the rows the report was made from.
NoReport ==
  [phase |-> "none", version |-> 0, ids |-> {}, contacts |-> {}, gaps |-> <<>>, undeclared |-> {}]

Init ==
  /\ DirectoryInit
  /\ TemplatesInit
  /\ campaign = NoCampaign
  /\ report = NoReport
  /\ jobs = <<>>
  /\ pinned = {}
  /\ barred = {}
  /\ requests = 0

\* create_campaign pins the current version. The recipients are counted, not stored.
CreateCampaign ==
  /\ campaign.phase = "none"
  /\ current > 0
  /\ campaign' = [campaign EXCEPT !.phase = "draft", !.version = current]
  /\ pinned' = versions[current]
  /\ UNCHANGED <<directoryVars, templateVars, jobs, barred>>

\* Bug: the launch takes the version that is current.
LoadedLatest == versions[current]

\* _latest_version, for the version the campaign pins.
LoadedContent == versions[campaign.version]

\* Bug: the launch uses the query of the contact list, which shows everybody.
RecipientsListed(filter) == Resolve([filter EXCEPT !.exclude_suppressed = FALSE])

Recipients(filter) == Resolve(filter)

\* launch_campaign loads the version and, from the filter it is given, resolves the
\* recipients as they are now. Nobody resolved: 422.
ResolveLaunch(filter) ==
  LET ids == Recipients(filter) IN
  /\ campaign.phase = "draft"
  /\ ids # {}
  /\ campaign' = [campaign EXCEPT !.phase = "resolved", !.content = LoadedContent, !.ids = ids]
  /\ barred' = IF filter.exclude_suppressed THEN {c \in Live : contacts[c].suppressed} ELSE {}
  /\ UNCHANGED <<directoryVars, templateVars, jobs, pinned>>

\* The contacts that are still there of those that were resolved, suppressed or not.
Loaded(ids) == ids \cap Live

LoadRecipients ==
  /\ campaign.phase = "resolved"
  /\ campaign' = [campaign EXCEPT !.phase = "loaded",
                    !.recipients = {[id |-> c, row |-> contacts[c]] : c \in Loaded(campaign.ids)}]
  /\ UNCHANGED <<directoryVars, templateVars, jobs, pinned, barred>>

\* A contact for whom rendering raises TemplateValidationError is skipped.
Renders(recipient) == ~ Raises(campaign.content)

\* One job per recipient, in one transaction. Another error of the template engine is not
\* caught and ends the launch. A job refers to its contact: when one has been deleted in
\* the meantime, nothing is staged.
StageLaunch ==
  LET staged == {r \in campaign.recipients : Renders(r)}
      row == [c \in {r.id : r \in staged} |-> (CHOOSE r \in staged : r.id = c).row] IN
  /\ campaign.phase = "loaded"
  /\ campaign.content.runs \/ staged = {}
  /\ DOMAIN row \subseteq Live
  /\ jobs' = [c \in DOMAIN row |->
       Rendered(campaign.content, LaunchFields(campaign.content, row[c]))]
  /\ mailed' = mailed \cup DOMAIN row
  /\ campaign' = [campaign EXCEPT !.phase = "staged"]
  /\ UNCHANGED <<contacts, groups, tags, members, tagged, imports, templateVars, pinned, barred>>

\* The request fails before its first commit: the campaign is a draft still.
AbortLaunch ==
  /\ campaign.phase \in {"resolved", "loaded"}
  /\ campaign' = [campaign EXCEPT !.phase = "draft", !.content = {}, !.ids = {}, !.recipients = {}]
  /\ barred' = {}
  /\ UNCHANGED <<directoryVars, templateVars, jobs, pinned>>

\* run_preflight_check takes the version that is current, whatever a campaign pins, and
\* resolves the recipients. Nobody resolved: 422.
BeginPreflight(filter) ==
  LET ids == Recipients(filter) IN
  /\ report.phase # "resolved"
  /\ current > 0
  /\ ids # {}
  /\ report' = [NoReport EXCEPT !.phase = "resolved", !.version = current, !.ids = ids]

\* It loads their contacts, and run_preflight answers.
AnswerPreflight ==
  LET rows == {contacts[c] : c \in Loaded(report.ids)}
      answer == Preflight(versions[report.version], rows) IN
  /\ report.phase = "resolved"
  /\ report' = [report EXCEPT !.phase = "answered", !.ids = {}, !.contacts = rows,
                  !.gaps = answer.gaps, !.undeclared = answer.undeclared]

Arrival ==
  \/ DirectoryArrival /\ UNCHANGED <<templateVars, campaignVars>>
  \/ TemplatesArrival /\ UNCHANGED <<directoryVars, campaignVars>>
  \/ CreateCampaign
  \/ \E filter \in Filters : ResolveLaunch(filter)

End ==
  \/ DirectoryEnd /\ UNCHANGED <<templateVars, campaignVars>>
  \/ TemplatesEnd /\ UNCHANGED <<directoryVars, campaignVars>>
  \/ LoadRecipients
  \/ StageLaunch
  \/ AbortLaunch

BookAndCampaign == <<directoryVars, templateVars, campaignVars>>

Preflights == \E filter \in Filters : BeginPreflight(filter)

Next ==
  \/ /\ requests < MaxRequests
     /\ \/ Arrival /\ UNCHANGED report
        \/ Preflights /\ UNCHANGED BookAndCampaign
     /\ requests' = requests + 1
  \/ /\ \/ End /\ UNCHANGED report
        \/ AnswerPreflight /\ UNCHANGED BookAndCampaign
     /\ UNCHANGED requests

Spec == Init /\ [][Next]_vars

-----------------------------------------------------------------------------
(* Properties                                                               *)

\* The shape of the tables, their keys and their references: one contact per address,
\* one group per name, and no membership, tag or job of a contact or group that is gone.
WorkspaceTypeOK ==
  /\ \A c, d \in Live : contacts[c].email = contacts[d].email => c = d
  /\ \A g, h \in LiveGroups : groups[g] = groups[h] => g = h
  /\ members \subseteq Live \X LiveGroups
  /\ tagged \subseteq Live \X tags
  /\ mailed \subseteq Live
  /\ DOMAIN jobs \subseteq mailed
  /\ Len(contacts) <= MaxContacts /\ Len(groups) <= MaxGroups /\ Len(versions) <= MaxVersions
  /\ current = Len(versions)
  /\ requests \in 0..MaxRequests
  /\ campaign.phase \in {"none", "draft", "resolved", "loaded", "staged"}
  /\ campaign.ids \subseteq Ids
  /\ report.phase \in {"none", "resolved", "answered"}
  /\ report.version \in 0..current

\* An import that is answered has been applied, whatever others did since it read: the
\* last accepted row of each address has its contact in the group, with all of its values,
\* unless the import had loaded the contact with just these: then it writes no fields, and
\* the contact keeps what others have written since.
\* bulk_import: "an existing suppression must survive re-import untouched", also when the
\* contact unsubscribes between the import's read and its commit.
ImportsAreApplied ==
  [][/\ \A c \in Ids : contacts[c].suppressed => contacts'[c].suppressed
     /\ \A i \in Imports :
         imports[i].phase = "loaded" /\ imports'[i].phase = "answered" =>
           \A k \in Accepted(imports[i].batch) :
             LET row == imports[i].batch[k] IN
             \/ \E l \in Accepted(imports[i].batch) :
                  l > k /\ imports[i].batch[l].email = row.email
             \/ \E c \in DOMAIN contacts' :
                  /\ contacts'[c].live
                  /\ contacts'[c].email = row.email
                  /\ <<c, imports[i].group>> \in members'
                  /\ \/ \A n \in DOMAIN row.cells :
                          /\ row.cells[n].key \in DOMAIN contacts'[c].fields
                          /\ contacts'[c].fields[row.cells[n].key] = row.cells[n].value
                     \/ /\ c \in DOMAIN imports[i].seen
                        /\ Overlaid(FieldsOf(row), imports[i].seen[c].fields)
                             = imports[i].seen[c].fields]_vars

\* update_template "always creates a new version": whoever was told that an edit is saved
\* finds it under the number it was given, however the edits overlapped.
AcceptedEditsAreStored ==
  \A e \in Edits : edits[e].phase = "answered" =>
    /\ edits[e].seen + 1 \in DOMAIN versions
    /\ versions[edits[e].seen + 1] = edits[e].content

\* templates.py: a campaign pins its version, so editing a template later can never
\* change what the campaign sends.
PinnedVersionIsSent ==
  campaign.phase \in {"resolved", "loaded", "staged"} => campaign.content = pinned

\* The right contacts get a job. launch_campaign: "a contact who unsubscribed between
\* preview and launch must not receive a send": those suppressed when the recipients are
\* resolved have none. validate_template promises that what was saved renders: everybody
\* who was resolved has one, or is deleted by then, unless the text has an expression in
\* which VAR_PATTERN finds no variable. Whoever is suppressed after that is mailed.
RightContactsAreMailed ==
  /\ DOMAIN jobs \subseteq campaign.ids \ barred
  /\ campaign.phase = "staged" /\ campaign.content.hidden \subseteq campaign.content.declared
       => campaign.ids \cap Live \subseteq DOMAIN jobs

\* The report does not know of a gap: the launch takes the first name from the name, which
\* starts with a blank or is missing, and the report takes it from the fields.
Overlooked(v, row) ==
  /\ v = FirstName
  /\ FirstWord(row.name) = ""
  /\ FirstName \in DOMAIN row.fields
  /\ row.fields[FirstName] # ""

\* The report names a gap that the launch fills: the field is there and empty, but the
\* contact has a name.
Overstated(v, row) ==
  /\ v = FirstName
  /\ FirstWord(row.name) # ""
  /\ FirstName \in DOMAIN row.fields
  /\ row.fields[FirstName] = ""

Reported(v, row) == row \in DOMAIN report.gaps /\ v \in report.gaps[row]

\* The report of run_preflight is an "exact list" of the gaps: where it was made for the
\* version the campaign sends, and the contact has not changed between the two, a message
\* shows nothing for a variable if and only if the report names it, the two cases of
\* first_name above excepted. And undeclared variables, which "should have been caught at
\* save time", it never finds.
ReportIsRight ==
  report.phase = "answered" =>
    /\ report.undeclared = {}
    /\ campaign.phase = "staged" /\ report.version = campaign.version =>
         \A r \in campaign.recipients :
           r.id \in DOMAIN jobs /\ r.row \in report.contacts =>
             \A v \in DOMAIN jobs[r.id] :
               \/ jobs[r.id][v] = "" <=> Reported(v, r.row)
               \/ jobs[r.id][v] = "" /\ Overlooked(v, r.row)
               \/ jobs[r.id][v] # "" /\ Overstated(v, r.row)
===============================================================================
