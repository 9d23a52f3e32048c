---------------------------- MODULE WorkspaceProofs ----------------------------
(***************************************************************************)
(* Machine-checked proofs about Workspace: whatever authors, importers and *)
(* operators submit, however their requests overlap, and for any bounds.   *)
(***************************************************************************)
EXTENDS Workspace, SequenceTheorems, FiniteSetTheorems, TLAPS

-----------------------------------------------------------------------------
(* Templates: the invariant                                                 *)

\* What validate_template lets through.
Savable == {content \in Contents : Valid(content)}

EditPhases == {"waiting", "loaded", "answered", "lost"}

\* The current version is the last one that is stored. An edit has loaded a version there
\* is, and the one that was answered is stored.
TemplatesInv ==
  /\ versions \in Seq(Savable)
  /\ current = Len(versions)
  /\ Len(versions) <= MaxVersions
  /\ DOMAIN edits = Edits
  /\ \A e \in Edits :
       /\ DOMAIN edits[e] = {"phase", "seen", "content"}
       /\ edits[e].phase = "loaded" =>
            edits[e].seen \in 1..Len(versions) /\ edits[e].content \in Savable
       /\ edits[e].phase = "answered" =>
            /\ edits[e].seen \in Nat
            /\ edits[e].seen + 1 \in 1..Len(versions)
            /\ versions[edits[e].seen + 1] = edits[e].content

\* No version is ever taken back or rewritten.
VersionsStand ==
  /\ Len(versions') \in Nat
  /\ DOMAIN versions \subseteq DOMAIN versions'
  /\ \A v \in DOMAIN versions : versions'[v] = versions[v]

LEMMA VersionNumbers ==
  ASSUME TemplatesInv
  PROVE  Len(versions) \in Nat /\ DOMAIN versions = 1..Len(versions)
  BY LenProperties DEF TemplatesInv

LEMMA InitTemplatesInv == TemplatesInit => TemplatesInv
  <1> SUFFICES ASSUME TemplatesInit PROVE TemplatesInv
    OBVIOUS
  <1>1. versions \in Seq(Savable) /\ Len(versions) = 0
    BY DEF TemplatesInit
  <1> QED
    BY <1>1, TemplatesAssumption DEF TemplatesInit, TemplatesInv, Unread

\* One more version is stored, and the edit that stored it, if any, is answered.
LEMMA StoredVersion ==
  ASSUME TemplatesInv, NEW content \in Savable,
         versions' = Append(versions, content)
  PROVE  /\ versions' \in Seq(Savable)
         /\ Len(versions') = Len(versions) + 1
         /\ versions'[Len(versions) + 1] = content
         /\ \A v \in 1..Len(versions) : versions'[v] = versions[v]
         /\ VersionsStand
  <1>1. versions \in Seq(Savable)
    BY DEF TemplatesInv
  <1>2. /\ versions' \in Seq(Savable)
        /\ Len(versions') = Len(versions) + 1
        /\ versions'[Len(versions) + 1] = content
        /\ \A v \in 1..Len(versions) : versions'[v] = versions[v]
    BY <1>1, AppendProperties
  <1>3. DOMAIN versions' = 1..Len(versions) + 1
    BY <1>2, LenProperties
  <1> QED
    BY <1>2, <1>3, VersionNumbers DEF VersionsStand

LEMMA CreateTemplateStep ==
  ASSUME TemplatesInv, NEW content \in Contents, CreateTemplate(content)
  PROVE  TemplatesInv' /\ VersionsStand
  <1>1. content \in Savable
    BY DEF CreateTemplate, Savable
  <1>2. Len(versions) = 0 /\ versions = <<>>
    BY EmptySeq DEF CreateTemplate, TemplatesInv
  <1>3. versions' = Append(versions, content)
    BY <1>2 DEF CreateTemplate
  <1>4. /\ versions' \in Seq(Savable) /\ Len(versions') = 1 /\ VersionsStand
    BY <1>1, <1>2, <1>3, StoredVersion
  <1>5. \A e \in Edits : edits[e].phase \notin {"loaded", "answered"}
    BY <1>2 DEF TemplatesInv
  <1> QED
    BY <1>4, <1>5, TemplatesAssumption DEF TemplatesInv, CreateTemplate

LEMMA BeginEditStep ==
  ASSUME TemplatesInv, NEW e \in Edits, NEW content \in Contents, BeginEdit(e, content)
  PROVE  TemplatesInv' /\ VersionsStand
  <1>1. Len(versions) \in Nat /\ DOMAIN versions = 1..Len(versions)
    BY VersionNumbers
  <1>2. content \in Savable /\ current \in 1..Len(versions)
    BY <1>1 DEF BeginEdit, Savable, TemplatesInv
  <1> QED
    BY <1>1, <1>2 DEF TemplatesInv, BeginEdit, VersionsStand

LEMMA CommitEditStep ==
  ASSUME TemplatesInv, NEW e \in Edits, CommitEdit(e)
  PROVE  TemplatesInv' /\ VersionsStand
  <1>1. Len(versions) \in Nat /\ DOMAIN versions = 1..Len(versions)
    BY VersionNumbers
  <1>2. edits[e].seen \in 1..Len(versions) /\ edits[e].content \in Savable
    BY DEF TemplatesInv, CommitEdit
  <1>3. edits[e].seen = Len(versions)
    BY <1>1, <1>2 DEF CommitEdit
  <1>4. /\ versions' \in Seq(Savable)
        /\ Len(versions') = Len(versions) + 1
        /\ versions'[Len(versions) + 1] = edits[e].content
        /\ \A v \in 1..Len(versions) : versions'[v] = versions[v]
        /\ VersionsStand
    BY <1>2, StoredVersion DEF CommitEdit
  <1>5. \A f \in Edits : edits'[f] = IF f = e THEN [edits[f] EXCEPT !.phase = "answered"]
                                              ELSE edits[f]
    BY DEF CommitEdit, TemplatesInv
  <1>6. /\ edits'[e].phase = "answered" /\ edits'[e].seen = edits[e].seen
        /\ edits'[e].content = edits[e].content
    BY <1>5 DEF TemplatesInv
  <1>7. ASSUME NEW f \in Edits
        PROVE  /\ DOMAIN edits'[f] = {"phase", "seen", "content"}
               /\ edits'[f].phase = "loaded" =>
                    edits'[f].seen \in 1..Len(versions') /\ edits'[f].content \in Savable
               /\ edits'[f].phase = "answered" =>
                    /\ edits'[f].seen \in Nat
                    /\ edits'[f].seen + 1 \in 1..Len(versions')
                    /\ versions'[edits'[f].seen + 1] = edits'[f].content
    <2>1. CASE f = e
      <3>1. /\ edits'[f].phase = "answered" /\ edits'[f].seen = Len(versions)
            /\ edits'[f].content = edits[e].content
        BY <1>3, <1>6, <2>1
      <3>2. DOMAIN edits'[f] = {"phase", "seen", "content"}
        BY <1>5 DEF TemplatesInv
      <3> QED
        BY <1>1, <1>4, <3>1, <3>2
    <2>2. CASE f # e
      <3>1. edits'[f] = edits[f]
        BY <1>5, <2>2
      <3> QED
        BY <1>1, <1>4, <3>1 DEF TemplatesInv
    <2> QED
      BY <2>1, <2>2
  <1> QED
    BY <1>1, <1>3, <1>4, <1>7 DEF TemplatesInv, CommitEdit

LEMMA AbortEditStep ==
  ASSUME TemplatesInv, NEW e \in Edits, AbortEdit(e)
  PROVE  TemplatesInv' /\ VersionsStand
  BY VersionNumbers DEF TemplatesInv, AbortEdit, VersionsStand

LEMMA TemplatesStep ==
  ASSUME TemplatesInv, TemplatesArrival \/ TemplatesEnd \/ UNCHANGED templateVars
  PROVE  TemplatesInv' /\ VersionsStand
  <1>1. CASE TemplatesArrival
    <2>1. CASE ArchiveTemplate
      BY <2>1, VersionNumbers DEF ArchiveTemplate, TemplatesInv, VersionsStand
    <2> QED
      BY <1>1, <2>1, CreateTemplateStep, BeginEditStep DEF TemplatesArrival
  <1>2. CASE TemplatesEnd
    BY <1>2, CommitEditStep, AbortEditStep DEF TemplatesEnd
  <1>3. CASE UNCHANGED templateVars
    BY <1>3, VersionNumbers DEF templateVars, TemplatesInv, VersionsStand
  <1> QED
    BY <1>1, <1>2, <1>3

\* A step of the workspace as the template sees it.
LEMMA TemplatesPart ==
  ASSUME [Next]_vars
  PROVE  TemplatesArrival \/ TemplatesEnd \/ UNCHANGED templateVars
  BY DEF Next, Arrival, End, vars, BookAndCampaign, CreateCampaign, ResolveLaunch, LoadRecipients,
         StageLaunch, AbortLaunch

LEMMA TemplatesInvariant == Spec => []TemplatesInv
  <1>1. Init => TemplatesInv
    BY InitTemplatesInv DEF Init
  <1>2. TemplatesInv /\ [Next]_vars => TemplatesInv'
    BY TemplatesPart, TemplatesStep
  <1> QED
    BY <1>1, <1>2, PTL DEF Spec

\* Whoever was told that an edit is saved finds it under its number (templates.py).
THEOREM EditsAreKept == Spec => []AcceptedEditsAreStored
  <1>1. TemplatesInv => AcceptedEditsAreStored
    BY VersionNumbers DEF TemplatesInv, AcceptedEditsAreStored
  <1> QED
    BY <1>1, TemplatesInvariant, PTL

-----------------------------------------------------------------------------
(* The campaign: the invariant                                              *)

\* The campaign has the version it pins, with the content it had then, and the launch
\* the content of that version.
PinnedInv ==
  /\ DOMAIN campaign = {"phase", "version", "content", "ids", "recipients"}
  /\ campaign.phase \in {"none", "draft", "resolved", "loaded", "staged"}
  /\ campaign.phase # "none" =>
       campaign.version \in DOMAIN versions /\ pinned = versions[campaign.version]
  /\ campaign.phase \in {"resolved", "loaded", "staged"} =>
       campaign.content = versions[campaign.version]

\* The values launch_campaign puts into the message to a recipient.
MessageTo(r) == Rendered(campaign.content, LaunchFields(campaign.content, r.row))

\* Nobody who is barred is resolved, the recipients are among those who are, and nobody is
\* one twice. The jobs are those of the recipients for whom rendering does not raise, and
\* there are none before the launch has staged them.
RecipientsInv ==
  /\ \A c \in campaign.ids : c \notin barred
  /\ \A r \in campaign.recipients : r.id \in campaign.ids
  /\ \A r, q \in campaign.recipients : r.id = q.id => r = q
  /\ campaign.phase \in {"none", "draft", "resolved"} => campaign.recipients = {}
  /\ campaign.phase # "staged" => DOMAIN jobs = {}
  /\ campaign.phase = "staged" =>
       /\ \A r \in campaign.recipients : Renders(r) => r.id \in DOMAIN jobs
       /\ \A c \in DOMAIN jobs :
            \E r \in campaign.recipients : r.id = c /\ Renders(r) /\ jobs[c] = MessageTo(r)

CampaignInv == TemplatesInv /\ PinnedInv /\ RecipientsInv

LEMMA InitCampaignInv == Init => CampaignInv
  <1> SUFFICES ASSUME Init PROVE CampaignInv
    OBVIOUS
  <1>1. campaign = NoCampaign /\ DOMAIN jobs = {}
    BY DEF Init
  <1>2. TemplatesInv
    BY InitTemplatesInv DEF Init
  <1> QED
    BY <1>1, <1>2 DEF CampaignInv, PinnedInv, RecipientsInv, NoCampaign

\* A step of the workspace as the campaign sees it.
LEMMA CampaignPart ==
  ASSUME [Next]_vars
  PROVE  \/ CreateCampaign
         \/ \E filter \in Filters : ResolveLaunch(filter)
         \/ LoadRecipients
         \/ StageLaunch
         \/ AbortLaunch
         \/ UNCHANGED campaignVars
  BY DEF Next, Arrival, End, vars, BookAndCampaign

LEMMA CreateCampaignStep ==
  ASSUME CampaignInv, CreateCampaign
  PROVE  PinnedInv' /\ RecipientsInv'
  <1>1. current \in DOMAIN versions /\ UNCHANGED versions
    BY VersionNumbers DEF CampaignInv, TemplatesInv, CreateCampaign, templateVars
  <1>2. /\ DOMAIN campaign' = {"phase", "version", "content", "ids", "recipients"}
        /\ campaign'.phase = "draft" /\ campaign'.version = current
        /\ campaign'.ids = campaign.ids /\ campaign'.recipients = campaign.recipients
    BY DEF CampaignInv, PinnedInv, CreateCampaign
  <1>3. PinnedInv'
    BY <1>1, <1>2 DEF PinnedInv, CreateCampaign
  <1>4. RecipientsInv'
    BY <1>2 DEF CampaignInv, RecipientsInv, CreateCampaign
  <1> QED
    BY <1>3, <1>4

\* Whoever the query returns is live, and not suppressed if it excludes those.
LEMMA ResolvedContacts ==
  ASSUME NEW filter, NEW c \in Recipients(filter)
  PROVE  /\ c \in Live
         /\ filter.exclude_suppressed => ~ contacts[c].suppressed
  BY DEF Recipients, Resolve

LEMMA ResolveLaunchStep ==
  ASSUME CampaignInv, NEW filter, ResolveLaunch(filter)
  PROVE  PinnedInv' /\ RecipientsInv'
  <1>1. UNCHANGED <<versions, pinned, jobs>>
    BY DEF ResolveLaunch, templateVars
  <1>2. /\ DOMAIN campaign' = {"phase", "version", "content", "ids", "recipients"}
        /\ campaign'.phase = "resolved" /\ campaign'.version = campaign.version
        /\ campaign'.content = versions[campaign.version]
        /\ campaign'.ids = Recipients(filter)
        /\ campaign'.recipients = campaign.recipients
    BY DEF CampaignInv, PinnedInv, ResolveLaunch, LoadedContent
  <1>3. campaign.phase = "draft"
    BY DEF ResolveLaunch
  <1>4. PinnedInv'
    BY <1>1, <1>2, <1>3 DEF CampaignInv, PinnedInv
  <1>5. barred' = IF filter.exclude_suppressed THEN {c \in Live : contacts[c].suppressed} ELSE {}
    BY DEF ResolveLaunch
  <1>6. \A c \in Recipients(filter) : c \notin barred'
    BY <1>5, ResolvedContacts
  <1>7. campaign.recipients = {}
    BY <1>3 DEF CampaignInv, RecipientsInv
  <1>8. RecipientsInv'
    BY <1>1, <1>2, <1>3, <1>6, <1>7 DEF CampaignInv, RecipientsInv
  <1> QED
    BY <1>4, <1>8

LEMMA LoadRecipientsStep ==
  ASSUME CampaignInv, LoadRecipients
  PROVE  PinnedInv' /\ RecipientsInv'
  <1> DEFINE chosen == {[id |-> c, row |-> contacts[c]] : c \in Loaded(campaign.ids)}
  <1>1. UNCHANGED <<versions, pinned, jobs, barred>> /\ campaign.phase = "resolved"
    BY DEF LoadRecipients, templateVars
  <1>2. /\ DOMAIN campaign' = {"phase", "version", "content", "ids", "recipients"}
        /\ campaign'.phase = "loaded" /\ campaign'.version = campaign.version
        /\ campaign'.content = campaign.content
        /\ campaign'.ids = campaign.ids
        /\ campaign'.recipients = chosen
    BY DEF CampaignInv, PinnedInv, LoadRecipients
  <1>3. PinnedInv'
    BY <1>1, <1>2 DEF CampaignInv, PinnedInv
  <1>4. ASSUME NEW r \in chosen
        PROVE  r.id \in campaign.ids /\ r = [id |-> r.id, row |-> contacts[r.id]]
    BY DEF Loaded
  <1>5. \A r, q \in chosen : r.id = q.id => r = q
    BY <1>4
  <1>6. \A r \in chosen : r.id \in campaign.ids
    BY <1>4
  <1> HIDE DEF chosen
  <1>7. RecipientsInv'
    BY <1>1, <1>2, <1>5, <1>6 DEF CampaignInv, RecipientsInv
  <1> QED
    BY <1>3, <1>7

LEMMA StageLaunchStep ==
  ASSUME CampaignInv, StageLaunch
  PROVE  PinnedInv' /\ RecipientsInv'
  <1> DEFINE staged == {r \in campaign.recipients : Renders(r)}
             row == [c \in {r.id : r \in staged} |-> (CHOOSE r \in staged : r.id = c).row]
  <1>1. UNCHANGED <<versions, pinned, barred>>
    BY DEF StageLaunch, templateVars
  <1>2. /\ DOMAIN campaign' = {"phase", "version", "content", "ids", "recipients"}
        /\ campaign'.phase = "staged" /\ campaign'.version = campaign.version
        /\ campaign'.content = campaign.content
        /\ campaign'.ids = campaign.ids /\ campaign'.recipients = campaign.recipients
    BY DEF CampaignInv, PinnedInv, StageLaunch
  <1>3. campaign.phase = "loaded"
    BY DEF StageLaunch
  <1>4. PinnedInv'
    BY <1>1, <1>2, <1>3 DEF CampaignInv, PinnedInv
  <1>5. jobs' = [c \in {r.id : r \in staged} |->
                   Rendered(campaign.content, LaunchFields(campaign.content, row[c]))]
    BY DEF StageLaunch
  <1>6. ASSUME NEW r \in staged
        PROVE  row[r.id] = r.row
    <2>1. (CHOOSE q \in staged : q.id = r.id) = r
      BY DEF CampaignInv, RecipientsInv
    <2> HIDE DEF staged
    <2> QED
      BY <2>1
  <1>7. \A r \in campaign.recipients : Renders(r)' = Renders(r)
    BY <1>2 DEF Renders
  <1>8. ASSUME NEW c \in DOMAIN jobs'
        PROVE  \E r \in campaign.recipients :
                 r.id = c /\ Renders(r) /\ jobs'[c] = MessageTo(r)
    <2>1. PICK r \in staged : r.id = c
      BY <1>5
    <2>2. jobs'[c] = MessageTo(r)
      BY <1>5, <1>6, <2>1 DEF MessageTo
    <2> QED
      BY <2>1, <2>2
  <1>9. \A r \in campaign.recipients : Renders(r) => r.id \in DOMAIN jobs'
    BY <1>5
  <1>10. \A r : MessageTo(r)' = MessageTo(r)
    BY <1>2 DEF MessageTo
  <1> HIDE DEF staged, row
  <1>11. RecipientsInv'
    BY <1>1, <1>2, <1>7, <1>8, <1>9, <1>10 DEF CampaignInv, RecipientsInv
  <1> QED
    BY <1>4, <1>11

LEMMA AbortLaunchStep ==
  ASSUME CampaignInv, AbortLaunch
  PROVE  PinnedInv' /\ RecipientsInv'
  <1>1. /\ UNCHANGED <<versions, pinned, jobs>> /\ barred' = {}
        /\ campaign.phase \in {"resolved", "loaded"}
    BY DEF AbortLaunch, templateVars
  <1>2. /\ DOMAIN campaign' = {"phase", "version", "content", "ids", "recipients"}
        /\ campaign'.phase = "draft" /\ campaign'.version = campaign.version
        /\ campaign'.ids = {} /\ campaign'.recipients = {}
    BY DEF CampaignInv, PinnedInv, AbortLaunch
  <1> QED
    BY <1>1, <1>2 DEF CampaignInv, PinnedInv, RecipientsInv

LEMMA CampaignStep ==
  ASSUME CampaignInv, [Next]_vars
  PROVE  CampaignInv'
  <1>1. TemplatesInv' /\ VersionsStand
    BY TemplatesPart, TemplatesStep DEF CampaignInv
  <1>2. CASE UNCHANGED campaignVars
    <2>1. PinnedInv'
      BY <1>1, <1>2 DEF CampaignInv, PinnedInv, campaignVars, VersionsStand
    <2>2. RecipientsInv'
      BY <1>2 DEF CampaignInv, RecipientsInv, campaignVars, Renders, MessageTo
    <2> QED
      BY <1>1, <2>1, <2>2 DEF CampaignInv
  <1> QED
    BY <1>1, <1>2, CampaignPart, CreateCampaignStep, ResolveLaunchStep, LoadRecipientsStep,
       StageLaunchStep, AbortLaunchStep DEF CampaignInv

LEMMA CampaignInvariant == Spec => []CampaignInv
  <1>1. CampaignInv /\ [Next]_vars => CampaignInv'
    BY CampaignStep
  <1> QED
    BY <1>1, InitCampaignInv, PTL DEF Spec

\* A campaign sends the version it pinned, as it was then, whatever edits come between
\* (templates.py, campaigns.py).
THEOREM PinnedIsSent == Spec => []PinnedVersionIsSent
  <1>1. CampaignInv => PinnedVersionIsSent
    BY DEF CampaignInv, PinnedInv, PinnedVersionIsSent
  <1> QED
    BY <1>1, CampaignInvariant, PTL

\* Text that was saved and hides no variable renders.
LEMMA SavedContent ==
  ASSUME CampaignInv, campaign.phase \in {"resolved", "loaded", "staged"}
  PROVE  campaign.content \in Savable
  <1>1. campaign.content = versions[campaign.version] /\ campaign.version \in DOMAIN versions
    BY DEF CampaignInv, PinnedInv
  <1> QED
    BY <1>1, VersionNumbers, ElementOfSeq DEF CampaignInv, TemplatesInv

-----------------------------------------------------------------------------
(* The report                                                               *)

\* Apart from first_name, the values of a message and those the report looks at are the
\* same fields.
LEMMA SameFields ==
  ASSUME NEW content, NEW contact, NEW v, v # FirstName
  PROVE  LET launch == LaunchFields(content, contact)
             preview == PreviewFields(content, contact) IN
         /\ v \in DOMAIN launch <=> v \in DOMAIN preview
         /\ v \in DOMAIN launch => launch[v] = preview[v]
  <1>1. v \in DOMAIN Named(contact) <=> v \in DOMAIN contact.fields
    BY DEF Named, Overlaid
  <1>2. v \in DOMAIN Named(contact) => Named(contact)[v] = contact.fields[v]
    BY DEF Named, Overlaid
  <1> QED
    BY <1>1, <1>2 DEF LaunchFields, PreviewFields

\* For first_name they differ where the field is there: the launch takes the name.
LEMMA FirstNameDiffers ==
  ASSUME NEW content, NEW contact, FirstName \in content.declared
  PROVE  LET launch == LaunchFields(content, contact)
             preview == PreviewFields(content, contact) IN
         /\ FirstName \in DOMAIN launch
         /\ launch[FirstName] = FirstWord(contact.name)
         /\ FirstName \in DOMAIN contact.fields =>
              FirstName \in DOMAIN preview /\ preview[FirstName] = contact.fields[FirstName]
         /\ FirstName \notin DOMAIN contact.fields =>
              (FirstName \notin DOMAIN preview \/ preview[FirstName] = "")
                <=> FirstWord(contact.name) = ""
  <1>1. /\ FirstName \in DOMAIN Named(contact)
        /\ Named(contact)[FirstName] = FirstWord(contact.name)
    BY DEF Named, Overlaid
  <1>2. contact.name = <<>> => FirstWord(contact.name) = ""
    BY DEF FirstWord
  <1>3. PreviewFields(content, contact) =
          IF FirstName \in content.declared \ DOMAIN contact.fields /\ contact.name # <<>>
          THEN Named(contact) ELSE contact.fields
    BY DEF PreviewFields
  <1> HIDE DEF FirstName
  <1> QED
    BY <1>1, <1>2, <1>3, Zenon DEF LaunchFields

\* What a message shows nothing for, and what the report lacks.
LEMMA EmptyOrUnfilled ==
  ASSUME NEW content, NEW contact, NEW v \in content.plain \cup content.hidden,
         v \in content.declared
  PROVE  LET launch == LaunchFields(content, contact)
             preview == PreviewFields(content, contact) IN
         /\ Rendered(content, launch)[v] = "" <=> v \notin DOMAIN launch \/ launch[v] = ""
         /\ v \in Unfilled(content, contact) <=> v \notin DOMAIN preview \/ preview[v] = ""
  <1> DEFINE launch == LaunchFields(content, contact)
             preview == PreviewFields(content, contact)
  <1>1. Rendered(content, launch)[v] = IF v \in Missing(content, launch) THEN "" ELSE launch[v]
    BY DEF Rendered
  <1>2. v \in Missing(content, launch) <=> v \notin DOMAIN launch \/ launch[v] = ""
    BY DEF Missing
  <1>3. v \in Unfilled(content, contact) <=> ~ (v \in DOMAIN preview /\ preview[v] # "")
    BY DEF Unfilled
  <1> HIDE DEF launch, preview
  <1>4. /\ Rendered(content, launch)[v] = "" <=> v \notin DOMAIN launch \/ launch[v] = ""
        /\ v \in Unfilled(content, contact) <=> v \notin DOMAIN preview \/ preview[v] = ""
    BY <1>1, <1>2, <1>3
  <1> QED
    BY <1>4 DEF launch, preview

\* Message and report agree, the two cases of first_name excepted.
LEMMA MessageAndReport ==
  ASSUME NEW content, NEW contact, NEW v \in content.plain \cup content.hidden,
         v \in content.declared
  PROVE  LET shown == Rendered(content, LaunchFields(content, contact))[v] IN
         \/ shown = "" <=> v \in Unfilled(content, contact)
         \/ shown = "" /\ Overlooked(v, contact)
         \/ shown # "" /\ Overstated(v, contact)
  <1> DEFINE launch == LaunchFields(content, contact)
             preview == PreviewFields(content, contact)
             shown == Rendered(content, launch)[v]
  <1>1. /\ shown = "" <=> v \notin DOMAIN launch \/ launch[v] = ""
        /\ v \in Unfilled(content, contact) <=> v \notin DOMAIN preview \/ preview[v] = ""
    BY EmptyOrUnfilled
  <1> HIDE DEF shown
  <1>2. CASE v # FirstName
    <2>1. /\ v \in DOMAIN launch <=> v \in DOMAIN preview
          /\ v \in DOMAIN launch => launch[v] = preview[v]
      BY <1>2, SameFields
    <2> HIDE DEF launch, preview
    <2>2. shown = "" <=> v \in Unfilled(content, contact)
      BY <1>1, <2>1
    <2> QED
      BY <2>2 DEF shown, launch
  <1>3. CASE v = FirstName
    <2>1. /\ v \in DOMAIN launch
          /\ launch[v] = FirstWord(contact.name)
          /\ v \in DOMAIN contact.fields =>
               v \in DOMAIN preview /\ preview[v] = contact.fields[v]
          /\ v \notin DOMAIN contact.fields =>
               (v \notin DOMAIN preview \/ preview[v] = "") <=> FirstWord(contact.name) = ""
      BY <1>3, FirstNameDiffers
    <2> HIDE DEF launch, preview
    <2>2. \/ shown = "" <=> v \in Unfilled(content, contact)
          \/ shown = "" /\ Overlooked(v, contact)
          \/ shown # "" /\ Overstated(v, contact)
      BY <1>1, <1>3, <2>1 DEF Overlooked, Overstated
    <2> QED
      BY <2>2 DEF shown, launch
  <1> QED
    BY <1>2, <1>3

\* The report is that of its version and its contacts.
ReportInv ==
  /\ DOMAIN report = {"phase", "version", "ids", "contacts", "gaps", "undeclared"}
  /\ report.phase \in {"none", "resolved", "answered"}
  /\ report.version \in 0..Len(versions)
  /\ report.phase # "none" => report.version \in DOMAIN versions
  /\ report.phase = "answered" =>
       /\ report.gaps = Gaps(versions[report.version], report.contacts)
       /\ report.undeclared =
            Used(versions[report.version]) \ versions[report.version].declared

LEMMA InitReportInv == Init => ReportInv
  BY EmptySeq DEF Init, ReportInv, NoReport, TemplatesInit

LEMMA ReportStep ==
  ASSUME TemplatesInv, ReportInv, [Next]_vars
  PROVE  ReportInv'
  <1>1. VersionsStand
    BY TemplatesPart, TemplatesStep
  <1>2. Len(versions) \in Nat /\ DOMAIN versions = 1..Len(versions) /\ current = Len(versions)
    BY VersionNumbers DEF TemplatesInv
  <1>3. ASSUME NEW filter \in Filters, BeginPreflight(filter), UNCHANGED BookAndCampaign
        PROVE  ReportInv'
    <2>1. UNCHANGED versions
      BY <1>3 DEF BookAndCampaign, templateVars
    <2>2. /\ DOMAIN report' = {"phase", "version", "ids", "contacts", "gaps", "undeclared"}
          /\ report'.phase = "resolved" /\ report'.version = current
      BY <1>3 DEF BeginPreflight, NoReport
    <2>3. current \in 1..Len(versions)
      BY <1>2, <1>3 DEF BeginPreflight
    <2> QED
      BY <1>2, <2>1, <2>2, <2>3 DEF ReportInv
  <1>4. CASE AnswerPreflight /\ UNCHANGED BookAndCampaign
    <2> DEFINE rows == {contacts[c] : c \in Loaded(report.ids)}
               answer == Preflight(versions[report.version], rows)
    <2>1. UNCHANGED versions
      BY <1>4 DEF BookAndCampaign, templateVars
    <2>2. report.phase = "resolved"
          /\ report' = [report EXCEPT !.phase = "answered", !.ids = {}, !.contacts = rows,
                          !.gaps = answer.gaps, !.undeclared = answer.undeclared]
      BY <1>4 DEF AnswerPreflight
    <2>3. /\ answer.gaps = Gaps(versions[report.version], rows)
          /\ answer.undeclared =
               Used(versions[report.version]) \ versions[report.version].declared
      BY DEF Preflight
    <2> HIDE DEF rows, answer
    <2>4. /\ DOMAIN report' = {"phase", "version", "ids", "contacts", "gaps", "undeclared"}
          /\ report'.phase = "answered" /\ report'.version = report.version
          /\ report'.contacts = rows
          /\ report'.gaps = answer.gaps /\ report'.undeclared = answer.undeclared
      BY <2>2 DEF ReportInv
    <2> QED
      BY <2>1, <2>2, <2>3, <2>4 DEF ReportInv
  <1>5. CASE UNCHANGED report
    <2>1. Len(versions) <= Len(versions')
      <3>1. DOMAIN versions' = 1..Len(versions')
        BY TemplatesPart, TemplatesStep, LenProperties DEF TemplatesInv
      <3> QED
        BY <1>1, <1>2, <3>1 DEF VersionsStand
    <2> QED
      BY <1>1, <1>2, <1>5, <2>1 DEF ReportInv, VersionsStand
  <1> QED
    BY <1>3, <1>4, <1>5 DEF Next, vars, Preflights

LEMMA ReportInvariant == Spec => []ReportInv
  <1>1. TemplatesInv /\ ReportInv /\ [Next]_vars => ReportInv'
    BY ReportStep
  <1> QED
    BY <1>1, InitReportInv, TemplatesInvariant, PTL DEF Spec

\* A recipient with a job has its message.
LEMMA JobIsMessage ==
  ASSUME CampaignInv, campaign.phase = "staged",
         NEW r \in campaign.recipients, r.id \in DOMAIN jobs
  PROVE  jobs[r.id] = MessageTo(r) /\ Renders(r)
  <1>1. PICK q \in campaign.recipients :
          q.id = r.id /\ Renders(q) /\ jobs[r.id] = MessageTo(q)
    BY DEF CampaignInv, RecipientsInv
  <1>2. q = r
    BY <1>1 DEF CampaignInv, RecipientsInv
  <1> QED
    BY <1>1, <1>2

LEMMA ReportFits ==
  ASSUME CampaignInv, ReportInv, report.phase = "answered",
         campaign.phase = "staged", report.version = campaign.version,
         NEW r \in campaign.recipients, r.id \in DOMAIN jobs, r.row \in report.contacts,
         NEW v \in DOMAIN jobs[r.id]
  PROVE  \/ jobs[r.id][v] = "" <=> Reported(v, r.row)
         \/ jobs[r.id][v] = "" /\ Overlooked(v, r.row)
         \/ jobs[r.id][v] # "" /\ Overstated(v, r.row)
  <1> DEFINE content == campaign.content
             lacking == [c \in report.contacts |-> Unfilled(content, c)]
  <1>1. jobs[r.id] = Rendered(content, LaunchFields(content, r.row)) /\ Renders(r)
    BY JobIsMessage DEF MessageTo
  <1>2. v \in content.plain \cup content.hidden
    BY <1>1 DEF Rendered
  <1>3. v \in content.declared
    BY <1>1, <1>2 DEF Renders, Raises
  <1>4. report.gaps = [c \in {d \in report.contacts : lacking[d] # {}} |-> lacking[c]]
    <2>1. content = versions[report.version]
      BY DEF CampaignInv, PinnedInv
    <2> QED
      BY <2>1 DEF ReportInv, Gaps
  <1>5. lacking[r.row] = Unfilled(content, r.row)
    OBVIOUS
  <1> HIDE DEF lacking
  <1>6. Reported(v, r.row) <=> v \in Unfilled(content, r.row)
    BY <1>4, <1>5 DEF Reported
  <1> HIDE DEF content
  <1> QED
    BY <1>1, <1>2, <1>3, <1>6, MessageAndReport

\* Where the report was made for the version that is sent, and of the contact as it was
\* loaded, a message shows nothing for a variable if and only if the report names it, the
\* two cases of first_name excepted; and it never finds an undeclared variable
\* (run_preflight, launch_campaign).
THEOREM ReportDoesFit == Spec => []ReportIsRight
  <1>1. ASSUME CampaignInv, ReportInv, report.phase = "answered"
        PROVE  report.undeclared = {}
    <2>1. versions[report.version] \in Savable
      BY <1>1, VersionNumbers, ElementOfSeq DEF CampaignInv, TemplatesInv, ReportInv
    <2> QED
      BY <1>1, <2>1 DEF Savable, Valid, ReportInv
  <1>2. CampaignInv /\ ReportInv => ReportIsRight
    BY <1>1, ReportFits DEF ReportIsRight
  <1> QED
    BY <1>2, CampaignInvariant, ReportInvariant, PTL

-----------------------------------------------------------------------------
(* The address book: its table of contacts                                  *)

Rows(table) == {table[i] : i \in DOMAIN table}

IsTable(table) == table \in Seq(Rows(table))

LEMMA SequenceIsTable ==
  ASSUME NEW S, NEW table \in Seq(S)
  PROVE  IsTable(table)
  <1>1. /\ Len(table) \in Nat /\ DOMAIN table = 1..Len(table)
        /\ table \in [1..Len(table) -> S]
    BY LenProperties
  <1>2. \A i \in 1..Len(table) : table[i] \in Rows(table)
    BY <1>1 DEF Rows
  <1>3. table \in [1..Len(table) -> Rows(table)]
    BY <1>1, <1>2
  <1> QED
    BY <1>1, <1>3, SeqDef DEF IsTable

LEMMA TableLength ==
  ASSUME NEW table, IsTable(table)
  PROVE  Len(table) \in Nat /\ DOMAIN table = 1..Len(table)
  BY LenProperties DEF IsTable

\* Rows are added after those there are, which stay as they are.
LEMMA ExtendedTable ==
  ASSUME NEW table, IsTable(table), NEW S, NEW more \in Seq(S)
  PROVE  LET new == table \o more IN
         /\ IsTable(new)
         /\ Len(new) = Len(table) + Len(more)
         /\ \A i \in 1..Len(table) : new[i] = table[i]
         /\ \A i \in 1..Len(more) : new[Len(table) + i] = more[i]
  <1> DEFINE T == Rows(table) \cup S
             new == table \o more
  <1>1. table \in Seq(T) /\ more \in Seq(T)
    BY SeqMonotonic DEF IsTable
  <1>2. /\ new \in Seq(T)
        /\ Len(new) = Len(table) + Len(more)
        /\ \A i \in 1..Len(table) + Len(more) :
             new[i] = IF i <= Len(table) THEN table[i] ELSE more[i - Len(table)]
    BY <1>1, ConcatProperties
  <1>3. Len(table) \in Nat /\ Len(more) \in Nat
    BY <1>1, LenProperties
  <1>4. IsTable(new)
    BY <1>2, SequenceIsTable
  <1> HIDE DEF new, T
  <1>5. \A i \in 1..Len(table) : new[i] = table[i]
    BY <1>2, <1>3
  <1>6. ASSUME NEW i \in 1..Len(more)
        PROVE  new[Len(table) + i] = more[i]
    <2>1. Len(table) + i \in 1..Len(table) + Len(more) /\ ~ Len(table) + i <= Len(table)
          /\ (Len(table) + i) - Len(table) = i
      BY <1>3
    <2> QED
      BY <1>2, <2>1
  <1> QED
    BY <1>2, <1>4, <1>5, <1>6 DEF new

\* One row is changed and the others stay.
LEMMA ChangedTable ==
  ASSUME NEW table, IsTable(table), NEW i \in DOMAIN table, NEW row
  PROVE  LET new == [table EXCEPT ![i] = row] IN
         /\ IsTable(new)
         /\ Len(new) = Len(table)
         /\ DOMAIN new = DOMAIN table
         /\ new[i] = row
         /\ \A j \in DOMAIN table : j # i => new[j] = table[j]
  <1> DEFINE S == Rows(table) \cup {row}
             new == [table EXCEPT ![i] = row]
  <1>1. table \in Seq(S) /\ row \in S
    BY SeqMonotonic DEF IsTable
  <1>2. i \in 1..Len(table)
    BY TableLength
  <1>3. new \in Seq(S) /\ Len(new) = Len(table)
    BY <1>1, <1>2, ExceptSeq
  <1>4. IsTable(new)
    BY <1>3, SequenceIsTable
  <1> QED
    BY <1>3, <1>4

ContactColumns == {"email", "name", "fields", "suppressed", "live"}

\* The tables are tables of their rows, one address is that of one contact and one name
\* that of one group, and what refers to a contact or a group refers to one there is.
BookInv ==
  /\ IsTable(contacts)
  /\ \A c \in Ids : DOMAIN contacts[c] = ContactColumns
  /\ groups \in Seq(GroupNames \cup {""})
  /\ Len(contacts) <= MaxContacts /\ Len(groups) <= MaxGroups
  /\ \A c, d \in Live : contacts[c].email = contacts[d].email => c = d
  /\ \A g, h \in LiveGroups : groups[g] = groups[h] => g = h
  /\ members \subseteq Live \X LiveGroups
  /\ tagged \subseteq Live \X tags
  /\ mailed \subseteq Live

\* What an import has loaded are contacts of its addresses, which keep their addresses.
ImportsInv ==
  /\ DOMAIN imports = Imports
  /\ \A i \in Imports :
       /\ DOMAIN imports[i] = {"phase", "group", "batch", "seen"}
       /\ imports[i].phase = "loaded" =>
            /\ imports[i].batch \in Batches
            /\ DOMAIN imports[i].seen \subseteq Ids
            /\ \A c \in DOMAIN imports[i].seen :
                 /\ imports[i].seen[c].email = contacts[c].email
                 /\ contacts[c].email \in Addressed(imports[i].batch)

\* No contact loses its row, its address or its suppression, and none that is deleted
\* comes back.
ContactsStand ==
  /\ Ids \subseteq Ids'
  /\ Live' \cap Ids \subseteq Live
  /\ \A c \in Ids : contacts'[c].email = contacts[c].email
  /\ \A c \in Ids : contacts[c].suppressed => contacts'[c].suppressed

LEMMA Bounds == MaxContacts \in Nat /\ MaxGroups \in Nat
  BY DirectoryAssumption

LEMMA InitBookInv == DirectoryInit => BookInv /\ ImportsInv
  <1> SUFFICES ASSUME DirectoryInit PROVE BookInv /\ ImportsInv
    OBVIOUS
  <1>1. IsTable(contacts) /\ Len(contacts) = 0 /\ Ids = {} /\ Live = {}
    <2>1. contacts = <<>>
      BY DEF DirectoryInit
    <2>2. contacts \in Seq({}) /\ Len(contacts) = 0
      BY <2>1, EmptySeq
    <2>3. Ids = {}
      BY <2>1 DEF Ids
    <2> QED
      BY <2>2, <2>3, SequenceIsTable DEF Live
  <1>2. groups \in Seq(GroupNames \cup {""}) /\ Len(groups) = 0 /\ LiveGroups = {}
    BY EmptySeq DEF DirectoryInit, LiveGroups
  <1>3. BookInv
    BY <1>1, <1>2, Bounds DEF DirectoryInit, BookInv
  <1>4. ImportsInv
    BY DEF DirectoryInit, ImportsInv, Waiting
  <1> QED
    BY <1>3, <1>4

\* As long as no contact is taken back, what the imports have loaded remains true.
LEMMA ImportsKept ==
  ASSUME ImportsInv, ContactsStand, UNCHANGED imports
  PROVE  ImportsInv'
  <1>1. ASSUME NEW i \in Imports, imports[i].phase = "loaded", NEW c \in DOMAIN imports[i].seen
        PROVE  c \in Ids' /\ contacts'[c].email = contacts[c].email
    BY <1>1 DEF ImportsInv, ContactsStand
  <1>2. \A batch : Addressed(batch)' = Addressed(batch)
    BY DEF Addressed, Accepted, Ambiguous
  <1> QED
    BY <1>1, <1>2 DEF ImportsInv

LEMMA CreateContactStep ==
  ASSUME BookInv, ImportsInv, NEW email, NEW profile, CreateContact(email, profile)
  PROVE  BookInv' /\ ImportsInv' /\ ContactsStand
  <1> DEFINE n == Len(contacts) + 1
             row == NewContact(email, profile.name, profile.fields)
  <1>1. Len(contacts) \in Nat /\ Ids = 1..Len(contacts)
    BY TableLength DEF BookInv, Ids
  <1>2. contacts' = Append(contacts, row)
    BY DEF CreateContact
  <1>3. DOMAIN row = ContactColumns /\ row.email = email /\ row.live = TRUE
    BY DEF NewContact, ContactColumns
  <1> HIDE DEF row
  <1>4. /\ contacts' \in Seq(Rows(contacts) \cup {row})
        /\ Len(contacts') = n
        /\ \A c \in Ids : contacts'[c] = contacts[c]
        /\ contacts'[n] = row
    <2>1. contacts \in Seq(Rows(contacts) \cup {row})
      BY SeqMonotonic DEF BookInv, IsTable
    <2> QED
      BY <1>1, <1>2, <2>1, AppendProperties
  <1>5. IsTable(contacts') /\ Ids' = Ids \cup {n} /\ n \notin Ids
    BY <1>1, <1>4, SequenceIsTable, TableLength DEF Ids
  <1>6. Live' = Live \cup {n}
    BY <1>3, <1>4, <1>5 DEF Live
  <1>7. \A c \in Live : contacts[c].email # email
    BY DEF CreateContact, Having
  <1>8. \A c, d \in Live' : contacts'[c].email = contacts'[d].email => c = d
    <2>1. \A c \in Live : contacts'[c].email = contacts[c].email
      BY <1>4 DEF Live
    <2>2. contacts'[n].email = email
      BY <1>3, <1>4
    <2>3. \A c, d \in Live : contacts[c].email = contacts[d].email => c = d
      BY DEF BookInv
    <2> HIDE DEF n
    <2> QED
      BY <1>6, <1>7, <2>1, <2>2, <2>3
  <1>9. tagged' \subseteq Live' \X tags'
    <2>1. /\ tagged' = tagged \cup ({n} \X Range(profile.tags))
          /\ tags' = tags \cup Range(profile.tags)
      BY <1>4 DEF CreateContact
    <2> QED
      BY <1>6, <2>1 DEF BookInv
  <1>10. LiveGroups' = LiveGroups
    BY DEF LiveGroups, CreateContact
  <1>11. BookInv'
    <2>1. Len(contacts') <= MaxContacts
      BY <1>1, <1>4, Bounds DEF CreateContact
    <2>2. \A c \in Ids' : DOMAIN contacts'[c] = ContactColumns
      BY <1>3, <1>4, <1>5 DEF BookInv
    <2> QED
      BY <1>5, <1>6, <1>8, <1>9, <1>10, <2>1, <2>2 DEF BookInv, CreateContact
  <1>12. ContactsStand
    <2>1. Live' \cap Ids \subseteq Live
      BY <1>5, <1>6
    <2> QED
      BY <1>4, <1>5, <2>1 DEF ContactsStand
  <1> QED
    BY <1>11, <1>12, ImportsKept DEF CreateContact

\* A contact is deleted or suppressed.
LEMMA MarkedContact ==
  ASSUME BookInv, NEW c \in Live, NEW row, contacts' = [contacts EXCEPT ![c] = row],
         DOMAIN row = ContactColumns, row.email = contacts[c].email,
         contacts[c].suppressed => row.suppressed
  PROVE  /\ IsTable(contacts') /\ Len(contacts') = Len(contacts) /\ Ids' = Ids
         /\ \A d \in Ids : DOMAIN contacts'[d] = ContactColumns
         /\ contacts'[c] = row
         /\ \A d \in Ids \ {c} : contacts'[d] = contacts[d]
         /\ ContactsStand
  <1>1. c \in DOMAIN contacts
    BY DEF Live, Ids
  <1>2. /\ IsTable(contacts') /\ Len(contacts') = Len(contacts) /\ Ids' = Ids
        /\ contacts'[c] = row
        /\ \A d \in Ids : d # c => contacts'[d] = contacts[d]
    BY <1>1, ChangedTable DEF BookInv, Ids
  <1>3. Live' \cap Ids \subseteq Live
    BY <1>2 DEF Live
  <1> QED
    BY <1>2, <1>3 DEF BookInv, ContactsStand

LEMMA DeleteContactStep ==
  ASSUME BookInv, ImportsInv, NEW c, DeleteContact(c)
  PROVE  BookInv' /\ ImportsInv' /\ ContactsStand
  <1> DEFINE row == [contacts[c] EXCEPT !.live = FALSE]
  <1>1. c \in Live /\ c \notin mailed
    BY DEF DeleteContact
  <1>2. DOMAIN contacts[c] = ContactColumns
    BY <1>1 DEF BookInv, Live
  <1>3. /\ DOMAIN row = ContactColumns /\ row.email = contacts[c].email /\ row.live = FALSE
        /\ row.suppressed = contacts[c].suppressed
    BY <1>2 DEF ContactColumns
  <1>4. contacts' = [contacts EXCEPT ![c] = row]
    BY DEF DeleteContact
  <1> HIDE DEF row
  <1>5. /\ IsTable(contacts') /\ Len(contacts') = Len(contacts) /\ Ids' = Ids
        /\ \A d \in Ids : DOMAIN contacts'[d] = ContactColumns
        /\ contacts'[c] = row
        /\ \A d \in Ids \ {c} : contacts'[d] = contacts[d]
        /\ ContactsStand
    BY <1>1, <1>3, <1>4, MarkedContact
  <1>6. Live' = Live \ {c}
    BY <1>3, <1>5 DEF Live
  <1>7. LiveGroups' = LiveGroups
    BY DEF LiveGroups, DeleteContact
  <1>8. members' \subseteq Live' \X LiveGroups' /\ tagged' \subseteq Live' \X tags'
    BY <1>6, <1>7 DEF BookInv, DeleteContact
  <1>9. \A d \in Live' : contacts'[d] = contacts[d] /\ d \in Live
    BY <1>5, <1>6 DEF Live
  <1>10. \A d, e \in Live' : contacts'[d].email = contacts'[e].email => d = e
    BY <1>9 DEF BookInv
  <1>11. mailed' \subseteq Live'
    BY <1>1, <1>6 DEF BookInv, DeleteContact
  <1>12. BookInv'
    BY <1>5, <1>7, <1>8, <1>10, <1>11 DEF BookInv, DeleteContact
  <1> QED
    BY <1>5, <1>12, ImportsKept DEF DeleteContact

LEMMA SuppressStep ==
  ASSUME BookInv, ImportsInv, NEW c, Suppress(c)
  PROVE  BookInv' /\ ImportsInv' /\ ContactsStand
  <1> DEFINE row == [contacts[c] EXCEPT !.suppressed = TRUE]
  <1>1. c \in Live
    BY DEF Suppress
  <1>2. DOMAIN contacts[c] = ContactColumns
    BY <1>1 DEF BookInv, Live
  <1>3. /\ DOMAIN row = ContactColumns /\ row.email = contacts[c].email /\ row.suppressed = TRUE
        /\ row.live = contacts[c].live
    BY <1>2 DEF ContactColumns
  <1>4. contacts' = [contacts EXCEPT ![c] = row]
    BY DEF Suppress
  <1> HIDE DEF row
  <1>5. /\ IsTable(contacts') /\ Len(contacts') = Len(contacts) /\ Ids' = Ids
        /\ \A d \in Ids : DOMAIN contacts'[d] = ContactColumns
        /\ contacts'[c] = row
        /\ \A d \in Ids \ {c} : contacts'[d] = contacts[d]
        /\ ContactsStand
    BY <1>1, <1>3, <1>4, MarkedContact
  <1>6. Live' = Live
    BY <1>1, <1>3, <1>5 DEF Live
  <1>7. LiveGroups' = LiveGroups
    BY DEF LiveGroups, Suppress
  <1>8. \A d \in Ids : contacts'[d].email = contacts[d].email
    BY <1>5 DEF ContactsStand
  <1>9. \A d, e \in Live' : contacts'[d].email = contacts'[e].email => d = e
    BY <1>6, <1>8 DEF BookInv, Live
  <1>10. BookInv'
    BY <1>5, <1>6, <1>7, <1>9 DEF BookInv, Suppress
  <1> QED
    BY <1>5, <1>10, ImportsKept DEF Suppress

\* Without a change to the contacts.
LEMMA ContactsUntouched ==
  ASSUME UNCHANGED contacts
  PROVE  ContactsStand /\ Ids' = Ids /\ Live' = Live
  BY DEF ContactsStand, Ids, Live

LEMMA CreateGroupStep ==
  ASSUME BookInv, ImportsInv, NEW name \in GroupNames, CreateGroup(name)
  PROVE  BookInv' /\ ImportsInv' /\ ContactsStand
  <1> DEFINE n == Len(groups) + 1
             Names == GroupNames \cup {""}
  <1>1. /\ groups' \in Seq(Names) /\ Len(groups') = n
        /\ \A g \in 1..Len(groups) : groups'[g] = groups[g]
        /\ groups'[n] = name
        /\ Len(groups) \in Nat /\ DOMAIN groups = 1..Len(groups)
    <2>1. groups \in Seq(Names) /\ name \in Names /\ groups' = Append(groups, name)
      BY DEF BookInv, CreateGroup
    <2> HIDE DEF Names
    <2> QED
      BY <2>1, AppendProperties, LenProperties
  <1>2. DOMAIN groups' = DOMAIN groups \cup {n} /\ n \notin DOMAIN groups
    <2>1. DOMAIN groups' = 1..n
      BY <1>1, LenProperties
    <2> HIDE DEF Names
    <2> QED
      BY <1>1, <2>1
  <1>3. name # ""
    BY DirectoryAssumption
  <1>4. LiveGroups' = LiveGroups \cup {n}
    <2> HIDE DEF n
    <2> QED
      BY <1>1, <1>2, <1>3 DEF LiveGroups
  <1>5. \A g \in LiveGroups : groups'[g] = groups[g] /\ groups[g] # name
    BY <1>1 DEF LiveGroups, CreateGroup
  <1>6. UNCHANGED <<contacts, tags, members, tagged, imports, mailed>>
    BY DEF CreateGroup
  <1>7. ContactsStand /\ Ids' = Ids /\ Live' = Live
    BY <1>6, ContactsUntouched
  <1>8. \A g, h \in LiveGroups' : groups'[g] = groups'[h] => g = h
    <2>1. groups'[n] = name
      BY <1>1
    <2>2. \A g, h \in LiveGroups : groups[g] = groups[h] => g = h
      BY DEF BookInv
    <2> HIDE DEF n
    <2> QED
      BY <1>4, <1>5, <2>1, <2>2
  <1>9. Len(groups') <= MaxGroups
    <2>1. Len(groups) < MaxGroups
      BY DEF CreateGroup
    <2> HIDE DEF Names
    <2> QED
      BY <1>1, <2>1, Bounds
  <1> HIDE DEF n
  <1>10. BookInv'
    BY <1>1, <1>4, <1>6, <1>7, <1>8, <1>9 DEF BookInv
  <1> QED
    BY <1>6, <1>7, <1>10, ImportsKept

LEMMA DeleteGroupStep ==
  ASSUME BookInv, ImportsInv, NEW g, DeleteGroup(g)
  PROVE  BookInv' /\ ImportsInv' /\ ContactsStand
  <1> DEFINE Names == GroupNames \cup {""}
  <1>1. g \in DOMAIN groups /\ DOMAIN groups = 1..Len(groups)
    BY LenProperties DEF BookInv, DeleteGroup, LiveGroups
  <1>2. /\ groups' \in Seq(Names) /\ Len(groups') = Len(groups)
        /\ \A h \in DOMAIN groups : groups'[h] = IF h = g THEN "" ELSE groups[h]
    <2>1. groups \in Seq(Names) /\ "" \in Names /\ groups' = [groups EXCEPT ![g] = ""]
      BY DEF BookInv, DeleteGroup
    <2> HIDE DEF Names
    <2> QED
      BY <1>1, <2>1, ExceptSeq
  <1>3. DOMAIN groups' = DOMAIN groups
    BY <1>1, <1>2, LenProperties
  <1>4. LiveGroups' = LiveGroups \ {g}
    BY <1>2, <1>3 DEF LiveGroups
  <1>5. UNCHANGED <<contacts, tags, tagged, imports, mailed>>
    BY DEF DeleteGroup
  <1>6. ContactsStand /\ Ids' = Ids /\ Live' = Live
    BY <1>5, ContactsUntouched
  <1>7. members' \subseteq Live' \X LiveGroups'
    BY <1>4, <1>6 DEF BookInv, DeleteGroup
  <1>8. \A h \in LiveGroups' : h \in LiveGroups /\ groups'[h] = groups[h]
    BY <1>2, <1>4 DEF LiveGroups
  <1>9. \A h, k \in LiveGroups' : groups'[h] = groups'[k] => h = k
    BY <1>8 DEF BookInv
  <1>10. BookInv'
    BY <1>2, <1>5, <1>6, <1>7, <1>9 DEF BookInv
  <1> QED
    BY <1>5, <1>6, <1>10, ImportsKept

-----------------------------------------------------------------------------
(* The address book: its imports                                            *)

LEMMA BeginImportStep ==
  ASSUME BookInv, ImportsInv, NEW i \in Imports, NEW g, NEW batch \in Batches,
         BeginImport(i, g, batch)
  PROVE  BookInv' /\ ImportsInv' /\ ContactsStand
  <1> DEFINE found == {d \in Live : contacts[d].email \in Addressed(batch)}
             seen == [c \in found |-> contacts[c]]
             loaded == [phase |-> "loaded", group |-> g, batch |-> batch, seen |-> seen]
  <1>1. UNCHANGED <<contacts, groups, tags, members, tagged, mailed>>
    BY DEF BeginImport
  <1>2. ContactsStand /\ Ids' = Ids /\ Live' = Live
    BY <1>1, ContactsUntouched
  <1>3. BookInv'
    BY <1>1, <1>2 DEF BookInv, LiveGroups
  <1>4. DOMAIN imports' = Imports
    BY DEF BeginImport, ImportsInv
  <1>5. \A j \in Imports : imports'[j] = IF j = i THEN loaded ELSE imports[j]
    BY DEF BeginImport, ImportsInv
  <1>6. /\ found \subseteq Ids
        /\ \A c \in found : seen[c].email = contacts[c].email
                            /\ contacts[c].email \in Addressed(batch)
    BY DEF Live
  <1>7. \A any : Addressed(any)' = Addressed(any)
    BY DEF Addressed, Accepted, Ambiguous
  <1> HIDE DEF found
  <1>8. ASSUME NEW j \in Imports
        PROVE  /\ DOMAIN imports'[j] = {"phase", "group", "batch", "seen"}
               /\ imports'[j].phase = "loaded" =>
                    /\ imports'[j].batch \in Batches
                    /\ DOMAIN imports'[j].seen \subseteq Ids
                    /\ \A c \in DOMAIN imports'[j].seen :
                         /\ imports'[j].seen[c].email = contacts[c].email
                         /\ contacts[c].email \in Addressed(imports'[j].batch)
    <2>1. CASE j = i
      <3>1. imports'[j] = loaded
        BY <1>5, <2>1
      <3>2. DOMAIN seen = found
        OBVIOUS
      <3> HIDE DEF seen
      <3> QED
        BY <1>6, <3>1, <3>2
    <2>2. CASE j # i
      <3>1. imports'[j] = imports[j]
        BY <1>5, <2>2
      <3> QED
        BY <3>1 DEF ImportsInv
    <2> QED
      BY <2>1, <2>2
  <1>9. ImportsInv'
    BY <1>1, <1>2, <1>4, <1>7, <1>8 DEF ImportsInv
  <1> QED
    BY <1>2, <1>3, <1>9

\* A batch has finitely many addresses.
LEMMA AddressedIsFinite ==
  ASSUME NEW batch \in Batches
  PROVE  IsFiniteSet(Addressed(batch))
  <1> DEFINE A == Accepted(batch)
             f == [k \in A |-> batch[k].email]
  <1>1. Len(batch) \in Nat /\ DOMAIN batch = 1..Len(batch)
    BY DirectoryAssumption
  <1>2. A \in SUBSET (1..Len(batch))
    BY <1>1 DEF Accepted
  <1>3. IsFiniteSet(1..Len(batch))
    BY <1>1, FS_Interval
  <1>4. IsFiniteSet(A)
    BY <1>2, <1>3, FS_Subset
  <1>5. f \in Surjection(A, Addressed(batch))
    BY DEF Surjection, Addressed
  <1> QED
    BY <1>4, <1>5, FS_Surjection

LEMMA UnseenIsFinite ==
  ASSUME ImportsInv, NEW i \in Imports, imports[i].phase = "loaded"
  PROVE  IsFiniteSet(Unseen(i)) /\ Cardinality(Unseen(i)) \in Nat
  <1>1. IsFiniteSet(Addressed(imports[i].batch))
    BY AddressedIsFinite DEF ImportsInv
  <1>2. Unseen(i) \in SUBSET Addressed(imports[i].batch)
    BY DEF Unseen
  <1> QED
    BY <1>1, <1>2, FS_Subset, FS_CardinalityType

\* An update changes a contact's name and fields, and neither its address nor whether it
\* is suppressed.
LEMMA UpdatedContact ==
  ASSUME NEW loaded, NEW row, NEW now, DOMAIN now = ContactColumns
  PROVE  LET new == UpdatedRow(loaded, row, now)
             merged == Overlaid(FieldsOf(row), loaded.fields) IN
         /\ DOMAIN new = ContactColumns
         /\ new.email = now.email /\ new.live = now.live /\ new.suppressed = now.suppressed
         /\ new.fields = IF merged # loaded.fields THEN merged ELSE now.fields
  BY DEF UpdatedRow, ContactColumns

\* What a commit makes of the contacts: those the import has loaded are updated, and each
\* address it found nobody for gets one contact.
Imported(i, order) ==
  LET n == Len(contacts)
      size == Cardinality(Unseen(i)) IN
  /\ order \in Bijection(1..size, Unseen(i))
  /\ IsTable(contacts')
  /\ Len(contacts') = n + size
  /\ \A c \in Ids : contacts'[c] =
       IF c \in DOMAIN imports[i].seen
       THEN UpdatedRow(imports[i].seen[c], RowOf(imports[i].batch, contacts[c].email), contacts[c])
       ELSE contacts[c]
  /\ \A k \in 1..size :
       LET row == RowOf(imports[i].batch, order[k]) IN
       contacts'[n + k] = NewContact(order[k], row.name, FieldsOf(row))
  /\ members' = members \cup
       ((DOMAIN imports[i].seen \cup {n + k : k \in 1..size}) \X {imports[i].group})

LEMMA CommittedImport ==
  ASSUME BookInv, ImportsInv, NEW i \in Imports, CommitImport(i)
  PROVE  \E order : Imported(i, order)
  <1> DEFINE n == Len(contacts)
             size == Cardinality(Unseen(i))
             batch == imports[i].batch
             seen == imports[i].seen
             updated == [c \in Ids |->
               IF c \in DOMAIN seen
               THEN UpdatedRow(seen[c], RowOf(batch, contacts[c].email), contacts[c])
               ELSE contacts[c]]
             created(order) == [k \in DOMAIN order |->
               LET row == RowOf(batch, order[k]) IN
               NewContact(order[k], row.name, FieldsOf(row))]
  <1>1. PICK order \in [1..size -> Unseen(i)] :
          /\ IsInjective(order)
          /\ contacts' = updated \o created(order)
          /\ members' = members \cup
               ((DOMAIN seen \cup {n + k : k \in DOMAIN order}) \X {imports[i].group})
    BY DEF CommitImport
  <1>2. n \in Nat /\ Ids = 1..n /\ size \in Nat /\ IsFiniteSet(Unseen(i))
    BY TableLength, UnseenIsFinite DEF BookInv, Ids, CommitImport
  <1>3. order \in Bijection(1..size, Unseen(i))
    <2>1. order \in Injection(1..size, Unseen(i))
      BY <1>1 DEF Injection
    <2>2. Cardinality(1..size) = size
      BY <1>2, FS_Interval
    <2>3. order \in Surjection(1..size, Unseen(i))
      BY <1>2, <2>1, <2>2, FS_Injection
    <2> QED
      BY <2>1, <2>3 DEF Bijection
  <1>4. DOMAIN order = 1..size
    BY <1>1
  <1> DEFINE S == {updated[c] : c \in Ids}
             T == {created(order)[k] : k \in 1..size}
             more == created(order)
  <1>5. updated \in Seq(S) /\ DOMAIN updated = 1..n
    <2>1. updated \in [1..n -> S]
      BY <1>2
    <2> HIDE DEF updated, S
    <2> QED
      BY <1>2, <2>1, SeqDef
  <1>6. more \in Seq(T) /\ DOMAIN more = 1..size
    <2>1. more \in [1..size -> T]
      BY <1>4
    <2> HIDE DEF more, T
    <2> QED
      BY <1>2, <2>1, SeqDef
  <1>7. Len(updated) = n /\ Len(more) = size
    <2> HIDE DEF updated, more, S, T, n, size
    <2>1. Len(updated) \in Nat /\ 1..Len(updated) = 1..n
      BY <1>5, LenProperties
    <2>2. Len(more) \in Nat /\ 1..Len(more) = 1..size
      BY <1>6, LenProperties
    <2> QED
      BY <1>2, <2>1, <2>2
  <1>8. /\ IsTable(contacts')
        /\ Len(contacts') = n + size
        /\ \A c \in 1..n : contacts'[c] = updated[c]
        /\ \A k \in 1..size : contacts'[n + k] = more[k]
    <2>1. IsTable(updated)
      BY <1>5, SequenceIsTable
    <2> HIDE DEF updated, S, T
    <2>2. contacts' = updated \o more
      BY <1>1
    <2> HIDE DEF more, n, size
    <2>3. LET new == updated \o more IN
          /\ IsTable(new)
          /\ Len(new) = Len(updated) + Len(more)
          /\ \A c \in 1..Len(updated) : new[c] = updated[c]
          /\ \A k \in 1..Len(more) : new[Len(updated) + k] = more[k]
      BY <1>6, <2>1, ExtendedTable
    <2> QED
      BY <1>7, <2>2, <2>3
  <1>9. \A k \in 1..size :
          LET row == RowOf(batch, order[k]) IN
          contacts'[n + k] = NewContact(order[k], row.name, FieldsOf(row))
    BY <1>4, <1>8
  <1>10. \A c \in Ids : contacts'[c] = updated[c]
    BY <1>2, <1>8
  <1>11. Imported(i, order)
    BY <1>1, <1>3, <1>4, <1>8, <1>9, <1>10 DEF Imported
  <1> QED
    BY <1>11

\* The rows of the table after a commit.
LEMMA ImportedRows ==
  ASSUME BookInv, ImportsInv, NEW i \in Imports, CommitImport(i), NEW order, Imported(i, order)
  PROVE  LET size == Cardinality(Unseen(i))
             added == {Len(contacts) + k : k \in 1..size} IN
         /\ Ids' = Ids \cup added
         /\ Ids \cap added = {}
         /\ \A c \in Ids :
              /\ DOMAIN contacts'[c] = ContactColumns
              /\ contacts'[c].email = contacts[c].email
              /\ contacts'[c].live = contacts[c].live
              /\ contacts'[c].suppressed = contacts[c].suppressed
         /\ \A k \in 1..size :
              /\ DOMAIN contacts'[Len(contacts) + k] = ContactColumns
              /\ contacts'[Len(contacts) + k].email = order[k]
              /\ contacts'[Len(contacts) + k].live = TRUE
         /\ Live' = Live \cup added
  <1> DEFINE n == Len(contacts)
             size == Cardinality(Unseen(i))
             added == {n + k : k \in 1..size}
  <1>1. n \in Nat /\ Ids = 1..n /\ size \in Nat
    BY TableLength, UnseenIsFinite DEF BookInv, Ids, CommitImport
  <1>2. Ids' = 1..n + size
    BY TableLength DEF Imported, Ids
  <1>3. Ids' = Ids \cup added /\ Ids \cap added = {}
    <2> HIDE DEF n, size
    <2>1. ASSUME NEW c \in 1..n + size, c \notin 1..n
          PROVE  c \in added
      <3>1. c - n \in 1..size /\ c = n + (c - n)
        BY <1>1, <2>1
      <3> QED
        BY <3>1
    <2>2. ASSUME NEW c \in added
          PROVE  c \in 1..n + size /\ c \notin 1..n
      BY <1>1
    <2> HIDE DEF added
    <2> QED
      BY <1>1, <1>2, <2>1, <2>2
  <1>4. ASSUME NEW c \in Ids
        PROVE  /\ DOMAIN contacts'[c] = ContactColumns
               /\ contacts'[c].email = contacts[c].email
               /\ contacts'[c].live = contacts[c].live
               /\ contacts'[c].suppressed = contacts[c].suppressed
    <2>1. DOMAIN contacts[c] = ContactColumns
      BY DEF BookInv
    <2>2. contacts'[c] = contacts[c]
          \/ contacts'[c] = UpdatedRow(imports[i].seen[c],
                                       RowOf(imports[i].batch, contacts[c].email), contacts[c])
      BY DEF Imported
    <2> QED
      BY <2>1, <2>2, UpdatedContact
  <1>5. ASSUME NEW k \in 1..size
        PROVE  /\ DOMAIN contacts'[n + k] = ContactColumns
               /\ contacts'[n + k].email = order[k]
               /\ contacts'[n + k].live = TRUE
    <2> DEFINE row == RowOf(imports[i].batch, order[k])
               name == row.name
               fields == FieldsOf(row)
    <2>1. contacts'[n + k] = NewContact(order[k], name, fields)
      BY DEF Imported
    <2> HIDE DEF name, fields
    <2> QED
      BY <2>1 DEF NewContact, ContactColumns
  <1>6. Live' = Live \cup added
    <2>1. ASSUME NEW c \in Live'
          PROVE  c \in Live \cup added
      <3>1. c \in Ids \cup added /\ contacts'[c].live
        BY <1>3 DEF Live
      <3> HIDE DEF added
      <3> QED
        BY <1>4, <3>1 DEF Live
    <2>2. ASSUME NEW c \in Live
          PROVE  c \in Live'
      <3>1. c \in Ids /\ contacts[c].live
        BY DEF Live
      <3>2. c \in Ids'
        BY <1>3, <3>1
      <3>3. contacts'[c].live = contacts[c].live
        BY <1>4, <3>1
      <3> QED
        BY <3>1, <3>2, <3>3 DEF Live
    <2>3. ASSUME NEW c \in added
          PROVE  c \in Live'
      <3>1. c \in Ids' /\ contacts'[c].live = TRUE
        BY <1>3, <1>5
      <3> QED
        BY <3>1 DEF Live
    <2> HIDE DEF added
    <2> QED
      BY <2>1, <2>2, <2>3
  <1> QED
    BY <1>3, <1>4, <1>5, <1>6

LEMMA CommitImportStep ==
  ASSUME BookInv, ImportsInv, NEW i \in Imports, CommitImport(i)
  PROVE  BookInv' /\ ImportsInv' /\ ContactsStand
  <1> DEFINE n == Len(contacts)
             size == Cardinality(Unseen(i))
             added == {n + k : k \in 1..size}
             seen == imports[i].seen
  <1>1. PICK order : Imported(i, order)
    BY CommittedImport
  <1>2. /\ Ids' = Ids \cup added
        /\ Ids \cap added = {}
        /\ \A c \in Ids :
             /\ DOMAIN contacts'[c] = ContactColumns
             /\ contacts'[c].email = contacts[c].email
             /\ contacts'[c].live = contacts[c].live
             /\ contacts'[c].suppressed = contacts[c].suppressed
        /\ \A k \in 1..size :
             /\ DOMAIN contacts'[n + k] = ContactColumns
             /\ contacts'[n + k].email = order[k]
             /\ contacts'[n + k].live = TRUE
        /\ Live' = Live \cup added
    BY <1>1, ImportedRows
  <1>3. UNCHANGED <<groups, tags, tagged, mailed>> /\ LiveGroups' = LiveGroups
    BY DEF CommitImport, LiveGroups
  <1>4. DOMAIN seen \subseteq Live /\ imports[i].group \in LiveGroups
        /\ \A email \in Unseen(i) : Having(email) = {}
    BY DEF CommitImport, Collides
  <1>5. /\ order \in [1..size -> Unseen(i)]
        /\ \A k, l \in 1..size : order[k] = order[l] => k = l
    BY <1>1 DEF Imported, Bijection, Injection, IsInjective
  <1>6. ASSUME NEW c \in Live', NEW d \in Live', contacts'[c].email = contacts'[d].email
        PROVE  c = d
    <2>1. ASSUME NEW a \in Live, NEW k \in 1..size, contacts[a].email = order[k]
          PROVE  FALSE
      BY <1>4, <1>5, <2>1 DEF Having
    <2>2. \A a \in Live : contacts'[a].email = contacts[a].email
      BY <1>2 DEF Live
    <2>3. CASE c \in Live /\ d \in Live
      <3>1. contacts[c].email = contacts[d].email
        BY <1>6, <2>2, <2>3
      <3> QED
        BY <2>3, <3>1 DEF BookInv
    <2>4. CASE c \in Live /\ d \in added
      BY <1>2, <1>6, <2>1, <2>2, <2>4
    <2>5. CASE c \in added /\ d \in Live
      BY <1>2, <1>6, <2>1, <2>2, <2>5
    <2>6. CASE c \in added /\ d \in added
      <3>1. PICK k \in 1..size, l \in 1..size : c = n + k /\ d = n + l
        BY <2>6
      <3>2. order[k] = order[l]
        BY <1>2, <1>6, <3>1
      <3> HIDE DEF n, size
      <3> QED
        BY <1>5, <3>1, <3>2
    <2> HIDE DEF added
    <2> QED
      BY <1>2, <2>3, <2>4, <2>5, <2>6
  <1>7. members' \subseteq Live' \X LiveGroups'
    <2>1. members' = members \cup ((DOMAIN seen \cup added) \X {imports[i].group})
      BY <1>1 DEF Imported
    <2> HIDE DEF added
    <2> QED
      BY <1>2, <1>3, <1>4, <2>1 DEF BookInv
  <1>8. IsTable(contacts') /\ Len(contacts') <= MaxContacts
    BY <1>1 DEF Imported, CommitImport
  <1>9. \A c \in Ids' : DOMAIN contacts'[c] = ContactColumns
    BY <1>2
  <1> HIDE DEF added
  <1>10. BookInv'
    BY <1>2, <1>3, <1>6, <1>7, <1>8, <1>9 DEF BookInv
  <1>11. ContactsStand
    BY <1>2 DEF ContactsStand
  <1>12. /\ DOMAIN imports' = Imports
         /\ \A j \in Imports : imports'[j] = IF j = i THEN [imports[j] EXCEPT !.phase = "answered"]
                                                      ELSE imports[j]
    BY DEF CommitImport, ImportsInv
  <1>13. imports'[i].phase = "answered"
         /\ DOMAIN imports'[i] = {"phase", "group", "batch", "seen"}
    BY <1>12 DEF ImportsInv
  <1>14. ImportsInv'
    <2>1. \A batch : Addressed(batch)' = Addressed(batch)
      BY DEF Addressed, Accepted, Ambiguous
    <2>2. ASSUME NEW j \in Imports, imports'[j].phase = "loaded"
          PROVE  imports'[j] = imports[j]
      BY <1>12, <1>13, <2>2
    <2>3. ASSUME NEW j \in Imports
          PROVE  DOMAIN imports'[j] = {"phase", "group", "batch", "seen"}
      BY <1>12, <1>13 DEF ImportsInv
    <2> QED
      BY <1>11, <1>12, <2>1, <2>2, <2>3 DEF ImportsInv, ContactsStand
  <1> QED
    BY <1>10, <1>11, <1>14

LEMMA AbortImportStep ==
  ASSUME BookInv, ImportsInv, NEW i \in Imports, AbortImport(i)
  PROVE  BookInv' /\ ImportsInv' /\ ContactsStand
  <1>1. UNCHANGED <<contacts, groups, tags, members, tagged, mailed>>
    BY DEF AbortImport
  <1>2. ContactsStand /\ Ids' = Ids /\ Live' = Live /\ LiveGroups' = LiveGroups
    BY <1>1, ContactsUntouched DEF LiveGroups
  <1>3. BookInv'
    BY <1>1, <1>2 DEF BookInv
  <1>4. /\ DOMAIN imports' = Imports
        /\ \A j \in Imports : imports'[j] = IF j = i THEN [imports[j] EXCEPT !.phase = "lost"]
                                                     ELSE imports[j]
    BY DEF AbortImport, ImportsInv
  <1>5. imports'[i].phase = "lost"
        /\ DOMAIN imports'[i] = {"phase", "group", "batch", "seen"}
    BY <1>4 DEF ImportsInv
  <1>6. \A batch : Addressed(batch)' = Addressed(batch)
    BY DEF Addressed, Accepted, Ambiguous
  <1>7. ASSUME NEW j \in Imports, imports'[j].phase = "loaded"
        PROVE  imports'[j] = imports[j]
    BY <1>4, <1>5, <1>7
  <1>8. ASSUME NEW j \in Imports
        PROVE  DOMAIN imports'[j] = {"phase", "group", "batch", "seen"}
    BY <1>4, <1>5 DEF ImportsInv
  <1>9. ImportsInv'
    BY <1>1, <1>2, <1>4, <1>6, <1>7, <1>8 DEF ImportsInv
  <1> QED
    BY <1>2, <1>3, <1>9

\* A launch stages its jobs: it refers to contacts there are.
LEMMA StagedBook ==
  ASSUME BookInv, ImportsInv, StageLaunch
  PROVE  BookInv' /\ ImportsInv' /\ ContactsStand
  <1>1. UNCHANGED <<contacts, groups, tags, members, tagged, imports>>
    BY DEF StageLaunch
  <1>2. ContactsStand /\ Ids' = Ids /\ Live' = Live /\ LiveGroups' = LiveGroups
    BY <1>1, ContactsUntouched DEF LiveGroups
  <1>3. mailed' \subseteq Live'
    BY <1>2 DEF StageLaunch, BookInv
  <1>4. BookInv'
    BY <1>1, <1>2, <1>3 DEF BookInv
  <1> QED
    BY <1>1, <1>2, <1>4, ImportsKept

-----------------------------------------------------------------------------
(* The whole workspace                                                      *)

\* Everybody who was resolved and is still there is a recipient once they are loaded.
LoadedInv ==
  /\ campaign.ids \subseteq Ids
  /\ campaign.phase \in {"loaded", "staged"} =>
       \A c \in campaign.ids \cap Live : \E r \in campaign.recipients : r.id = c

WorkspaceInv ==
  /\ BookInv
  /\ ImportsInv
  /\ CampaignInv
  /\ LoadedInv
  /\ ReportInv
  /\ DOMAIN jobs \subseteq mailed
  /\ requests \in 0..MaxRequests

\* A step of the workspace as the address book sees it.
LEMMA DirectoryPart ==
  ASSUME [Next]_vars
  PROVE  DirectoryArrival \/ DirectoryEnd \/ StageLaunch \/ UNCHANGED directoryVars
  BY DEF Next, Arrival, End, vars, BookAndCampaign, CreateCampaign, ResolveLaunch, LoadRecipients,
         AbortLaunch

LEMMA BookStep ==
  ASSUME BookInv, ImportsInv, [Next]_vars
  PROVE  BookInv' /\ ImportsInv' /\ ContactsStand
  <1>1. CASE DirectoryArrival
    BY <1>1, CreateContactStep, DeleteContactStep, SuppressStep, CreateGroupStep,
       DeleteGroupStep, BeginImportStep DEF DirectoryArrival
  <1>2. CASE DirectoryEnd
    BY <1>2, CommitImportStep, AbortImportStep DEF DirectoryEnd
  <1>3. CASE UNCHANGED directoryVars
    <2>1. UNCHANGED <<contacts, groups, tags, members, tagged, imports, mailed>>
      BY <1>3 DEF directoryVars
    <2>2. ContactsStand /\ Ids' = Ids /\ Live' = Live /\ LiveGroups' = LiveGroups
      BY <2>1, ContactsUntouched DEF LiveGroups
    <2>3. BookInv'
      BY <2>1, <2>2 DEF BookInv
    <2> QED
      BY <2>1, <2>2, <2>3, ImportsKept
  <1> QED
    BY <1>1, <1>2, <1>3, DirectoryPart, StagedBook

LEMMA LoadedStep ==
  ASSUME BookInv, ImportsInv, PinnedInv, LoadedInv, [Next]_vars
  PROVE  LoadedInv'
  <1>1. Ids \subseteq Ids' /\ Live' \cap Ids \subseteq Live
    BY BookStep DEF ContactsStand
  <1>2. CASE CreateCampaign
    <2>1. campaign'.phase = "draft" /\ campaign'.ids = campaign.ids
      BY <1>2 DEF PinnedInv, CreateCampaign
    <2> QED
      BY <1>1, <2>1 DEF LoadedInv
  <1>3. ASSUME NEW filter \in Filters, ResolveLaunch(filter)
        PROVE  LoadedInv'
    <2>1. campaign'.phase = "resolved" /\ campaign'.ids = Recipients(filter)
      BY <1>3 DEF PinnedInv, ResolveLaunch
    <2>2. Recipients(filter) \subseteq Ids
      BY ResolvedContacts DEF Live
    <2> QED
      BY <1>1, <2>1, <2>2 DEF LoadedInv
  <1>4. CASE LoadRecipients
    <2> DEFINE chosen == {[id |-> c, row |-> contacts[c]] : c \in Loaded(campaign.ids)}
    <2>1. campaign'.ids = campaign.ids /\ campaign'.recipients = chosen
      BY <1>4 DEF PinnedInv, LoadRecipients
    <2>2. ASSUME NEW c \in campaign.ids \cap Live
          PROVE  \E r \in chosen : r.id = c
      <3> DEFINE r == [id |-> c, row |-> contacts[c]]
      <3>1. r \in chosen /\ r.id = c
        BY DEF Loaded
      <3> QED
        BY <3>1
    <2> HIDE DEF chosen
    <2> QED
      BY <1>1, <2>1, <2>2 DEF LoadedInv
  <1>5. CASE StageLaunch
    <2>1. /\ campaign'.ids = campaign.ids /\ campaign'.recipients = campaign.recipients
          /\ campaign.phase = "loaded"
      BY <1>5 DEF PinnedInv, StageLaunch
    <2> QED
      BY <1>1, <2>1 DEF LoadedInv
  <1>6. CASE AbortLaunch
    <2>1. campaign'.phase = "draft" /\ campaign'.ids = {}
      BY <1>6 DEF PinnedInv, AbortLaunch
    <2> QED
      BY <2>1 DEF LoadedInv
  <1>7. CASE UNCHANGED campaignVars
    BY <1>1, <1>7 DEF LoadedInv, campaignVars
  <1> QED
    BY <1>2, <1>3, <1>4, <1>5, <1>6, <1>7, CampaignPart

\* Jobs and what they refer to appear together.
LEMMA JobsReferStep ==
  ASSUME DOMAIN jobs \subseteq mailed, [Next]_vars
  PROVE  (DOMAIN jobs \subseteq mailed)'
  <1>1. CASE StageLaunch
    <2> DEFINE staged == {r \in campaign.recipients : Renders(r)}
               row == [c \in {r.id : r \in staged} |-> (CHOOSE r \in staged : r.id = c).row]
    <2>1. /\ mailed' = mailed \cup DOMAIN row
          /\ jobs' = [c \in DOMAIN row |->
                        Rendered(campaign.content, LaunchFields(campaign.content, row[c]))]
      BY <1>1 DEF StageLaunch
    <2> HIDE DEF row
    <2> QED
      BY <2>1
  <1>2. CASE ~ StageLaunch
    <2>1. UNCHANGED <<jobs, mailed>>
      BY <1>2 DEF Next, Arrival, End, vars, BookAndCampaign, directoryVars, campaignVars,
                  CreateCampaign, ResolveLaunch, LoadRecipients, AbortLaunch, DirectoryArrival,
                  DirectoryEnd, CreateContact,
                  DeleteContact, Suppress, CreateGroup, DeleteGroup, BeginImport, CommitImport,
                  AbortImport
    <2> QED
      BY <2>1
  <1> QED
    BY <1>1, <1>2

LEMMA WorkspaceInvariant == Spec => []WorkspaceInv
  <1>1. Init => WorkspaceInv
    <2> SUFFICES ASSUME Init PROVE WorkspaceInv
      OBVIOUS
    <2>1. LoadedInv
      BY DEF Init, LoadedInv, NoCampaign
    <2> QED
      BY <2>1, InitBookInv, InitCampaignInv, InitReportInv, WorkspaceAssumption
         DEF Init, WorkspaceInv, DirectoryInit
  <1>2. WorkspaceInv /\ [Next]_vars => WorkspaceInv'
    <2> SUFFICES ASSUME WorkspaceInv, [Next]_vars PROVE WorkspaceInv'
      OBVIOUS
    <2>1. requests' \in 0..MaxRequests
      BY WorkspaceAssumption DEF WorkspaceInv, Next, vars
    <2>2. LoadedInv' /\ ReportInv'
      BY LoadedStep, ReportStep DEF WorkspaceInv, CampaignInv
    <2> QED
      BY <2>1, <2>2, BookStep, CampaignStep, JobsReferStep DEF WorkspaceInv
  <1> QED
    BY <1>1, <1>2, PTL DEF Spec

\* One contact per address, one group per name, and no membership, tag or job of a contact
\* or a group that is gone (contacts.py, groups.py, campaigns.py).
THEOREM WorkspaceTyped == Spec => []WorkspaceTypeOK
  <1>1. WorkspaceInv => WorkspaceTypeOK
    BY DEF WorkspaceInv, WorkspaceTypeOK, BookInv, CampaignInv, TemplatesInv, PinnedInv,
           LoadedInv, ReportInv
  <1> QED
    BY <1>1, WorkspaceInvariant, PTL

\* Everybody who was resolved and is not deleted has a job, and nobody else, nor anybody
\* who was suppressed then (launch_campaign).
THEOREM ContactsAreRight == Spec => []RightContactsAreMailed
  <1>1. ASSUME CampaignInv PROVE DOMAIN jobs \subseteq campaign.ids \ barred
    BY <1>1 DEF CampaignInv, PinnedInv, RecipientsInv
  <1>2. ASSUME WorkspaceInv, campaign.phase = "staged",
               campaign.content.hidden \subseteq campaign.content.declared,
               NEW c \in campaign.ids \cap Live
        PROVE  c \in DOMAIN jobs
    <2>1. PICK r \in campaign.recipients : r.id = c
      BY <1>2 DEF WorkspaceInv, LoadedInv
    <2>2. Renders(r)
      BY <1>2, SavedContent DEF WorkspaceInv, Savable, Valid, Used, Renders, Raises
    <2> QED
      BY <1>2, <2>1, <2>2 DEF WorkspaceInv, CampaignInv, RecipientsInv
  <1>3. WorkspaceInv => RightContactsAreMailed
    BY <1>1, <1>2 DEF WorkspaceInv, RightContactsAreMailed
  <1> QED
    BY <1>3, WorkspaceInvariant, PTL

\* An import is answered by its commit.
LEMMA AnsweredByCommit ==
  ASSUME ImportsInv, [Next]_vars, NEW i \in Imports,
         imports[i].phase = "loaded", imports'[i].phase = "answered"
  PROVE  CommitImport(i)
  <1>1. imports' # imports
    OBVIOUS
  <1>2. ASSUME NEW j \in Imports, NEW g, NEW batch, BeginImport(j, g, batch)
        PROVE  FALSE
    BY <1>2 DEF BeginImport, ImportsInv
  <1>3. ASSUME NEW j \in Imports, CommitImport(j)
        PROVE  j = i
    BY <1>3 DEF CommitImport, ImportsInv
  <1>4. ASSUME NEW j \in Imports, AbortImport(j)
        PROVE  FALSE
    BY <1>4 DEF AbortImport, ImportsInv
  <1>5. ~ (StageLaunch \/ UNCHANGED directoryVars)
    BY <1>1 DEF StageLaunch, directoryVars
  <1>6. ~ DirectoryArrival
    BY <1>1, <1>2 DEF DirectoryArrival, CreateContact, DeleteContact, Suppress, CreateGroup,
                      DeleteGroup
  <1> QED
    BY <1>3, <1>4, <1>5, <1>6, DirectoryPart DEF DirectoryEnd

\* The last accepted row of an address is the one the import takes.
LEMMA LastRowWins ==
  ASSUME NEW batch \in Batches, NEW k \in Accepted(batch),
         \A l \in Accepted(batch) : l > k => batch[l].email # batch[k].email
  PROVE  RowOf(batch, batch[k].email) = batch[k]
  <1> DEFINE rows == {i \in Accepted(batch) : batch[i].email = batch[k].email}
  <1>1. Len(batch) \in Nat /\ DOMAIN batch = 1..Len(batch)
    BY DirectoryAssumption
  <1>2. rows \subseteq 1..Len(batch) /\ k \in rows
    BY <1>1 DEF Accepted
  <1>3. \A l \in rows : l <= k
    BY <1>1, <1>2
  <1>4. RowOf(batch, batch[k].email) = batch[CHOOSE i \in rows : \A j \in rows : j <= i]
    BY DEF RowOf
  <1> HIDE DEF rows
  <1>5. \A i \in rows : (\A j \in rows : j <= i) => i = k
    BY <1>1, <1>2, <1>3
  <1>6. (CHOOSE i \in rows : \A j \in rows : j <= i) = k
    BY <1>2, <1>3, <1>5
  <1> QED
    BY <1>4, <1>6

\* The fields of a row without an ambiguous column are its cells.
LEMMA FieldsAreCells ==
  ASSUME NEW row, ~ Ambiguous(row), NEW n \in DOMAIN row.cells
  PROVE  /\ row.cells[n].key \in DOMAIN FieldsOf(row)
         /\ FieldsOf(row)[row.cells[n].key] = row.cells[n].value
  <1> DEFINE key == row.cells[n].key
  <1>1. \A i \in DOMAIN row.cells : row.cells[i].key = key => i = n
    BY DEF Ambiguous
  <1>2. (CHOOSE i \in DOMAIN row.cells : row.cells[i].key = key) = n
    BY <1>1
  <1> QED
    BY <1>2 DEF FieldsOf

\* What a commit leaves of the row of an address.
Applied(i, row) ==
  \E c \in DOMAIN contacts' :
    /\ contacts'[c].live
    /\ contacts'[c].email = row.email
    /\ <<c, imports[i].group>> \in members'
    /\ \/ \A n \in DOMAIN row.cells :
            /\ row.cells[n].key \in DOMAIN contacts'[c].fields
            /\ contacts'[c].fields[row.cells[n].key] = row.cells[n].value
       \/ /\ c \in DOMAIN imports[i].seen
          /\ Overlaid(FieldsOf(row), imports[i].seen[c].fields) = imports[i].seen[c].fields

LEMMA RowIsApplied ==
  ASSUME BookInv, ImportsInv, NEW i \in Imports, CommitImport(i),
         NEW k \in Accepted(imports[i].batch),
         \A l \in Accepted(imports[i].batch) :
           l > k => imports[i].batch[l].email # imports[i].batch[k].email
  PROVE  Applied(i, imports[i].batch[k])
  <1> DEFINE n == Len(contacts)
             size == Cardinality(Unseen(i))
             seen == imports[i].seen
             batch == imports[i].batch
             row == batch[k]
             values == FieldsOf(row)
  <1>1. PICK order : Imported(i, order)
    BY CommittedImport
  <1>2. batch \in Batches /\ DOMAIN seen \subseteq Live
    BY DEF ImportsInv, CommitImport, Collides
  <1>3. RowOf(batch, row.email) = row
    BY <1>2, LastRowWins
  <1>4. \A m \in DOMAIN row.cells :
          row.cells[m].key \in DOMAIN values /\ values[row.cells[m].key] = row.cells[m].value
    BY FieldsAreCells DEF Accepted
  <1>5. row.email \in Addressed(batch)
    BY DEF Addressed
  <1>6. members' = members \cup
          ((DOMAIN seen \cup {n + m : m \in 1..size}) \X {imports[i].group})
    BY <1>1 DEF Imported
  <1> DEFINE added == {n + m : m \in 1..size}
  <1>7. Ids' = Ids \cup added
    BY <1>1, ImportedRows
  <1>8. CASE row.email \in Unseen(i)
    <2>1. PICK m \in 1..size : order[m] = row.email
      BY <1>1, <1>8 DEF Imported, Bijection, Surjection
    <2>2. contacts'[n + m] = NewContact(row.email, row.name, values)
      BY <1>1, <1>3, <2>1 DEF Imported
    <2>3. n + m \in DOMAIN contacts'
      BY <1>7 DEF Ids
    <2>4. <<n + m, imports[i].group>> \in members'
      BY <1>6
    <2> HIDE DEF n, values
    <2>5. /\ contacts'[n + m].live
          /\ contacts'[n + m].email = row.email
          /\ contacts'[n + m].fields = values
      BY <2>2 DEF NewContact
    <2> QED
      BY <1>4, <2>3, <2>4, <2>5 DEF Applied
  <1>9. CASE row.email \notin Unseen(i)
    <2>1. PICK c \in DOMAIN seen : seen[c].email = row.email
      BY <1>5, <1>9 DEF Unseen
    <2>2. c \in Live /\ c \in Ids /\ contacts[c].email = row.email
      BY <1>2, <2>1 DEF ImportsInv, CommitImport, Live
    <2>3. contacts'[c] = UpdatedRow(seen[c], row, contacts[c])
      BY <1>1, <1>3, <2>1, <2>2 DEF Imported
    <2>4. c \in DOMAIN contacts'
      BY <2>2, <1>7 DEF Ids
    <2>5. <<c, imports[i].group>> \in members'
      BY <1>6, <2>1
    <2> DEFINE merged == Overlaid(values, seen[c].fields)
    <2>6. /\ contacts'[c].email = contacts[c].email /\ contacts'[c].live = contacts[c].live
          /\ contacts'[c].fields = IF merged # seen[c].fields THEN merged ELSE contacts[c].fields
      <3>1. DOMAIN contacts[c] = ContactColumns
        BY <2>2 DEF BookInv
      <3>2. LET new == UpdatedRow(seen[c], row, contacts[c]) IN
            /\ new.email = contacts[c].email /\ new.live = contacts[c].live
            /\ new.fields = IF merged # seen[c].fields THEN merged ELSE contacts[c].fields
        BY <3>1, UpdatedContact
      <3> HIDE DEF merged, row
      <3> QED
        BY <2>3, <3>2
    <2>7. contacts'[c].live /\ contacts'[c].email = row.email
      BY <2>2, <2>6 DEF Live
    <2>8. \A m \in DOMAIN row.cells :
            /\ row.cells[m].key \in DOMAIN merged
            /\ merged[row.cells[m].key] = row.cells[m].value
      <3> HIDE DEF values
      <3> QED
        BY <1>4 DEF Overlaid
    <2>9. CASE merged = seen[c].fields
      BY <2>1, <2>4, <2>5, <2>7, <2>9 DEF Applied
    <2>10. CASE merged # seen[c].fields
      <3>1. contacts'[c].fields = merged
        BY <2>6, <2>10
      <3> HIDE DEF merged
      <3> QED
        BY <2>4, <2>5, <2>7, <2>8, <3>1 DEF Applied
    <2> QED
      BY <2>9, <2>10
  <1> QED
    BY <1>8, <1>9

\* An answered import has been applied, and no import, nor anything else, takes back a
\* suppression (bulk_import).
THEOREM ImportsDoApply == Spec => ImportsAreApplied
  <1> DEFINE Applies(i) ==
        imports[i].phase = "loaded" /\ imports'[i].phase = "answered" =>
          \A k \in Accepted(imports[i].batch) :
            LET row == imports[i].batch[k] IN
            \/ \E l \in Accepted(imports[i].batch) :
                 l > k /\ imports[i].batch[l].email = row.email
            \/ Applied(i, row)
             Suppressions == \A c \in Ids : contacts[c].suppressed => contacts'[c].suppressed
  <1>1. WorkspaceInv /\ [Next]_vars => Suppressions /\ \A i \in Imports : Applies(i)
    <2> SUFFICES ASSUME WorkspaceInv, [Next]_vars
                 PROVE  Suppressions /\ \A i \in Imports : Applies(i)
      OBVIOUS
    <2>1. Suppressions
      BY BookStep DEF WorkspaceInv, ContactsStand
    <2>2. ASSUME NEW i \in Imports PROVE Applies(i)
      BY AnsweredByCommit, RowIsApplied DEF WorkspaceInv
    <2> QED
      BY <2>1, <2>2
  <1>2. WorkspaceInv /\ [Next]_vars =>
          [Suppressions /\ \A i \in Imports : Applies(i)]_vars
    BY <1>1
  <1> QED
    BY <1>2, WorkspaceInvariant, PTL DEF Spec, ImportsAreApplied, Applied

================================================================================
