------------------------------- MODULE Directory -------------------------------
(***************************************************************************)
(* The address book of one organization: services/api/routers/contacts.py  *)
(* and services/api/routers/groups.py. A request is one transaction under  *)
(* READ COMMITTED. Those that read nothing a key would not check again are *)
(* one step: when two of them collide the key refuses the loser, which     *)
(* leaves nothing. An import reads the contacts it is about to change, and *)
(* others may change them before it writes.                                *)
(*                                                                         *)
(* An address stands for its lower-case form, a cell of an imported row for*)
(* a column whose header has been turned into a key.                       *)
(***************************************************************************)
EXTENDS Rendering, FiniteSets, Functions

CONSTANTS
  Emails,      \* addresses
  GroupNames,  \* names of groups
  Profiles,    \* what create_contact is given: [name, fields, tags], tags a sequence
  Batches,     \* what imports are given: sequences of rows [email, name, cells]
  Imports,     \* import requests
  MaxImportRows, \* MAX_IMPORT_ROWS
  MaxContacts, \* bound: contacts that are ever created
  MaxGroups    \* bound: groups that are ever created

ASSUME DirectoryAssumption ==
  /\ "" \notin Emails
  /\ "" \notin GroupNames
  /\ \A batch \in Batches : Len(batch) \in Nat /\ DOMAIN batch = 1..Len(batch)
  /\ MaxContacts \in Nat
  /\ MaxGroups \in Nat

VARIABLES
  contacts,  \* contacts in the order of their creation, with the deleted ones
  groups,    \* names of the groups in the order of their creation, "" once deleted
  tags,      \* the tags there are
  members,   \* contact_groups: pairs of a contact and a group
  tagged,    \* contact_tags: pairs of a contact and a tag
  imports,   \* what each import request has read
  mailed     \* the contacts an email job refers to

directoryVars == <<contacts, groups, tags, members, tagged, imports, mailed>>

Ids == DOMAIN contacts

\* The contacts there are, and the groups.
Live == {c \in Ids : contacts[c].live}

LiveGroups == {g \in DOMAIN groups : groups[g] # ""}

NewContact(email, name, fields) ==
  [email |-> email, name |-> name, fields |-> fields, suppressed |-> FALSE, live |-> TRUE]

\* The contact with this address: at most one, for org_id and email are a key.
Having(email) == {c \in Live : contacts[c].email = email}

Waiting == [phase |-> "waiting", group |-> 0, batch |-> <<>>, seen |-> <<>>]

DirectoryInit ==
  /\ contacts = <<>>
  /\ groups = <<>>
  /\ tags = {}
  /\ members = {}
  /\ tagged = {}
  /\ imports = [i \in Imports |-> Waiting]
  /\ mailed = {}

-----------------------------------------------------------------------------
(* contacts.py                                                             *)

\* A tag the organization does not have yet is created on the way. A tag that is given
\* twice violates the key of contact_tags, and the request leaves nothing.
CreateContact(email, profile) ==
  LET given == Range(profile.tags) IN
  /\ Len(contacts) < MaxContacts
  /\ Having(email) = {}
  /\ IsInjective(profile.tags)
  /\ contacts' = Append(contacts, NewContact(email, profile.name, profile.fields))
  /\ tags' = tags \cup given
  /\ tagged' = tagged \cup {Len(contacts')} \X given
  /\ UNCHANGED <<groups, members, imports, mailed>>

\* Bug: the memberships of the contact stay.
DeleteContactOnly(c) ==
  /\ c \in Live \ mailed
  /\ contacts' = [contacts EXCEPT ![c].live = FALSE]
  /\ tagged' = {t \in tagged : t[1] # c}
  /\ UNCHANGED <<groups, tags, members, imports, mailed>>

\* Its memberships and tags go first. An email job still refers to a contact that was
\* part of a launch, and the request fails.
DeleteContact(c) ==
  /\ c \in Live \ mailed
  /\ contacts' = [contacts EXCEPT ![c].live = FALSE]
  /\ members' = {m \in members : m[1] # c}
  /\ tagged' = {t \in tagged : t[1] # c}
  /\ UNCHANGED <<groups, tags, imports, mailed>>

\* A contact unsubscribes, or an operator suppresses it. Nothing under src/ writes the
\* column; the launch and the pickers read it.
Suppress(c) ==
  /\ c \in Live
  /\ contacts' = [contacts EXCEPT ![c].suppressed = TRUE]
  /\ UNCHANGED <<groups, tags, members, tagged, imports, mailed>>

\* The query of a SmartFilter: every condition that is given must hold, each over any
\* of its values. matching is the set of addresses the search text is found in or
\* belongs to by name, all of them when there is no search.
Resolve(filter) ==
  {c \in Live :
     /\ filter.tags # {} => \E tag \in filter.tags : <<c, tag>> \in tagged
     /\ filter.group # 0 => <<c, filter.group>> \in members
     /\ filter.exclude_suppressed => ~contacts[c].suppressed
     /\ contacts[c].email \in filter.matching}

-----------------------------------------------------------------------------
(* groups.py                                                               *)

CreateGroup(name) ==
  /\ Len(groups) < MaxGroups
  /\ \A g \in LiveGroups : groups[g] # name
  /\ groups' = Append(groups, name)
  /\ UNCHANGED <<contacts, tags, members, tagged, imports, mailed>>

DeleteGroup(g) ==
  /\ g \in LiveGroups
  /\ groups' = [groups EXCEPT ![g] = ""]
  /\ members' = {m \in members : m[2] # g}
  /\ UNCHANGED <<contacts, tags, tagged, imports, mailed>>

\* Two headers of the row turn into the same key.
Ambiguous(row) ==
  \E i, j \in DOMAIN row.cells : i # j /\ row.cells[i].key = row.cells[j].key

\* The other rows are skipped: no address, an invalid one, or an ambiguous column.
Accepted(batch) == {i \in DOMAIN batch : batch[i].email \in Emails /\ ~Ambiguous(batch[i])}

Addressed(batch) == {batch[i].email : i \in Accepted(batch)}

\* The last row of an address wins.
RowOf(batch, email) ==
  LET rows == {i \in Accepted(batch) : batch[i].email = email} IN
  batch[CHOOSE i \in rows : \A j \in rows : j <= i]

FieldsOf(row) ==
  [key \in {row.cells[i].key : i \in DOMAIN row.cells} |->
     row.cells[CHOOSE i \in DOMAIN row.cells : row.cells[i].key = key].value]

\* The request finds its group and loads the contacts of its addresses. Too long a batch
\* is refused, and one without an accepted row is answered right away.
BeginImport(i, g, batch) ==
  /\ imports[i].phase = "waiting"
  /\ g \in LiveGroups
  /\ Len(batch) <= MaxImportRows
  /\ Accepted(batch) # {}
  /\ imports' = [imports EXCEPT ![i] =
       [phase |-> "loaded", group |-> g, batch |-> batch,
        seen |-> [c \in {d \in Live : contacts[d].email \in Addressed(batch)} |-> contacts[c]]]]
  /\ UNCHANGED <<contacts, groups, tags, members, tagged, mailed>>

\* Addresses the import found no contact for.
Unseen(i) ==
  Addressed(imports[i].batch) \ {imports[i].seen[c].email : c \in DOMAIN imports[i].seen}

\* Bug: the whole row is written as it was loaded.
RewrittenRow(loaded, row, now) ==
  [loaded EXCEPT !.name = IF row.name # <<>> THEN row.name ELSE @,
                 !.fields = Overlaid(FieldsOf(row), @)]

\* The UPDATE names only the columns whose value differs from the one that was loaded.
\* An empty name cell changes nothing, and suppressed is never assigned.
UpdatedRow(loaded, row, now) ==
  LET merged == Overlaid(FieldsOf(row), loaded.fields) IN
  [now EXCEPT !.name = IF row.name \notin {<<>>, loaded.name} THEN row.name ELSE @,
              !.fields = IF merged # loaded.fields THEN merged ELSE @]

\* An address that has meanwhile been taken, a contact or a group that has meanwhile
\* been deleted: a key or a reference refuses the transaction.
Collides(i) ==
  \/ \E email \in Unseen(i) : Having(email) # {}
  \/ ~ DOMAIN imports[i].seen \subseteq Live
  \/ imports[i].group \notin LiveGroups

\* The writes of the import. New contacts get the next numbers, in any order of addresses.
CommitImport(i) ==
  /\ imports[i].phase = "loaded"
  /\ ~ Collides(i)
  /\ Len(contacts) + Cardinality(Unseen(i)) <= MaxContacts
  /\ \E order \in [1..Cardinality(Unseen(i)) -> Unseen(i)] :
       LET batch == imports[i].batch
           seen == imports[i].seen
           updated == [c \in Ids |->
             IF c \in DOMAIN seen
             THEN UpdatedRow(seen[c], RowOf(batch, contacts[c].email), contacts[c])
             ELSE contacts[c]]
           created == [n \in DOMAIN order |->
             LET row == RowOf(batch, order[n]) IN NewContact(order[n], row.name, FieldsOf(row))]
           touched == DOMAIN seen \cup {Len(contacts) + n : n \in DOMAIN order} IN
       /\ IsInjective(order)
       /\ contacts' = updated \o created
       /\ members' = members \cup (touched \X {imports[i].group})
  /\ imports' = [imports EXCEPT ![i].phase = "answered"]
  /\ UNCHANGED <<groups, tags, tagged, mailed>>

\* The import is refused by the database or its connection is lost.
AbortImport(i) ==
  /\ imports[i].phase = "loaded"
  /\ imports' = [imports EXCEPT ![i].phase = "lost"]
  /\ UNCHANGED <<contacts, groups, tags, members, tagged, mailed>>

-----------------------------------------------------------------------------

\* A request comes in; those that are one step are answered at once.
DirectoryArrival ==
  \/ \E email \in Emails, profile \in Profiles : CreateContact(email, profile)
  \/ \E c \in Ids : DeleteContact(c) \/ Suppress(c)
  \/ \E name \in GroupNames : CreateGroup(name)
  \/ \E g \in LiveGroups : DeleteGroup(g)
  \/ \E i \in Imports, g \in LiveGroups, batch \in Batches : BeginImport(i, g, batch)

DirectoryEnd == \E i \in Imports : CommitImport(i) \/ AbortImport(i)
===============================================================================
