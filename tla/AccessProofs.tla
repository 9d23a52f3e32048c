----------------------------- MODULE AccessProofs -----------------------------
(***************************************************************************)
(* Machine-checked proofs about Access: for any users, names, patches and  *)
(* requests, however they overlap and whatever bounds the model is given.  *)
(***************************************************************************)
EXTENDS Access, SequenceTheorems, TLAPS

-----------------------------------------------------------------------------
(* Tables with rows in the order of their creation                          *)

Rows(table) == {table[i] : i \in DOMAIN table}

IsTable(table) == table \in Seq(Rows(table))

\* A row is added after those there are, which stay as they are.
LEMMA AppendedTable ==
  ASSUME NEW table, IsTable(table), NEW row
  PROVE  LET new == Append(table, row) IN
         /\ IsTable(new)
         /\ Len(table) \in Nat
         /\ Len(new) = Len(table) + 1
         /\ DOMAIN table = 1..Len(table)
         /\ DOMAIN new = 1..Len(table) + 1
         /\ \A i \in DOMAIN table : new[i] = table[i]
         /\ new[Len(table) + 1] = row
         /\ SubSeq(new, 1, Len(table)) = table
  <1> DEFINE S == Rows(table) \cup {row}
             new == Append(table, row)
  <1>1. table \in Seq(S)
    BY SeqMonotonic DEF IsTable
  <1>2. /\ new \in Seq(S) /\ Len(new) = Len(table) + 1
        /\ \A i \in 1..Len(table) : new[i] = table[i]
        /\ new[Len(table) + 1] = row
    BY <1>1, AppendProperties
  <1>3. Len(table) \in Nat /\ DOMAIN table = 1..Len(table)
    BY <1>1, LenProperties
  <1>4. DOMAIN new = 1..Len(table) + 1
    BY <1>2, LenProperties
  <1>5. S \subseteq Rows(new)
    <2>1. ASSUME NEW i \in DOMAIN table
          PROVE  table[i] \in Rows(new)
      BY <1>2, <1>3, <1>4 DEF Rows
    <2>2. row \in Rows(new)
      BY <1>2, <1>3, <1>4 DEF Rows
    <2> QED
      BY <2>1, <2>2 DEF Rows
  <1>6. IsTable(new)
    BY <1>2, <1>5, SeqMonotonic DEF IsTable
  <1>7. SubSeq(new, 1, Len(table)) = table
    <2>1. SubSeq(new, 1, Len(table)) \in Seq(S)
          /\ Len(SubSeq(new, 1, Len(table))) = Len(table)
          /\ \A i \in 1..Len(table) : SubSeq(new, 1, Len(table))[i] = new[i]
      <3>1. \A i \in 1..Len(table) : new[i] \in S
        BY <1>1, <1>2, ElementOfSeq
      <3> HIDE DEF new, S
      <3>2. /\ SubSeq(new, 1, Len(table)) \in Seq(S)
            /\ Len(SubSeq(new, 1, Len(table)))
                 = IF 1 <= Len(table) THEN Len(table) - 1 + 1 ELSE 0
            /\ \A i \in 1..Len(table) - 1 + 1 : SubSeq(new, 1, Len(table))[i] = new[1 + i - 1]
        BY <3>1, <1>3, SubSeqProperties
      <3> QED
        BY <3>2, <1>3
    <2> QED
      BY <1>1, <1>2, <2>1, SeqEqual
  <1> QED
    BY <1>2, <1>3, <1>4, <1>6, <1>7

LEMMA FunctionIsSequence ==
  ASSUME NEW S, NEW n \in Nat, NEW f \in [1..n -> S]
  PROVE  f \in Seq(S)
  BY SeqDef

\* One row is changed and the others stay.
LEMMA ChangedTable ==
  ASSUME NEW table, IsTable(table), NEW i \in DOMAIN table, NEW row
  PROVE  LET new == [table EXCEPT ![i] = row] IN
         /\ IsTable(new)
         /\ DOMAIN new = DOMAIN table
         /\ new[i] = row
         /\ \A j \in DOMAIN table : j # i => new[j] = table[j]
  <1> DEFINE S == Rows(table) \cup {row}
             new == [table EXCEPT ![i] = row]
  <1>1. table \in Seq(S)
    BY SeqMonotonic DEF IsTable
  <1>2. i \in 1..Len(table)
    BY <1>1, LenProperties
  <1>3. new \in Seq(S)
    BY <1>1, <1>2, ExceptSeq
  <1>4. Len(new) = Len(table) /\ DOMAIN new = 1..Len(new)
    BY <1>1, <1>2, <1>3, ExceptSeq, LenProperties
  <1>5. \A j \in 1..Len(new) : new[j] \in Rows(new)
    BY <1>4 DEF Rows
  <1>6. new \in [1..Len(new) -> Rows(new)] /\ Len(new) \in Nat
    <2>1. new \in [1..Len(new) -> S] /\ Len(new) \in Nat
      BY <1>3, LenProperties
    <2> HIDE DEF new, S
    <2> QED
      BY <1>5, <2>1
  <1>7. IsTable(new)
    BY <1>6, FunctionIsSequence DEF IsTable
  <1> QED
    BY <1>7

\* No rows at all.
LEMMA EmptyTable == IsTable(<<>>) /\ DOMAIN <<>> = {}
  BY DEF IsTable
-----------------------------------------------------------------------------
(* The invariant                                                            *)

\* The tables are tables, their rows have their columns, and the roles are those there
\* are.
AccessShape ==
  /\ IsTable(sessions) /\ IsTable(orgs) /\ IsTable(audit)
  /\ DOMAIN requests = Requests
  /\ \A s \in DOMAIN sessions : DOMAIN sessions[s] = {"user", "revoked", "expired"}
  /\ \A o \in DOMAIN orgs : DOMAIN orgs[o] = {"slug", "templates", "fields"}
  /\ \A m \in members : m.role \in {"viewer", "editor", "admin", "owner"}

\* Who was told that they are signed out has a row that says so.
OutAreRevoked == \A s \in out : s \in DOMAIN sessions /\ sessions[s].revoked = TRUE

Manages(user, org) ==
  \E m \in members : m.org = org /\ m.user = user /\ m.role \in {"admin", "owner"}

\* What was checked when a change began is still so when it commits.
ChangersManage ==
  \A r \in Requests : requests[r].phase = "updating" =>
    /\ requests[r].session \in DOMAIN sessions
    /\ requests[r].org \in DOMAIN orgs
    /\ Manages(sessions[requests[r].session].user, requests[r].org)

AccessInv == AccessShape /\ OutAreRevoked /\ ChangersManage /\ OrganizationsAreReachable

\* A role with a capability of this module is that of an admin or an owner.
LEMMA CanManages ==
  ASSUME AccessShape, NEW user, NEW org, NEW capability \in {"manage_members", "manage_settings"},
         Can(user, org, capability)
  PROVE  Manages(user, org)
  <1>1. PICK m \in members :
          m.org = org /\ m.user = user /\ Role[m.role] >= Capabilities[capability]
    BY DEF Can
  <1>2. Capabilities[capability] = 2
    BY DEF Capabilities, Role
  <1>3. m.role \in {"admin", "owner"}
    BY <1>1, <1>2 DEF AccessShape, Role
  <1> QED
    BY <1>1, <1>3 DEF Manages

LEMMA AnsweredRequests ==
  ASSUME DOMAIN requests = Requests, NEW r \in Requests, NEW phase, Answer(r, phase)
  PROVE  /\ DOMAIN requests' = Requests
         /\ requests'[r].phase = phase
         /\ \A q \in Requests \ {r} : requests'[q] = requests[q]
  BY DEF Answer, Waiting
-----------------------------------------------------------------------------
(* The sessions' steps                                                      *)

LEMMA OpenedSession ==
  ASSUME AccessInv, NEW user, sessions' = Opened(user),
         UNCHANGED <<orgs, members, audit, requests, out>>
  PROVE  AccessInv'
  <1> DEFINE row == [user |-> user, revoked |-> FALSE, expired |-> FALSE]
  <1>1. sessions' = Append(sessions, row)
    BY DEF Opened
  <1>2. DOMAIN row = {"user", "revoked", "expired"}
    OBVIOUS
  <1> HIDE DEF row
  <1>3. /\ IsTable(sessions') /\ Len(sessions) \in Nat
        /\ DOMAIN sessions = 1..Len(sessions)
        /\ DOMAIN sessions' = 1..Len(sessions) + 1
        /\ \A s \in DOMAIN sessions : sessions'[s] = sessions[s]
        /\ sessions'[Len(sessions) + 1] = row
    BY <1>1, AppendedTable DEF AccessInv, AccessShape
  <1>4. DOMAIN sessions \subseteq DOMAIN sessions'
    BY <1>3
  <1>5. AccessShape'
    <2>1. \A s \in DOMAIN sessions' : DOMAIN sessions'[s] = {"user", "revoked", "expired"}
      BY <1>2, <1>3 DEF AccessInv, AccessShape
    <2> QED
      BY <1>3, <2>1 DEF AccessInv, AccessShape
  <1>6. OutAreRevoked'
    BY <1>3, <1>4 DEF AccessInv, OutAreRevoked
  <1>7. ChangersManage'
    BY <1>3, <1>4 DEF AccessInv, ChangersManage, Manages
  <1>8. OrganizationsAreReachable'
    BY DEF AccessInv, OrganizationsAreReachable
  <1> QED
    BY <1>5, <1>6, <1>7, <1>8 DEF AccessInv

\* A session's row is marked as revoked or as expired.
LEMMA MarkedSession ==
  ASSUME AccessInv, NEW s \in DOMAIN sessions, NEW row,
         DOMAIN row = {"user", "revoked", "expired"},
         row.user = sessions[s].user,
         sessions[s].revoked = TRUE => row.revoked = TRUE,
         sessions' = [sessions EXCEPT ![s] = row],
         out' \subseteq out \cup {s},
         s \in out' \ out => row.revoked = TRUE,
         UNCHANGED <<orgs, members, audit, requests>>
  PROVE  AccessInv'
  <1>1. /\ IsTable(sessions') /\ DOMAIN sessions' = DOMAIN sessions
        /\ sessions'[s] = row
        /\ \A i \in DOMAIN sessions : i # s => sessions'[i] = sessions[i]
    BY ChangedTable DEF AccessInv, AccessShape
  <1>2. AccessShape'
    BY <1>1 DEF AccessInv, AccessShape
  <1>3. OutAreRevoked'
    BY <1>1 DEF AccessInv, OutAreRevoked
  <1>4. \A i \in DOMAIN sessions : sessions'[i].user = sessions[i].user
    BY <1>1
  <1>5. ChangersManage'
    BY <1>1, <1>4 DEF AccessInv, ChangersManage, Manages
  <1>6. OrganizationsAreReachable'
    BY DEF AccessInv, OrganizationsAreReachable
  <1> QED
    BY <1>2, <1>3, <1>5, <1>6 DEF AccessInv

LEMMA SessionStepInv ==
  ASSUME AccessInv, SessionStep
  PROVE  AccessInv'
  <1>1. ASSUME NEW user \in Users, SignUp(user) \/ SignIn(user)
        PROVE  AccessInv'
    BY <1>1, OpenedSession DEF SignUp, SignIn
  <1>2. ASSUME NEW s \in DOMAIN sessions, SignOut(s)
        PROVE  AccessInv'
    <2> DEFINE row == [sessions[s] EXCEPT !.revoked = TRUE]
    <2>1. DOMAIN sessions[s] = {"user", "revoked", "expired"}
      BY DEF AccessInv, AccessShape
    <2>2. /\ DOMAIN row = {"user", "revoked", "expired"}
          /\ row.user = sessions[s].user /\ row.revoked = TRUE
      BY <2>1
    <2>3. sessions' = [sessions EXCEPT ![s] = row]
      BY <1>2 DEF SignOut
    <2> HIDE DEF row
    <2> QED
      BY <1>2, <2>2, <2>3, MarkedSession DEF SignOut
  <1>3. ASSUME NEW s \in DOMAIN sessions, SessionExpires(s)
        PROVE  AccessInv'
    <2> DEFINE row == [sessions[s] EXCEPT !.expired = TRUE]
    <2>1. DOMAIN sessions[s] = {"user", "revoked", "expired"}
      BY DEF AccessInv, AccessShape
    <2>2. /\ DOMAIN row = {"user", "revoked", "expired"}
          /\ row.user = sessions[s].user /\ row.revoked = sessions[s].revoked
      BY <2>1
    <2>3. sessions' = [sessions EXCEPT ![s] = row]
      BY <1>3 DEF SessionExpires
    <2> HIDE DEF row
    <2> QED
      BY <1>3, <2>2, <2>3, MarkedSession DEF SessionExpires
  <1> QED
    BY <1>1, <1>2, <1>3 DEF SessionStep
-----------------------------------------------------------------------------
(* The members' steps                                                       *)

\* The audit trail grows and keeps what it has.
AuditGrows ==
  /\ IsTable(audit')
  /\ \A i \in DOMAIN audit : i \in DOMAIN audit' /\ audit'[i] = audit[i]

LEMMA RecordedEntry ==
  ASSUME AccessShape, NEW org, NEW actor, NEW action, Recorded(org, actor, action)
  PROVE  /\ AuditGrows
         /\ SubSeq(audit', 1, Len(audit)) = audit
         /\ Len(audit') > Len(audit)
         /\ Len(audit') \in DOMAIN audit'
         /\ audit'[Len(audit')] = Entry(org, actor, action)
  <1> DEFINE entry == Entry(org, actor, action)
  <1>1. audit' = Append(audit, entry) /\ IsTable(audit)
    BY DEF Recorded, AccessShape
  <1> HIDE DEF entry
  <1>2. /\ IsTable(audit') /\ Len(audit) \in Nat /\ Len(audit') = Len(audit) + 1
        /\ DOMAIN audit = 1..Len(audit) /\ DOMAIN audit' = 1..Len(audit) + 1
        /\ \A i \in DOMAIN audit : audit'[i] = audit[i]
        /\ audit'[Len(audit) + 1] = entry
        /\ SubSeq(audit', 1, Len(audit)) = audit
    BY <1>1, AppendedTable
  <1> QED
    BY <1>2 DEF AuditGrows, entry

\* Organizations stay reachable while the rest only grows.
LEMMA StillReachable ==
  ASSUME OrganizationsAreReachable, members \subseteq members',
         AuditGrows \/ UNCHANGED audit,
         DOMAIN orgs' = DOMAIN orgs,
         \A o \in DOMAIN orgs : orgs'[o].slug = orgs[o].slug
                                  /\ orgs'[o].templates = orgs[o].templates
  PROVE  OrganizationsAreReachable'
  BY DEF OrganizationsAreReachable, AuditGrows, Entry

LEMMA StillManaged ==
  ASSUME ChangersManage, members \subseteq members', UNCHANGED sessions,
         DOMAIN orgs \subseteq DOMAIN orgs',
         \A r \in Requests : requests'[r].phase = "updating" => requests'[r] = requests[r]
  PROVE  ChangersManage'
  BY DEF ChangersManage, Manages

LEMMA MemberStepInv ==
  ASSUME AccessInv, MemberStep
  PROVE  AccessInv'
  <1>1. ASSUME NEW org \in DOMAIN orgs, NEW s \in DOMAIN sessions, InviteMember(s, org)
        PROVE  AccessInv'
    <2>1. AuditGrows
      BY <1>1, RecordedEntry DEF InviteMember, AccessInv
    <2>2. AccessShape' /\ OutAreRevoked'
      BY <1>1, <2>1 DEF InviteMember, AccessInv, AccessShape, OutAreRevoked, AuditGrows
    <2>3. ChangersManage' /\ OrganizationsAreReachable'
      BY <1>1, <2>1, StillReachable, StillManaged DEF InviteMember, AccessInv
    <2> QED
      BY <2>2, <2>3 DEF AccessInv
  <1>2. ASSUME NEW org \in DOMAIN orgs, NEW user \in Users, NEW role \in Enlisted,
               Enlist(org, user, role)
        PROVE  AccessInv'
    <2>1. role \in {"viewer", "editor", "admin", "owner"} /\ members \subseteq members'
      BY <1>2, AccessAssumption DEF Enlist
    <2>2. AccessShape' /\ OutAreRevoked'
      BY <1>2, <2>1 DEF Enlist, AccessInv, AccessShape, OutAreRevoked
    <2>3. ChangersManage' /\ OrganizationsAreReachable'
      BY <1>2, <2>1, StillReachable, StillManaged DEF Enlist, AccessInv
    <2> QED
      BY <2>2, <2>3 DEF AccessInv
  <1> QED
    BY <1>1, <1>2 DEF MemberStep

-----------------------------------------------------------------------------
(* The organizations' steps                                                 *)

LEMMA BeginCreateInv ==
  ASSUME AccessInv, NEW r \in Requests, NEW s, NEW name, BeginCreate(r, s, name)
  PROVE  AccessInv'
  <1>1. /\ DOMAIN requests' = Requests
        /\ \A q \in Requests : requests'[q].phase = "updating" => requests'[q] = requests[q]
    BY DEF BeginCreate, AccessInv, AccessShape
  <1>2. AccessShape' /\ OutAreRevoked'
    BY <1>1 DEF BeginCreate, AccessInv, AccessShape, OutAreRevoked
  <1>3. ChangersManage' /\ OrganizationsAreReachable'
    BY <1>1, StillReachable, StillManaged DEF BeginCreate, AccessInv
  <1> QED
    BY <1>2, <1>3 DEF AccessInv

LEMMA BeginUpdateInv ==
  ASSUME AccessInv, NEW r \in Requests, NEW s \in DOMAIN sessions, NEW org \in DOMAIN orgs,
         NEW patch, BeginUpdate(r, s, org, patch)
  PROVE  AccessInv'
  <1>1. Manages(sessions[s].user, org)
    BY CanManages DEF BeginUpdate, AccessInv
  <1>2. /\ DOMAIN requests' = Requests
        /\ requests'[r].session = s /\ requests'[r].org = org
        /\ \A q \in Requests \ {r} : requests'[q] = requests[q]
    BY DEF BeginUpdate, AccessInv, AccessShape
  <1>3. AccessShape' /\ OutAreRevoked'
    BY <1>2 DEF BeginUpdate, AccessInv, AccessShape, OutAreRevoked
  <1>4. ChangersManage'
    BY <1>1, <1>2 DEF BeginUpdate, AccessInv, ChangersManage, Manages
  <1>5. OrganizationsAreReachable'
    BY StillReachable DEF BeginUpdate, AccessInv
  <1> QED
    BY <1>3, <1>4, <1>5 DEF AccessInv

LEMMA AbortInv ==
  ASSUME AccessInv, NEW r \in Requests, Abort(r)
  PROVE  AccessInv'
  <1>1. /\ DOMAIN requests' = Requests
        /\ \A q \in Requests : requests'[q].phase = "updating" => requests'[q] = requests[q]
    <2>1. DOMAIN requests = Requests
      BY DEF AccessInv, AccessShape
    <2>2. PICK phase : Answer(r, phase) /\ phase # "updating"
      BY DEF Abort
    <2>3. /\ DOMAIN requests' = Requests
          /\ requests'[r].phase = phase
          /\ \A q \in Requests \ {r} : requests'[q] = requests[q]
      BY <2>1, <2>2, AnsweredRequests
    <2> QED
      BY <2>2, <2>3
  <1>2. AccessShape' /\ OutAreRevoked'
    BY <1>1 DEF Abort, AccessInv, AccessShape, OutAreRevoked
  <1>3. ChangersManage' /\ OrganizationsAreReachable'
    BY <1>1, StillReachable, StillManaged DEF Abort, AccessInv
  <1> QED
    BY <1>2, <1>3 DEF AccessInv

\* An update changes the fields of one organization, and only those it gives.
LEMMA UpdatedOrganization ==
  ASSUME AccessShape, NEW r \in Requests, CommitUpdate(r), requests[r].org \in DOMAIN orgs
  PROVE  /\ IsTable(orgs') /\ DOMAIN orgs' = DOMAIN orgs
         /\ \A o \in DOMAIN orgs : /\ DOMAIN orgs'[o] = {"slug", "templates", "fields"}
                                   /\ orgs'[o].slug = orgs[o].slug
                                   /\ orgs'[o].templates = orgs[o].templates
         /\ \A o \in DOMAIN orgs \ {requests[r].org} : orgs'[o] = orgs[o]
         /\ orgs'[requests[r].org].fields
              = UpdatedFields(requests[r].row, requests[r].arg, orgs[requests[r].org].fields)
  <1> DEFINE org == requests[r].org
             new == UpdatedFields(requests[r].row, requests[r].arg, orgs[org].fields)
             row == [orgs[org] EXCEPT !.fields = new]
  <1>1. orgs' = [orgs EXCEPT ![org] = row]
    BY DEF CommitUpdate
  <1>2. DOMAIN orgs[org] = {"slug", "templates", "fields"}
    BY DEF AccessShape
  <1>3. /\ DOMAIN row = {"slug", "templates", "fields"} /\ row.fields = new
        /\ row.slug = orgs[org].slug /\ row.templates = orgs[org].templates
    <2> HIDE DEF new
    <2> QED
      BY <1>2
  <1>4. org \in DOMAIN orgs /\ IsTable(orgs)
    BY DEF AccessShape
  <1>5. /\ IsTable(orgs') /\ DOMAIN orgs' = DOMAIN orgs
        /\ orgs'[org] = row /\ \A o \in DOMAIN orgs : o # org => orgs'[o] = orgs[o]
    <2> HIDE DEF row, org
    <2> QED
      BY <1>1, <1>4, ChangedTable
  <1> HIDE DEF row, new
  <1> QED
    BY <1>3, <1>5 DEF AccessShape, new

LEMMA CommitUpdateInv ==
  ASSUME AccessInv, NEW r \in Requests, CommitUpdate(r)
  PROVE  AccessInv'
  <1>1. requests[r].org \in DOMAIN orgs
    BY DEF CommitUpdate, AccessInv, ChangersManage
  <1>2. /\ DOMAIN requests' = Requests
        /\ \A q \in Requests : requests'[q].phase = "updating" => requests'[q] = requests[q]
    <2>1. DOMAIN requests = Requests
      BY DEF AccessInv, AccessShape
    <2>2. PICK phase : Answer(r, phase) /\ phase # "updating"
      BY DEF CommitUpdate
    <2>3. /\ DOMAIN requests' = Requests
          /\ requests'[r].phase = phase
          /\ \A q \in Requests \ {r} : requests'[q] = requests[q]
      BY <2>1, <2>2, AnsweredRequests
    <2> QED
      BY <2>2, <2>3
  <1>3. AuditGrows
    BY RecordedEntry DEF CommitUpdate, AccessInv
  <1>4. /\ IsTable(orgs') /\ DOMAIN orgs' = DOMAIN orgs
        /\ \A o \in DOMAIN orgs : /\ DOMAIN orgs'[o] = {"slug", "templates", "fields"}
                                  /\ orgs'[o].slug = orgs[o].slug
                                  /\ orgs'[o].templates = orgs[o].templates
    BY <1>1, UpdatedOrganization DEF AccessInv
  <1>5. AccessShape' /\ OutAreRevoked'
    BY <1>2, <1>3, <1>4 DEF CommitUpdate, AccessInv, AccessShape, OutAreRevoked, AuditGrows
  <1>6. ChangersManage' /\ OrganizationsAreReachable'
    BY <1>2, <1>3, <1>4, StillReachable, StillManaged DEF CommitUpdate, AccessInv
  <1> QED
    BY <1>5, <1>6 DEF AccessInv
\* The new organization is added after the others, and none of them has its slug.
LEMMA CreatedOrganization ==
  ASSUME AccessShape, NEW r \in Requests, CommitCreate(r)
  PROVE  /\ IsTable(orgs') /\ Len(orgs) \in Nat
         /\ DOMAIN orgs = 1..Len(orgs) /\ DOMAIN orgs' = 1..Len(orgs) + 1
         /\ \A o \in DOMAIN orgs : orgs'[o] = orgs[o]
         /\ \A o \in DOMAIN orgs : orgs[o].slug # orgs'[Len(orgs) + 1].slug
         /\ DOMAIN orgs'[Len(orgs) + 1] = {"slug", "templates", "fields"}
         /\ orgs'[Len(orgs) + 1].templates = Starters
  <1> DEFINE values == [f \in Fields |-> IF f = "name" THEN requests[r].arg ELSE ""]
             row == [slug |-> requests[r].row, templates |-> Starters, fields |-> values]
  <1>1. orgs' = Append(orgs, row)
    BY DEF CommitCreate
  <1>2. /\ DOMAIN row = {"slug", "templates", "fields"}
        /\ row.slug = requests[r].row /\ row.templates = Starters
    <2> HIDE DEF values
    <2> QED
      OBVIOUS
  <1>3. \A o \in DOMAIN orgs : orgs[o].slug # row.slug
    BY <1>2 DEF CommitCreate, SlugFree, Taken
  <1> HIDE DEF row
  <1>4. /\ IsTable(orgs') /\ Len(orgs) \in Nat
        /\ DOMAIN orgs = 1..Len(orgs) /\ DOMAIN orgs' = 1..Len(orgs) + 1
        /\ \A o \in DOMAIN orgs : orgs'[o] = orgs[o]
        /\ orgs'[Len(orgs) + 1] = row
    BY <1>1, AppendedTable DEF AccessShape
  <1> QED
    BY <1>2, <1>3, <1>4

LEMMA CommitCreateInv ==
  ASSUME AccessInv, NEW r \in Requests, CommitCreate(r)
  PROVE  AccessInv'
  <1> DEFINE org == Len(orgs) + 1
             user == sessions[requests[r].session].user
             entry == Entry(org, user, "organization.created")
  <1>1. /\ IsTable(orgs') /\ Len(orgs) \in Nat
        /\ DOMAIN orgs = 1..Len(orgs) /\ DOMAIN orgs' = 1..Len(orgs) + 1
        /\ \A o \in DOMAIN orgs : orgs'[o] = orgs[o]
        /\ \A o \in DOMAIN orgs : orgs[o].slug # orgs'[org].slug
        /\ DOMAIN orgs'[org] = {"slug", "templates", "fields"}
        /\ orgs'[org].templates = Starters
    BY CreatedOrganization DEF AccessInv
  <1>2. AuditGrows /\ Len(audit') \in DOMAIN audit' /\ audit'[Len(audit')] = entry
    BY RecordedEntry DEF CommitCreate, AccessInv
  <1>3. /\ members' = members \cup {[org |-> org, user |-> user, role |-> "owner"]}
        /\ UNCHANGED <<sessions, out>>
    BY DEF CommitCreate
  <1>4. /\ DOMAIN requests' = Requests
        /\ \A q \in Requests : requests'[q].phase = "updating" => requests'[q] = requests[q]
    <2>1. Answer(r, "answered")
      BY DEF CommitCreate
    <2>2. DOMAIN requests = Requests
      BY DEF AccessInv, AccessShape
    <2>3. /\ DOMAIN requests' = Requests
          /\ requests'[r].phase = "answered"
          /\ \A q \in Requests \ {r} : requests'[q] = requests[q]
      BY <2>1, <2>2, AnsweredRequests
    <2> QED
      BY <2>3
  <1> HIDE DEF user, entry
  <1>5. AccessShape'
    <2>1. \A o \in DOMAIN orgs' : DOMAIN orgs'[o] = {"slug", "templates", "fields"}
      BY <1>1 DEF AccessInv, AccessShape
    <2>2. \A m \in members' : m.role \in {"viewer", "editor", "admin", "owner"}
      BY <1>3 DEF AccessInv, AccessShape
    <2> QED
      BY <1>1, <1>2, <1>3, <1>4, <2>1, <2>2 DEF AccessInv, AccessShape, AuditGrows
  <1>6. OutAreRevoked' /\ ChangersManage'
    BY <1>1, <1>3, <1>4, StillManaged DEF AccessInv, OutAreRevoked
  <1>7. OrganizationsAreReachable'
    <2> SUFFICES ASSUME NEW o \in DOMAIN orgs'
                 PROVE  /\ \A p \in DOMAIN orgs' : orgs'[o].slug = orgs'[p].slug => o = p
                        /\ orgs'[o].templates = Starters
                        /\ \E m \in members' :
                             /\ m.org = o /\ m.role = "owner"
                             /\ \E i \in DOMAIN audit' :
                                  audit'[i] = Entry(o, m.user, "organization.created")
      BY DEF OrganizationsAreReachable
    <2>1. \A p \in DOMAIN orgs' : orgs'[o].slug = orgs'[p].slug => o = p
      BY <1>1 DEF AccessInv, OrganizationsAreReachable
    <2>2. CASE o \in DOMAIN orgs
      <3>1. orgs'[o].templates = Starters
        BY <1>1, <2>2 DEF AccessInv, OrganizationsAreReachable
      <3>2. PICK m \in members : /\ m.org = o /\ m.role = "owner"
                                 /\ \E i \in DOMAIN audit :
                                      audit[i] = Entry(o, m.user, "organization.created")
        BY <2>2 DEF AccessInv, OrganizationsAreReachable
      <3>3. m \in members' /\ \E i \in DOMAIN audit' :
                                audit'[i] = Entry(o, m.user, "organization.created")
        BY <1>2, <1>3, <3>2 DEF AuditGrows
      <3> QED
        BY <2>1, <3>1, <3>2, <3>3
    <2>3. CASE o = org
      <3> DEFINE m == [org |-> org, user |-> user, role |-> "owner"]
      <3>1. m \in members' /\ m.org = o /\ m.role = "owner" /\ m.user = user
        BY <1>3, <2>3
      <3>2. audit'[Len(audit')] = Entry(o, m.user, "organization.created")
        BY <1>2, <2>3, <3>1 DEF entry
      <3> HIDE DEF m
      <3> QED
        BY <1>1, <1>2, <2>1, <2>3, <3>1, <3>2
    <2> QED
      BY <1>1, <2>2, <2>3
  <1> QED
    BY <1>5, <1>6, <1>7 DEF AccessInv

LEMMA AccessInvStep ==
  ASSUME AccessInv, [Next]_vars
  PROVE  AccessInv'
  <1>1. CASE OrganizationStep
    BY <1>1, BeginCreateInv, BeginUpdateInv, CommitCreateInv, CommitUpdateInv, AbortInv
       DEF OrganizationStep
  <1>2. CASE UNCHANGED vars
    BY <1>2 DEF vars, AccessInv, AccessShape, OutAreRevoked, ChangersManage, Manages,
                OrganizationsAreReachable
  <1> QED
    BY <1>1, <1>2, SessionStepInv, MemberStepInv DEF Next

LEMMA AccessInvariant == Spec => []AccessInv
  <1>1. Init => AccessInv
    BY EmptyTable DEF Init, Waiting, AccessInv, AccessShape, OutAreRevoked, ChangersManage,
                      OrganizationsAreReachable
  <1>2. AccessInv /\ [Next]_vars => AccessInv'
    BY AccessInvStep
  <1> QED
    BY <1>1, <1>2, PTL DEF Spec

\* However many creations choose the same slug at the same time or are lost, every
\* organization is reachable: it has its own slug, an owner on record and its templates.
THEOREM OrganizationsStayReachable == Spec => []OrganizationsAreReachable
  BY AccessInvariant, PTL DEF AccessInv

-----------------------------------------------------------------------------
(* What no step does                                                        *)

\* Sign-out is effective at once for every session, in whatever order requests come in.
THEOREM SignOutIsEffective == Spec => SignedOutIsOut
  <1> DEFINE LetIn == \A r \in Requests :
               requests[r].phase = "waiting" /\ requests'[r].phase # "waiting"
                 => requests'[r].session \notin out
  <1>1. AccessInv /\ [Next]_vars => [LetIn]_vars
    <2> SUFFICES ASSUME AccessInv, [Next]_vars, NEW r \in Requests,
                        requests[r].phase = "waiting", requests'[r].phase # "waiting"
                 PROVE  requests'[r].session \notin out
      OBVIOUS
    <2>1. ASSUME NEW q \in Requests, NEW s, NEW name, BeginCreate(q, s, name)
          PROVE  requests'[r].session \notin out
      <3>1. q = r /\ requests'[r].session = s
        BY <2>1 DEF BeginCreate, AccessInv, AccessShape
      <3> QED
        BY <2>1, <3>1 DEF BeginCreate, Resolves, AccessInv, OutAreRevoked
    <2>2. ASSUME NEW q \in Requests, NEW s, NEW org, NEW patch, BeginUpdate(q, s, org, patch)
          PROVE  requests'[r].session \notin out
      <3>1. q = r /\ requests'[r].session = s
        BY <2>2 DEF BeginUpdate, AccessInv, AccessShape
      <3> QED
        BY <2>2, <3>1 DEF BeginUpdate, Resolves, AccessInv, OutAreRevoked
    <2>3. ASSUME NEW q \in Requests, CommitCreate(q) \/ CommitUpdate(q) \/ Abort(q)
          PROVE  FALSE
      <3>1. q # r
        BY <2>3 DEF CommitCreate, CommitUpdate, Abort
      <3> QED
        BY <2>3, <3>1, AnsweredRequests
           DEF CommitCreate, CommitUpdate, Abort, AccessInv, AccessShape
    <2>4. CASE SessionStep \/ MemberStep \/ UNCHANGED vars
      BY <2>4 DEF SessionStep, SignUp, SignIn, SignOut, SessionExpires,
                  MemberStep, InviteMember, Enlist, vars
    <2> QED
      BY <2>1, <2>2, <2>3, <2>4 DEF Next, OrganizationStep
  <1> QED
    BY <1>1, AccessInvariant, PTL DEF Spec, SignedOutIsOut
\* Only a creation and an update touch the table of organizations, and a creation leaves
\* those there are.
LEMMA WhoChangesOrganizations ==
  ASSUME AccessInv, [Next]_vars, NEW o \in DOMAIN orgs, orgs'[o] # orgs[o]
  PROVE  \E r \in Requests : CommitUpdate(r) /\ requests[r].org = o
  <1>1. ASSUME NEW r \in Requests, CommitCreate(r)
        PROVE  FALSE
    BY <1>1, CreatedOrganization DEF AccessInv
  <1>2. ASSUME NEW r \in Requests, CommitUpdate(r)
        PROVE  requests[r].org = o
    <2>1. requests[r].org \in DOMAIN orgs
      BY <1>2 DEF CommitUpdate, AccessInv, ChangersManage
    <2> QED
      BY <1>2, <2>1, UpdatedOrganization DEF AccessInv
  <1>3. UNCHANGED orgs \/ \E r \in Requests : CommitCreate(r) \/ CommitUpdate(r)
    BY DEF Next, SessionStep, SignUp, SignIn, SignOut, SessionExpires, MemberStep,
           InviteMember, Enlist, OrganizationStep, BeginCreate, BeginUpdate, Abort, vars
  <1> QED
    BY <1>1, <1>2, <1>3

\* Whatever updates overlap, a field only ever takes the value that a patch gives it when
\* that patch is answered.
THEOREM PatchesDoCompose == Spec => PatchesCompose
  <1> DEFINE Composed ==
        \A o \in DOMAIN orgs, f \in Fields :
          orgs'[o].fields[f] # orgs[o].fields[f] =>
            \E r \in Requests :
              /\ requests[r].phase = "updating" /\ requests'[r].phase = "answered"
              /\ requests[r].org = o
              /\ f \in DOMAIN requests[r].arg
              /\ orgs'[o].fields[f] = requests[r].arg[f]
  <1>1. AccessInv /\ [Next]_vars => [Composed]_vars
    <2> SUFFICES ASSUME AccessInv, [Next]_vars, NEW o \in DOMAIN orgs, NEW f \in Fields,
                        orgs'[o].fields[f] # orgs[o].fields[f]
                 PROVE  \E r \in Requests :
                          /\ requests[r].phase = "updating" /\ requests'[r].phase = "answered"
                          /\ requests[r].org = o
                          /\ f \in DOMAIN requests[r].arg
                          /\ orgs'[o].fields[f] = requests[r].arg[f]
      OBVIOUS
    <2>1. PICK r \in Requests : CommitUpdate(r) /\ requests[r].org = o
      BY WhoChangesOrganizations
    <2>2. orgs'[o].fields = UpdatedFields(requests[r].row, requests[r].arg, orgs[o].fields)
      BY <2>1, UpdatedOrganization DEF AccessInv
    <2>3. orgs'[o].fields[f] = IF f \in DOMAIN requests[r].arg
                                    /\ requests[r].arg[f] # requests[r].row[f]
                               THEN requests[r].arg[f] ELSE orgs[o].fields[f]
      BY <2>2 DEF UpdatedFields
    <2>4. f \in DOMAIN requests[r].arg /\ orgs'[o].fields[f] = requests[r].arg[f]
      BY <2>3
    <2>5. requests[r].phase = "updating" /\ requests'[r].phase = "answered"
      BY <2>1, AnsweredRequests DEF CommitUpdate, AccessInv, AccessShape
    <2> QED
      BY <2>1, <2>4, <2>5
  <1> QED
    BY <1>1, AccessInvariant, PTL DEF Spec, PatchesCompose

\* The trail is append-only, and whoever changes an organization is on it, an admin or
\* owner of it although the check was made when the request began.
THEOREM ChangesStayOnRecord == Spec => ChangesAreOnRecord
  <1> DEFINE OnRecord ==
        /\ SubSeq(audit', 1, Len(audit)) = audit
        /\ \A o \in DOMAIN orgs :
             orgs'[o] # orgs[o] =>
               /\ Len(audit') > Len(audit)
               /\ audit'[Len(audit')].org = o
               /\ \E m \in members :
                    /\ m.org = o /\ m.user = audit'[Len(audit')].actor
                    /\ m.role \in {"admin", "owner"}
  <1>1. AccessInv /\ [Next]_vars => [OnRecord]_vars
    <2> SUFFICES ASSUME AccessInv, [Next]_vars
                 PROVE  OnRecord
      OBVIOUS
    <2>1. SubSeq(audit', 1, Len(audit)) = audit
      <3>1. CASE UNCHANGED audit
        BY <3>1, SubSeqFull DEF AccessInv, AccessShape, IsTable
      <3>2. CASE \E org, actor, action : Recorded(org, actor, action)
        BY <3>2, RecordedEntry DEF AccessInv
      <3>3. UNCHANGED audit \/ \E org, actor, action : Recorded(org, actor, action)
        BY DEF Next, SessionStep, SignUp, SignIn, SignOut, SessionExpires, MemberStep,
               InviteMember, Enlist, OrganizationStep, BeginCreate, BeginUpdate, Abort,
               CommitCreate, CommitUpdate, vars
      <3> QED
        BY <3>1, <3>2, <3>3
    <2>2. ASSUME NEW o \in DOMAIN orgs, orgs'[o] # orgs[o]
          PROVE  /\ Len(audit') > Len(audit)
                 /\ audit'[Len(audit')].org = o
                 /\ Manages(audit'[Len(audit')].actor, o)
      <3>1. PICK r \in Requests : CommitUpdate(r) /\ requests[r].org = o
        BY <2>2, WhoChangesOrganizations
      <3> DEFINE user == sessions[requests[r].session].user
      <3>2. Manages(user, o)
        BY <3>1 DEF CommitUpdate, AccessInv, ChangersManage
      <3>3. /\ Len(audit') > Len(audit)
            /\ audit'[Len(audit')] = Entry(o, user, "organization.updated")
        BY <3>1, RecordedEntry DEF CommitUpdate, AccessInv
      <3> HIDE DEF user
      <3>4. audit'[Len(audit')].org = o /\ audit'[Len(audit')].actor = user
        BY <3>3 DEF Entry
      <3> QED
        BY <3>2, <3>3, <3>4
    <2> QED
      BY <2>1, <2>2 DEF Manages
  <1> QED
    BY <1>1, AccessInvariant, PTL DEF Spec, ChangesAreOnRecord
===============================================================================
