-------------------------------- MODULE Access --------------------------------
(***************************************************************************)
(* Accounts, sessions, organizations, their members and the audit trail:   *)
(* packages/shared/auth.py, authz.py and audit.py, services/api/deps.py,   *)
(* routers/auth.py and routers/organizations.py. A request is one          *)
(* transaction. Creating an organization and changing one read what others *)
(* may change before the transaction commits; the other requests are one   *)
(* step, for what they read is checked again by a key or never changes.    *)
(*                                                                         *)
(* Passwords are right and cookies authentic, or the request is refused.   *)
(***************************************************************************)
EXTENDS Naturals, Sequences, FiniteSets

CONSTANTS
  Users,        \* by their address, in lower case
  Names,        \* of organizations, as slugify leaves them: sequences of parts
  Patches,      \* what update_organization is given, for some of the Fields
  Requests,     \* requests that create or change an organization
  Enlisted,     \* the roles an operator gives
  Starters,     \* STARTER_TEMPLATES
  MaxSessions,  \* bound: sessions that are ever opened
  MaxOrgs,      \* bound: organizations that are ever created
  MaxAudit      \* bound: entries the audit trail ever has

ASSUME AccessAssumption ==
  /\ Enlisted \subseteq {"viewer", "editor", "admin", "owner"}
  /\ MaxSessions \in Nat
  /\ MaxOrgs \in Nat
  /\ MaxAudit \in Nat

VARIABLES
  users,     \* the accounts there are
  sessions,  \* rows of sessions in the order of their creation
  orgs,      \* organizations in the order of their creation
  members,   \* organization_members
  audit,     \* audit_log
  requests,  \* what each request has read
  out        \* history: the sessions whose user was told that they are signed out

vars == <<users, sessions, orgs, members, audit, requests, out>>

Fields == {"name", "from_address", "from_name", "reply_to_address"}

Waiting == [phase |-> "waiting", session |-> 0, org |-> 0, arg |-> <<>>, row |-> <<>>]

\* What a request has read is forgotten once it is answered or lost.
Answer(r, phase) == requests' = [requests EXCEPT ![r] = [Waiting EXCEPT !.phase = phase]]

Init ==
  /\ users = {}
  /\ sessions = <<>>
  /\ orgs = <<>>
  /\ members = {}
  /\ audit = <<>>
  /\ requests = [r \in Requests |-> Waiting]
  /\ out = {}

-----------------------------------------------------------------------------
(* Sessions                                                                *)

\* create_session
Opened(user) == Append(sessions, [user |-> user, revoked |-> FALSE, expired |-> FALSE])

\* The account and its first session, in one transaction.
SignUp(user) ==
  /\ user \notin users
  /\ Len(sessions) < MaxSessions
  /\ users' = users \cup {user}
  /\ sessions' = Opened(user)
  /\ UNCHANGED <<orgs, members, audit, requests, out>>

\* is_active is true of every account: nothing under src/ changes it.
SignIn(user) ==
  /\ user \in users
  /\ Len(sessions) < MaxSessions
  /\ sessions' = Opened(user)
  /\ UNCHANGED <<users, orgs, members, audit, requests, out>>

\* Bug: the cookie is deleted and the row left as it is.
SignOutCookieOnly(s) ==
  /\ s \notin out
  /\ out' = out \cup {s}
  /\ UNCHANGED <<users, sessions, orgs, members, audit, requests>>

\* revoke_session, on the session of the cookie alone.
SignOut(s) ==
  /\ s \notin out
  /\ sessions' = [sessions EXCEPT ![s].revoked = TRUE]
  /\ out' = out \cup {s}
  /\ UNCHANGED <<users, orgs, members, audit, requests>>

\* session_ttl_hours are over, for the cookie as for the row.
SessionExpires(s) ==
  /\ ~sessions[s].expired
  /\ sessions' = [sessions EXCEPT ![s].expired = TRUE]
  /\ UNCHANGED <<users, orgs, members, audit, requests, out>>

\* resolve_session and require_user
Resolves(s) == ~sessions[s].revoked /\ ~sessions[s].expired

-----------------------------------------------------------------------------
(* Members                                                                 *)

Role == [viewer |-> 0, editor |-> 1, admin |-> 2, owner |-> 3]

\* Bug: every member may change the settings.
CapabilitiesLax == [manage_members |-> Role.admin, manage_settings |-> Role.viewer]

\* The part of CAPABILITIES that the requests of this module ask for.
Capabilities == [manage_members |-> Role.admin, manage_settings |-> Role.admin]

\* get_membership finds at most one row, and require_capability compares its role.
Can(user, org, capability) ==
  \E m \in members :
    m.org = org /\ m.user = user /\ Role[m.role] >= Capabilities[capability]

Entry(org, actor, action) == [org |-> org, actor |-> actor, action |-> action]

\* record: the entry belongs to the transaction of what it records.
Recorded(org, actor, action) ==
  /\ Len(audit) < MaxAudit
  /\ audit' = Append(audit, Entry(org, actor, action))

\* An invitation is recorded; it makes nobody a member.
InviteMember(s, org) ==
  /\ Resolves(s)
  /\ Can(sessions[s].user, org, "manage_members")
  /\ Recorded(org, sessions[s].user, "member.invited")
  /\ UNCHANGED <<users, sessions, orgs, members, requests, out>>

\* Members other than the creator are entered by an operator: nothing under src/ does it.
Enlist(org, user, role) ==
  /\ user \in users
  /\ \A m \in members : m.org = org => m.user # user
  /\ members' = members \cup {[org |-> org, user |-> user, role |-> role]}
  /\ UNCHANGED <<users, sessions, orgs, audit, requests, out>>

-----------------------------------------------------------------------------
(* Organizations                                                           *)

Taken(slug) == \E o \in DOMAIN orgs : orgs[o].slug = slug

Candidate(base, suffix) == IF suffix = 1 THEN base ELSE Append(base, suffix)

\* _unique_slug: the base, or with the first suffix from 2 on that makes it free.
UniqueSlug(base) ==
  LET free == {n \in 1..Len(orgs) + 1 : ~Taken(Candidate(base, n))} IN
  Candidate(base, CHOOSE n \in free : \A k \in free : n <= k)

\* create_organization chooses a slug that is free at the time.
BeginCreate(r, s, name) ==
  /\ requests[r].phase = "waiting"
  /\ Resolves(s)
  /\ requests' = [requests EXCEPT ![r] = [phase |-> "creating", session |-> s,
                    org |-> 0, arg |-> name, row |-> UniqueSlug(name)]]
  /\ UNCHANGED <<users, sessions, orgs, members, audit, out>>

\* Bug: the slug is not a key.
SlugAccepted(slug) == TRUE

SlugFree(slug) == ~Taken(slug)

\* The organization, its owner, its templates and the entry, in one transaction. The slug
\* is a key and refuses it when it has been taken in the meantime.
CommitCreate(r) ==
  LET org == Len(orgs) + 1
      user == sessions[requests[r].session].user IN
  /\ requests[r].phase = "creating"
  /\ org <= MaxOrgs
  /\ SlugFree(requests[r].row)
  /\ orgs' = Append(orgs, [slug |-> requests[r].row, templates |-> Starters,
                           fields |-> [f \in Fields |-> IF f = "name" THEN requests[r].arg
                                                                       ELSE ""]])
  /\ members' = members \cup {[org |-> org, user |-> user, role |-> "owner"]}
  /\ Recorded(org, user, "organization.created")
  /\ Answer(r, "answered")
  /\ UNCHANGED <<users, sessions, out>>

\* update_organization checks the member and loads the row. The name is always given;
\* a field the patch does not give is not to be changed.
BeginUpdate(r, s, org, patch) ==
  /\ requests[r].phase = "waiting"
  /\ Resolves(s)
  /\ Can(sessions[s].user, org, "manage_settings")
  /\ requests' = [requests EXCEPT ![r] = [phase |-> "updating", session |-> s, org |-> org,
                    arg |-> patch, row |-> orgs[org].fields]]
  /\ UNCHANGED <<users, sessions, orgs, members, audit, out>>

\* Bug: the whole row is written, the fields the patch does not give as they were loaded.
RewrittenFields(loaded, patch, now) ==
  [f \in Fields |-> IF f \in DOMAIN patch THEN patch[f] ELSE loaded[f]]

\* The UPDATE names the columns whose value differs from the one that was loaded.
UpdatedFields(loaded, patch, now) ==
  [f \in Fields |-> IF f \in DOMAIN patch /\ patch[f] # loaded[f] THEN patch[f] ELSE now[f]]

CommitUpdate(r) ==
  LET request == requests[r] IN
  /\ request.phase = "updating"
  /\ orgs' = [orgs EXCEPT ![request.org].fields =
                UpdatedFields(request.row, request.arg, @)]
  /\ Recorded(request.org, sessions[request.session].user, "organization.updated")
  /\ Answer(r, "answered")
  /\ UNCHANGED <<users, sessions, members, out>>

\* A key refuses the transaction or its connection is lost.
Abort(r) ==
  /\ requests[r].phase \in {"creating", "updating"}
  /\ Answer(r, "lost")
  /\ UNCHANGED <<users, sessions, orgs, members, audit, out>>

-----------------------------------------------------------------------------

SessionStep ==
  \/ \E user \in Users : SignUp(user) \/ SignIn(user)
  \/ \E s \in DOMAIN sessions : SignOut(s) \/ SessionExpires(s)

MemberStep ==
  \E org \in DOMAIN orgs :
    \/ \E s \in DOMAIN sessions : InviteMember(s, org)
    \/ \E user \in Users, role \in Enlisted : Enlist(org, user, role)

OrganizationStep ==
  \E r \in Requests :
    \/ \E s \in DOMAIN sessions, name \in Names : BeginCreate(r, s, name)
    \/ \E s \in DOMAIN sessions, org \in DOMAIN orgs, patch \in Patches :
         BeginUpdate(r, s, org, patch)
    \/ CommitCreate(r)
    \/ CommitUpdate(r)
    \/ Abort(r)

Next == SessionStep \/ MemberStep \/ OrganizationStep

Spec == Init /\ [][Next]_vars

-----------------------------------------------------------------------------
(* Properties                                                               *)

\* organizations.py: "an org with zero members would be unreachable by anyone". Whichever
\* creations ran into each other or were lost, each organization there is has a slug of
\* its own, an owner, who is on record as its creator, and all the starter templates.
OrganizationsAreReachable ==
  \A o \in DOMAIN orgs :
    /\ \A p \in DOMAIN orgs : orgs[o].slug = orgs[p].slug => o = p
    /\ orgs[o].templates = Starters
    /\ \E m \in members :
         /\ m.org = o /\ m.role = "owner"
         /\ \E i \in DOMAIN audit : audit[i] = Entry(o, m.user, "organization.created")

\* auth.py: sign-out is effective at once. No request that comes in after the user was
\* told so is let in by the session.
SignedOutIsOut ==
  [][\A r \in Requests :
       requests[r].phase = "waiting" /\ requests'[r].phase # "waiting"
         => requests'[r].session \notin out]_vars

\* UpdateOrgRequest: "None means don't change this field". A field of an organization
\* changes only when a patch that gives it is answered, and then to the value it gives,
\* although other patches may have loaded the row before.
PatchesCompose ==
  [][\A o \in DOMAIN orgs, f \in Fields :
       orgs'[o].fields[f] # orgs[o].fields[f] =>
         \E r \in Requests :
           /\ requests[r].phase = "updating" /\ requests'[r].phase = "answered"
           /\ requests[r].org = o
           /\ f \in DOMAIN requests[r].arg
           /\ orgs'[o].fields[f] = requests[r].arg[f]]_vars

\* AuditLog: append-only, and every change traces to a member who may make it. No entry is
\* dropped or altered, an organization never changes without one, and its actor is an
\* admin or owner of that organization.
ChangesAreOnRecord ==
  [][/\ SubSeq(audit', 1, Len(audit)) = audit
     /\ \A o \in DOMAIN orgs :
          orgs'[o] # orgs[o] =>
            /\ Len(audit') > Len(audit)
            /\ audit'[Len(audit')].org = o
            /\ \E m \in members :
                 /\ m.org = o /\ m.user = audit'[Len(audit')].actor
                 /\ m.role \in {"admin", "owner"}]_vars
===============================================================================
