------------------------------ MODULE Migrations ------------------------------
(***************************************************************************)
(* The revisions under migrations/versions, oldest first: the statements   *)
(* of each upgrade() and downgrade(), and what a statement does to the     *)
(* tables. Revision 0 is the empty database.                               *)
(***************************************************************************)
EXTENDS Tables, Sequences

Statement(op, table, arg) == [op |-> op, table |-> table, arg |-> arg]

CreateTable(name, def) == Statement("create_table", name, def)
DropTable(name) == Statement("drop_table", name, {})
AddColumns(name, columns) == Statement("add_nullable", name, columns)
DropColumns(name, columns) == Statement("drop_columns", name, columns)

-----------------------------------------------------------------------------
(* 0bd39148ddf7, phase 1 domain schema                                     *)

OrganizationsTable == Stamped(Table({"name", "slug"}, {}, {{"slug"}}, {}))

UsersTable ==
  Stamped(Table({"email", "name", "password_hash", "is_active"}, {}, {{"email"}}, {}))

AuditLogTable ==
  Defaulted(Table({"org_id", "actor_kind", "action", "metadata"},
                  {"actor_user_id", "target_type", "target_id"}, {},
                  {<<"actor_user_id", "users">>, <<"org_id", "organizations">>}),
            {"created_at"})

ContactsTable ==
  Stamped(Table({"org_id", "email", "fields", "suppressed"},
                {"name", "unsubscribed_at", "suppressed_reason"}, {{"org_id", "email"}},
                {<<"org_id", "organizations">>}))

EmailTemplatesTable ==
  Stamped(Table({"org_id", "name", "current_version"}, {}, {},
                {<<"org_id", "organizations">>}))

EventsTable ==
  Stamped(Table({"org_id", "name"}, {"starts_at"}, {}, {<<"org_id", "organizations">>}))

GroupsTable == Stamped(Table({"org_id", "name"}, {}, {}, {<<"org_id", "organizations">>}))

OrganizationMembersTable ==
  Stamped(Table({"org_id", "user_id", "role"}, {}, {{"org_id", "user_id"}},
                {<<"org_id", "organizations">>, <<"user_id", "users">>}))

SessionsTable ==
  Stamped(Table({"user_id", "expires_at"}, {"revoked_at", "user_agent"}, {},
                {<<"user_id", "users">>}))

TagsTable ==
  Stamped(Table({"org_id", "name"}, {}, {{"org_id", "name"}},
                {<<"org_id", "organizations">>}))

CampaignsTable ==
  Stamped(Table({"org_id", "name", "template_id", "template_version", "status",
                 "send_rate_per_second", "created_by"},
                {"event_id", "scheduled_at", "started_at", "completed_at"}, {},
                {<<"created_by", "users">>, <<"event_id", "events">>,
                 <<"org_id", "organizations">>, <<"template_id", "email_templates">>}))

ContactGroupsTable == Link("contact_id", "contacts", "group_id", "groups")

ContactTagsTable == Link("contact_id", "contacts", "tag_id", "tags")

JobsTable ==
  Stamped(Table({"org_id", "name"}, {"event_id"}, {},
                {<<"event_id", "events">>, <<"org_id", "organizations">>}))

TemplateVersionsTable ==
  Stamped(Table({"template_id", "version", "subject", "html_body", "variables"},
                {"text_body"}, {{"template_id", "version"}},
                {<<"template_id", "email_templates">>}))

EmailJobsTable ==
  Stamped(Table({"campaign_id", "contact_id", "to_addr", "subject", "html_body",
                 "send_status", "attempt", "open_count", "click_count"},
                {"text_body", "delivery_status", "claimed_by", "claimed_at",
                 "provider_message_id", "sent_at", "last_error", "first_opened_at",
                 "first_clicked_at"},
                {{"provider_message_id"}},
                {<<"campaign_id", "campaigns">>, <<"contact_id", "contacts">>}))

EmailEngagementsTable ==
  Table({"email_job_id", "kind", "occurred_at"}, {"user_agent", "url"}, {},
        {<<"email_job_id", "email_jobs">>})

ProviderEventsTable ==
  Defaulted(Table({"provider_event_id", "provider_message_id", "event_type",
                   "occurred_at", "raw", "attempts"},
                  {"email_job_id", "processed_at"}, {{"provider_event_id"}},
                  {<<"email_job_id", "email_jobs">>}),
            {"received_at"})

Phase1Upgrade ==
  <<CreateTable("organizations", OrganizationsTable),
    CreateTable("users", UsersTable),
    CreateTable("audit_log", AuditLogTable),
    CreateTable("contacts", ContactsTable),
    CreateTable("email_templates", EmailTemplatesTable),
    CreateTable("events", EventsTable),
    CreateTable("groups", GroupsTable),
    CreateTable("organization_members", OrganizationMembersTable),
    CreateTable("sessions", SessionsTable),
    CreateTable("tags", TagsTable),
    CreateTable("campaigns", CampaignsTable),
    CreateTable("contact_groups", ContactGroupsTable),
    CreateTable("contact_tags", ContactTagsTable),
    CreateTable("jobs_", JobsTable),
    CreateTable("template_versions", TemplateVersionsTable),
    CreateTable("email_jobs", EmailJobsTable),
    CreateTable("email_engagements", EmailEngagementsTable),
    CreateTable("provider_events", ProviderEventsTable)>>

Phase1Downgrade ==
  <<DropTable("provider_events"), DropTable("email_engagements"), DropTable("email_jobs"),
    DropTable("template_versions"), DropTable("jobs_"), DropTable("contact_tags"),
    DropTable("contact_groups"), DropTable("campaigns"), DropTable("tags"),
    DropTable("sessions"), DropTable("organization_members"), DropTable("groups"),
    DropTable("events"), DropTable("email_templates"), DropTable("contacts"),
    DropTable("audit_log"), DropTable("users"), DropTable("organizations")>>

-----------------------------------------------------------------------------
(* The five revisions on top of it                                         *)

\* e6d7a3706d0f: the endpoint of the webhooks inserts without naming the counter.
AttemptsUpgrade == <<Statement("set_default", "provider_events", {"attempts"})>>

AttemptsDowngrade == <<Statement("drop_default", "provider_events", {"attempts"})>>

\* Bug: the column is added NOT NULL without a default.
ArchivedUpgradeBare == <<Statement("add_required", "email_templates", {"archived"})>>

\* a3f7c9e21b44: the soft delete of templates.
ArchivedUpgrade == <<Statement("add_defaulted", "email_templates", {"archived"})>>

ArchivedDowngrade == <<DropColumns("email_templates", {"archived"})>>

\* CREATE_TASKS_TABLE, a script of four statements in one string.
TasksTable ==
  Defaulted(Table({"queue", "task_type"},
                  {"idempotency_key", "lease_until", "lease_owner", "last_error", "parent_id"},
                  {{"idempotency_key"}}, {}),
            {"payload", "status", "run_after", "attempt", "max_attempts", "created_at",
             "updated_at"})

\* f19b6a2d7c83: the table of the durable queue.
TasksUpgrade == <<Statement("script_if_absent", "tasks", TasksTable)>>

TasksDowngrade == <<Statement("drop_if_present", "tasks", {})>>

\* f0fd8acb14ac: the name of a group is unique in its organization.
GroupNameUpgrade == <<Statement("add_unique", "groups", {"org_id", "name"})>>

GroupNameDowngrade == <<Statement("drop_unique", "groups", {"org_id", "name"})>>

\* b2c4e8f1a9d3: the sending identity of an organization.
IdentityUpgrade ==
  <<AddColumns("organizations", {"from_address"}), AddColumns("organizations", {"from_name"}),
    AddColumns("organizations", {"reply_to_address"})>>

\* Bug: the reply address is left behind.
IdentityDowngradePartial ==
  <<DropColumns("organizations", {"from_name"}), DropColumns("organizations", {"from_address"})>>

IdentityDowngrade ==
  <<DropColumns("organizations", {"reply_to_address"}),
    DropColumns("organizations", {"from_name"}), DropColumns("organizations", {"from_address"})>>

-----------------------------------------------------------------------------

\* The order the down_revision links give.
Upgrades ==
  <<Phase1Upgrade, AttemptsUpgrade, ArchivedUpgrade, TasksUpgrade, GroupNameUpgrade,
    IdentityUpgrade>>

Downgrades ==
  <<Phase1Downgrade, AttemptsDowngrade, ArchivedDowngrade, TasksDowngrade,
    GroupNameDowngrade, IdentityDowngrade>>

Latest == Len(Upgrades)

\* Dropping a column takes the keys it is part of along.
Without(t, columns) ==
  [t EXCEPT !.required = @ \ columns, !.optional = @ \ columns, !.defaulted = @ \ columns,
            !.unique = {key \in @ : key \cap columns = {}},
            !.refs = {ref \in @ : ref[1] \notin columns}]

\* What a statement makes of the table it alters.
Altered(s, t) ==
  CASE s.op = "add_required" -> [t EXCEPT !.required = @ \cup s.arg]
    [] s.op = "add_defaulted" -> Defaulted(t, s.arg)
    [] s.op = "add_nullable" -> [t EXCEPT !.optional = @ \cup s.arg]
    [] s.op = "drop_columns" -> Without(t, s.arg)
    [] s.op = "set_default" -> [t EXCEPT !.defaulted = @ \cup s.arg]
    [] s.op = "drop_default" -> [t EXCEPT !.defaulted = @ \ s.arg]
    [] s.op = "add_unique" -> [t EXCEPT !.unique = @ \cup {s.arg}]
    [] s.op = "drop_unique" -> [t EXCEPT !.unique = @ \ {s.arg}]
    [] OTHER -> t

\* The tables after one statement.
Applied(s, tables) ==
  CASE s.op \in {"create_table", "script_if_absent"} ->
         [name \in DOMAIN tables \cup {s.table} |->
            IF name \in DOMAIN tables THEN tables[name] ELSE s.arg]
    [] s.op \in {"drop_table", "drop_if_present"} ->
         [name \in DOMAIN tables \ {s.table} |-> tables[name]]
    [] OTHER -> [tables EXCEPT ![s.table] = Altered(s, @)]

\* The tables that the first k of the statements leave, for every k.
After(statements, base) ==
  LET after[k \in 0..Len(statements)] ==
        IF k = 0 THEN base ELSE Applied(statements[k], after[k - 1])
  IN  after

Revisions == 0..Latest

\* The schema of each revision, had nothing but its upgrades been executed.
SchemaAt[r \in Revisions] ==
  IF r = 0 THEN NoTables ELSE After(Upgrades[r], SchemaAt[r - 1])[Len(Upgrades[r])]
===============================================================================
