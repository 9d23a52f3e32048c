-------------------------------- MODULE Models --------------------------------
(***************************************************************************)
(* The schema that the program is written against: the classes of          *)
(* packages/shared/models.py, which the ORM inserts through, the table of  *)
(* the durable queue, and the INSERT statements written as raw SQL.        *)
(***************************************************************************)
EXTENDS Tables

User == Stamped(Table({"email", "name", "password_hash", "is_active"}, {}, {{"email"}}, {}))

Organization ==
  Stamped(Table({"name", "slug"}, {"from_address", "from_name", "reply_to_address"},
                {{"slug"}}, {}))

OfOrganization == <<"org_id", "organizations">>

OrganizationMember ==
  Stamped(Table({"org_id", "user_id", "role"}, {}, {{"org_id", "user_id"}},
                {OfOrganization, <<"user_id", "users">>}))

Session ==
  Stamped(Table({"user_id", "expires_at"}, {"revoked_at", "user_agent"}, {},
                {<<"user_id", "users">>}))

\* A row that belongs to an organization and has a name.
Named(optional, unique, refs) ==
  Stamped(Table({"org_id", "name"}, optional, unique, {OfOrganization} \cup refs))

Tag == Named({}, {{"org_id", "name"}}, {})

ContactTag == Link("contact_id", "contacts", "tag_id", "tags")

Group == Named({}, {{"org_id", "name"}}, {})

ContactGroup == Link("contact_id", "contacts", "group_id", "groups")

Contact ==
  Stamped(Table({"org_id", "email", "fields", "suppressed"},
                {"name", "unsubscribed_at", "suppressed_reason"},
                {{"org_id", "email"}}, {OfOrganization}))

Event == Named({"starts_at"}, {}, {})

Job == Named({"event_id"}, {}, {<<"event_id", "events">>})

EmailTemplate ==
  Defaulted(Stamped(Table({"org_id", "name", "current_version"}, {}, {}, {OfOrganization})),
            {"archived"})

TemplateVersion ==
  Stamped(Table({"template_id", "version", "subject", "html_body", "variables"},
                {"text_body"}, {{"template_id", "version"}},
                {<<"template_id", "email_templates">>}))

Campaign ==
  Stamped(Table({"org_id", "name", "template_id", "template_version", "status",
                 "send_rate_per_second", "created_by"},
                {"event_id", "scheduled_at", "started_at", "completed_at"}, {},
                {OfOrganization, <<"event_id", "events">>,
                 <<"template_id", "email_templates">>, <<"created_by", "users">>}))

EmailJob ==
  Stamped(Table({"campaign_id", "contact_id", "to_addr", "subject", "html_body",
                 "send_status", "attempt", "open_count", "click_count"},
                {"text_body", "delivery_status", "claimed_by", "claimed_at",
                 "provider_message_id", "sent_at", "last_error", "first_opened_at",
                 "first_clicked_at"},
                {{"provider_message_id"}},
                {<<"campaign_id", "campaigns">>, <<"contact_id", "contacts">>}))

ProviderEvent ==
  Defaulted(Table({"provider_event_id", "provider_message_id", "event_type",
                   "occurred_at", "raw"},
                  {"email_job_id", "processed_at"}, {{"provider_event_id"}},
                  {<<"email_job_id", "email_jobs">>}),
            {"received_at", "attempts"})

EmailEngagement ==
  Table({"email_job_id", "kind", "occurred_at"}, {"user_agent", "url"}, {},
        {<<"email_job_id", "email_jobs">>})

AuditLog ==
  Defaulted(Table({"org_id", "actor_kind", "action", "metadata"},
                  {"actor_user_id", "target_type", "target_id"}, {},
                  {OfOrganization, <<"actor_user_id", "users">>}),
            {"created_at"})

\* CREATE_TASKS_TABLE of the durable queue, which has no model class.
Tasks ==
  Defaulted(Table({"queue", "task_type"},
                  {"idempotency_key", "lease_until", "lease_owner", "last_error", "parent_id"},
                  {{"idempotency_key"}}, {}),
            {"payload", "status", "run_after", "attempt", "max_attempts", "created_at",
             "updated_at"})

\* Every table the program works with, by its name.
ProgramTables ==
  [users |-> User, organizations |-> Organization,
   organization_members |-> OrganizationMember, sessions |-> Session, tags |-> Tag,
   contact_tags |-> ContactTag, groups |-> Group, contact_groups |-> ContactGroup,
   contacts |-> Contact, events |-> Event, jobs_ |-> Job, email_templates |-> EmailTemplate,
   template_versions |-> TemplateVersion, campaigns |-> Campaign, email_jobs |-> EmailJob,
   provider_events |-> ProviderEvent, email_engagements |-> EmailEngagement,
   audit_log |-> AuditLog, tasks |-> Tasks]

\* The INSERT of the webhook endpoint, which bypasses the defaults of the ORM.
InsertEvent ==
  {"id", "provider_event_id", "provider_message_id", "event_type", "occurred_at", "raw"}

\* The INSERT of enqueue_task.
InsertTask ==
  {"id", "queue", "task_type", "payload", "idempotency_key", "run_after", "max_attempts",
   "parent_id"}
===============================================================================
