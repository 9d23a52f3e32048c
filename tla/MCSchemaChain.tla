----------------------------- MODULE MCSchemaChain -----------------------------
(* A small instance of SchemaChain for TLC.                                  *)
EXTENDS SchemaChain

BothConnections == {"asyncpg", "script"}

\* The tables that later revisions alter.
AlteredTables == {"groups", "email_templates", "provider_events"}
================================================================================
