-------------------------- MODULE MC_EventIndexer --------------------------
(* EventIndexer over a few blocks, with its webhooks.                         *)
EXTENDS EventIndexer
=============================================================================
