-------------------------- MODULE MCStaleFencingRun --------------------------
(***************************************************************************)
(* StaleFencingRun with the scenario's own keys and holders.               *)
(***************************************************************************)
EXTENDS StaleFencingRun

MCKeys == {"orders", "union/a", "union/b"}
MCHolders == {"a", "b", "c", "d", "union", "conflict"}
==============================================================================
