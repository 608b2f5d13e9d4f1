----------------------------- MODULE HostInputs ------------------------------
(* What users write for pboss to read, friendly schedules and permissions:    *)
(* two parsers side by side that share no state.                              *)
EXTENDS DenoPermissions, CronExpr

(* What pboss reads is what it says: a schedule fires on the minutes its      *)
(* words name (cron-expr.ts), a list of permissions and the user's flags      *)
(* become no wider grant (deno-permissions.ts).                               *)
ReadAsWritten == FiresAsWritten /\ MinimalGrants
==============================================================================
