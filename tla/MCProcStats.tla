----------------------------- MODULE MCProcStats -----------------------------
(* Three processes contend for two entries.                                 *)
EXTENDS ProcStats
=============================================================================
