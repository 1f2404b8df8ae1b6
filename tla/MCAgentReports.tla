--------------------------- MODULE MCAgentReports ---------------------------
(***************************************************************************)
(* AgentReports in units of about five seconds; the hours are shortened.   *)
(***************************************************************************)
EXTENDS AgentReports
=============================================================================
