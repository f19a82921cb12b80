----------------------------- MODULE MCLeadTurns -----------------------------
(* Two queries and a scheduled prompt: a turn of either thread meets an     *)
(* append of the CLI.                                                       *)
EXTENDS LeadTurns

CONSTANTS q1, q2, p1, l1
=============================================================================
