------------------------------ MODULE MCPeers ------------------------------
(* The two peers the lead talks to through another thread: a teammate and  *)
(* an MCP server.  They share no state: a behaviour steps one of them,     *)
(* chosen at its start.                                                    *)
(*                                                                         *)
(* Two request ids let a plan and a shutdown, two plans, or an old and a   *)
(* new use of an id meet.  Two calls let one that is given up be           *)
(* overtaken, on two attempts to connect; one of the two workers may be    *)
(* orphaned, and takes no part in anything then.                           *)
EXTENDS Teammate, McpClient

CONSTANTS r1, r2,    \* request ids
          w1, w2     \* worker threads

VARIABLE peer

MCVars == <<peer, tmVars, mcpVars>>

WithTeammate(A) == peer = "teammate" /\ A /\ UNCHANGED <<peer, mcpVars>>
WithServer(A) == peer = "server" /\ A /\ UNCHANGED <<peer, tmVars>>

MCInit == peer \in {"teammate", "server"} /\ TmInit /\ McpInit

MCNext == WithTeammate(TmNext) \/ WithServer(McpNext)

(* TmFairness, and the fairness of McpFairSpec                             *)
MCFairness ==
    /\ WF_MCVars(WithTeammate(ThreadStep))
    /\ WF_MCVars(WithTeammate(LeadSends))
    /\ WF_MCVars(WithTeammate(ConsumeLeadInbox))
    /\ WF_MCVars(WithServer(McpLeadStep))

MCFairSpec == MCInit /\ [][MCNext]_MCVars /\ MCFairness
=============================================================================
