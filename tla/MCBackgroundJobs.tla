-------------------------- MODULE MCBackgroundJobs --------------------------
(* Two processes on one table and a tool call, which is never retried.     *)
(* Calls share nothing but the processes, so that one is enough for their  *)
(* races, and two crashes let it be lost, recovered and resumed elsewhere. *)
(*                                                                         *)
(* The other thing the runtime does beside the conversation is to run a    *)
(* command in a process of its own.  The two share no state: a behaviour   *)
(* steps one of them, chosen at its start.                                 *)
EXTENDS BackgroundJobs, CommandExecutor

CONSTANTS j1, p1, p2

VARIABLE service

MCMaxAttempts == [j \in Jobs |-> 1]

MCVars == <<service, vars, cmdVars>>

InJobs(A) == service = "jobs" /\ A /\ UNCHANGED <<service, cmdVars>>
InCommand(A) == service = "command" /\ A /\ UNCHANGED <<service, vars>>

MCInit ==
    /\ service \in {"jobs", "command"}
    /\ BgInit
    /\ CmdInit
    /\ service = "jobs" => request = CHOOSE r \in Requests : TRUE

MCNext == InJobs(BgNext) \/ InCommand(CmdNext)

(* BgFairness, and the fairness of CmdSpec                                 *)
MCFairness ==
    /\ \A p \in Procs :
          /\ WF_MCVars(InJobs(Boot(p)))
          /\ WF_MCVars(InJobs(ListEnded(p)))
          /\ WF_MCVars(InJobs(Tell(p)))
    /\ \A p \in Procs, j \in Jobs :
          /\ WF_MCVars(InJobs(ThreadStep(p, j)))
          /\ WF_MCVars(InJobs(Resume(p, j)))
          /\ WF_MCVars(InJobs(NoteOne(p, j)))
    /\ WF_MCVars(InCommand(ExecutorStep))
    /\ WF_MCVars(InCommand(Drain))

MCFairSpec == MCInit /\ [][MCNext]_MCVars /\ MCFairness
=============================================================================
