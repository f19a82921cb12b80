--------------------------- MODULE CommandExecutor ---------------------------
(***************************************************************************)
(* security/command_executor.py with the POSIX backend of                  *)
(* process_sandbox.py: one command of the agent, from its text to the      *)
(* answer.  The executor's thread, the thread that drains the pipe, the    *)
(* process and what that process starts run side by side.                  *)
(*                                                                         *)
(* A request is abstracted to what its checks tell apart.  Output is       *)
(* counted in bytes; read(8192) returns Chunk of them, or what there is    *)
(* when nobody can write any more.  Closing the pipe waits for the read in *)
(* progress, whose lock it needs, but not for the reader: between two      *)
(* reads the lock is free, and a reader whose pipe was closed under it     *)
(* ends at its next read.                                                  *)
(***************************************************************************)
EXTENDS Naturals

CONSTANTS
    Chunk,        \* bytes of one read of the pipe
    Capacity,     \* bytes the pipe holds before a writer blocks
    Limit,        \* max_output_chars
    Width,        \* bytes of a character of the output
    MaxWritten    \* bound on the bytes written

ASSUME CommandAssumption ==
    /\ Chunk \in Nat \ {0}
    /\ Capacity \in Nat /\ Capacity >= Chunk
    /\ Limit \in Nat \ {0}
    /\ Width \in 1..4
    /\ MaxWritten \in Nat

VARIABLES
    stage,        \* where execute() is
    request,      \* the request, until its process is started
    origin,       \* history: what the process that was started is
    answer, said, \* what execute() returned, and how many characters of output
    child,        \* the process: "none", "running", "succeeded", "failed", "killed"
    kin,          \* what it started in its process group and outside of it
    holders,      \* those of kin that inherited the pipe
    written, drained,
    reader,       \* the thread drain(): where its loop is
    hand, kept,   \* the bytes of its last read, and those of output
    timedOut

familyVars == <<child, kin, holders, written>>
pipeVars == <<drained, reader, hand, kept>>
answerVars == <<answer, said>>
cmdVars == <<stage, request, origin, answerVars, familyVars, pipeVars, timedOut>>

Requests == [text : {"plain", "blank", "long", "syntax"},
             cwd : {"inside", "outside", "missing"},
             name : {"echo", "blocked", "unlisted", "listed", "python"},
             isPath : BOOLEAN,
             file : {"none", "workspace", "wrapper", "other", "trusted", "interpreter"},
             args : {"none", "version", "inline", "module", "other_module", "option",
                     "script", "no_script"}]
NoRequest == [text |-> "none"]
Kin == {"grouped", "detached"}
Exited == {"succeeded", "failed", "killed"}

(* byte_limit: a character of UTF-8 can need four bytes.                   *)
ByteLimit == 4 * Limit
UpTo(limit, n) == IF n <= limit THEN n ELSE limit

(* _truncate: the characters of n bytes that an answer has.                *)
Shown(n) == UpTo(Limit, n \div Width)

CmdTypeOK ==
    /\ stage \in {"idle", "attaching", "waiting", "joining", "closing", "closed", "returned"}
    /\ request \in Requests \cup {NoRequest}
    /\ origin \in {"none", "trusted", "interpreter", "workspace", "wrapper", "other"}
    /\ answer \in {"none", "rejected", "echo", "launch_failed", "setup_failed",
                   "timeout", "output", "exit_code", "no_output"}
    /\ child \in {"none", "running"} \cup Exited
    /\ said \in 0..Limit
    /\ kin \in [Kin -> {"none", "alive", "gone"}]
    /\ holders \subseteq Kin
    /\ written \in 0..MaxWritten /\ drained \in 0..written
    /\ reader \in {"none", "between", "reading", "holding", "ended", "cut"}
    /\ hand \in 0..Chunk /\ kept \in 0..ByteLimit
    /\ timedOut \in BOOLEAN

CmdInit ==
    /\ stage = "idle"
    /\ request \in Requests
    /\ origin = "none"
    /\ answer = "none" /\ said = 0
    /\ child = "none"
    /\ kin = [k \in Kin |-> "none"]
    /\ holders = {}
    /\ written = 0 /\ drained = 0
    /\ reader = "none" /\ hand = 0 /\ kept = 0
    /\ timedOut = FALSE

Return(a) == stage' = "returned" /\ answer' = a

(* The descriptor is closed; a writer that is left gets an error.          *)
Closed == stage \in {"closed", "returned"}

-----------------------------------------------------------------------------
(* _resolve_cwd, _reject_shell_syntax and _split_command                   *)
Parses(r) == r.text = "plain" /\ r.cwd = "inside"

(* Echo is answered by the executor itself.                                *)
IsEcho(r) == Parses(r) /\ r.name = "echo" /\ ~r.isPath

(* _resolve_executable: the blocked names, the allowed ones, and then a    *)
(* file outside the workspace: for a path the interpreter or what PATH     *)
(* finds under that name, for a bare name what PATH finds ("trusted").     *)
(* A bare python is the interpreter whatever PATH has.                     *)
Resolves(r) ==
    /\ r.name \in {"listed", "python"}
    /\ \/ r.name = "python" /\ ~r.isPath
       \/ r.name = "python" /\ r.file = "interpreter"
       \/ r.file = "trusted"

ResolvedFile(r) == IF r.name = "python" /\ ~r.isPath THEN "interpreter" ELSE r.file

(* _validate_invocation                                                    *)
ArgumentsAllowed(r) ==
    r.name = "python" => r.args \in {"none", "version", "module", "script"}

Vetted(r) == Parses(r) /\ ~IsEcho(r) /\ Resolves(r) /\ ArgumentsAllowed(r)

(* execute, up to the checks that fail                                     *)
Refuse ==
    /\ stage = "idle"
    /\ ~Vetted(request)
    /\ Return(IF IsEcho(request) THEN "echo" ELSE "rejected")
    /\ UNCHANGED <<request, origin, said, familyVars, pipeVars, timedOut>>

(* Popen: the process leads a session and a group of its own.              *)
Launch ==
    /\ stage = "idle"
    /\ Vetted(request)
    /\ request' = NoRequest
    /\ \/ /\ stage' = "attaching"
          /\ child' = "running"
          /\ origin' = ResolvedFile(request)
          /\ UNCHANGED answer
       \/ /\ Return("launch_failed")
          /\ UNCHANGED <<child, origin>>
    /\ UNCHANGED <<said, kin, holders, written, pipeVars, timedOut>>

(* _PosixHandle.terminate and _terminate_process_tree: the group dies,     *)
(* unless poll finds that the process has exited.                          *)
Terminate ==
    IF child = "running"
    THEN /\ child' = "killed"
         /\ kin' = [kin EXCEPT !["grouped"] = IF @ = "alive" THEN "gone" ELSE @]
         /\ holders' = holders \ {"grouped"}
    ELSE UNCHANGED <<child, kin, holders>>

(* prlimit may fail; the reader is started when it does not.               *)
Attach ==
    /\ stage = "attaching"
    /\ \/ /\ stage' = "waiting"
          /\ reader' = "between"
          /\ UNCHANGED <<answer, child, kin, holders>>
       \/ /\ Terminate
          /\ Return("setup_failed")
          /\ UNCHANGED reader
    /\ UNCHANGED <<request, origin, said, written, drained, hand, kept, timedOut>>

(* process.wait                                                            *)
SeeExit ==
    /\ stage = "waiting"
    /\ child \in Exited
    /\ stage' = "joining"
    /\ UNCHANGED <<request, origin, answerVars, familyVars, pipeVars, timedOut>>

BugOnlyGivesUp ==
    /\ stage = "waiting"
    /\ timedOut' = TRUE
    /\ stage' = "joining"
    /\ UNCHANGED <<request, origin, answerVars, familyVars, pipeVars>>

(* TimeoutExpired, also where the process exits at the last moment; the    *)
(* killed process is awaited for two seconds at most.                      *)
TimeOut ==
    /\ stage = "waiting"
    /\ timedOut' = TRUE
    /\ Terminate
    /\ stage' = "joining"
    /\ UNCHANGED <<request, origin, answerVars, written, pipeVars>>

(* reader.join(timeout=2.0): the reader has ended, or is left to itself.   *)
Join ==
    /\ stage = "joining"
    /\ stage' = "closing"
    /\ UNCHANGED <<request, origin, answerVars, familyVars, pipeVars, timedOut>>

(* process.stdout.close() needs the lock that a read in progress holds.    *)
Close ==
    /\ stage = "closing"
    /\ reader # "reading"
    /\ stage' = "closed"
    /\ UNCHANGED <<request, origin, answerVars, familyVars, pipeVars, timedOut>>

Outcome ==
    CASE timedOut -> "timeout"
      [] ~timedOut /\ kept > 0 -> "output"
      [] ~timedOut /\ kept = 0 /\ child = "failed" -> "exit_code"
      [] OTHER -> "no_output"

(* The answer is made of what the reader has kept by now.                  *)
Answer ==
    /\ stage = "closed"
    /\ Return(Outcome)
    /\ said' = IF timedOut THEN 0 ELSE Shown(kept)
    /\ UNCHANGED <<request, origin, familyVars, pipeVars, timedOut>>

-----------------------------------------------------------------------------
CanWrite == child = "running" \/ holders # {}
Unread == written - drained

(* drain: a read takes the lock of the pipe; of a closed pipe it raises.   *)
StartRead ==
    /\ reader = "between"
    /\ reader' = IF Closed THEN "cut" ELSE "reading"
    /\ UNCHANGED <<stage, request, origin, answerVars, familyVars, drained, hand, kept, timedOut>>

FinishRead ==
    /\ reader = "reading"
    /\ Unread >= Chunk \/ ~CanWrite
    /\ hand' = UpTo(Chunk, Unread)
    /\ drained' = drained + hand'
    /\ reader' = "holding"
    /\ UNCHANGED <<stage, request, origin, answerVars, familyVars, kept, timedOut>>

BugStopsAtLimit ==
    /\ reader = "holding"
    /\ kept' = UpTo(ByteLimit, kept + hand)
    /\ hand' = 0
    /\ reader' = IF hand = 0 \/ kept' = ByteLimit THEN "ended" ELSE "between"
    /\ UNCHANGED <<stage, request, origin, answerVars, familyVars, drained, timedOut>>

(* What exceeds the limit is dropped, and the loop reads on.               *)
KeepChunk ==
    /\ reader = "holding"
    /\ kept' = UpTo(ByteLimit, kept + hand)
    /\ hand' = 0
    /\ reader' = IF hand = 0 THEN "ended" ELSE "between"
    /\ UNCHANGED <<stage, request, origin, answerVars, familyVars, drained, timedOut>>

Drain == StartRead \/ FinishRead \/ KeepChunk

(* What the processes do: write while the pipe has room, start others that *)
(* keep their group and the pipe or not, and exit.                         *)
Write ==
    /\ CanWrite /\ ~Closed
    /\ Unread < Capacity
    /\ written < MaxWritten
    /\ written' = written + 1
    /\ UNCHANGED <<stage, request, origin, answerVars, child, kin, holders, pipeVars, timedOut>>

StartKin(k, holds) ==
    /\ child = "running"
    /\ kin[k] = "none"
    /\ kin' = [kin EXCEPT ![k] = "alive"]
    /\ holders' = IF holds THEN holders \cup {k} ELSE holders
    /\ UNCHANGED <<stage, request, origin, answerVars, child, written, pipeVars, timedOut>>

KinExits(k) ==
    /\ kin[k] = "alive"
    /\ kin' = [kin EXCEPT ![k] = "gone"]
    /\ holders' = holders \ {k}
    /\ UNCHANGED <<stage, request, origin, answerVars, child, written, pipeVars, timedOut>>

ChildExits ==
    /\ child = "running"
    /\ child' \in {"succeeded", "failed"}
    /\ UNCHANGED <<stage, request, origin, answerVars, kin, holders, written, pipeVars, timedOut>>

ExecutorStep ==
    \/ Refuse \/ Launch \/ Attach
    \/ SeeExit \/ TimeOut \/ Join \/ Close \/ Answer

CmdNext ==
    \/ ExecutorStep
    \/ Drain
    \/ Write
    \/ \E k \in Kin, holds \in BOOLEAN : StartKin(k, holds)
    \/ \E k \in Kin : KinExits(k)
    \/ ChildExits

(* The two threads run on and the timeout of wait fires; the processes may *)
(* take any time.                                                          *)
CmdSpec == CmdInit /\ [][CmdNext]_cmdVars /\ WF_cmdVars(ExecutorStep) /\ WF_cmdVars(Drain)

-----------------------------------------------------------------------------
(* What runs is the interpreter or an installed program outside of the     *)
(* writable workspace, however the request named it.                       *)
LaunchedIsTrusted == origin \in {"none", "trusted", "interpreter"}

(* An answer that is not a timeout has all of the output up to Limit, and  *)
(* neither the process nor what inherited its pipe can write any more,     *)
(* though neither wait nor join makes sure of it and the bytes are bounded *)
(* before the characters are counted - unless the close came between two   *)
(* reads of a reader that was not done: such an answer has what was read.  *)
AnswersAreComplete ==
    answer \in {"output", "exit_code", "no_output"} /\ reader = "ended" =>
        said = Shown(written) /\ ~CanWrite

(* A writer that finds the pipe full is never left alone with it: output   *)
(* beyond the limit is drained like the rest, so that a talkative command  *)
(* ends by itself and does not run into its timeout.                       *)
FullPipeIsDrained ==
    stage = "waiting" /\ Unread >= Capacity => reader \in {"between", "reading", "holding"}

(* When a command was given up, nothing of its group is left - unless the  *)
(* process had exited by itself, and only what it left behind remains.     *)
GivenUpIsKilled ==
    answer \in {"timeout", "setup_failed"} =>
        child # "running" /\ (child = "killed" => kin["grouped"] # "alive")

(* The answer of execute() tells the truth about the output of the command *)
(* and about what it leaves behind.                                        *)
AnswersAreTrue == AnswersAreComplete /\ GivenUpIsKilled

(* A command that was launched ends, by itself or by its timeout, provided *)
(* that what it leaves behind does not hold the pipe for ever.             *)
CommandsEnd ==
    []<>(holders = {}) => (stage \notin {"idle", "returned"} ~> stage = "returned")

(* The docstring of the executor: "wall time is bounded".  A command that  *)
(* was launched ends, whatever it leaves behind.  It does not where a      *)
(* descendant that left the process group, or outlived the process, keeps  *)
(* the pipe: the close of the pipe waits for the reader.                   *)
WallTimeIsBounded == stage \notin {"idle", "returned"} ~> stage = "returned"
=============================================================================
