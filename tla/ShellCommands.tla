---------------------------- MODULE ShellCommands ----------------------------
(***************************************************************************)
(* The Bash tool and core/runtime/process_execution.py: what may run, its    *)
(* process, the descendants it leaves, the two pipes and their readers, the  *)
(* deadline, the interrupt and the answer.  Output is counted in chunks.  A  *)
(* signal ends a process, and a reader drains what is in its pipe before a   *)
(* join of one or two seconds gives up on it.                                *)
(***************************************************************************)
EXTENDS Naturals

CONSTANTS
  None,
  PipeSize,          \* chunks the system keeps for a reader
  MaxOutput,         \* max_output_bytes
  MaxWrites                                                         \* bound

Streams == {"stdout", "stderr"}
Lesser(a, b) == IF a < b THEN a ELSE b

VARIABLES
  setup,     \* Windows or POSIX, BASH_COMMAND_APPROVAL, BASH_ALLOW_NETWORK, the command
  call,      \* where the tool is, how the wait ended, and its reply
  child,     \* the direct process, and its exit code
  group,     \* descendants in its process group or job are alive
  stray,     \* descendants outside of it are alive
  queued,    \* [Streams -> chunks in the pipe]
  written,   \* history: [Streams -> chunks the child wrote]
  kept,      \* [Streams -> chunks retained]
  overflow,  \* [Streams -> BOOLEAN]
  reader,    \* [Streams -> the reader thread is "off", "on", or "done"]
  cancelled  \* the tool's cancel event

vars == <<setup, call, child, group, stray, queued, written, kept, overflow, reader, cancelled>>
pipes == <<queued, written, kept, overflow, reader>>
world == <<child, group, stray>>

Setups == [windows : BOOLEAN, approval : {"allow", "ask", "deny"}, network : BOOLEAN,
           command : {"plain", "banned", "network", "cd outside"}]

Init ==
  /\ setup \in Setups
  /\ call = [pc |-> "checks", ended |-> None, reply |-> None]
  /\ child = [state |-> "none", code |-> None]
  /\ group = FALSE /\ stray = FALSE
  /\ queued = [s \in Streams |-> 0] /\ written = queued /\ kept = queued
  /\ overflow = [s \in Streams |-> FALSE]
  /\ reader = [s \in Streams |-> "off"]
  /\ cancelled = FALSE

Answers(reply) == call' = [call EXCEPT !.pc = "over", !.reply = reply]
Goes(pc) == call' = [call EXCEPT !.pc = pc]

(* An interrupt of the turn. *)
Interrupt == ~cancelled /\ cancelled' = TRUE /\ UNCHANGED <<setup, call, world, pipes>>

-----------------------------------------------------------------------------
(* The lists of words and patterns that are never run. *)
Unsafe == setup.command = "banned" \/ (setup.command = "network" /\ ~setup.network)

(* A cd that leaves the root needs the user's permission. *)
LeavesRoot == setup.command = "cd outside"

(* The arguments and the directory, the command, and the targets of its cd. *)
Check ==
  /\ call.pc = "checks"
  /\ \/ Answers("refused")
     \/ ~Unsafe /\ Goes(IF LeavesRoot THEN "cd"
                         ELSE IF setup.approval = "allow" THEN "launch" ELSE "approve")
  /\ UNCHANGED <<setup, world, pipes, cancelled>>

AskForCd ==
  /\ call.pc = "cd"
  /\ Answers("refused") \/ Goes(IF setup.approval = "allow" THEN "launch" ELSE "approve")
  /\ UNCHANGED <<setup, world, pipes, cancelled>>

(* Denied by policy, without a broker, by the user or by an error. *)
Approve ==
  /\ call.pc = "approve"
  /\ Answers("refused") \/ (setup.approval = "ask" /\ Goes("launch"))
  /\ UNCHANGED <<setup, world, pipes, cancelled>>

-----------------------------------------------------------------------------
(* run_process.                                                            *)

(* Interrupted before, or no program, no permission, or no job.             *)
LaunchNothing ==
  /\ call.pc = "launch"
  /\ Answers(IF cancelled THEN "interrupted" ELSE "failed")
  /\ UNCHANGED <<setup, world, pipes, cancelled>>

(* A child that cannot be put into its job is killed before it is answered; *)
(* on Windows a descendant may escape between the start and the job.        *)
Launch ==
  /\ call.pc = "launch" /\ ~cancelled
  /\ \/ /\ child' = [state |-> "alive", code |-> None]
        /\ stray' \in {FALSE, setup.windows}
        /\ reader' = [s \in Streams |-> "on"]
        /\ Goes("wait")
     \/ /\ setup.windows
        /\ child' = [state |-> "killed", code |-> None]
        /\ stray' \in BOOLEAN
        /\ Answers("failed") /\ UNCHANGED reader
  /\ UNCHANGED <<setup, group, queued, written, kept, overflow, cancelled>>

Write(s) ==
  /\ child.state = "alive" /\ written[s] < MaxWrites                 \* bound
  /\ queued[s] < PipeSize
  /\ queued' = [queued EXCEPT ![s] = @ + 1]
  /\ written' = [written EXCEPT ![s] = @ + 1]
  /\ UNCHANGED <<setup, call, world, kept, overflow, reader, cancelled>>

Spawn ==
  /\ child.state = "alive"
  /\ \/ ~group /\ group' = TRUE /\ UNCHANGED stray
     \/ ~stray /\ stray' = TRUE /\ UNCHANGED group
  /\ UNCHANGED <<setup, call, child, pipes, cancelled>>

Exit ==
  /\ child.state = "alive"
  /\ child' \in [state : {"exited"}, code : {0, 1}]
  /\ UNCHANGED <<setup, call, group, stray, pipes, cancelled>>

DescendantsEnd ==
  /\ \/ group /\ group' = FALSE /\ UNCHANGED stray
     \/ stray /\ stray' = FALSE /\ UNCHANGED group
  /\ UNCHANGED <<setup, call, child, pipes, cancelled>>

(* Mutant: a reader that has enough stops reading. *)
ReadsUntilFull(s) == queued[s] > 0 /\ kept[s] < MaxOutput

Readable(s) == queued[s] > 0

(* _bounded_reader: drains to the end of the file, and keeps the first bytes. *)
Read(s) ==
  /\ reader[s] = "on" /\ Readable(s)
  /\ queued' = [queued EXCEPT ![s] = @ - 1]
  /\ kept' = [kept EXCEPT ![s] = Lesser(@ + 1, MaxOutput)]
  /\ overflow' = [overflow EXCEPT ![s] = @ \/ kept[s] = MaxOutput]
  /\ UNCHANGED <<setup, call, world, written, reader, cancelled>>

EndOfFile(s) ==
  /\ reader[s] = "on" /\ queued[s] = 0
  /\ child.state # "alive" /\ ~group /\ ~stray
  /\ reader' = [reader EXCEPT ![s] = "done"]
  /\ UNCHANGED <<setup, call, world, queued, written, kept, overflow, cancelled>>

(* The loop looks at the interrupt, at the deadline, and waits for the child. *)
WaitEnds ==
  /\ call.pc = "wait"
  /\ \E how \in {"interrupt", "deadline", "exit"} :
       /\ how = "interrupt" => cancelled
       /\ how = "exit" => child.state # "alive"
       /\ call' = [call EXCEPT !.pc = IF how = "exit" THEN "close" ELSE "kill", !.ended = how]
  /\ UNCHANGED <<setup, world, pipes, cancelled>>

(* Mutant: the signal reaches the direct child only. *)
KillDirect ==
  /\ child' = IF child.state = "alive" THEN [child EXCEPT !.state = "killed"] ELSE child
  /\ UNCHANGED group

(* _kill_tree: on POSIX a child that has just ended by itself is let be, and *)
(* its group with it.                                                       *)
KillTree ==
  IF setup.windows \/ child.state = "alive"
    THEN /\ child' = IF child.state = "alive" THEN [child EXCEPT !.state = "killed"] ELSE child
         /\ group' = FALSE
    ELSE UNCHANGED <<child, group>>

Kill ==
  /\ call.pc = "kill"
  /\ KillTree
  /\ Goes("close")
  /\ UNCHANGED <<setup, stray, pipes, cancelled>>

(* The last handle of a job ends what is left in it.  A pipe that somebody   *)
(* outside still holds is waited for no longer.                             *)
Close ==
  /\ call.pc = "close"
  /\ group' = (group /\ ~setup.windows)
  /\ Goes("join")
  /\ UNCHANGED <<setup, child, stray, pipes, cancelled>>

Reply ==
  CASE call.ended = "interrupt" -> "interrupted"
    [] call.ended = "deadline" ->
         IF \E s \in Streams : kept[s] > 0 THEN "partial" ELSE "timeout"
    [] OTHER -> IF child.code = 0 THEN "success" ELSE "partial"

Join ==
  /\ call.pc = "join"
  /\ \A s \in Streams : reader[s] = "done" \/ ~Readable(s)
  /\ reader' = [s \in Streams |-> "done"]
  /\ Answers(Reply)
  /\ UNCHANGED <<setup, world, queued, written, kept, overflow, cancelled>>

Next ==
  \/ Interrupt \/ Check \/ AskForCd \/ Approve \/ LaunchNothing \/ Launch
  \/ Spawn \/ Exit \/ DescendantsEnd
  \/ \E s \in Streams : Write(s) \/ Read(s) \/ EndOfFile(s)
  \/ WaitEnds \/ Kill \/ Close \/ Join

Spec == Init /\ [][Next]_vars

-----------------------------------------------------------------------------
Ran == child.state # "none"

(* When the tool has answered, its child is over.  What was interrupted or   *)
(* timed out took its group along, unless the child ended by itself before   *)
(* the signal; on Windows no descendant of the job outlives the call.       *)
NothingIsLeftRunning ==
  call.pc = "over" /\ Ran =>
    /\ child.state # "alive"
    /\ setup.windows \/ child.state = "killed" => ~group

(* The answer has the first bytes of all the child wrote, and says whether   *)
(* there was more; a child never waits for a pipe that nobody reads.        *)
OutputIsAccountedFor ==
  \A s \in Streams :
    /\ call.reply \in {"success", "partial", "timeout"} =>
         /\ kept[s] = Lesser(written[s], MaxOutput)
         /\ overflow[s] <=> written[s] > MaxOutput
    /\ child.state = "alive" /\ queued[s] = PipeSize => reader[s] = "on" /\ Readable(s)

(* A success ended by itself with code 0; a refusal has run nothing, and     *)
(* nothing unsafe or denied by policy has run.                              *)
RepliesAreTrue ==
  /\ Ran => ~Unsafe /\ setup.approval # "deny"
  /\ call.reply = "success" => child = [state |-> "exited", code |-> 0]
  /\ call.reply = "refused" => ~Ran
  /\ call.reply = "interrupted" => cancelled

CommandsAreAccountedFor == NothingIsLeftRunning /\ OutputIsAccountedFor /\ RepliesAreTrue
-----------------------------------------------------------------------------
(* The inductive invariant of MCComponents_proofs, by its parts.            *)
Places == {"checks", "cd", "approve", "launch", "wait", "kill", "close", "join", "over"}
Before == {"checks", "cd", "approve", "launch"}
During == {"wait", "kill", "close", "join"}
Ends == {"interrupt", "deadline", "exit"}
Replies == {"refused", "failed", "interrupted", "success", "partial", "timeout"}
Calls == [pc : Places, ended : {None} \cup Ends, reply : {None} \cup Replies]
Children == [state : {"none", "alive", "exited", "killed"}, code : {None, 0, 1}]

TypeOK ==
  /\ setup \in Setups /\ call \in Calls /\ child \in Children
  /\ group \in BOOLEAN /\ stray \in BOOLEAN /\ cancelled \in BOOLEAN

PipesOK ==
  /\ queued \in [Streams -> Nat] /\ written \in [Streams -> Nat] /\ kept \in [Streams -> Nat]
  /\ overflow \in [Streams -> BOOLEAN]
  /\ reader \in [Streams -> {"off", "on", "done"}]

(* What may be launched has passed the checks before it. *)
Passed ==
  /\ call.pc \in {"cd", "approve", "launch"} \/ Ran => ~Unsafe
  /\ call.pc = "launch" \/ Ran => setup.approval # "deny"

(* Where the call is, and what has become of the child and its group. *)
ChildIsWatched ==
  /\ call.pc \in Before => ~Ran
  /\ call.pc \in During => Ran
  /\ call.pc = "wait" => child.state # "killed"
  /\ call.pc \in {"close", "join", "over"} => child.state # "alive"
  /\ call.ended = "exit" => child.state = "exited"
  /\ call.ended = "interrupt" => cancelled
  /\ call.pc \in {"kill", "close", "join"} => call.ended \in Ends
  /\ ~Ran \/ child.state = "killed" => ~group
  /\ Ran /\ setup.windows /\ call.pc \in {"join", "over"} => ~group

(* What a pipe has passed on is what its reader has kept or counted as too    *)
(* much; readers leave empty pipes behind, and only after the child.        *)
PipesAreRead ==
  \A s \in Streams :
    /\ queued[s] <= written[s] /\ queued[s] <= PipeSize
    /\ kept[s] = Lesser(written[s] - queued[s], MaxOutput)
    /\ overflow[s] <=> written[s] - queued[s] > MaxOutput
    /\ child.state = "alive" => reader[s] = "on"
    /\ reader[s] = "done" => queued[s] = 0

(* A reply comes with the end of the call. *)
RepliesAtTheEnd ==
  /\ call.pc # "over" => call.reply = None
  /\ call.reply = "success" => child = [state |-> "exited", code |-> 0]
  /\ call.reply = "refused" => ~Ran
  /\ call.reply = "interrupted" => cancelled
  /\ call.reply \in {"success", "partial", "timeout"} => \A s \in Streams : reader[s] = "done"

IInv ==
  /\ TypeOK /\ PipesOK
  /\ Passed /\ ChildIsWatched /\ PipesAreRead /\ RepliesAtTheEnd
=============================================================================
