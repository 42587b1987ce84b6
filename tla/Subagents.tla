------------------------------ MODULE Subagents ------------------------------
(***************************************************************************)
(* A subagent of the Task tool: the loop of SubagentRunner over TurnExecutor *)
(* in the tool's own thread or in one of BackgroundTaskRunner, the events    *)
(* its bridge and the runner's observer emit, the result that is kept in a   *)
(* file and in memory, and TaskOutput, which reads one and then the other.   *)
(* Identifiers are random, so a task is never taken for another.  Sinks and  *)
(* progress files may lose what they are given; here they do not.            *)
(***************************************************************************)
EXTENDS Naturals, Sequences

CONSTANTS
  None,
  SubagentMaxSteps,     \* subagent_max_steps
  MaxCalls, MaxReads, MaxRestarts                                   \* bounds

VARIABLES
  task,      \* where the task's thread is, its mode, step, calls and outcome
  events,    \* what the event sink was given, as kinds
  memory,    \* the runner's record: None or its status, and the last progress
  file,      \* the output file: None or the status in it
  reader,    \* a call of TaskOutput: what it read first; history of its answers
  restarts,
  handed     \* a team got the task: None, "spawned", "dispatched" or "refused"

vars == <<task, events, memory, file, reader, restarts, handed>>

Outcomes == {"answer", "empty", "incomplete", "raised", "steps"}

NoTask == [pc |-> "idle", mode |-> None, step |-> 0, calls |-> 0, outcome |-> None,
           saved |-> FALSE]

Init ==
  /\ task = NoTask
  /\ events = <<>>
  /\ memory = None /\ file = None
  /\ reader = [pc |-> "idle", status |-> None, told |-> None, missing |-> FALSE, reads |-> 0]
  /\ restarts = 0
  /\ handed = None

Emit(kinds) == events' = events \o kinds
At(pc) == [task EXCEPT !.pc = pc]

-----------------------------------------------------------------------------
(* The Task tool.                                                          *)

(* The modes of a team hand the call to its TeamManager, which accepts it or *)
(* raises; the prompt of a teammate that is spawned is not sent to it.      *)
HandToTeam(mode) ==
  /\ task.pc = "idle" /\ handed = None /\ mode \in {"persistent", "parallel"}
  /\ handed' \in {IF mode = "persistent" THEN "spawned" ELSE "dispatched", "refused"}
  /\ UNCHANGED <<task, events, memory, file, reader, restarts>>

(* In the background, the record is there before the thread is.            *)
Launch(mode) ==
  /\ task.pc = "idle" /\ handed = None /\ mode \in {"oneshot", "background"}
  /\ task' = [NoTask EXCEPT !.pc = "run", !.mode = mode]
  /\ memory' = IF mode = "background" THEN [status |-> "running", step |-> 0] ELSE None
  /\ UNCHANGED <<events, file, reader, restarts, handed>>

BeginRun ==
  /\ task.pc = "run"
  /\ Emit(<<"started">>)
  /\ task' = [task EXCEPT !.pc = "ask", !.step = 1]
  /\ UNCHANGED <<memory, file, reader, restarts, handed>>

-----------------------------------------------------------------------------
(* TurnExecutor.execute_turn.                                              *)

(* A stream that fails, after deltas or before, is asked again without one. *)
Stream ==
  /\ task.pc = "ask"
  /\ \E deltas \in {<<>>, <<"delta">>}, whole \in BOOLEAN :
       /\ Emit(deltas)
       /\ task' = At(IF whole THEN "judge" ELSE "again")
  /\ UNCHANGED <<memory, file, reader, restarts, handed>>

(* The events of the answer that is asked for once more are not repeated.  *)
InvokeRaw ==
  /\ task.pc = "again"
  /\ \/ task' = At("judge")
     \/ task' = [task EXCEPT !.pc = "failing", !.outcome = "raised"]
  /\ UNCHANGED <<events, memory, file, reader, restarts, handed>>

(* An answer is incomplete, asks for tools, is empty, or is the last one.  *)
Judge ==
  /\ task.pc = "judge"
  /\ \/ task' = [task EXCEPT !.pc = "failing", !.outcome = "incomplete"]
     \/ \E n \in 1..MaxCalls : task' = [task EXCEPT !.pc = "call", !.calls = n]
     \/ task' = [task EXCEPT !.pc = "failing", !.outcome = "empty"]
     \/ task' = [task EXCEPT !.pc = "done", !.outcome = "answer"]
  /\ UNCHANGED <<events, memory, file, reader, restarts, handed>>

AfterCall == [task EXCEPT !.pc = IF task.calls = 1 THEN "progress" ELSE "call", !.calls = @ - 1]

(* Arguments that do not parse are answered without a word. *)
RefuseArguments ==
  /\ task.pc = "call"
  /\ task' = AfterCall
  /\ UNCHANGED <<events, memory, file, reader, restarts, handed>>

StartTool ==
  /\ task.pc = "call"
  /\ Emit(<<"tool_started">>)
  /\ task' = At("tool")
  /\ UNCHANGED <<memory, file, reader, restarts, handed>>

(* Whatever the tool raises is its observation. *)
EndTool ==
  /\ task.pc = "tool"
  /\ Emit(<<"tool_completed">>)
  /\ task' = AfterCall
  /\ UNCHANGED <<memory, file, reader, restarts, handed>>

-----------------------------------------------------------------------------
(* SubagentRunner.run.                                                     *)

InBackground == task.mode = "background"

(* A step's progress goes to the record and to the observer, once for each  *)
(* of its calls; one stands for them.                                       *)
Report(kind) ==
  /\ memory' = IF InBackground /\ memory # None
                 THEN [memory EXCEPT !.step = task.step] ELSE memory
  /\ IF InBackground THEN Emit(<<kind>>) ELSE UNCHANGED events

Progress ==
  /\ task.pc = "progress"
  /\ Report("action")
  /\ task' = IF task.step < SubagentMaxSteps
               THEN [task EXCEPT !.pc = "ask", !.step = @ + 1]
               ELSE [task EXCEPT !.pc = "finish", !.outcome = "steps"]
  /\ UNCHANGED <<file, reader, restarts, handed>>

ReportError ==
  /\ task.pc = "failing"
  /\ Report("error")
  /\ task' = At("finish")
  /\ UNCHANGED <<file, reader, restarts, handed>>

ReportAnswer ==
  /\ task.pc = "done"
  /\ Report("thought")
  /\ task' = At("finish")
  /\ UNCHANGED <<file, reader, restarts, handed>>

EmitFinished ==
  /\ task.pc = "finish"
  /\ Emit(<<IF task.outcome = "answer" THEN "finished" ELSE "finished_badly">>)
  /\ task' = At(IF InBackground THEN "save" ELSE "over")
  /\ UNCHANGED <<memory, file, reader, restarts, handed>>

-----------------------------------------------------------------------------
(* BackgroundTaskRunner._save_result.                                      *)

Status == IF task.outcome = "answer" THEN "completed" ELSE "failed"

(* Mutant: the record is brought up to date before the file. *)
SaveFileLast ==
  /\ task.pc = "save" /\ memory # None
  /\ IF memory.status = "running"
       THEN memory' = [memory EXCEPT !.status = Status] /\ UNCHANGED <<task, file>>
       ELSE /\ file' = Status /\ task' = [task EXCEPT !.pc = "record", !.saved = TRUE]
            /\ UNCHANGED memory
  /\ UNCHANGED <<events, reader, restarts, handed>>

(* The file is renamed into its place whole, or the write fails. *)
SaveFile ==
  /\ task.pc = "save"
  /\ \/ file' = Status /\ task' = [task EXCEPT !.pc = "record", !.saved = TRUE]
     \/ UNCHANGED file /\ task' = At("record")
  /\ UNCHANGED <<events, memory, reader, restarts, handed>>

(* The record says how the task ended, kept or not. *)
SetRecord ==
  /\ task.pc = "record"
  /\ memory' = [memory EXCEPT !.status = Status]
  /\ task' = At("over")
  /\ UNCHANGED <<events, file, reader, restarts, handed>>

-----------------------------------------------------------------------------
(* TaskOutput, and a restart.                                              *)

(* get_status: the file if there is one, else the record. *)
StatusRead == IF file # None THEN file ELSE IF memory # None THEN memory.status ELSE "not_found"

Told(answer) == [reader EXCEPT !.pc = "idle", !.reads = @ + 1, !.told = answer]

ReadStatus ==
  /\ reader.pc = "idle" /\ task.mode = "background" /\ reader.reads < MaxReads   \* bound
  /\ reader' = IF StatusRead \in {"running", "not_found"}
                 THEN Told(reader.told)
                 ELSE [reader EXCEPT !.pc = "result", !.status = StatusRead]
  /\ UNCHANGED <<task, events, memory, file, restarts, handed>>

(* get_result: what is not there is reported as missing. *)
ReadResult ==
  /\ reader.pc = "result"
  /\ reader' = IF file = None THEN [Told(reader.told) EXCEPT !.missing = TRUE] ELSE Told(file)
  /\ UNCHANGED <<task, events, memory, file, restarts, handed>>

(* The thread is a daemon: it dies with the process, and the record too.   *)
Restart ==
  /\ restarts < MaxRestarts                                          \* bound
  /\ restarts' = restarts + 1
  /\ memory' = None
  /\ task' = IF task.pc = "idle" THEN task ELSE At("dead")
  /\ reader' = [reader EXCEPT !.pc = "idle"]
  /\ UNCHANGED <<events, file, handed>>

Next ==
  \/ \E mode \in {"persistent", "parallel", "oneshot", "background"} : HandToTeam(mode) \/ Launch(mode)
  \/ BeginRun \/ Stream \/ InvokeRaw \/ Judge \/ RefuseArguments \/ StartTool \/ EndTool
  \/ Progress \/ ReportError \/ ReportAnswer \/ EmitFinished
  \/ SaveFile \/ SetRecord
  \/ ReadStatus \/ ReadResult \/ Restart

Spec == Init /\ [][Next]_vars

-----------------------------------------------------------------------------
Finished == {"finished", "finished_badly"}
FinishTold == IF task.outcome = "answer" THEN "finished" ELSE "finished_badly"

(* A follower of the events can tell the whole run of a subagent: it is     *)
(* started once and first, a tool that starts is completed before anything   *)
(* else is told, nothing comes after its finish, and a thread that has left  *)
(* the run has told so, with the outcome it had.                            *)
EventsAreInOrder ==
  \A i \in DOMAIN events :
    /\ events[i] = "started" <=> i = 1
    /\ events[i] = "tool_completed" <=> i > 1 /\ events[i - 1] = "tool_started"
    /\ events[i] \in Finished => i = Len(events)

EventsTellTheRun ==
  /\ EventsAreInOrder
  /\ task.pc \in {"save", "record", "over"} =>
       events # <<>> /\ events[Len(events)] = FinishTold

(* TaskOutput says that a result is missing only when its file could not be *)
(* written, and what it says of an end is what the run came to: the same in *)
(* the file, in the record and for a reader in between, over a restart too. *)
OutputTellsTheEnd ==
  /\ reader.missing => task.pc \in {"record", "over", "dead"} /\ ~task.saved
  /\ reader.told # None => reader.told = Status /\ task.saved
  /\ reader.pc = "result" => reader.status = Status
  /\ file # None => file = Status
  /\ file # None /\ memory # None => memory.status \in {"running", file}

SubagentsTellTheTruth == EventsTellTheRun /\ OutputTellsTheEnd

-----------------------------------------------------------------------------
(* The inductive invariant of MCComponents_proofs, by its parts.            *)
Kinds == Finished \cup {"started", "delta", "tool_started", "tool_completed",
                        "action", "error", "thought"}
Ends == {"completed", "failed"}
Late == {"record", "over", "dead"}
Places == Late \cup {"idle", "run", "ask", "again", "judge", "call", "tool", "progress",
                     "failing", "done", "finish", "save"}
Tasks == [pc : Places, mode : {None, "oneshot", "background"}, step : Nat, calls : Nat,
          outcome : {None} \cup Outcomes, saved : BOOLEAN]
Records == [status : {"running"} \cup Ends, step : Nat]
Readers == [pc : {"idle", "result"}, status : {None} \cup Ends, told : {None} \cup Ends,
            missing : BOOLEAN, reads : Nat]

TypeOK ==
  /\ task \in Tasks
  /\ task.pc \in {"call", "tool"} => task.calls > 0
  /\ events \in Seq(Kinds)
  /\ memory \in {None} \cup Records
  /\ file \in {None} \cup Ends
  /\ reader \in Readers

(* What has been told where the thread is. *)
EventsFollow ==
  /\ task.pc \in {"idle", "run"} => events = <<>>
  /\ task.pc \notin {"idle", "run", "dead"} => events # <<>>
  /\ task.pc \notin {"save", "record", "over", "dead"} =>
       \A i \in DOMAIN events : events[i] \notin Finished
  /\ events # <<>> /\ task.pc # "dead" =>
       (task.pc = "tool" <=> events[Len(events)] = "tool_started")

(* A background task has its record until the process dies; an end is known  *)
(* only once the task has come to it.                                       *)
EndsAreKept ==
  /\ task.pc = "idle" => ~InBackground
  /\ task.pc \in {"save", "record"} => InBackground
  /\ InBackground /\ task.pc # "dead" => memory \in Records
  /\ memory \in Records /\ memory.status # "running" => task.pc = "over" /\ memory.status = Status
  /\ task.saved <=> file # None
  /\ file # None \/ reader.missing \/ reader.pc = "result" => task.pc \in Late

IInv == TypeOK /\ EventsFollow /\ EndsAreKept /\ SubagentsTellTheTruth
=============================================================================
