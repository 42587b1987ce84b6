------------------------------ MODULE TeamWork ------------------------------
(***************************************************************************)
(* Work of one teammate: core/team_engine.  Callers (the lead, and other   *)
(* teammates) send messages, fan out and retry work, and start a worker    *)
(* thread when none is alive.  A worker polls: it turns the messages of    *)
(* its inbox file into work items, runs one queued item, and dies when it  *)
(* was idle for too long or told to stop.  A sweep thread requeues items   *)
(* that run without a heartbeat.  The inbox and the items are files that   *)
(* survive the process; cursor, processed ids and worker registry do not.  *)
(* One action is what a thread does under one file lock, or between two    *)
(* reads of shared state; a file lock may time out.                        *)
(***************************************************************************)
EXTENDS Naturals, Sequences, FiniteSets

CONSTANTS
  Threads,      \* numbers: a new worker takes the least one that is free
  Callers, None,
  Lead,         \* the caller that fans out and retries work
  Messages,
  Overlap,      \* TRUE: two callers may be inside start_worker at once
  Slow,         \* TRUE: an execution may outlast TEAM_HEARTBEAT_TIMEOUT
  MaxFanout, MaxAttempts, MaxFaults, MaxRestarts                   \* bounds

VARIABLES
  kind,       \* what each message is: "message" or "shutdown_request"
  inbox,      \* the inbox file: message ids in the order they were appended
  status,     \* message_status: "none", "pending", "delivered", "processed"
  items,      \* work items in the order they were created
  registry,   \* WorkerSupervisor._workers[key]
  thread,     \* [Threads -> a worker thread]
  caller,     \* [Callers -> where a call stands]
  memory,     \* _inbox_cursor and _processed_by_member
  saved,      \* the same in the last session snapshot
  sweep,      \* items the sweep thread found stale
  faults, restarts

files == <<inbox, items>>
vars  == <<kind, files, status, registry, thread, caller, memory, saved, sweep,
           faults, restarts>>

Texts  == {m \in Messages : kind[m] = "message"}
Off    == [pc |-> "off", stop |-> FALSE, base |-> 0, rows |-> <<>>, at |-> 1,
           item |-> 0, did |-> FALSE]
Quiet  == [pc |-> "idle", msg |-> None, item |-> 0, worker |-> None]
Forgot == [cursor |-> 0, processed |-> {}]

PCs == {"off", "poll", "rows", "create", "mark", "begin", "execute", "fail",
        "end", "stopped"}
ItemIds == DOMAIN items
Statuses == {"queued", "running", "succeeded", "failed"}

TypeOK ==
  /\ kind \in [Messages -> {"message", "shutdown_request"}]
  /\ inbox \in Seq(Messages)
  /\ status \in [Messages -> {"none", "pending", "delivered", "processed"}]
  /\ items \in Seq([source : Messages \cup {None}, status : Statuses,
                    attempt : Nat, old : BOOLEAN])
  /\ registry \in Threads \cup {None}
  /\ thread \in [Threads ->
       [pc : PCs, stop : BOOLEAN, base : Nat, rows : Seq(Messages), at : Nat,
        item : Nat, did : BOOLEAN]]
  /\ caller \in [Callers ->
       [pc : {"idle", "append", "deliver", "requeue", "start", "launch", "register"},
        msg : Messages \cup {None}, item : Nat, worker : Threads \cup {None}]]
  /\ {memory, saved} \subseteq [cursor : Nat, processed : SUBSET Messages]
  /\ sweep \subseteq ItemIds
  /\ faults \in 0..MaxFaults /\ restarts \in 0..MaxRestarts

Init ==
  /\ kind \in [Messages -> {"message", "shutdown_request"}]
  /\ inbox = <<>> /\ items = <<>>
  /\ status = [m \in Messages |-> "none"]
  /\ registry = None
  /\ thread = [t \in Threads |-> Off]
  /\ caller = [c \in Callers |-> Quiet]
  /\ memory = Forgot /\ saved = Forgot
  /\ sweep = {} /\ faults = 0 /\ restarts = 0

-----------------------------------------------------------------------------
(* The store of work items *)

NewItem(source) == [source |-> source, status |-> "queued", attempt |-> 0, old |-> FALSE]

(* update_work_item_status: whatever the status was. *)
WithStatus(i, s) ==
  [items EXCEPT ![i] =
     [@ EXCEPT !.status = s,
               !.attempt = IF s = "running" THEN @ + 1 ELSE @,
               !.old = IF s = "running" THEN FALSE ELSE @]]

Queued == {i \in ItemIds : items[i].status = "queued"}
First(S) == CHOOSE i \in S : \A j \in S : i <= j

HasItem(m) == \E i \in ItemIds : items[i].source = m

(* Threads inside _process_next_work_item with item i in hand. *)
Runners(i) ==
  {t \in Threads : thread[t].pc \in {"execute", "fail"} /\ thread[t].item = i}

-----------------------------------------------------------------------------
(* Callers *)

Goto(c, pc) == caller' = [caller EXCEPT ![c].pc = pc]
Return(c)   == caller' = [caller EXCEPT ![c] = Quiet]

(* send_message *)
Send(c, m) ==
  /\ caller[c].pc = "idle" /\ status[m] = "none" /\ m \notin {inbox[k] : k \in DOMAIN inbox}
  /\ status' = [status EXCEPT ![m] = "pending"]
  /\ caller' = [caller EXCEPT ![c] = [Quiet EXCEPT !.pc = "append", !.msg = m]]
  /\ UNCHANGED <<kind, files, registry, thread, memory, saved, sweep, faults, restarts>>

AppendInbox(c) ==
  /\ caller[c].pc = "append"
  /\ inbox' = Append(inbox, caller[c].msg)
  /\ Goto(c, "deliver")
  /\ UNCHANGED <<kind, status, items, registry, thread, memory, saved, sweep, faults, restarts>>

Deliver(c) ==
  /\ caller[c].pc = "deliver"
  /\ status' = [status EXCEPT ![caller[c].msg] = "delivered"]
  /\ Goto(c, "start")
  /\ UNCHANGED <<kind, files, registry, thread, memory, saved, sweep, faults, restarts>>

Fanout(c) ==
  /\ caller[c].pc = "idle" /\ c = Lead
  /\ Cardinality({i \in ItemIds : items[i].source = None}) < MaxFanout  \* bound
  /\ items' = Append(items, NewItem(None))
  /\ Goto(c, "start")
  /\ UNCHANGED <<kind, inbox, status, registry, thread, memory, saved, sweep, faults, restarts>>

(* Mutant: finished work may be retried as well. *)
RetryableOnceDone(i) == items[i].status \in {"failed", "succeeded"}

Retryable(i) == items[i].status = "failed"

(* retry_failed_work reads the status, and sets it in a later locked update. *)
Retry(c, i) ==
  /\ caller[c].pc = "idle" /\ c = Lead
  /\ Retryable(i) /\ items[i].attempt < MaxAttempts                \* bound
  /\ caller' = [caller EXCEPT ![c] = [Quiet EXCEPT !.pc = "requeue", !.item = i]]
  /\ UNCHANGED <<kind, files, status, registry, thread, memory, saved, sweep, faults, restarts>>

Requeue(c) ==
  /\ caller[c].pc = "requeue"
  /\ items' = WithStatus(caller[c].item, "queued")
  /\ Goto(c, "start")
  /\ UNCHANGED <<kind, inbox, status, registry, thread, memory, saved, sweep, faults, restarts>>

(* Mutant: a worker that was told to stop is not waited for. *)
AliveUnlessStopping(t) == thread[t].pc # "off" /\ ~thread[t].stop

Alive(t) == thread[t].pc # "off"

(* start_worker: look for a live worker, else start one, and only then      *)
(* register it.                                                             *)
StartWorker(c) ==
  /\ caller[c].pc = "start"
  /\ Overlap \/ \A d \in Callers : caller[d].pc \notin {"launch", "register"}
  /\ IF registry # None /\ Alive(registry) THEN Return(c) ELSE Goto(c, "launch")
  /\ UNCHANGED <<kind, files, status, registry, thread, memory, saved, sweep, faults, restarts>>

Free == {t \in Threads : ~Alive(t) /\ t # registry /\ \A c \in Callers : caller[c].worker # t}

Launch(c) ==
  /\ caller[c].pc = "launch"
  /\ Free # {}                                                     \* bound
  /\ thread' = [thread EXCEPT ![First(Free)] = [Off EXCEPT !.pc = "poll"]]
  /\ caller' = [caller EXCEPT ![c].pc = "register", ![c].worker = First(Free)]
  /\ UNCHANGED <<kind, files, status, registry, memory, saved, sweep, faults, restarts>>

Register(c) ==
  /\ caller[c].pc = "register"
  /\ registry' = caller[c].worker
  /\ Return(c)
  /\ UNCHANGED <<kind, files, status, thread, memory, saved, sweep, faults, restarts>>

-----------------------------------------------------------------------------
(* Worker threads *)

Step(t, pc) == thread' = [thread EXCEPT ![t].pc = pc]

(* The head of the loop, and the inbox read from the cursor on.              *)
Poll(t) ==
  /\ thread[t].pc = "poll"
  /\ thread' = [thread EXCEPT ![t] =
       IF @.stop THEN [@ EXCEPT !.pc = "stopped"]
       ELSE [Off EXCEPT !.pc = "rows", !.base = memory.cursor,
               !.rows = SubSeq(inbox, memory.cursor + 1, Len(inbox))]]
  /\ UNCHANGED <<kind, files, status, registry, caller, memory, saved, sweep, faults, restarts>>

Row(t) == thread[t].rows[thread[t].at]

(* One row: skip it, make work of it unless that was done, or tell the       *)
(* registered worker to stop.                                               *)
TakeRow(t) ==
  /\ thread[t].pc = "rows" /\ thread[t].at <= Len(thread[t].rows)
  /\ LET m == Row(t) IN
     CASE m \in memory.processed -> thread' = [thread EXCEPT ![t].at = @ + 1]
       [] m \notin memory.processed /\ m \in Texts ->
            Step(t, IF HasItem(m) THEN "mark" ELSE "create")
       [] OTHER ->
            thread' = [u \in Threads |->
              [thread[u] EXCEPT !.stop = @ \/ u = registry,
                                !.pc = IF u = t THEN "mark" ELSE @]]
  /\ UNCHANGED <<kind, files, status, registry, caller, memory, saved, sweep, faults, restarts>>

CreateItem(t) ==
  /\ thread[t].pc = "create"
  /\ items' = Append(items, NewItem(Row(t)))
  /\ Step(t, "mark")
  /\ UNCHANGED <<kind, inbox, status, registry, caller, memory, saved, sweep, faults, restarts>>

(* Everything a poll had in hand is dropped. *)
NextLoop(t, pc) == thread' = [thread EXCEPT ![t] = [Off EXCEPT !.pc = pc, !.stop = thread[t].stop]]

(* Mutant: the cursor is moved in a finally block. *)
AbortAdvancing(t) ==
  /\ \E pc \in {"poll", "stopped"} : NextLoop(t, pc)
  /\ memory' = [memory EXCEPT !.cursor = thread[t].base + Len(thread[t].rows)]

(* An exception ends the poll, and leaves the cursor where it was.  Such a   *)
(* poll counts as idle: the worker may have been idle for idle_timeout_s.    *)
Abort(t) ==
  /\ \E pc \in {"poll", "stopped"} : NextLoop(t, pc)
  /\ UNCHANGED memory

(* mark_message_processed raises for a message it does not know: one that a  *)
(* crashed sender appended, but whose status it did not persist.            *)
Mark(t) ==
  /\ thread[t].pc = "mark"
  /\ IF status[Row(t)] = "none"
     THEN Abort(t) /\ UNCHANGED status
     ELSE /\ status' = [status EXCEPT ![Row(t)] = "processed"]
          /\ memory' = [memory EXCEPT !.processed = @ \cup {Row(t)}]
          /\ thread' = [thread EXCEPT ![t].pc = "rows", ![t].at = @ + 1, ![t].did = TRUE]
  /\ UNCHANGED <<kind, files, registry, caller, saved, sweep, faults, restarts>>

(* _process_next_work_item: the oldest queued item ... *)
TakeItem(t) ==
  /\ thread[t].pc = "rows" /\ thread[t].at > Len(thread[t].rows)
  /\ thread' = [thread EXCEPT ![t] =
       IF Queued = {} THEN [@ EXCEPT !.pc = "end"]
       ELSE [@ EXCEPT !.pc = "begin", !.item = First(Queued)]]
  /\ UNCHANGED <<kind, files, status, registry, caller, memory, saved, sweep, faults, restarts>>

(* ... is set to running in a later locked update, ... *)
Begin(t) ==
  /\ thread[t].pc = "begin"
  /\ items' = WithStatus(thread[t].item, "running")
  /\ Step(t, "execute")
  /\ UNCHANGED <<kind, inbox, status, registry, caller, memory, saved, sweep, faults, restarts>>

(* ... and its outcome in another one: of the execution, or of the handler   *)
(* that could not record its success.                                       *)
Execute(t) ==
  /\ thread[t].pc \in {"execute", "fail"}
  /\ \E outcome \in {"succeeded", "failed"} :
       /\ thread[t].pc = "fail" => outcome = "failed"
       /\ items' = WithStatus(thread[t].item, outcome)
  /\ thread' = [thread EXCEPT ![t].pc = "end", ![t].did = TRUE]
  /\ UNCHANGED <<kind, inbox, status, registry, caller, memory, saved, sweep, faults, restarts>>

(* The cursor moves by the rows of this poll; a worker that found nothing to *)
(* do may have been idle for idle_timeout_s.                                *)
EndPoll(t) ==
  /\ thread[t].pc = "end"
  /\ memory' = [memory EXCEPT !.cursor = thread[t].base + Len(thread[t].rows)]
  /\ \E pc \in {"poll", "stopped"} : (thread[t].did => pc = "poll") /\ NextLoop(t, pc)
  /\ UNCHANGED <<kind, files, status, registry, caller, saved, sweep, faults, restarts>>

(* on_stop drops whichever worker is registered, and the thread ends.        *)
Stop(t) ==
  /\ thread[t].pc = "stopped"
  /\ registry' = None
  /\ thread' = [thread EXCEPT ![t] = Off]
  /\ UNCHANGED <<kind, files, status, caller, memory, saved, sweep, faults, restarts>>

(* A file lock is not taken within lock_timeout_s.  If that is the lock for  *)
(* the success, the handler records a failure instead; if it is the lock of  *)
(* the statuses, "processed" stays in memory, and nothing tells the two apart. *)
LockTimeout(t) ==
  /\ faults < MaxFaults /\ faults' = faults + 1                    \* bound
  /\ \/ /\ thread[t].pc \in {"create", "begin", "execute", "fail"}
        /\ Abort(t) /\ UNCHANGED status
     \/ /\ thread[t].pc = "rows" /\ thread[t].at <= Len(thread[t].rows)
        /\ Row(t) \notin memory.processed \cup Texts     \* the shutdown response
        /\ Abort(t) /\ UNCHANGED status
     \/ /\ thread[t].pc = "mark" /\ status[Row(t)] # "none"
        /\ status' = [status EXCEPT ![Row(t)] = "processed"]
        /\ Abort(t)
     \/ thread[t].pc = "execute" /\ Step(t, "fail") /\ UNCHANGED <<status, memory>>
  /\ UNCHANGED <<kind, files, registry, caller, saved, sweep, restarts>>

-----------------------------------------------------------------------------
(* The sweep thread, snapshots and restarts *)

(* Nobody calls update_work_item_heartbeat, so the heartbeat of an item is    *)
(* when it began to run.                                                    *)
GrowOld(i) ==
  /\ items[i].status = "running" /\ ~items[i].old
  /\ Slow \/ Runners(i) = {}
  /\ items' = [items EXCEPT ![i].old = TRUE]
  /\ UNCHANGED <<kind, inbox, status, registry, thread, caller, memory, saved, sweep, faults, restarts>>

(* Mutant: items that never ran before are overlooked. *)
StaleIfRetried == {i \in ItemIds : items[i].status = "running" /\ items[i].old
                                     /\ items[i].attempt > 1}

Stale == {i \in ItemIds : items[i].status = "running" /\ items[i].old}

FindStale ==
  /\ sweep = {} /\ Stale # {}
  /\ sweep' = Stale
  /\ UNCHANGED <<kind, files, status, registry, thread, caller, memory, saved, faults, restarts>>

RequeueStale ==
  /\ sweep # {}
  /\ items' = WithStatus(First(sweep), "queued")
  /\ sweep' = sweep \ {First(sweep)}
  /\ UNCHANGED <<kind, inbox, status, registry, thread, caller, memory, saved, faults, restarts>>

SweepTimeout ==
  /\ sweep # {}
  /\ faults < MaxFaults /\ faults' = faults + 1                    \* bound
  /\ sweep' = {}
  /\ UNCHANGED <<kind, files, status, registry, thread, caller, memory, saved, restarts>>

Snapshot ==
  /\ saved # memory /\ restarts < MaxRestarts        \* else nobody reads it
  /\ saved' = memory
  /\ UNCHANGED <<kind, files, status, registry, thread, caller, memory, sweep, faults, restarts>>

(* The process dies and another one starts on the same files.  Statuses are  *)
(* read back, but "pending" was never written.  The session may be loaded,   *)
(* which requeues running items and brings back the snapshot.               *)
Restart ==
  /\ restarts < MaxRestarts /\ restarts' = restarts + 1            \* bound
  /\ status' = [m \in Messages |-> IF status[m] = "pending" THEN "none" ELSE status[m]]
  /\ registry' = None /\ sweep' = {}
  /\ thread' = [t \in Threads |-> Off]
  /\ caller' = [c \in Callers |-> Quiet]
  /\ \/ UNCHANGED items /\ memory' = Forgot
     \/ /\ items' = [i \in ItemIds |->
                       IF items[i].status = "running"
                       THEN [items[i] EXCEPT !.status = "queued"] ELSE items[i]]
        /\ memory' = saved
  /\ UNCHANGED <<kind, inbox, saved, faults>>

-----------------------------------------------------------------------------
Call(c) ==
  \/ \E m \in Messages : Send(c, m)
  \/ AppendInbox(c) \/ Deliver(c)
  \/ Fanout(c) \/ (\E i \in ItemIds : Retry(c, i)) \/ Requeue(c)
  \/ StartWorker(c) \/ Launch(c) \/ Register(c)

Work(t) ==
  \/ Poll(t) \/ TakeRow(t) \/ CreateItem(t) \/ Mark(t)
  \/ TakeItem(t) \/ Begin(t) \/ Execute(t) \/ EndPoll(t) \/ Stop(t)

Sweep == FindStale \/ RequeueStale

Next ==
  \/ \E c \in Callers : Call(c)
  \/ \E t \in Threads : Work(t) \/ LockTimeout(t)
  \/ \E i \in ItemIds : GrowOld(i)
  \/ Sweep \/ SweepTimeout \/ Snapshot \/ Restart

Spec == Init /\ [][Next]_vars

(* Time passes for an item nobody runs, and the sweep thread never stops.    *)
FairSpec ==
  /\ Spec /\ WF_vars(Sweep)
  /\ WF_vars(\E i \in ItemIds : GrowOld(i) /\ Runners(i) = {})

-----------------------------------------------------------------------------
(* Properties *)

(* A work item is executed by one worker at a time, though it passes through *)
(* the hands of workers, the sweep, retries and restarts, and every status   *)
(* update overwrites whatever it finds.                                     *)
OneRunnerPerItem == \A i \in ItemIds : Cardinality(Runners(i)) <= 1

(* A message becomes one work item, however often its row is read again       *)
(* after an aborted poll or a restart that forgot the cursor; and one the     *)
(* teammate will not look at again has its item, whatever was in memory when  *)
(* the process died.  (And the types.)                                      *)
OneItemForEachMessage ==
  /\ TypeOK
  /\ \A i, j \in ItemIds : items[i].source = items[j].source /\ items[i].source # None => i = j
  /\ \A m \in Texts :
       \/ status[m] = "processed"
       \/ m \in memory.processed \cup saved.processed
       \/ \E k \in DOMAIN inbox : inbox[k] = m /\ (k <= memory.cursor \/ k <= saved.cursor)
       => HasItem(m)

(* Work that succeeded is never done again.                                  *)
SucceededStays ==
  \A i \in ItemIds : items[i].status = "succeeded" => items'[i].status = "succeeded"
SuccessIsFinal == [][SucceededStays]_vars

Stuck(i) == i \in ItemIds /\ items[i].status = "running" /\ Runners(i) = {}

(* An item whose worker is gone does not stay running for ever.              *)
StuckWorkIsRequeued ==
  \A i \in 1..(Cardinality(Messages) + MaxFanout) : Stuck(i) ~> ~Stuck(i)

-----------------------------------------------------------------------------
(* What a docstring says and the code does not do *)

(* "Requeued stale work_item %s (worker died)": the sweep takes an item away  *)
(* from dead workers only.                                                  *)
OnlyDeadWorkIsRequeued ==
  [][\A i \in ItemIds : RequeueStale /\ i \notin sweep' /\ i \in sweep => Runners(i) = {}]_vars
=============================================================================
