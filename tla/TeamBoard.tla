----------------------------- MODULE TeamBoard -----------------------------
(***************************************************************************)
(* The task board of a team and the approval of plans:                     *)
(* core/team_engine/task_board_store.py, approval.py and the parts of the  *)
(* manager and of the dispatcher that use them.  A board call holds        *)
(* `.board.lock` and writes one task file after the other; readers and the *)
(* approval table have locks of their own.  The lead creates, edits and    *)
(* approves; members claim, ask, execute and report.  All of them are      *)
(* threads of one process, which may die between any two writes.           *)
(***************************************************************************)
EXTENDS Naturals, Sequences, FiniteSets, SequencesExt

CONSTANTS
  Members,      \* teammates, each one worker thread
  Gated,        \* the members whose plans need approval
  Lead, None,
  MaxTasks, MaxRequests, MaxItems,
  MaxEvents     \* bounds; of edits, answers and faults there are so many in all

Actors   == Members \cup {Lead}
TaskIds  == 1..MaxTasks
Requests == 1..MaxRequests

VARIABLES
  tasks,      \* the task files: [TaskIds -> task or NoTask]
  nextId,     \* _meta.json
  lock,       \* .board.lock: its holder, None, or "orphan" after a crash
  requests,   \* ApprovalService._requests
  approvals,  \* approvals.json
  letters,    \* [Members -> plan_approval_response messages to be read]
  items,      \* work items made from tasks, in the order they were created
  call,       \* [Actors -> where a thread stands]
  spent,      \* edits, answers and faults so far, for the bound
  restarts,   \* history: lives of the process before this one
  past        \* history: blockers, completed, approved and edited ever

vars == <<tasks, nextId, lock, requests, approvals, letters, items, call,
          spent, restarts, past>>

NoTask    == [status |-> "absent", owner |-> None, blockedBy |-> {}, blocks |-> {}]
NoRequest == [status |-> "absent", task |-> 0, member |-> None, dispatched |-> FALSE]
Idle      == [pc |-> "idle", task |-> 0, item |-> 0, request |-> 0,
              row |-> NoRequest, approved |-> FALSE, writes |-> <<>>, next |-> "idle"]

TaskStatuses == {"absent", "pending", "in_progress", "completed", "canceled"}
Task    == [status : TaskStatuses, owner : Members \cup {None},
            blockedBy : SUBSET TaskIds, blocks : SUBSET TaskIds]
Request == [status : {"absent", "pending", "approved", "rejected"},
            task : TaskIds \cup {0}, member : Members \cup {None}, dispatched : BOOLEAN]
Write   == [file : TaskIds, set : {"task", "blocks", "blockedBy", "clear"},
            task : Task, id : TaskIds]
PCs == {"idle", "write", "fetch", "save", "letter", "create", "run",
        "report"}

Init ==
  /\ tasks = [t \in TaskIds |-> NoTask] /\ nextId = 1
  /\ lock = None
  /\ requests = [r \in Requests |-> NoRequest] /\ approvals = requests
  /\ letters = [m \in Members |-> <<>>]
  /\ items = <<>>
  /\ call = [a \in Actors |-> Idle]
  /\ spent = 0 /\ restarts = 0
  /\ past = [blockers |-> [t \in TaskIds |-> {}], completed |-> {},
              approved |-> {}, edited |-> {}]

Existing == {t \in TaskIds : tasks[t].status # "absent"}
At(a, pc) == call[a].pc = pc
Set(a, c) == call' = [call EXCEPT ![a] = c]

-----------------------------------------------------------------------------
(* The store: calls under the board lock *)

OneWrite(file, what, task, id) == [file |-> file, set |-> what, task |-> task, id |-> id]

(* What a file holds once a write of a call has reached it. *)
Written(w) ==
  LET old == tasks[w.file]
  IN CASE w.set = "task"      -> w.task
       [] w.set = "blocks"    -> [old EXCEPT !.blocks = @ \cup {w.id}]
       [] w.set = "blockedBy" -> [old EXCEPT !.blockedBy = @ \cup {w.id}]
       [] w.set = "clear"     -> [old EXCEPT !.blockedBy = @ \ {w.id}]

(* Mutant: a canceled task frees those that wait for it, too. *)
ClearingAlways(t, task) ==
  IF task.status \in {"completed", "canceled"}
  THEN SetToSortSeq({OneWrite(f, "clear", NoTask, t) : f \in Existing},
                    LAMBDA v, w : v.file < w.file)
  ELSE <<>>

(* _clear_dependency_locked, for a task that is completed after its update. *)
Clearing(t, task) ==
  IF task.status = "completed"
  THEN SetToSortSeq({OneWrite(f, "clear", NoTask, t) : f \in Existing},
                    LAMBDA v, w : v.file < w.file)
  ELSE <<>>

(* update_task: the links to other files come first, then the task as it was *)
(* read at the start with its changes, then what its completion clears.      *)
UpdateWrites(t, status, owner, by, to) ==
  LET new == [tasks[t] EXCEPT !.status = status, !.owner = owner,
                              !.blockedBy = @ \cup by, !.blocks = @ \cup to]
  IN [i \in 1..Cardinality(by) |->
        OneWrite(CHOOSE b \in by : TRUE, "blocks", NoTask, t)]
     \o [i \in 1..Cardinality(to) |->
        OneWrite(CHOOSE b \in to : TRUE, "blockedBy", NoTask, t)]
     \o <<OneWrite(t, "task", new, t)>>
     \o Clearing(t, new)

BeginWrites(a, writes, next) ==
  /\ lock = None
  /\ lock' = a
  /\ Set(a, [call[a] EXCEPT !.pc = "write", !.writes = writes, !.next = next])

(* create_task: the id is used up before the blockers are looked for.        *)
Create(blockers) ==
  /\ At(Lead, "idle") /\ nextId <= MaxTasks                        \* bound
  /\ nextId' = nextId + 1
  /\ IF blockers \subseteq Existing
     THEN BeginWrites(Lead,
            <<OneWrite(nextId, "task",
                [NoTask EXCEPT !.status = "pending", !.blockedBy = blockers], nextId)>>
            \o SetToSeq({OneWrite(b, "blocks", NoTask, nextId) : b \in blockers}),
            "idle")
     ELSE lock = None /\ UNCHANGED <<lock, call>>          \* FileNotFoundError
  /\ UNCHANGED <<tasks, requests, approvals, letters, items, spent, restarts, past>>

(* update_task by the lead's tool: a new status, where pending takes the     *)
(* owner away, or a new link from or to another task.                       *)
Edit(t, status, by, to) ==
  /\ At(Lead, "idle") /\ t \in Existing /\ spent < MaxEvents        \* bound
  /\ by \cup to \subseteq Existing
  /\ BeginWrites(Lead,
       UpdateWrites(t, status, IF status = "pending" THEN None ELSE tasks[t].owner, by, to),
       "idle")
  /\ spent' = spent + 1
  /\ past' = [past EXCEPT !.edited = @ \cup {t}]
  /\ UNCHANGED <<tasks, nextId, requests, approvals, letters, items, restarts>>

(* os.replace of one file; after the last one the lock is removed.           *)
WriteFile(a) ==
  LET w == Head(call[a].writes)
      rest == Tail(call[a].writes)
  IN /\ At(a, "write")
     /\ tasks' = [tasks EXCEPT ![w.file] = Written(w)]
     /\ past' = [past EXCEPT
          !.blockers  = [t \in TaskIds |-> @[t] \cup tasks'[t].blockedBy],
          !.completed = @ \cup {t \in TaskIds : tasks'[t].status = "completed"}]
     /\ IF rest = <<>>
        THEN lock' = None /\ Set(a, IF call[a].next = "idle" THEN Idle
                                    ELSE [call[a] EXCEPT !.pc = call[a].next,
                                                         !.writes = <<>>])
        ELSE Set(a, [call[a] EXCEPT !.writes = rest]) /\ UNCHANGED lock
     /\ UNCHANGED <<nextId, requests, approvals, letters, items, spent, restarts>>

(* Mutant: the status is not looked at. *)
ClaimableUntilDone ==
  {t \in Existing : tasks[t].status # "completed" /\ tasks[t].blockedBy = {}}

Claimable ==
  {t \in TaskIds : /\ tasks[t].status = "pending"
                   /\ tasks[t].owner = None /\ tasks[t].blockedBy = {}}

(* claim_next_task, by a poll that found nothing else to do, and what        *)
(* _claim_board_task_to_work_item then keeps in memory: a request for        *)
(* approval, or the task it is going to make an item of.  Ids are in the     *)
(* order of their names, which is that of numbers up to 9.                   *)
Claim(m) ==
  /\ At(m, "idle") /\ lock = None /\ Claimable # {}
  /\ Len(items) < MaxItems                                         \* bound
  /\ LET t == CHOOSE x \in Claimable : \A y \in Claimable : x <= y
     IN /\ tasks' = [tasks EXCEPT ![t].status = "in_progress", ![t].owner = m]
        /\ IF m \in Gated
           THEN \E r \in Requests :                                \* a new uuid
                  /\ \A k \in Requests : k < r <=> requests[k] # NoRequest \/ approvals[k] # NoRequest
                  /\ requests' = [requests EXCEPT ![r] =
                       [status |-> "pending", task |-> t, member |-> m, dispatched |-> FALSE]]
                  /\ Set(m, [Idle EXCEPT !.pc = "save", !.request = r, !.row = requests'[r]])
           ELSE Set(m, [Idle EXCEPT !.pc = "create", !.task = t]) /\ UNCHANGED requests
  /\ UNCHANGED <<nextId, lock, approvals, letters, items, spent, restarts, past>>

(* A lock directory left by a dead process is removed after lock_stale_s.    *)
ReclaimLock ==
  /\ lock = "orphan"
  /\ lock' = None
  /\ UNCHANGED <<tasks, nextId, requests, approvals, letters, items, call, spent,
                 restarts, past>>

-----------------------------------------------------------------------------
(* Approvals *)

Verdict(approved) == IF approved THEN "approved" ELSE "rejected"

(* respond_plan_approval up to apply_response *)
Respond(r, approved) ==
  /\ At(Lead, "idle") /\ requests[r].status # "absent"
  /\ spent < MaxEvents                                          \* bound
  /\ spent' = spent + 1
  /\ requests' = [requests EXCEPT ![r].status = Verdict(approved)]
  /\ Set(Lead, [Idle EXCEPT !.pc = "fetch", !.request = r, !.next = "letter",
                            !.approved = approved])
  /\ past' = IF approved THEN [past EXCEPT !.approved = @ \cup {r}] ELSE past
  /\ UNCHANGED <<tasks, nextId, lock, approvals, letters, items, restarts>>

(* get_request: the copy that is going to be persisted. *)
Fetch(a) ==
  /\ At(a, "fetch")
  /\ Set(a, [call[a] EXCEPT !.pc = "save", !.row = requests[call[a].request]])
  /\ UNCHANGED <<tasks, nextId, lock, requests, approvals, letters, items, spent,
                 restarts, past>>

(* _persist_approval *)
Save(a) ==
  /\ At(a, "save")
  /\ approvals' = [approvals EXCEPT ![call[a].request] = call[a].row]
  /\ Set(a, IF call[a].next = "idle" THEN Idle ELSE [call[a] EXCEPT !.pc = call[a].next])
  /\ UNCHANGED <<tasks, nextId, lock, requests, letters, items, spent, restarts, past>>

(* send_message of the answer, which the member reads in a later poll. *)
SendLetter ==
  /\ At(Lead, "letter")
  /\ LET m == call[Lead].row.member
     IN letters' = [letters EXCEPT ![m] =
                      Append(@, [request |-> call[Lead].request,
                                 approved |-> call[Lead].approved])]
  /\ Set(Lead, Idle)
  /\ UNCHANGED <<tasks, nextId, lock, requests, approvals, items, spent, restarts, past>>

(* _apply_plan_approval_response: the same answer once more. *)
ReadLetter(m) ==
  /\ At(m, "idle") /\ letters[m] # <<>>
  /\ LET l == Head(letters[m])
         known == requests[l.request].status # "absent"
     IN /\ requests' = IF known
                       THEN [requests EXCEPT ![l.request].status = Verdict(l.approved)]
                       ELSE requests
        /\ Set(m, IF known THEN [Idle EXCEPT !.pc = "fetch", !.request = l.request]
                           ELSE Idle)
  /\ letters' = [letters EXCEPT ![m] = Tail(@)]
  /\ UNCHANGED <<tasks, nextId, lock, approvals, items, spent, restarts, past>>

(* Mutant: the flag is forgotten. *)
DispatchableAgain(m) ==
  {r \in Requests : requests[r].member = m /\ requests[r].status = "approved"}

Dispatchable(m) ==
  {r \in Requests : /\ requests[r].member = m /\ requests[r].status = "approved"
                    /\ ~requests[r].dispatched}

(* _dispatch_approved_plan_work: claim_next_approved_request *)
Dispatch(m) ==
  /\ At(m, "idle") /\ Len(items) < MaxItems                        \* bound
  /\ \E r \in Dispatchable(m) :
       /\ \A k \in Dispatchable(m) : r <= k
       /\ requests' = [requests EXCEPT ![r].dispatched = TRUE]
       /\ Set(m, [Idle EXCEPT !.pc = "save", !.request = r, !.row = requests'[r],
                              !.task = requests[r].task, !.next = "create"])
  /\ UNCHANGED <<tasks, nextId, lock, approvals, letters, items, spent, restarts, past>>

-----------------------------------------------------------------------------
(* Work *)

CreateItem(m) ==
  /\ At(m, "create")
  /\ items' = Append(items, [task |-> call[m].task, request |-> call[m].request,
                             owner |-> m, status |-> "queued", life |-> restarts])
  /\ Set(m, Idle)
  /\ UNCHANGED <<tasks, nextId, lock, requests, approvals, letters, spent, restarts, past>>

(* A lock of the items or of approvals.json times out: the poll is aborted.  *)
Abort(a) ==
  /\ call[a].pc \in {"save", "create"} /\ spent < MaxEvents       \* bound
  /\ spent' = spent + 1
  /\ Set(a, Idle)
  /\ UNCHANGED <<tasks, nextId, lock, requests, approvals, letters, items, restarts, past>>

StartItem(m) ==
  /\ At(m, "idle")
  /\ \E i \in DOMAIN items :
       /\ items[i].owner = m /\ items[i].status = "queued"
       /\ \A k \in 1..(i - 1) : ~(items[k].owner = m /\ items[k].status = "queued")
       /\ items' = [items EXCEPT ![i].status = "running"]
       /\ Set(m, [Idle EXCEPT !.pc = "run", !.item = i, !.task = items[i].task])
  /\ UNCHANGED <<tasks, nextId, lock, requests, approvals, letters, spent, restarts, past>>

(* The execution ends well or with an exception. *)
FinishItem(m, outcome) ==
  /\ At(m, "run")
  /\ items' = [items EXCEPT ![call[m].item].status = outcome]
  /\ Set(m, [call[m] EXCEPT !.pc = "report"])
  /\ UNCHANGED <<tasks, nextId, lock, requests, approvals, letters, spent, restarts, past>>

(* Mutant: work that failed is reported as done. *)
ReportedDone(i) == "completed"

ReportedAs(i) == IF items[i].status = "succeeded" THEN "completed" ELSE "canceled"

(* update_board_task after the item. *)
Report(m) ==
  /\ At(m, "report")
  /\ BeginWrites(m, UpdateWrites(call[m].task, ReportedAs(call[m].item), m, {}, {}), "idle")
  /\ UNCHANGED <<tasks, nextId, requests, approvals, letters, items, spent, restarts, past>>

(* The board lock times out: after a success the handler of the exception    *)
(* marks the item as failed and reports that; after a failure it escapes.    *)
ReportTimeout(m) ==
  /\ At(m, "report") /\ lock # None /\ spent < MaxEvents          \* bound
  /\ spent' = spent + 1
  /\ IF items[call[m].item].status = "succeeded"
     THEN items' = [items EXCEPT ![call[m].item].status = "failed"] /\ UNCHANGED call
     ELSE Set(m, Idle) /\ UNCHANGED items
  /\ UNCHANGED <<tasks, nextId, lock, requests, approvals, letters, restarts, past>>

(* The process dies; the approvals are read back from their file, and the    *)
(* items that ran are queued again if the session is loaded.                 *)
Restart(loaded) ==
  /\ spent < MaxEvents                                            \* bound
  /\ spent' = spent + 1 /\ restarts' = restarts + 1
  /\ requests' = approvals
  /\ lock' = IF lock \in Actors THEN "orphan" ELSE lock
  /\ items' = [i \in DOMAIN items |->
       IF loaded /\ items[i].status = "running" THEN [items[i] EXCEPT !.status = "queued"]
       ELSE items[i]]
  /\ call' = [a \in Actors |-> Idle]
  /\ UNCHANGED <<tasks, nextId, approvals, letters, past>>

LeadStep ==
  \/ \E b \in SUBSET TaskIds : Create(b)
  \/ \E t \in TaskIds :
       \/ \E s \in TaskStatuses \ {"absent"} : Edit(t, s, {}, {})
       \/ \E x \in TaskIds : \/ Edit(t, tasks[t].status, {x}, {})
                            \/ Edit(t, tasks[t].status, {}, {x})
  \/ \E r \in Requests, approved \in BOOLEAN : Respond(r, approved)
  \/ SendLetter
MemberStep(m) ==
  \/ Claim(m) \/ CreateItem(m) \/ StartItem(m) \/ Report(m) \/ ReportTimeout(m)
  \/ ReadLetter(m) \/ Dispatch(m)
  \/ \E outcome \in {"succeeded", "failed"} : FinishItem(m, outcome)
Next ==
  \/ LeadStep
  \/ \E m \in Members : MemberStep(m)
  \/ \E a \in Actors : WriteFile(a) \/ Fetch(a) \/ Save(a) \/ Abort(a)
  \/ ReclaimLock
  \/ \E loaded \in BOOLEAN : Restart(loaded)

Spec == Init /\ [][Next]_vars

-----------------------------------------------------------------------------
(* Properties *)

TypeOK ==
  /\ tasks \in [TaskIds -> Task] /\ nextId \in 1..(MaxTasks + 1)
  /\ lock \in Actors \cup {None, "orphan"}
  /\ {requests, approvals} \subseteq [Requests -> Request]
  /\ \A a \in Actors :
       /\ call[a].pc \in PCs /\ call[a].row \in Request
       /\ \A i \in DOMAIN call[a].writes : call[a].writes[i] \in Write
       /\ call[a].pc = "write" <=> call[a].writes # <<>>
       /\ call[a].pc = "write" <=> lock = a
  /\ \A m \in Members : \A i \in DOMAIN letters[m] : letters[m][i].request \in Requests
  /\ \A i \in DOMAIN items : items[i].status \in {"queued", "running", "succeeded", "failed"}

(* A member takes a task from the board only when every blocker the task     *)
(* ever had was completed at some time, whatever edits, crashes between two  *)
(* files and cancellations came between.  (An edit that makes a task block   *)
(* itself is lost: the task file overwrites the link.)                       *)
ClaimsOnlyUnblocked ==
  \A t \in TaskIds, m \in Members :
    tasks[t].owner # m /\ tasks'[t].owner = m /\ call[m].pc = "idle" =>
      past.blockers[t] \ {t} \subseteq past.completed
ClaimedOnlyWhenUnblocked == [][ClaimsOnlyUnblocked]_vars

(* Work of a member whose plans need approval was approved by the lead, and  *)
(* for the task it is about; and one process makes one work item from an     *)
(* approval, though the answer comes twice, from the lead's call and from    *)
(* the inbox.                                                              *)
ApprovalMakesOneItem ==
  \A i, j \in DOMAIN items :
    /\ items[i].owner \in Gated =>
         /\ items[i].request \in past.approved
         /\ requests[items[i].request].task = items[i].task
    /\ items[i].request = items[j].request /\ items[i].request # 0
       /\ items[i].life = items[j].life => i = j

(* Unless the lead edits it, a task is worked on by one member only.  (And    *)
(* the types.)                                                             *)
OneMemberPerTask ==
  /\ TypeOK
  /\ \A i, j \in DOMAIN items :
       items[i].task = items[j].task /\ items[i].task \notin past.edited =>
         items[i].owner = items[j].owner

(* The board says completed only of work that succeeded, unless the lead     *)
(* said so; a lock that times out must not leave the two apart.              *)
CompletedMeansDone ==
  \A t \in TaskIds :
    tasks[t].status = "completed" /\ t \notin past.edited =>
      \E i \in DOMAIN items : items[i].task = t /\ items[i].status = "succeeded"
=============================================================================
