---------------------------- MODULE SessionCatalog ----------------------------
(***************************************************************************)
(* The catalog of sessions: index.json, a cache over the snapshot and the    *)
(* log of each session, and the workspace directory.  One thread serves the  *)
(* requests, one after the other; each session has a worker thread for its   *)
(* turns.  A request or a turn is a sequence of operations on files, and the  *)
(* threads interleave between them; changes of the index are locked, other   *)
(* files are written without a lock.  Building an agent makes a session of   *)
(* its own and deletes it again.                                            *)
(***************************************************************************)
EXTENDS Naturals, Sequences

CONSTANTS
  None, Service,     \* the thread that serves the requests
  Sessions,
  Spare,             \* identities that agents get while they are built
  Titles,
  LooksNew,          \* the titles that begin with "New session"
  Managers,          \* instances of SessionManager that list or look up
  UnlinkFails,       \* unlink() of a snapshot or a log may fail
  MaxTurns, MaxCrashes   \* bounds

Ids == Sessions \cup Spare
Threads == Sessions \cup {Service}

VARIABLES
  index,        \* the title of each row: "new", "first", "recovered" or given
  snapshot,     \* of each session: None or the messages in it, 0 or 1
  log,          \* likewise; 0 is a log with a header only
  workspace,    \* sessions whose directory exists
  lock,         \* _INDEX_WRITE_LOCK: the thread that holds it
  task,         \* the operations a thread has still to do: <<operation, id>>
  live,         \* the sessions of the controller
  built,        \* those that have an agent
  reconciled,   \* managers that did so
  given,        \* the title a user gave
  deleted,      \* sessions whose deletion was confirmed
  used,         \* identities, which are never given again
  turns, crashes

vars == <<index, snapshot, log, workspace, lock, task, live, built, reconciled,
          given, deleted, used, turns, crashes>>
files == <<index, snapshot, log, workspace>>
memory == <<live, built, reconciled>>
told == <<given, deleted>>
bounds == <<turns, crashes>>

Init ==
  /\ index = [i \in Ids |-> None] /\ snapshot = [i \in Ids |-> None]
  /\ log = [i \in Ids |-> None] /\ workspace = {}
  /\ lock = None /\ task = [t \in Threads |-> <<>>]
  /\ live = {} /\ built = {} /\ reconciled = {}
  /\ given = [s \in Sessions |-> None] /\ deleted = {} /\ used = {}
  /\ turns = 0 /\ crashes = 0

Rows == {i \in Ids : index[i] # None}
Available == {i \in Ids : snapshot[i] # None \/ log[i] = 1}
Idle(t) == task[t] = <<>>
Takes(S) == S \cap used = {} /\ used' = used \cup S

-----------------------------------------------------------------------------
(* What is done in one go, by operation.                                   *)

Creating(i) == <<<<"append", i>>, <<"empty", i>>, <<"header", i>>>>
Deleting(i) == <<<<"unlink", i>>, <<"unlink log", i>>, <<"remove", i>>>>
Saving(s) == <<<<"log", s>>, <<"snapshot", s>>, <<"update", s>>>>
Building(s, i) ==
  <<<<"mkdir", s>>>> \o Creating(i) \o Deleting(i) \o <<<<"built", s>>>>

Start(t, operations) == Idle(t) /\ task' = [task EXCEPT ![t] = operations]

(* The first time, the agent is built.                                     *)
StartWithAgent(t, s, operations) ==
  IF s \in built THEN Start(t, operations) /\ UNCHANGED used
  ELSE \E i \in Spare : Takes({i}) /\ Start(t, Building(s, i) \o operations)

(* Mutant: the title of the first message, whatever the row had.           *)
TitleOfMessage(title) == "first"

(* Only a placeholder is overwritten.                                      *)
TitleOnSave(title) == IF title \in {None, "new"} \cup LooksNew THEN "first" ELSE title

Put(f, i, x) == [f EXCEPT ![i] = x]

HasRow(s) == s \in Rows
Known(s) == s \in live \/ HasRow(s)
Attach(s) == live' = live \cup {s}
GiveTitle(s, title) == index' = Put(index, s, title) /\ given' = Put(given, s, title)

(* Changes of the index wait for its lock; a deletion holds it to its end.  *)
Indexed(t, op, i) ==
  \/ /\ op = "append" /\ lock = None
     /\ index' = Put(index, i, "new") /\ UNCHANGED <<snapshot, log, lock>>
  \/ /\ op = "update" /\ lock = None
     /\ index' = Put(index, i, TitleOnSave(index[i])) /\ UNCHANGED <<snapshot, log, lock>>
  \/ /\ op = "unlink" /\ lock = None /\ lock' = t
     /\ snapshot' = Put(snapshot, i, None) /\ UNCHANGED <<index, log>>
  \/ /\ op = "unlink log" /\ UNCHANGED <<index, snapshot, lock>>
     /\ \/ log' = Put(log, i, None)
        \/ UnlinkFails /\ UNCHANGED log
  \/ /\ op = "remove" /\ lock' = None
     /\ index' = Put(index, i, None) /\ UNCHANGED <<snapshot, log>>

Filed(op, i) ==
  /\ UNCHANGED <<index, lock>>
  /\ \/ op = "empty" /\ snapshot' = Put(snapshot, i, 0) /\ UNCHANGED log
     \/ op = "header" /\ log' = Put(log, i, 0) /\ UNCHANGED snapshot
     \/ op = "log" /\ log' = Put(log, i, 1) /\ UNCHANGED snapshot
     \/ op = "snapshot" /\ snapshot' = Put(snapshot, i, 1) /\ UNCHANGED log

Step(t) ==
  /\ ~Idle(t)
  /\ LET op == Head(task[t])[1]  i == Head(task[t])[2] IN
     /\ task' = [task EXCEPT ![t] = Tail(@)]
     /\ \/ (Indexed(t, op, i) \/ Filed(op, i)) /\ UNCHANGED <<workspace, live, built, told>>
        \/ /\ op = "mkdir" /\ workspace' = workspace \cup {i}
           /\ UNCHANGED <<index, snapshot, log, lock, live, built, told>>
        \/ /\ op = "built" /\ built' = built \cup {i}
           /\ UNCHANGED <<files, lock, live, told>>
        \/ /\ op = "live" /\ Attach(i)
           /\ UNCHANGED <<files, lock, built, told>>
        \/ /\ op = "deleted" /\ workspace' = workspace \ {i} /\ deleted' = deleted \cup {i}
           /\ UNCHANGED <<index, snapshot, log, lock, live, built, given>>
  /\ UNCHANGED <<reconciled, bounds, used>>

(* The snapshot cannot be unlinked: the deletion returns, the request goes on. *)
UnlinkingFails(t) ==
  /\ UnlinkFails /\ ~Idle(t) /\ Head(task[t])[1] = "unlink" /\ lock = None
  /\ task' = [task EXCEPT ![t] = SubSeq(@, 4, Len(@))]
  /\ UNCHANGED <<files, lock, memory, told, bounds, used>>

-----------------------------------------------------------------------------
(* Requests.                                                               *)

Create(s) ==
  /\ Takes({s}) /\ Start(Service, Creating(s) \o <<<<"live", s>>>>)
  /\ UNCHANGED <<files, lock, memory, told, bounds>>

(* An archive is a session with messages, which no controller knows.       *)
Import(s) ==
  /\ Takes({s}) /\ Start(Service, Creating(s) \o Saving(s))
  /\ UNCHANGED <<files, lock, memory, told, bounds>>

(* Mutant: a session is deleted under its turn.                            *)
DeleteAnyway(s) ==
  /\ Known(s)
  /\ Start(Service, Deleting(s) \o <<<<"deleted", s>>>>)
  /\ live' = live \ {s} /\ built' = built \ {s}
  /\ UNCHANGED <<files, lock, reconciled, told, bounds, used>>

Delete(s) ==
  /\ Known(s) /\ Idle(s)
  /\ Start(Service, Deleting(s) \o <<<<"deleted", s>>>>)
  /\ live' = live \ {s} /\ built' = built \ {s}
  /\ UNCHANGED <<files, lock, reconciled, told, bounds, used>>

(* A row without anything to load is removed.                              *)
Activate(s) ==
  /\ s \notin live /\ HasRow(s)
  /\ IF s \in Available
     THEN Idle(Service) /\ Attach(s) /\ UNCHANGED task
     ELSE Start(Service, Deleting(s)) /\ UNCHANGED live
  /\ UNCHANGED <<files, lock, built, reconciled, told, bounds, used>>

Rename(s, title) ==
  /\ Idle(Service) /\ s \in live /\ lock = None /\ HasRow(s)
  /\ GiveTitle(s, title)
  /\ UNCHANGED <<snapshot, log, workspace, lock, task, memory, deleted, bounds, used>>

(* Choosing a branch saves it, under the lock that refuses a turn.          *)
Fork(s) ==
  /\ s \in live /\ Idle(s) /\ snapshot[s] = 1
  /\ StartWithAgent(Service, s, Saving(s))
  /\ UNCHANGED <<files, lock, memory, told, bounds>>

(* Mutant: rows are added, and ghosts stay.                                *)
Orphans == [i \in Ids |-> IF index[i] = None /\ i \in Available
                          THEN IF snapshot[i] = 1 \/ log[i] = 1 THEN "first" ELSE "recovered"
                          ELSE index[i]]

(* Once per manager, when it first lists or looks up.                       *)
Reconciled == [i \in Ids |-> IF i \notin Available THEN None
                             ELSE IF index[i] # None THEN index[i]
                             ELSE IF snapshot[i] = 1 \/ log[i] = 1 THEN "first"
                             ELSE "recovered"]

Reconcile(m) ==
  /\ Idle(Service) /\ lock = None /\ m \notin reconciled
  /\ reconciled' = reconciled \cup {m} /\ index' = Reconciled
  /\ UNCHANGED <<snapshot, log, workspace, lock, task, live, built, told, bounds, used>>

-----------------------------------------------------------------------------
(* Turns, and what happens to the process.                                 *)

Busy(s) == ~Idle(s) \/ \E n \in DOMAIN task[Service] : task[Service][n][2] = s

BeginTurn(s) ==
  /\ s \in live /\ ~Busy(s) /\ turns < MaxTurns /\ turns' = turns + 1
  /\ StartWithAgent(s, s, Saving(s))
  /\ UNCHANGED <<files, lock, memory, told, crashes>>

Crash ==
  /\ crashes < MaxCrashes /\ crashes' = crashes + 1
  /\ task' = [t \in Threads |-> <<>>] /\ lock' = None
  /\ live' = {} /\ built' = {} /\ reconciled' = {}
  /\ UNCHANGED <<files, told, turns, used>>

(* Maintenance, while the service is down: sessions without messages go.    *)
Prune ==
  /\ live = {} /\ reconciled = {} /\ \A t \in Threads : Idle(t)
  /\ LET empty == {i \in Ids : snapshot[i] # 1 /\ log[i] # 1} IN
     /\ snapshot' = [i \in Ids |-> IF i \in empty THEN None ELSE snapshot[i]]
     /\ log' = [i \in Ids |-> IF i \in empty THEN None ELSE log[i]]
     /\ index' = [i \in Ids |-> IF i \in empty /\ (snapshot[i] # None \/ log[i] # None)
                                THEN None ELSE index[i]]
  /\ UNCHANGED <<workspace, lock, task, memory, told, bounds, used>>

Next ==
  \/ \E t \in Threads : Step(t) \/ UnlinkingFails(t)
  \/ \E s \in Sessions :
       \/ Create(s) \/ Import(s) \/ Delete(s) \/ Activate(s) \/ Fork(s) \/ BeginTurn(s)
       \/ \E title \in Titles : Rename(s, title)
  \/ \E m \in Managers : Reconcile(m)
  \/ Crash \/ Prune

Spec == Init /\ [][Next]_vars

-----------------------------------------------------------------------------
(* When no request or turn is under way, after whatever crashes, and the     *)
(* index was reconciled since, it has a row for each session on disk and no *)
(* other.                                                                   *)
RowsMatchFiles ==
  (\A t \in Threads : Idle(t)) /\ reconciled # {} => Rows = Available

(* A title the user gave stays until the user gives another one.           *)
TitlesStay ==
  \A s \in Sessions \cap Rows : given[s] # None => index[s] = given[s]

(* Of a session whose deletion was confirmed there is nothing any more, and  *)
(* no turn writes it again.                                                 *)
DeletedIsGone ==
  \A s \in deleted : s \notin Rows \cup Available \cup workspace /\ Idle(s)
=============================================================================
