-------------------------- MODULE McpRegistration --------------------------
(***************************************************************************)
(* tools/mcp/loader.py: agents that share a tool registry share one client *)
(* of an MCP server, and threads that connect it in the background or try  *)
(* again may outlive them.  A registration has a number, which stands for  *)
(* its client and for its generation.  _shared_lock makes each step between *)
(* two inputs or outputs one action.  The registry is not sealed by a      *)
(* sandbox, which lets nothing be published.                               *)
(***************************************************************************)
EXTENDS Naturals, FiniteSets

CONSTANTS
  Agents, Jobs,     \* agents of one registry; pairs of a worker and who joins it
  None,
  MaxClients                                                       \* bound

Clients == 1..MaxClients

VARIABLES
  mode,      \* MCP_CONNECT_MODE
  shared,    \* the registry's row: users, current client, pending, offered tools
  life,      \* [Clients -> its _ClientLifetime, and whether it is connected]
  agent,     \* [Agents -> where its MCPService is]
  job        \* [Jobs -> a call of _connect_one_server]

vars == <<mode, shared, life, agent, job>>

NoJob == [client |-> None, by |-> None, work |-> "done", join |-> "done", ok |-> FALSE]

Init ==
  /\ mode \in {"startup", "manual"}
  /\ shared = [users |-> 0, client |-> None, pending |-> None, offered |-> None, made |-> 0]
  /\ life = [c \in Clients |-> [registrations |-> 0, workers |-> 0, closing |-> FALSE,
                                open |-> FALSE]]
  /\ agent = [a \in Agents |-> [pc |-> "out", client |-> None]]
  /\ job = [j \in Jobs |-> NoJob]

Active(c) == shared.client = c

(* Mutant: admitted workers are not asked. *)
ClaimableUnderWorkers(l) == l.registrations = 0 /\ ~l.closing

(* Exactly one caller claims the close of a client nobody needs any more.  *)
Claimable(l) == l.registrations = 0 /\ l.workers = 0 /\ ~l.closing

(* What a thread does when it has let go of a client: it takes the close on *)
(* itself, or has nothing more to do.                                       *)
LetGo(c, l) ==
  life' = [life EXCEPT ![c] = [l EXCEPT !.closing = l.closing \/ Claimable(l)]]

(* close_sync, outside the lock. *)
Closed(c) == life' = [life EXCEPT ![c].open = FALSE]

-----------------------------------------------------------------------------
(* Agents: MCPService.start and close.                                     *)

(* Somebody has connected this registry before: the same client is used. *)
Join(a) ==
  /\ agent[a].pc = "out" /\ shared.client # None
  /\ shared' = [shared EXCEPT !.users = @ + 1]
  /\ agent' = [agent EXCEPT ![a].pc = "in"]
  /\ UNCHANGED <<mode, life, job>>

Fresh(a) ==
  /\ agent[a].pc = "out" /\ shared.client = None
  /\ shared.made < MaxClients                                       \* bound

(* "manual": a thread connects while the agent starts. *)
RegisterInBackground(a, j) ==
  /\ mode = "manual" /\ Fresh(a) /\ job[j] = NoJob
  /\ LET c == shared.made + 1 IN
       /\ shared' = [shared EXCEPT !.users = @ + 1, !.client = c, !.made = c]
       /\ life' = [life EXCEPT ![c].registrations = 1]
       /\ job' = [job EXCEPT ![j] = [NoJob EXCEPT !.client = c, !.work = "admit", !.join = "join"]]
  /\ agent' = [agent EXCEPT ![a].pc = "in"]
  /\ UNCHANGED mode

(* "startup": connected and listed under the lock; a client that published  *)
(* nothing is not kept, and closed after the lock.                           *)
RegisterAtStartup(a) ==
  /\ mode = "startup" /\ Fresh(a)
  /\ LET c == shared.made + 1 IN
       \/ /\ shared' = [shared EXCEPT !.users = @ + 1, !.client = c, !.offered = c, !.made = c]
          /\ life' = [life EXCEPT ![c].registrations = 1, ![c].open = TRUE]
          /\ agent' = [agent EXCEPT ![a].pc = "in"]
       \/ /\ shared' = [shared EXCEPT !.made = c]
          /\ \E opened \in BOOLEAN : LetGo(c, [life[c] EXCEPT !.open = opened])
          /\ agent' = [agent EXCEPT ![a] = [pc |-> "closing", client |-> c]]
  /\ UNCHANGED <<mode, job>>

(* An agent that waits for a retry is not closed. *)
Waits(a) == \E j \in Jobs : job[j].by = a /\ job[j].join # "done"

(* The last user takes the registration back, and with it the tools and the *)
(* record of a pending server.                                               *)
Release(a) ==
  /\ agent[a].pc = "in" /\ ~Waits(a)
  /\ IF shared.users > 1
       THEN /\ shared' = [shared EXCEPT !.users = @ - 1]
            /\ agent' = [agent EXCEPT ![a].pc = "out"]
            /\ UNCHANGED life
       ELSE LET c == shared.client
                l == [life[c] EXCEPT !.registrations = @ - 1]
            IN /\ shared' = [shared EXCEPT !.users = 0, !.client = None,
                                           !.pending = None, !.offered = None]
               /\ LetGo(c, l)
               /\ agent' = [agent EXCEPT ![a] = IF Claimable(l)
                               THEN [pc |-> "closing", client |-> c]
                               ELSE [pc |-> "out", client |-> None]]
  /\ UNCHANGED <<mode, job>>

CloseByAgent(a) ==
  /\ agent[a].pc = "closing"
  /\ Closed(agent[a].client)
  /\ agent' = [agent EXCEPT ![a] = [pc |-> "out", client |-> None]]
  /\ UNCHANGED <<mode, shared, job>>

(* runtime_blocks: each step of a turn tries a pending server again. *)
Retry(a, j) ==
  /\ agent[a].pc = "in" /\ ~Waits(a) /\ shared.pending # None /\ job[j] = NoJob
  /\ job' = [job EXCEPT ![j] = [NoJob EXCEPT !.client = shared.pending, !.by = a,
                                             !.work = "admit", !.join = "join"]]
  /\ UNCHANGED <<mode, shared, life, agent>>

-----------------------------------------------------------------------------
(* The thread that connects: _work.                                        *)

AtWork(j, pc) == job[j].work = pc

Works(j, pc) == job' = [job EXCEPT ![j].work = pc]

(* Whoever is admitted owns the client until its last line. *)
Admit(j) ==
  /\ AtWork(j, "admit")
  /\ IF Active(job[j].client)
       THEN /\ life' = [life EXCEPT ![job[j].client].workers = @ + 1]
            /\ Works(j, "connect")
       ELSE Works(j, "done") /\ UNCHANGED life
  /\ UNCHANGED <<mode, shared, agent>>

Connect(j) ==
  /\ AtWork(j, "connect")
  /\ \/ life' = [life EXCEPT ![job[j].client].open = TRUE] /\ Works(j, "check")
     \/ UNCHANGED life /\ Works(j, "finish")
  /\ UNCHANGED <<mode, shared, agent>>

Check(j) ==
  /\ AtWork(j, "check")
  /\ Works(j, IF Active(job[j].client) THEN "list" ELSE "finish")
  /\ UNCHANGED <<mode, shared, life, agent>>

(* Listing opens the transport again if it was lost. *)
ListTools(j) ==
  /\ AtWork(j, "list")
  /\ \/ life' = [life EXCEPT ![job[j].client].open = TRUE] /\ Works(j, "publish")
     \/ UNCHANGED life /\ Works(j, "finish")
  /\ UNCHANGED <<mode, shared, agent>>

(* Only the active registration publishes; its pending record is consumed. *)
Publish(j) ==
  /\ AtWork(j, "publish")
  /\ IF Active(job[j].client)
       THEN /\ shared' = [shared EXCEPT !.offered = job[j].client, !.pending = None]
            /\ job' = [job EXCEPT ![j].work = "finish", ![j].ok = TRUE]
       ELSE UNCHANGED shared /\ Works(j, "finish")
  /\ UNCHANGED <<mode, life, agent>>

Finish(j) ==
  /\ AtWork(j, "finish")
  /\ LET l == [life[job[j].client] EXCEPT !.workers = @ - 1] IN
       /\ LetGo(job[j].client, l)
       /\ Works(j, IF Claimable(l) THEN "close" ELSE "done")
  /\ UNCHANGED <<mode, shared, agent>>

CloseByWorker(j) ==
  /\ AtWork(j, "close")
  /\ Closed(job[j].client) /\ Works(j, "done")
  /\ UNCHANGED <<mode, shared, agent>>

-----------------------------------------------------------------------------
(* The thread that waits for it, with a time-out.                          *)

Joined(j, pc) == job' = [job EXCEPT ![j].join = pc]

TimesOut(j) ==
  /\ job[j].join = "join" /\ job[j].work # "done"
  /\ Joined(j, "failed")
  /\ UNCHANGED <<mode, shared, life, agent>>

SeesEnd(j) ==
  /\ job[j].join = "join" /\ job[j].work = "done"
  /\ Joined(j, IF job[j].ok THEN "done" ELSE "failed")
  /\ UNCHANGED <<mode, shared, life, agent>>

(* In the background a failure is put on record, unless the registration    *)
(* was released or the worker made it after all.  A retry only notes it.     *)
RecordPending(j) ==
  /\ job[j].join = "failed"
  /\ shared' = IF job[j].by = None /\ Active(job[j].client) /\ shared.offered = None
                 THEN [shared EXCEPT !.pending = job[j].client] ELSE shared
  /\ Joined(j, "done")
  /\ UNCHANGED <<mode, life, agent>>

(* Both threads are gone. *)
Forget(j) ==
  /\ job[j] # NoJob /\ job[j].work = "done" /\ job[j].join = "done"
  /\ job' = [job EXCEPT ![j] = NoJob]
  /\ UNCHANGED <<mode, shared, life, agent>>

Next ==
  \/ \E a \in Agents :
       \/ Join(a) \/ RegisterAtStartup(a) \/ Release(a) \/ CloseByAgent(a)
       \/ \E j \in Jobs : RegisterInBackground(a, j) \/ Retry(a, j)
  \/ \E j \in Jobs :
       \/ Admit(j) \/ Connect(j) \/ Check(j) \/ ListTools(j) \/ Publish(j)
       \/ Finish(j) \/ CloseByWorker(j)
       \/ TimesOut(j) \/ SeesEnd(j) \/ RecordPending(j) \/ Forget(j)

Spec == Init /\ [][Next]_vars

-----------------------------------------------------------------------------
(* Properties.                                                             *)

Working(j, c) == job[j].client = c /\ job[j].work \notin {"admit", "done", "close"}

(* A client is never closed under a thread that connects or lists it, nor   *)
(* while agents use it, and is not connected again once its close was       *)
(* claimed ("never closes it before a paused worker starts I/O").            *)
ClosedAlone ==
  \A c \in Clients : life[c].closing =>
    /\ ~Active(c)
    /\ \A j \in Jobs : ~Working(j, c)

(* When all agents have gone and the threads have ended, no server is left   *)
(* connected, whoever was last ("the last worker owns the eventual close").  *)
NothingStaysConnected ==
  /\ \A a \in Agents : agent[a].pc = "out"
  /\ \A j \in Jobs : job[j].work = "done"
  => \A c \in Clients : ~life[c].open

(* What the registry offers, and what it tries again, belongs to the         *)
(* registration in force, never to one that was released meanwhile; and a    *)
(* server whose tools are offered is not tried again.                        *)
OffersTheLiveServer ==
  /\ shared.offered # None => Active(shared.offered) /\ shared.pending = None
  /\ shared.pending # None => Active(shared.pending)
  /\ (shared.client = None) <=> (shared.users = 0)

ServersAreShared == ClosedAlone /\ NothingStaysConnected /\ OffersTheLiveServer

-----------------------------------------------------------------------------
(* The inductive invariant of MCComponents_proofs, by its parts.            *)
Places == {"admit", "connect", "check", "list", "publish", "finish", "close", "done"}

Rows == [users : Nat, client : {None} \cup Clients, pending : {None} \cup Clients,
         offered : {None} \cup Clients, made : 0..MaxClients]
Lives == [registrations : Nat, workers : Nat, closing : BOOLEAN, open : BOOLEAN]
AgentStates == [pc : {"out", "in", "closing"}, client : {None} \cup Clients]
JobStates == [client : {None} \cup Clients, by : {None} \cup Agents, work : Places,
              join : {"join", "failed", "done"}, ok : BOOLEAN]

TypeOK ==
  /\ mode \in {"startup", "manual"}
  /\ shared \in Rows
  /\ life \in [Clients -> Lives]
  /\ agent \in [Agents -> AgentStates]
  /\ job \in [Jobs -> JobStates]

Users == {a \in Agents : agent[a].pc = "in"}
Workers(c) == {j \in Jobs : Working(j, c)}

(* The counters the code keeps under its lock count whom they are for. *)
CountsAreRight ==
  /\ shared.users = Cardinality(Users)
  /\ \A c \in Clients :
       /\ life[c].workers = Cardinality(Workers(c))
       /\ life[c].registrations = IF Active(c) THEN 1 ELSE 0

(* Nobody knows a client before it was made. *)
NobodyKnows(c) ==
  /\ ~Active(c)
  /\ \A a \in Agents : agent[a].pc = "closing" => agent[a].client # c
  /\ \A j \in Jobs : job[j].work # "done" => job[j].client # c
  /\ ~life[c].closing /\ ~life[c].open

(* Who has yet to close the client, having claimed it. *)
Closes(c) ==
  \/ \E a \in Agents : agent[a].pc = "closing" /\ agent[a].client = c
  \/ \E j \in Jobs : job[j].work = "close" /\ job[j].client = c

ClientsAreOwned ==
  /\ \A a \in Agents : agent[a].pc = "closing" => agent[a].client \in Clients
  /\ \A j \in Jobs : job[j].work # "done" => job[j].client \in Clients
  /\ \A c \in Clients :
       /\ life[c].closing => ~Active(c) /\ Workers(c) = {}
       /\ life[c].open => Active(c) \/ Workers(c) # {} \/ Closes(c)
       /\ c > shared.made => NobodyKnows(c)

IInv == TypeOK /\ CountsAreRight /\ ClientsAreOwned /\ OffersTheLiveServer
=============================================================================
