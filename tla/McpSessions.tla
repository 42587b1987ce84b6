---------------------------- MODULE McpSessions ----------------------------
(***************************************************************************)
(* tools/mcp/client.py: threads call one MCP server through one client.     *)
(* Each thread gives its coroutine to the client's own event loop and waits *)
(* for it; a transport is entered and left by an owner task of its own; one *)
(* asyncio lock serves connect and close.  Coroutines of a loop interleave  *)
(* only where they wait, threads only meet at _sync_guard.                  *)
(***************************************************************************)
EXTENDS Naturals, FiniteSets

CONSTANTS
  Threads,
  Kinds,           \* what threads may want: "tool", "read", "close"
  None,
  MaxLoops, MaxOwners                                              \* bounds

VARIABLES
  client,    \* loop, pending calls, stop when idle, guard, owner, session
  live,      \* the loops that run, those told to stop among them
  owner,     \* [1..MaxOwners -> a task that owns a transport]
  call,      \* [Threads -> a call of call_tool_sync, list_tools_sync or close_sync]
  late       \* history: a call was admitted after the client was closed

vars == <<client, live, owner, call, late>>

NoOwner == [loop |-> None, pc |-> "none", opened |-> FALSE, shutdown |-> FALSE]
NoCall  == [kind |-> None, pc |-> "idle", loop |-> None, session |-> None,
            tries |-> 0, sent |-> 0, after |-> None]

Owners == 1..MaxOwners

Init ==
  /\ client = [loop |-> None, pending |-> 0, stopping |-> FALSE, bound |-> None,
               guard |-> None, owner |-> None, session |-> None, loops |-> 0, owners |-> 0]
  /\ live = {}
  /\ owner = [o \in Owners |-> NoOwner]
  /\ call = [t \in Threads |-> NoCall]
  /\ late = FALSE

At(t, pc) == call[t].pc = pc
Goes(t, pc) == call' = [call EXCEPT ![t].pc = pc]

-----------------------------------------------------------------------------
(* _run_sync: the thread's side.                                           *)

(* Admitted under _sync_guard: on the loop that runs, or on a new one.      *)
Submits(t, kind, pc, after) ==
  LET fresh == client.loop = None
      l == IF fresh THEN client.loops + 1 ELSE client.loop
  IN /\ ~client.stopping
     /\ fresh => client.loops < MaxLoops                            \* bound
     /\ client' = [client EXCEPT !.loop = l, !.pending = @ + 1,
                                 !.loops = IF fresh THEN l ELSE @]
     /\ live' = live \cup {l}
     /\ call' = [call EXCEPT ![t] = [NoCall EXCEPT
                     !.kind = kind, !.pc = pc, !.loop = l, !.after = after]]

Start(t) ==
  /\ At(t, "idle")
  /\ \E k \in Kinds \ {"close"} : Submits(t, k, "connect", None)
  /\ late' = (late \/ \E u \in Threads : call[u].kind = "close" /\ At(u, "done"))
  /\ UNCHANGED owner

(* While the client drains nothing is admitted. *)
Refused(t) ==
  /\ At(t, "idle") /\ client.stopping
  /\ \E k \in Kinds \ {"close"} : call' = [call EXCEPT ![t].pc = "done", ![t].kind = k]
  /\ UNCHANGED <<client, live, owner, late>>

(* Mutant: the loop is stopped by whoever returns when the client closes,   *)
(* whether others still wait or not.                                        *)
StopsAtOnce(pending) == TRUE

(* The loop may stop when nobody waits for it. *)
Idle(pending) == pending = 0

(* The last call that returns stops the loop of a client being closed. *)
Return(t) ==
  /\ At(t, "leave")
  /\ LET left == client.pending - 1 IN
       IF client.stopping /\ Idle(left)
         THEN /\ client' = [client EXCEPT !.pending = left, !.loop = None, !.stopping = FALSE]
              /\ live' = live \ {client.loop}
         ELSE client' = [client EXCEPT !.pending = left] /\ UNCHANGED live
  /\ Goes(t, IF call[t].kind = "close" THEN "final" ELSE "done")
  /\ UNCHANGED <<owner, late>>

(* close_sync: one thread closes the client, once. *)
StartClose(t) ==
  /\ At(t, "idle") /\ "close" \in Kinds /\ client.loop # None
  /\ \A u \in Threads : call[u].kind # "close"
  /\ Submits(t, "close", "shut", "raise")
  /\ UNCHANGED <<owner, late>>

(* The transport is closed; the loop is stopped now, or by the last call. *)
FinalizeClose(t) ==
  /\ At(t, "final")
  /\ IF client.loop # call[t].loop THEN UNCHANGED <<client, live>>
     ELSE IF Idle(client.pending)
       THEN /\ client' = [client EXCEPT !.loop = None]
            /\ live' = live \ {client.loop}
       ELSE client' = [client EXCEPT !.stopping = TRUE] /\ UNCHANGED live
  /\ Goes(t, "done")
  /\ UNCHANGED <<owner, late>>

(* A loop that was stopped cancels what is left on it and is closed: owners *)
(* leave their transports.                                                  *)
LoopEnds(o) ==
  /\ owner[o].pc \in {"opening", "serving", "closing"} /\ owner[o].loop \notin live
  /\ owner' = [owner EXCEPT ![o].pc = "done"]
  /\ client' = [client EXCEPT !.session = None]
  /\ UNCHANGED <<live, call, late>>

-----------------------------------------------------------------------------
(* The owner task: _own_connection.                                        *)

Runs(o, pc) == owner[o].pc = pc /\ owner[o].loop \in live

(* Transport and session are open; whoever waits for it is woken. *)
Opens(o) ==
  /\ Runs(o, "opening")
  /\ owner' = [owner EXCEPT ![o].pc = "serving", ![o].opened = TRUE]
  /\ client' = [client EXCEPT !.session = o]
  /\ UNCHANGED <<live, call, late>>

(* Told to shut down, or out of time before it was open. *)
Leaves(o) ==
  /\ \/ Runs(o, "serving") /\ owner[o].shutdown
     \/ Runs(o, "opening")
  /\ owner' = [owner EXCEPT ![o].pc = "closing"]
  /\ UNCHANGED <<client, live, call, late>>

(* The transport is left by the task that entered it; then the client has   *)
(* no session.                                                              *)
Closes(o) ==
  /\ Runs(o, "closing")
  /\ owner' = [owner EXCEPT ![o].pc = "done"]
  /\ client' = [client EXCEPT !.session = None]
  /\ UNCHANGED <<live, call, late>>

-----------------------------------------------------------------------------
(* The coroutine of a call.                                                *)

Awake(t) == call[t].loop \in live

(* The coroutine ends; its thread is told. *)
Ends(t) == Goes(t, "leave")

(* connect: a session of this loop is used as it is, one of another loop is *)
(* refused.                                                                 *)
Connect(t) ==
  /\ At(t, "connect") /\ Awake(t)
  /\ IF client.session = None THEN Goes(t, "enter")
     ELSE IF owner[client.session].loop # call[t].loop THEN Ends(t)
     ELSE call' = [call EXCEPT ![t].pc = "call", ![t].session = client.session]
  /\ UNCHANGED <<client, live, owner, late>>

(* The asyncio lock belongs to the loop on which somebody first waited. *)
Enters(t, pc, queue) ==
  /\ At(t, pc) /\ Awake(t) /\ client.guard # None
  /\ IF client.bound \in {None, call[t].loop}
       THEN /\ client' = [client EXCEPT !.bound = call[t].loop]
            /\ Goes(t, queue)
       ELSE Ends(t) /\ UNCHANGED client
  /\ UNCHANGED <<live, owner, late>>

Queue(t) == Enters(t, "enter", "queued") \/ Enters(t, "shut", "shutQueued")

(* Under the guard: the owner in charge, or a new one. *)
AwaitOwner(t) ==
  /\ call[t].pc \in {"enter", "queued"} /\ Awake(t) /\ client.guard = None
  /\ IF client.session # None
       THEN /\ call' = [call EXCEPT ![t].pc = "call", ![t].session = client.session]
            /\ UNCHANGED <<client, owner>>
     ELSE IF client.owner # None /\ owner[client.owner].pc # "done"
       THEN /\ client' = [client EXCEPT !.guard = t]
            /\ call' = [call EXCEPT ![t].pc = "ready", ![t].session = client.owner]
            /\ UNCHANGED owner
     ELSE LET o == client.owners + 1 IN
            /\ o \in Owners                                         \* bound
            /\ client' = [client EXCEPT !.guard = t, !.owner = o, !.owners = o]
            /\ owner' = [owner EXCEPT ![o] = [NoOwner EXCEPT !.pc = "opening", !.loop = call[t].loop]]
            /\ call' = [call EXCEPT ![t].pc = "ready", ![t].session = o]
  /\ UNCHANGED <<live, late>>

Ready(t) ==
  /\ At(t, "ready") /\ Awake(t)
  /\ IF owner[call[t].session].opened
       THEN Goes(t, "call") /\ client' = [client EXCEPT !.guard = None]
       ELSE /\ owner[call[t].session].pc \in {"closing", "done"}
            /\ Goes(t, "unwind") /\ UNCHANGED client
  /\ UNCHANGED <<live, owner, late>>

(* The wait failed: the owner is sent away, and waited for. *)
SendAway(t) ==
  /\ At(t, "unwind") /\ Awake(t) /\ client.guard = t
  /\ IF owner[call[t].session].pc = "done"
       THEN /\ client' = [client EXCEPT !.guard = None, !.owner = None]
            /\ Ends(t) /\ UNCHANGED owner
       ELSE /\ ~owner[call[t].session].shutdown
            /\ owner' = [owner EXCEPT ![call[t].session].shutdown = TRUE]
            /\ UNCHANGED <<client, call>>
  /\ UNCHANGED <<live, late>>

(* The request goes out. *)
Send(t) ==
  /\ At(t, "call") /\ Awake(t)
  /\ call' = [call EXCEPT ![t].pc = "sent", ![t].sent = @ + 1]
  /\ UNCHANGED <<client, live, owner, late>>

(* An answer, which may be an error of the server. *)
Answer(t) ==
  /\ At(t, "sent") /\ Awake(t) /\ owner[call[t].session].pc = "serving"
  /\ Ends(t)
  /\ UNCHANGED <<client, live, owner, late>>

(* Out of time: the transport is retired, the call not repeated. *)
TimesOut(t) ==
  /\ At(t, "sent") /\ Awake(t)
  /\ call' = [call EXCEPT ![t].pc = "shut", ![t].after = "raise"]
  /\ UNCHANGED <<client, live, owner, late>>

(* Only what reads is repeated, once. *)
Repeats(t) == call[t].kind = "read" /\ call[t].tries = 0

(* The transport is gone, by itself or closed by another call. *)
Disconnected(t) ==
  /\ At(t, "sent") /\ Awake(t)
  /\ call' = [call EXCEPT ![t].pc = "shut", ![t].tries = @ + 1,
                          ![t].after = IF Repeats(t) THEN "again" ELSE "raise"]
  /\ UNCHANGED <<client, live, owner, late>>

(* close, under the guard: whichever owner is in charge is told to leave. *)
Shut(t) ==
  /\ call[t].pc \in {"shut", "shutQueued"} /\ Awake(t) /\ client.guard = None
  /\ IF client.owner = None
       THEN /\ Goes(t, IF call[t].after = "again" THEN "connect" ELSE "leave")
            /\ UNCHANGED <<client, owner>>
       ELSE /\ client' = [client EXCEPT !.guard = t]
            /\ owner' = [owner EXCEPT ![client.owner].shutdown = TRUE]
            /\ Goes(t, "closing")
  /\ UNCHANGED <<live, late>>

(* It has left; one that opens, or does not leave in 5 s, is cancelled and  *)
(* waited for.                                                               *)
CancelOwner(t) ==
  /\ At(t, "closing") /\ Awake(t) /\ client.guard = t /\ owner[client.owner].pc = "opening"
  /\ owner' = [owner EXCEPT ![client.owner].pc = "closing"]
  /\ UNCHANGED <<client, live, call, late>>

Shutdown(t) ==
  /\ At(t, "closing") /\ Awake(t) /\ client.guard = t /\ owner[client.owner].pc = "done"
  /\ client' = [client EXCEPT !.guard = None, !.owner = None]
  /\ Goes(t, IF call[t].after = "again" THEN "connect" ELSE "leave")
  /\ UNCHANGED <<live, owner, late>>

(* The turn is stopped: the coroutine is cancelled where it waits.  Between *)
(* acquiring and releasing the guard it runs its finally or except block.    *)
Cancelled(t) ==
  /\ call[t].kind = "tool" /\ Awake(t)
  /\ \/ call[t].pc \in {"queued", "shutQueued", "sent"} /\ Ends(t) /\ UNCHANGED <<client, owner>>
     \/ At(t, "ready") /\ Goes(t, "unwind") /\ UNCHANGED <<client, owner>>
     \/ At(t, "closing") /\ Ends(t)
        /\ client' = [client EXCEPT !.guard = None, !.owner = None] /\ UNCHANGED owner
     \/ At(t, "unwind") /\ Ends(t)
        /\ client' = [client EXCEPT !.guard = None, !.session = None]
        /\ owner' = [owner EXCEPT ![call[t].session].pc = "done"]
  /\ UNCHANGED <<live, late>>

Next ==
  \/ \E t \in Threads :
       \/ Start(t) \/ Refused(t) \/ Return(t) \/ StartClose(t) \/ FinalizeClose(t)
       \/ Connect(t) \/ Queue(t) \/ AwaitOwner(t) \/ Ready(t) \/ SendAway(t)
       \/ Send(t) \/ Answer(t) \/ TimesOut(t) \/ Disconnected(t)
       \/ Shut(t) \/ CancelOwner(t) \/ Shutdown(t) \/ Cancelled(t)
  \/ \E o \in Owners : Opens(o) \/ Leaves(o) \/ Closes(o) \/ LoopEnds(o)

Spec == Init /\ [][Next]_vars

-----------------------------------------------------------------------------
(* Properties.                                                             *)

(* "Retry disconnects only on read-only operations, never tools": however   *)
(* calls time out, lose their transport to each other or are cancelled, a    *)
(* tool's request is sent once at the most, any other twice.                  *)
NoCallIsReplayed ==
  \A t \in Threads : call[t].sent <= IF call[t].kind = "tool" THEN 1 ELSE 2

(* The loop a coroutine runs on goes on until its thread has its result     *)
(* ("stop the loop after ALL in-flight calls drain").                        *)
NoCallIsCut ==
  \A t \in Threads : call[t].pc \notin {"idle", "final", "done"} => Awake(t)

(* One transport is in charge: any other was told to leave or is leaving.   *)
OneTransport ==
  \A o, p \in Owners :
    /\ owner[o].pc \in {"opening", "serving"} /\ ~owner[o].shutdown /\ owner[o].loop \in live
    /\ owner[p].pc \in {"opening", "serving"} /\ ~owner[p].shutdown /\ owner[p].loop \in live
    => o = p

(* When the client was closed and all calls have ended, no loop and no       *)
(* transport runs on, but for calls that came after.                          *)
CloseLeavesNothing ==
  /\ ~late /\ \A t \in Threads : At(t, "done")
  /\ \E t \in Threads : call[t].kind = "close"
  => live = {} /\ client.loop = None

CallsAreSafe == NoCallIsReplayed /\ NoCallIsCut /\ OneTransport /\ CloseLeavesNothing

-----------------------------------------------------------------------------
(* The inductive invariant of MCComponents_proofs, by its parts.            *)
Loops == 1..MaxLoops

Out == {"idle", "final", "done"}                       \* no coroutine of the call runs
BeforeIt == {"connect", "enter", "queued", "ready", "unwind", "call"}
Shutting == {"shut", "shutQueued", "closing"}
Places == Out \cup BeforeIt \cup Shutting \cup {"sent", "leave"}

Clients == [loop : {None} \cup Loops, pending : Nat, stopping : BOOLEAN,
            bound : {None} \cup Loops, guard : {None} \cup Threads,
            owner : {None} \cup Owners, session : {None} \cup Owners,
            loops : 0..MaxLoops, owners : 0..MaxOwners]
OwnerStates == [loop : {None} \cup Loops, pc : {"none", "opening", "serving", "closing", "done"},
                opened : BOOLEAN, shutdown : BOOLEAN]
CallStates == [kind : {None} \cup Kinds, pc : Places, loop : {None} \cup Loops,
               session : {None} \cup Owners, tries : Nat, sent : Nat,
               after : {None, "raise", "again"}]

TypeOK ==
  /\ client \in Clients
  /\ live \subseteq Loops
  /\ owner \in [Owners -> OwnerStates]
  /\ call \in [Threads -> CallStates]
  /\ late \in BOOLEAN

(* Calls whose thread waits for a result. *)
Pending == {t \in Threads : call[t].pc \notin Out}

(* One loop runs, the client's; it carries all that is pending. *)
LoopRuns ==
  /\ live = IF client.loop = None THEN {} ELSE {client.loop}
  /\ client.loop # None => client.loop <= client.loops
  /\ client.pending = Cardinality(Pending)
  /\ \A t \in Pending : client.loop # None /\ call[t].loop = client.loop

(* One thread closes the client, and the loop it closed on is not replaced  *)
(* before it is through.  What it leaves to the last call is a loop on       *)
(* which somebody still waits.                                              *)
CloseIsOnce ==
  /\ \A t, u \in Threads : call[t].kind = "close" /\ call[u].kind = "close" => t = u
  /\ \A t \in Threads : At(t, "final") => call[t].kind = "close"
  /\ \A t \in Threads : call[t].kind = "close" =>
       /\ ~At(t, "idle")
       /\ ~At(t, "done") => /\ client.loop # None /\ call[t].loop = client.loop
                            /\ ~client.stopping
       /\ At(t, "done") /\ ~late => client.loop = None \/ client.stopping
  /\ client.stopping =>
       /\ client.loop # None /\ client.pending # 0
       /\ \E t \in Threads : call[t].kind = "close"

(* Who holds the guard works on the owner in charge. *)
GuardIsHeld ==
  \A t \in Threads :
    /\ call[t].pc \in {"ready", "unwind", "closing"} => client.guard = t /\ client.owner # None
    /\ call[t].pc \in {"ready", "unwind"} => client.owner = call[t].session
    /\ At(t, "closing") => owner[client.owner].shutdown

InCharge(o) ==
  owner[o].pc \in {"opening", "serving"} /\ ~owner[o].shutdown /\ owner[o].loop \in live

OwnerIsKnown ==
  \A o \in Owners :
    /\ owner[o].loop # None => owner[o].loop <= client.loops
    /\ InCharge(o) => client.owner = o

(* How often the request of a call went out, by where the call is. *)
SentRight(c) ==
  /\ c.pc = "idle" => c.sent = 0
  /\ c.pc \in BeforeIt => c.sent = c.tries /\ c.tries <= 1
  /\ c.pc = "sent" => c.sent = c.tries + 1 /\ c.tries <= 1
  /\ c.pc \in BeforeIt \cup {"sent"} /\ c.tries = 1 => c.kind = "read"
  /\ c.pc \in Shutting /\ c.after = "again" => c.kind = "read" /\ c.sent = 1 /\ c.tries = 1
  /\ c.sent <= IF c.kind = "tool" THEN 1 ELSE 2

IInv ==
  /\ TypeOK /\ LoopRuns /\ CloseIsOnce /\ GuardIsHeld /\ OwnerIsKnown
  /\ \A t \in Threads : SentRight(call[t])
=============================================================================
