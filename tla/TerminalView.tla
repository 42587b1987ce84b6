----------------------------- MODULE TerminalView -----------------------------
(***************************************************************************)
(* The controller of the terminal client: one view, of the session that is  *)
(* selected.  Each command is a call to the service whose reply is heard    *)
(* later, after other commands and events; the events of the session come   *)
(* over a socket of their own that drops and comes back.  The service has   *)
(* its turns, the questions they ask, and a journal of events per session.  *)
(***************************************************************************)
EXTENDS Naturals, Sequences

CONSTANTS
  None, Sessions,
  Eager,              \* a turn may ask again before the last answer's reply is heard
  MaxCalls, MaxEvents, MaxDrops       \* bounds

VARIABLES
  created, deleted,   \* sessions of the service
  turn,               \* "idle", "running" or "asking", for each
  asked,              \* the last question each session asked, a number
  journal,            \* its events
  view,               \* what the terminal shows
  epoch,              \* one more with each selection
  disconnect,         \* the epoch of the socket the controller can close, or None
  sockets,            \* sockets that are not closed
  calls, used,        \* commands whose reply is not yet heard
  drops, closed

vars == <<created, deleted, turn, asked, journal, view, epoch, disconnect, sockets,
          calls, used, drops, closed>>
service == <<created, deleted, turn, asked, journal>>
client == <<view, epoch, disconnect, sockets, closed>>

EmptyView == [session |-> None, content |-> {}, pending |-> None, busy |-> FALSE]

Request(kind, s, n) ==
  [kind |-> kind, s |-> s, n |-> n, epoch |-> epoch, at |-> "sent", got |-> None]

(* The terminal starts by asking for the sessions, and selects one.        *)
Init ==
  /\ created \in SUBSET Sessions /\ deleted = {}
  /\ turn = [s \in Sessions |-> "idle"] /\ asked = [s \in Sessions |-> 0]
  /\ journal = [s \in Sessions |-> <<>>]
  /\ view = EmptyView /\ epoch = 0 /\ disconnect = None /\ sockets = {}
  /\ calls = [i \in 1..MaxCalls |-> IF i = 1 THEN Request("list", None, 0) ELSE None]
  /\ used = 1 /\ drops = 0 /\ closed = FALSE

-----------------------------------------------------------------------------
(* The service: turns and what their events tell.                          *)

Put(s, kind, n) ==
  journal' = [journal EXCEPT ![s] = Append(@, [kind |-> kind, n |-> n])]

Deciding(s) == \E i \in 1..used : calls[i] # None /\ calls[i].kind = "decide" /\ calls[i].s = s

TurnRuns(s) ==
  /\ Len(journal[s]) < MaxEvents
  /\ \/ /\ turn[s] = "running" /\ Put(s, "text", 0) /\ UNCHANGED <<turn, asked>>
     \/ /\ turn[s] = "running" /\ (Eager \/ ~Deciding(s))
        /\ turn' = [turn EXCEPT ![s] = "asking"]
        /\ asked' = [asked EXCEPT ![s] = @ + 1]
        /\ Put(s, "asked", asked[s] + 1)
     \/ /\ turn[s] = "running" /\ turn' = [turn EXCEPT ![s] = "idle"]
        /\ Put(s, "finished", 0) /\ UNCHANGED asked
  /\ UNCHANGED <<created, deleted, calls, used, drops>> /\ UNCHANGED client

(* Nobody answered within the time-out.                                    *)
WaitTimesOut(s) ==
  /\ turn[s] = "asking" /\ turn' = [turn EXCEPT ![s] = "running"]
  /\ UNCHANGED <<created, deleted, asked, journal, calls, used, drops>> /\ UNCHANGED client

Present == created \ deleted

(* 404, 409 and the like are the answer to any other request.              *)
Accepts(c) ==
  CASE c.kind = "new"  -> created # Sessions
    [] c.kind = "list" -> TRUE
    [] c.kind \in {"select", "history"} -> c.s \in Present
    [] c.kind \in {"fork", "delete"} -> c.s \in Present /\ turn[c.s] = "idle"
    [] c.kind = "send" -> /\ c.s \in Present /\ turn[c.s] = "idle"
                          /\ Len(journal[c.s]) + 1 < MaxEvents
    [] c.kind = "decide"    -> turn[c.s] = "asking" /\ asked[c.s] = c.n
    [] c.kind = "interrupt" -> turn[c.s] # "idle"

(* What the service does, and what it answers with.                        *)
Effect(c, got) ==
  CASE c.kind = "new" ->
         /\ got \in Sessions \ created /\ created' = created \cup {got}
         /\ UNCHANGED <<deleted, turn, asked, journal>>
    [] c.kind = "list" ->
         /\ IF Present = {} THEN got = None ELSE got \in Present
         /\ UNCHANGED service
    [] c.kind = "select" -> got = (turn[c.s] # "idle") /\ UNCHANGED service
    [] c.kind \in {"history", "fork"} -> got = TRUE /\ UNCHANGED service
    [] c.kind = "delete" ->
         /\ got = TRUE /\ deleted' = deleted \cup {c.s}
         /\ UNCHANGED <<created, turn, asked, journal>>
    [] c.kind = "send" ->
         /\ got = TRUE /\ turn' = [turn EXCEPT ![c.s] = "running"] /\ Put(c.s, "started", 0)
         /\ UNCHANGED <<created, deleted, asked>>
    [] c.kind = "decide" ->
         /\ got = TRUE /\ turn' = [turn EXCEPT ![c.s] = "running"]
         /\ UNCHANGED <<created, deleted, asked, journal>>
    [] c.kind = "interrupt" ->
         /\ got = TRUE /\ turn' = [turn EXCEPT ![c.s] = "idle"] /\ Put(c.s, "finished", 0)
         /\ UNCHANGED <<created, deleted, asked>>

Lost == drops < MaxDrops /\ drops' = drops + 1

(* The request is served, or the connection fails before or after it was.  *)
Serve(i) ==
  /\ i \in 1..used /\ calls[i] # None /\ calls[i].at = "sent"
  /\ LET c == calls[i] IN
     \/ /\ Accepts(c)
        /\ \E got \in Sessions \cup BOOLEAN \cup {None} :
             /\ Effect(c, got)
             /\ \/ calls' = [calls EXCEPT ![i].at = "done", ![i].got = got] /\ UNCHANGED drops
                \/ calls' = [calls EXCEPT ![i].at = "failed"] /\ Lost
     \/ /\ calls' = [calls EXCEPT ![i].at = "failed"] /\ UNCHANGED service
        /\ IF Accepts(c) THEN Lost ELSE UNCHANGED drops
  /\ UNCHANGED used /\ UNCHANGED client

-----------------------------------------------------------------------------
(* Commands.                                                               *)

Issue(c) ==
  /\ ~closed /\ used < MaxCalls /\ used' = used + 1
  /\ calls' = [calls EXCEPT ![used + 1] = c]
  /\ UNCHANGED drops /\ UNCHANGED service

(* The sockets that are left when the one of epoch e is closed.            *)
Without(e) == {k \in sockets : k.epoch # e}

(* The view is emptied at once; the rest of the selection is a call of the *)
(* new epoch.  n = 1 for a session just created.                           *)
Selecting(s, n) ==
  /\ sockets' = Without(disconnect) /\ disconnect' = None
  /\ epoch' = epoch + 1
  /\ view' = IF closed THEN view ELSE [EmptyView EXCEPT !.session = s]
Selection(s, n) == [Request("select", s, n) EXCEPT !.epoch = epoch + 1]

Select(s) ==
  /\ s \in created
  /\ Issue(Selection(s, 0)) /\ Selecting(s, 0) /\ UNCHANGED closed

New == Issue(Request("new", None, 0)) /\ UNCHANGED client

(* What is typed answers the question that is shown, if there is one.      *)
Submit ==
  /\ view.session # None
  /\ \/ /\ view.pending # None
        /\ Issue(Request("decide", view.session, view.pending[2])) /\ UNCHANGED view
     \/ /\ view.pending = None /\ ~view.busy
        /\ Issue(Request("send", view.session, 0))
        /\ view' = [view EXCEPT !.busy = TRUE, !.content = @ \cup {view.session}]
  /\ UNCHANGED <<epoch, disconnect, sockets, closed>>

Interrupt ==
  /\ view.busy /\ view.session # None
  /\ Issue(Request("interrupt", view.session, 0)) /\ UNCHANGED client

(* /fork and /delete, with no turn that the view knows of.                 *)
Command(kind) ==
  /\ view.session # None /\ view.pending = None /\ ~view.busy
  /\ Issue(Request(kind, view.session, 0)) /\ UNCHANGED client

Close ==
  /\ ~closed /\ closed' = TRUE /\ epoch' = epoch + 1
  /\ sockets' = Without(disconnect) /\ disconnect' = None
  /\ UNCHANGED <<view, calls, used, drops>> /\ UNCHANGED service

-----------------------------------------------------------------------------
(* Replies.                                                                *)

Update(v) == view' = IF closed THEN view ELSE v

(* Mutants: a reply is taken for one of the session that is shown.         *)
CurrentAlways(c) == ~closed
CurrentOfSession(c) == ~closed /\ (c.kind = "select" => c.epoch = epoch)

Current(c) == ~closed /\ c.epoch = epoch

Forget(i) == calls' = [calls EXCEPT ![i] = None]
KeepStream == UNCHANGED <<epoch, disconnect, sockets>>

(* The history of the session, and a socket from where it is now, or from  *)
(* the beginning of a new one.                                             *)
HearSelected(c) ==
  IF Current(c)
  THEN /\ view' = [view EXCEPT !.content = {c.s}, !.busy = c.got]
       /\ sockets' = sockets \cup {[s |-> c.s, epoch |-> c.epoch, up |-> FALSE, at |-> 0,
                                    cursor |-> IF c.n = 1 THEN 0 ELSE None, again |-> 0]}
       /\ disconnect' = c.epoch /\ UNCHANGED epoch
  ELSE UNCHANGED view /\ KeepStream

(* The view is of the deleted session until the others are listed.         *)
HearDeleted ==
  /\ epoch' = epoch + 1 /\ UNCHANGED view
  /\ sockets' = Without(disconnect) /\ disconnect' = None

(* An error shows its message, and no turn as running.                     *)
HearError(c) ==
  /\ IF c.kind = "select" /\ ~Current(c) THEN UNCHANGED view
     ELSE Update([view EXCEPT !.busy = FALSE])
  /\ KeepStream

(* Only the listing after a deletion (n = 1) goes on in a closed terminal.  *)
Disposed(c) == closed /\ c.n = 0

Hear(i) ==
  /\ i \in 1..used /\ calls[i] # None
  /\ LET c == calls[i] IN
     \/ c.at = "failed" /\ HearError(c) /\ Forget(i)
     \/ c.at = "done" /\
        \/ c.kind = "select" /\ HearSelected(c) /\ Forget(i)
        \/ c.kind \in {"new", "list"} /\ Disposed(c) /\ UNCHANGED view /\ KeepStream /\ Forget(i)
        \/ /\ c.kind \in {"new", "list"} /\ ~Disposed(c) /\ c.got # None
           /\ Selecting(c.got, IF c.kind = "new" THEN 1 ELSE 0)
           /\ calls' = [calls EXCEPT ![i] =
                          Selection(c.got, IF c.kind = "new" THEN 1 ELSE 0)]
        \/ /\ c.kind = "list" /\ ~Disposed(c) /\ c.got = None /\ KeepStream
           /\ IF c.n = 1 THEN Update(EmptyView) ELSE UNCHANGED view
           /\ calls' = [calls EXCEPT ![i] = Request("new", None, 0)]
        \/ /\ c.kind = "delete" /\ HearDeleted
           /\ calls' = [calls EXCEPT ![i] = [Request("list", None, 1) EXCEPT !.epoch = epoch']]
        \/ /\ c.kind \in {"fork", "history"} /\ KeepStream /\ Forget(i)
           /\ view' = IF Current(c)
                      THEN [view EXCEPT !.content = {c.s},
                                        !.busy = IF c.kind = "fork" THEN FALSE ELSE @]
                      ELSE view
        \/ /\ c.kind = "decide" /\ KeepStream /\ Forget(i)
           /\ Update(IF c.s = view.session THEN [view EXCEPT !.pending = None] ELSE view)
        \/ c.kind \in {"send", "interrupt"} /\ UNCHANGED view /\ KeepStream /\ Forget(i)
  /\ UNCHANGED <<used, drops, closed>> /\ UNCHANGED service

-----------------------------------------------------------------------------
(* The socket.                                                             *)

Begins(s) ==
  IF turn[s] = "idle" THEN Len(journal[s])
  ELSE CHOOSE n \in 0..Len(journal[s]) - 1 :
         /\ journal[s][n + 1].kind = "started"
         /\ \A m \in n + 2..Len(journal[s]) : journal[s][m].kind # "started"

Replace(k, new) == sockets' = (sockets \ {k}) \cup {new}
KeepClient == UNCHANGED <<epoch, disconnect, used, drops, closed>> /\ UNCHANGED service

(* The question that is open, 0 for none.                                  *)
OpenQuestion(s) == IF turn[s] = "asking" THEN asked[s] ELSE 0

(* Mutant: an open question is not sent again.                             *)
OpensSilently(k) ==
  /\ ~k.up
  /\ Replace(k, [k EXCEPT !.up = TRUE, !.at = IF k.cursor = None THEN Len(journal[k.s]) ELSE k.cursor])
  /\ KeepClient /\ UNCHANGED <<view, calls>>

(* Without a cursor: from the start of a running turn, or else from now,    *)
(* with the open question sent again.                                      *)
Opens(k) ==
  /\ ~k.up
  /\ Replace(k, IF k.cursor # None THEN [k EXCEPT !.up = TRUE, !.at = k.cursor]
                ELSE [k EXCEPT !.up = TRUE, !.at = Begins(k.s),
                      !.again = OpenQuestion(k.s)])
  /\ KeepClient /\ UNCHANGED <<view, calls>>

Projected(v, s, e) ==
  CASE e.kind = "started"  -> [v EXCEPT !.busy = TRUE]
    [] e.kind = "text"     -> [v EXCEPT !.content = @ \cup {s}]
    [] e.kind = "asked"    -> [v EXCEPT !.pending = <<s, e.n>>]
    [] e.kind = "finished" -> [v EXCEPT !.busy = FALSE, !.pending = None]

Deliver(k) ==
  /\ k.up /\ (k.again > 0 \/ k.at < Len(journal[k.s]))
  /\ LET e == IF k.again > 0 THEN [kind |-> "asked", n |-> k.again] ELSE journal[k.s][k.at + 1]
     IN /\ view' = IF k.epoch = epoch /\ ~closed THEN Projected(view, k.s, e) ELSE view
        /\ IF k.again > 0 THEN Replace(k, [k EXCEPT !.again = 0])
           ELSE Replace(k, [k EXCEPT !.at = @ + 1, !.cursor = k.at + 1])
  /\ KeepClient /\ UNCHANGED calls

Drop(k) ==
  /\ k.up /\ Lost
  /\ Replace(k, [k EXCEPT !.up = FALSE, !.at = 0, !.again = 0])
  /\ UNCHANGED <<view, calls, epoch, disconnect, used, closed>> /\ UNCHANGED service

(* Events the socket had to come are no longer in the journal, though not   *)
(* the open question: the saved messages are fetched.                      *)
Reset(k) ==
  /\ k.up /\ k.again = 0 /\ k.epoch = epoch /\ Lost
  /\ ~closed /\ used < MaxCalls /\ used' = used + 1
  /\ \E n \in k.at + 1..Len(journal[k.s]) :
       /\ \A m \in k.at + 1..n : turn[k.s] = "asking" => journal[k.s][m].n # asked[k.s]
       /\ Replace(k, [k EXCEPT !.at = n, !.cursor = n])
  /\ calls' = [calls EXCEPT ![used + 1] = Request("history", k.s, 0)]
  /\ UNCHANGED <<view, epoch, disconnect, closed>> /\ UNCHANGED service

Next ==
  \/ \E s \in Sessions : TurnRuns(s) \/ WaitTimesOut(s) \/ Select(s)
  \/ New \/ Submit \/ Interrupt \/ Close
  \/ Command("fork") \/ Command("delete")
  \/ \E i \in 1..MaxCalls : Serve(i) \/ Hear(i)
  \/ \E k \in sockets : Opens(k) \/ Deliver(k) \/ Drop(k) \/ Reset(k)

Spec == Init /\ [][Next]_vars

-----------------------------------------------------------------------------
(* Whatever order selections, replies and events come in, the terminal      *)
(* shows the messages and the question of the session it names, follows its *)
(* events and no other's, and follows none once it was closed.  (A deletion  *)
(* whose listing finds no session leaves no name until one was created.)    *)
ShownIsSelected ==
  /\ view.session # None =>
       /\ view.content \subseteq {view.session}
       /\ view.pending # None => view.pending[1] = view.session
       /\ \A k \in sockets : k.s = view.session
  /\ \A k \in sockets : k.epoch = disconnect
  /\ closed => sockets = {}

(* A question a turn waits with is shown, once the events that tell of it    *)
(* came and no answer is under way, also after a selection or a lost socket. *)
QuestionsAreShown ==
  \A k \in sockets :
    k.s = view.session /\ k.up /\ k.again = 0 /\ k.at = Len(journal[k.s]) /\ turn[k.s] = "asking" /\ ~Deciding(k.s)
      => view.pending = <<k.s, asked[k.s]>>

-----------------------------------------------------------------------------
(* The inductive invariant of MCStores_proofs, by its parts.                *)
Kinds == {"new", "list", "select", "history", "fork", "delete", "send", "decide", "interrupt"}
Events == [kind : {"started", "text", "asked", "finished"}, n : Nat]
Requests == [kind : Kinds, s : {None} \cup Sessions, n : Nat, epoch : Nat,
             at : {"sent", "done", "failed"}, got : {None} \cup Sessions \cup BOOLEAN]
Views == [session : {None} \cup Sessions, content : SUBSET Sessions,
          pending : {None} \cup (Sessions \X Nat), busy : BOOLEAN]
Sockets == [s : Sessions, epoch : Nat, up : BOOLEAN, at : Nat,
            cursor : {None} \cup Nat, again : Nat]

TypeOK ==
  /\ created \subseteq Sessions
  /\ turn \in [Sessions -> {"idle", "running", "asking"}]
  /\ asked \in [Sessions -> Nat] /\ journal \in [Sessions -> Seq(Events)]
  /\ view \in Views /\ epoch \in Nat /\ disconnect \in {None} \cup Nat
  /\ sockets \subseteq Sockets
  /\ used \in 0..MaxCalls /\ calls \in [1..MaxCalls -> {None} \cup Requests]
  /\ closed \in BOOLEAN

(* An open question is the last event, and a turn's beginning is in the       *)
(* journal.                                                                 *)
JournalTellsTurn ==
  \A s \in Sessions :
    /\ turn[s] = "asking" => /\ journal[s] # <<>>
                            /\ journal[s][Len(journal[s])] = [kind |-> "asked", n |-> asked[s]]
    /\ turn[s] # "idle" =>
         \E n \in 0..Len(journal[s]) - 1 :
           /\ journal[s][n + 1].kind = "started"
           /\ \A m \in n + 2..Len(journal[s]) : journal[s][m].kind # "started"

(* A call of the epoch is about the session that is shown; no turn waits for  *)
(* an answer that was given.                                                *)
CallOK(i) ==
  LET c == calls[i] IN
  c # None =>
    /\ i <= used /\ c.epoch <= epoch
    /\ c.kind \notin {"new", "list"} => c.s \in Sessions
    /\ c.kind \in {"new", "list"} /\ c.at = "done" => c.got \in {None} \cup Sessions
    /\ c.kind = "select" /\ c.at = "done" => c.got \in BOOLEAN
    /\ c.kind = "decide" /\ c.at = "done" => turn[c.s] # "asking"
    /\ c.kind \in {"select", "history", "fork"} /\ c.epoch = epoch /\ ~closed
         => view.session \in {None, c.s}
    /\ c.kind = "select" /\ c.epoch = epoch =>
         /\ sockets = {}
         /\ \A j \in 1..MaxCalls :
              calls[j] # None /\ calls[j].kind = "select" /\ calls[j].epoch = epoch => j = i

(* The one socket is of the epoch.  Where it has read all there is, it has     *)
(* read the question that is open.                                          *)
SocketOK(k) ==
  /\ ~closed /\ k.epoch = epoch /\ disconnect = epoch
  /\ sockets = {k}
  /\ view.session \in {None, k.s}
  /\ k.at <= Len(journal[k.s])
  /\ k.cursor # None => /\ k.cursor <= Len(journal[k.s]) /\ k.again = 0
                        /\ k.up => k.at = k.cursor
  /\ ~k.up => k.again = 0
  /\ turn[k.s] = "asking" =>
       /\ k.up /\ k.cursor = None => k.at < Len(journal[k.s])
       /\ k.cursor = Len(journal[k.s]) /\ view.session = k.s =>
            view.pending = <<k.s, asked[k.s]>>

ViewOK ==
  view.session # None =>
    /\ view.content \subseteq {view.session}
    /\ view.pending # None => view.pending[1] = view.session

IInv ==
  /\ TypeOK /\ JournalTellsTurn /\ ViewOK
  /\ \A i \in 1..MaxCalls : CallOK(i)
  /\ \A k \in sockets : SocketOK(k)
=============================================================================
