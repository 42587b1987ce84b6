---------------------------- MODULE EventStream ----------------------------
(***************************************************************************)
(* The event journal of a session and those who follow it:                 *)
(* core/runtime/event_journal.py, desktop/service/sse_stream.py and the    *)
(* two endpoints of desktop/service/app.py.  The journal is a ring; every  *)
(* follower has a cursor of its own and a client behind a connection that  *)
(* may drop between any two frames.  A process restart starts a new        *)
(* journal, whose sequence numbers begin at 1 again.                       *)
(***************************************************************************)
EXTENDS Naturals, Sequences, FiniteSets

CONSTANTS
  Followers,
  Transports,   \* those a client may choose, of "sse" and "ws"
  Capacity,     \* entries the ring keeps
  Limit,        \* entries a batch may have
  MaxSeq,       \* bound: events of one journal
  MaxEpoch      \* bound: starts of the process

ASSUME StreamAssumption ==
  /\ Capacity \in Nat /\ Limit \in Nat
  /\ MaxSeq \in Nat /\ MaxEpoch \in Nat \ {0}

(* "other" is an event that is not among _STREAM_EVENTS. *)
EventKinds == {"run.started", "delta", "other", "turn.finished"}

VARIABLES
  epoch,      \* stream_id
  log,        \* every event put into this journal; the ring keeps the tail
  turn,       \* "idle", "admitted", "running" or "finished"
  transport,  \* what each client chose when its page was loaded
  follower,   \* the server's side of each connection
  client      \* what each client received

vars == <<epoch, log, turn, transport, follower, client>>

Off == [state |-> "off", raw |-> [epoch |-> 0, seq |-> 0], fresh |-> FALSE,
        busy |-> FALSE, cursor |-> 0, reset |-> FALSE, gap |-> FALSE, batch |-> <<>>]

(* id: the last event id received (epoch 0: none yet); from: seqs of this    *)
(* journal up to here were declared not to come; got: those received.       *)
NewClient == [id |-> [epoch |-> 0, seq |-> 0], from |-> 0, got |-> <<>>]

Ids == [epoch : 0..MaxEpoch, seq : 0..MaxSeq]

TypeOK ==
  /\ epoch \in 1..MaxEpoch
  /\ log \in Seq(EventKinds) /\ Len(log) <= MaxSeq
  /\ turn \in {"idle", "admitted", "running", "finished"}
  /\ follower \in [Followers ->
       [state : {"off", "joining", "live"}, raw : Ids, fresh : BOOLEAN,
        busy : BOOLEAN, cursor : 0..MaxSeq, reset : BOOLEAN, gap : BOOLEAN,
        batch : Seq(1..MaxSeq)]]
  /\ transport \in [Followers -> Transports]
  /\ client \in [Followers -> [id : Ids, from : 0..MaxSeq, got : Seq(1..MaxSeq)]]

Init ==
  /\ epoch = 1 /\ log = <<>> /\ turn = "idle"
  /\ transport \in [Followers -> Transports]
  /\ follower = [f \in Followers |-> Off]
  /\ client = [f \in Followers |-> NewClient]

----------------------------------------------------------------------------
(* The journal *)

Latest == Len(log)
Oldest == IF Latest > Capacity THEN Latest - Capacity + 1 ELSE 1
Busy   == turn # "idle"

(* The last run.started in the ring, if any: the replay of a turn starts     *)
(* before it; without it at zero, so that the gap shows.                    *)
ActiveTurnCursor ==
  LET starts == {q \in Oldest..Latest : log[q] = "run.started"}
  IN IF starts = {} THEN 0
     ELSE (CHOOSE q \in starts : \A p \in starts : p <= q) - 1

Put(kind) ==
  /\ Latest < MaxSeq                                               \* bound
  /\ log' = Append(log, kind)
  /\ UNCHANGED <<epoch, follower, client, transport>>

AdmitTurn ==
  /\ turn = "idle"
  /\ turn' = "admitted"
  /\ UNCHANGED <<epoch, log, follower, client, transport>>

PutTurnEvent ==
  \/ turn = "admitted" /\ Put("run.started") /\ turn' = "running"
  \/ turn = "running" /\ Put("turn.finished") /\ turn' = "finished"
  \/ \E kind \in {"delta", "other"} :
       turn = "running" /\ Put(kind) /\ UNCHANGED turn

BecomeIdle ==
  /\ turn = "finished"
  /\ turn' = "idle"
  /\ UNCHANGED <<epoch, log, follower, client, transport>>

(* _read_unlocked *)
GapAfter(after) == after + 1 < Oldest

EntriesAfter(after) ==
  LET first == IF after + 1 < Oldest THEN Oldest ELSE after + 1
      last  == IF first + Limit - 1 < Latest THEN first + Limit - 1 ELSE Latest
  IN [i \in 1..(IF last < first THEN 0 ELSE last - first + 1) |-> first + i - 1]

----------------------------------------------------------------------------
(* A client connects: with its last event id, from the start (?after=0), or  *)
(* without a cursor.  `busy` is read before the cursor is.                  *)
Connect(f) ==
  /\ follower[f].state = "off"
  /\ \E fresh \in BOOLEAN :
       /\ client[f].id.epoch # 0 => ~fresh
       /\ follower' = [follower EXCEPT ![f] =
            [Off EXCEPT !.state = "joining", !.raw = client[f].id,
                        !.fresh = fresh, !.busy = Busy]]
  /\ UNCHANGED <<epoch, log, turn, client, transport>>

Start(busy) == IF busy THEN ActiveTurnCursor ELSE Latest

Live(f, cursor, reset) ==
  follower' = [follower EXCEPT ![f] =
                 [Off EXCEPT !.state = "live", !.cursor = cursor, !.reset = reset]]

(* No cursor: the client loads the saved history, and starts from here. *)
JoinFresh(f) ==
  /\ follower[f].state = "joining" /\ follower[f].fresh
  /\ LET cursor == Start(follower[f].busy)
     IN /\ Live(f, cursor, FALSE)
        /\ client' = [client EXCEPT ![f].from = cursor]
  /\ UNCHANGED <<epoch, log, turn, transport>>

(* Mutant: the epoch of the cursor is not compared. *)
ForeignNever(f) == FALSE

(* The cursor belongs to another journal.  Only SSE sends the epoch, and     *)
(* ?after=0 has none.                                                       *)
Foreign(f) ==
  /\ transport[f] = "sse"
  /\ follower[f].raw.epoch \notin {0, epoch}

(* Mutant: a cursor beyond the end just waits. *)
JoinAtUnchecked(f) ==
  /\ follower[f].state = "joining" /\ ~follower[f].fresh
  /\ IF Foreign(f) THEN Live(f, Start(follower[f].busy), FALSE)
     ELSE Live(f, follower[f].raw.seq, FALSE)
  /\ UNCHANGED <<epoch, log, turn, client, transport>>

(* parse_event_cursor, and its counterpart in the WebSocket endpoint.        *)
JoinAt(f) ==
  /\ follower[f].state = "joining" /\ ~follower[f].fresh
  /\ LET seq == follower[f].raw.seq
     IN IF Foreign(f) THEN Live(f, Start(follower[f].busy), TRUE)
        ELSE IF seq > Latest THEN Live(f, Latest, TRUE)
        ELSE Live(f, seq, FALSE)
  /\ UNCHANGED <<epoch, log, turn, client, transport>>

Received(f, seq) == [client[f] EXCEPT !.id = [epoch |-> epoch, seq |-> seq]]

(* stream.reset: everything up to `cursor` will not come.                    *)
Reset(f, cursor) ==
  client' = [client EXCEPT ![f] =
               [Received(f, cursor) EXCEPT !.from = IF cursor > @ THEN cursor ELSE @]]

SendReset(f) ==
  /\ follower[f].state = "live" /\ follower[f].reset
  /\ Reset(f, follower[f].cursor)
  /\ follower' = [follower EXCEPT ![f].reset = FALSE]
  /\ UNCHANGED <<epoch, log, turn, transport>>

(* wait_after: one batch, read under the lock. *)
ReadBatch(f) ==
  /\ follower[f].state = "live" /\ ~follower[f].reset
  /\ follower[f].batch = <<>> /\ ~follower[f].gap
  /\ EntriesAfter(follower[f].cursor) # <<>>
  /\ follower' = [follower EXCEPT ![f].gap = GapAfter(follower[f].cursor),
                                  ![f].batch = EntriesAfter(follower[f].cursor)]
  /\ UNCHANGED <<epoch, log, turn, client, transport>>

SendGap(f) ==
  /\ follower[f].state = "live" /\ follower[f].gap
  /\ LET resume == Head(follower[f].batch) - 1
     IN /\ Reset(f, resume)
        /\ follower' = [follower EXCEPT ![f].gap = FALSE, ![f].cursor = resume]
  /\ UNCHANGED <<epoch, log, turn, transport>>

SendEntry(f) ==
  /\ follower[f].state = "live" /\ ~follower[f].gap
  /\ follower[f].batch # <<>>
  /\ LET q == Head(follower[f].batch)
     IN /\ follower' = [follower EXCEPT ![f].cursor = q, ![f].batch = Tail(@)]
        /\ client' = IF log[q] = "other" THEN client
                     ELSE [client EXCEPT ![f] = [Received(f, q) EXCEPT !.got = Append(@, q)]]
  /\ UNCHANGED <<epoch, log, turn, transport>>

Disconnect(f) ==
  /\ follower[f].state # "off"
  /\ follower' = [follower EXCEPT ![f] = Off]
  /\ UNCHANGED <<epoch, log, turn, client, transport>>

(* The process restarts: a new journal, no connections, no running turn.     *)
Restart ==
  /\ epoch < MaxEpoch                                              \* bound
  /\ epoch' = epoch + 1
  /\ log' = <<>> /\ turn' = "idle" /\ UNCHANGED transport
  /\ follower' = [f \in Followers |-> Off]
  /\ client' = [f \in Followers |-> [client[f] EXCEPT !.from = 0, !.got = <<>>]]

Follow(f) == SendReset(f) \/ ReadBatch(f) \/ SendGap(f) \/ SendEntry(f)

Join(f) == Connect(f) \/ JoinFresh(f) \/ JoinAt(f)

Next ==
  \/ AdmitTurn \/ PutTurnEvent \/ BecomeIdle \/ Restart
  \/ \E f \in Followers : Join(f) \/ Follow(f) \/ Disconnect(f)

Spec == Init /\ [][Next]_vars

(* A connection that stays up is served. *)
FairSpec == Spec /\ \A f \in Followers : WF_vars(Follow(f)) /\ WF_vars(Join(f))

----------------------------------------------------------------------------
(* Properties *)

Seen(f) == {client[f].got[i] : i \in DOMAIN client[f].got}

LostNothing(f) ==
  follower[f].state = "live" /\ ~follower[f].reset =>
    \A q \in (client[f].from + 1)..follower[f].cursor :
      q <= Latest /\ (log[q] # "other" => q \in Seen(f))

(* What a follower is past, its client has received, unless it was told that *)
(* it would not: through evictions, reconnects and, over SSE, restarts,      *)
(* nothing is lost silently.  And frames reach the client in the order of    *)
(* the journal, each once, however often it reconnects.  (And the types.)    *)
FollowsTheJournal ==
  /\ TypeOK
  /\ \A f \in Followers :
       /\ transport[f] = "sse" \/ epoch = 1 => LostNothing(f)
       /\ \A i, j \in DOMAIN client[f].got :
            i < j => client[f].got[i] < client[f].got[j]

(* A follower that stays connected catches up with the journal.              *)
IsLive(f)      == follower[f].state = "live"
HasCaughtUp(f) == follower[f].state = "off" \/ follower[f].cursor = Latest
CatchesUp      == \A f \in Followers : IsLive(f) ~> HasCaughtUp(f)

----------------------------------------------------------------------------
(* What the comments say and the code does not do *)

(* "A process restart resets the in-memory journal [...] Explicitly rebase    *)
(* that cursor": over WebSocket too, nothing is lost silently.              *)
RestartIsAnnounced == \A f \in Followers : LostNothing(f)
=============================================================================
