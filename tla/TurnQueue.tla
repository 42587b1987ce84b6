----------------------------- MODULE TurnQueue -----------------------------
(***************************************************************************)
(* The durable turn ledger of one (tenant, project, user) scope:           *)
(* core/persistence/postgres_turn_queue.py over the tables of              *)
(* db/migrations/0002 and 0004.  Every method is one transaction, so every *)
(* method is one action here; `now` is the time the transaction started    *)
(* (now() of PostgreSQL), which may lie up to TxnAge before the clock when *)
(* the transaction commits, since it may have waited for a row lock.       *)
(* Row locks themselves (FOR UPDATE SKIP LOCKED) show as a choice: a scan  *)
(* may pass over any row.  The scope predicate of every statement is the   *)
(* restriction to one scope.                                               *)
(***************************************************************************)
EXTENDS Naturals, FiniteSets

CONSTANTS
  Sessions,      \* ids of private sessions
  Turns,         \* ids of turns
  Keys,          \* idempotency keys
  Payloads,      \* turn payloads
  Workers,       \* worker identities
  LeaseLengths,  \* lease durations the callers ask for
  ReapLimit,     \* rows one sweep may fail (100 in a claim)
  TxnAge,        \* how long a transaction may be open
  MaxTime,       \* bound on the clock
  None           \* SQL NULL

ASSUME LedgerAssumption ==
  /\ LeaseLengths \subseteq Nat \ {0}
  /\ ReapLimit \in Nat \ {0}
  /\ TxnAge \in Nat
  /\ MaxTime \in Nat
  /\ None \notin Sessions \cup Keys \cup Payloads \cup Workers
  /\ None \notin {"output", "lease_expired_uncertain", "worker_execution_failed"}

VARIABLES
  sessions,  \* private_sessions: "absent", "live" or "deleted"
  cursor,    \* their turn_event_cursor
  jobs,      \* private_turn_jobs, by turn id
  minted,    \* turn ids ever inserted
  events,    \* rows of private_turn_events
  leases,    \* LeasedTurn objects claim has returned, with the worker
  replies,   \* what enqueue has answered
  clock

vars == <<sessions, cursor, jobs, minted, events, leases, replies, clock>>

Terminal == {"completed", "failed", "cancelled"}
Statuses == {"none", "queued", "running"} \cup Terminal
Outcomes == {"output", "lease_expired_uncertain", "worker_execution_failed"}
Results  == Outcomes \cup {None}

(* A row; "none" stands for no row. *)
Job == [status : Statuses, session : Sessions \cup {None},
        key : Keys \cup {None}, payload : Payloads \cup {None},
        fence : Nat, attempts : Nat, owner : Workers \cup {None},
        until : Nat, result : Results]

NoJob == [status |-> "none", session |-> None, key |-> None,
          payload |-> None, fence |-> 0, attempts |-> 0, owner |-> None,
          until |-> 0, result |-> None]

Event == [session : Sessions, seq : Nat \ {0}, turn : Turns,
          state : Statuses \ {"none"}, fence : Nat]
Lease == [turn : Turns, worker : Workers, fence : Nat, attempt : Nat]
Reply == [session : Sessions, key : Keys, payload : Payloads, turn : Turns]

TypeOK ==
  /\ sessions \in [Sessions -> {"absent", "live", "deleted"}]
  /\ cursor \in [Sessions -> Nat]
  /\ jobs \in [Turns -> Job]
  /\ minted \subseteq Turns
  /\ events \subseteq Event
  /\ leases \subseteq Lease
  /\ replies \subseteq Reply
  /\ clock \in Nat

Init ==
  /\ sessions = [s \in Sessions |-> "absent"]
  /\ cursor = [s \in Sessions |-> 0]
  /\ jobs = [t \in Turns |-> NoJob]
  /\ minted = {}
  /\ events = {}
  /\ leases = {}
  /\ replies = {}
  /\ clock = 0

----------------------------------------------------------------------------
(* Helpers *)

Rows    == {t \in Turns : jobs[t].status # "none"}
TxnTime == {n \in 0..clock : n + TxnAge >= clock}

(* _event: what a transition of turn t leaves in the event table. *)
Entry(row, t, seq) ==
  [session |-> row.session, seq |-> seq, turn |-> t,
   state |-> row.status, fence |-> row.fence]

(* Write one row and announce its new state. *)
Transition(t, row) ==
  /\ jobs' = [jobs EXCEPT ![t] = row]
  /\ cursor' = [cursor EXCEPT ![row.session] = @ + 1]
  /\ events' = events \cup {Entry(row, t, cursor[row.session] + 1)}

(* A row loses its lease: lease_owner = lease_until = NULL. *)
Ended(row, status, fence, result) ==
  [row EXCEPT !.status = status, !.fence = fence, !.owner = None,
              !.until = 0, !.result = result]

(* The WHERE clause of every operation under a lease. *)
Holds(l, now) ==
  /\ jobs[l.turn].status = "running"
  /\ jobs[l.turn].owner = l.worker
  /\ jobs[l.turn].fence = l.fence
  /\ jobs[l.turn].until > now

Expired(now) ==
  {t \in Turns : jobs[t].status = "running" /\ jobs[t].until <= now}

----------------------------------------------------------------------------
(* Sessions *)

(* A session id comes from a fresh uuid4, so a deleted one never returns. *)
CreateSession(s) ==
  /\ sessions[s] = "absent"
  /\ sessions' = [sessions EXCEPT ![s] = "live"]
  /\ UNCHANGED <<cursor, jobs, minted, events, leases, replies, clock>>

(* DELETE ... ON DELETE CASCADE takes the jobs and the events along. *)
DeleteSession(s) ==
  /\ sessions[s] = "live"
  /\ sessions' = [sessions EXCEPT ![s] = "deleted"]
  /\ jobs' = [t \in Turns |-> IF jobs[t].session = s THEN NoJob ELSE jobs[t]]
  /\ events' = {e \in events : e.session # s}
  /\ UNCHANGED <<cursor, minted, leases, replies, clock>>

----------------------------------------------------------------------------
(* Turns *)

(* enqueue, when the INSERT finds no row with this key. *)
EnqueueNew(t, s, k, p) ==
  /\ sessions[s] = "live"
  /\ t \notin minted
  /\ \A u \in Rows : jobs[u].key # k
  /\ Transition(t, [NoJob EXCEPT !.status = "queued", !.session = s,
                                 !.key = k, !.payload = p])
  /\ minted' = minted \cup {t}
  /\ replies' = replies \cup {[session |-> s, key |-> k, payload |-> p, turn |-> t]}
  /\ UNCHANGED <<sessions, leases, clock>>

(* Mutant: the payload of a retry is not compared. *)
SameKeyOnly(t, s, k, p) == jobs[t].key = k /\ jobs[t].session = s

(* ON CONFLICT DO UPDATE ... WHERE: the row a retry may stand for. *)
SameRequest(t, s, k, p) ==
  /\ jobs[t].key = k
  /\ jobs[t].session = s
  /\ jobs[t].payload = p

(* Mutant: a retry announces the turn again. *)
AnnouncedNever(t) == FALSE

Announced(t) == \E e \in events : e.turn = t

(* enqueue, when the key exists for the same session and payload: the old   *)
(* id is returned, and "queued" announced only if the turn has no event.    *)
(* Any other use of the key raises TurnIdempotencyConflict.                 *)
EnqueueRetry(t, s, k, p) ==
  /\ t \in Rows
  /\ SameRequest(t, s, k, p)
  /\ replies' = replies \cup {[session |-> s, key |-> k, payload |-> p, turn |-> t]}
  /\ IF Announced(t)
       THEN UNCHANGED <<cursor, events>>
       ELSE /\ cursor' = [cursor EXCEPT ![jobs[t].session] = @ + 1]
            /\ events' = events \cup
                 {[Entry(jobs[t], t, cursor[jobs[t].session] + 1)
                     EXCEPT !.state = "queued"]}
  /\ UNCHANGED <<sessions, jobs, minted, leases, clock>>

(* _reap_expired fails a batch of expired rows; `rank` numbers the batch    *)
(* within each session, `count` is how many events each session gets.       *)
Numbered(batch, rank, count) ==
  \A s \in Sessions :
    LET mine == {t \in batch : jobs[t].session = s}
    IN /\ {rank[t] : t \in mine} = 1..count[s]
       /\ \A t, u \in mine : rank[t] = rank[u] => t = u

(* Mutant: expired rows go back to the queue. *)
ReapedForReplay(batch) ==
  [t \in Turns |->
     IF t \in batch
       THEN Ended(jobs[t], "queued", jobs[t].fence + 1, None)
       ELSE jobs[t]]

Reaped(batch) ==
  [t \in Turns |->
     IF t \in batch
       THEN Ended(jobs[t], "failed", jobs[t].fence + 1, "lease_expired_uncertain")
       ELSE jobs[t]]

ReapedEvents(batch, rank) ==
  {Entry(Reaped(batch)[t], t, cursor[jobs[t].session] + rank[t]) : t \in batch}

ReapExpired(batch, rank, count, now) ==
  /\ now \in TxnTime
  /\ batch \subseteq Expired(now)
  /\ Cardinality(batch) <= ReapLimit
  /\ Numbered(batch, rank, count)
  /\ jobs' = Reaped(batch)
  /\ cursor' = [s \in Sessions |-> cursor[s] + count[s]]
  /\ events' = events \cup ReapedEvents(batch, rank)
  /\ UNCHANGED <<sessions, minted, leases, replies, clock>>

(* Mutant: an expired lease is taken over instead of failed. *)
ClaimableAgain(row, now) ==
  row.status = "queued" \/ (row.status = "running" /\ row.until <= now)

Claimable(row, now) == row.status = "queued"

Leased(row, w, until) ==
  [row EXCEPT !.status = "running", !.fence = @ + 1, !.attempts = @ + 1,
              !.owner = w, !.until = until]

(* claim: sweep, then lease one queued row.  A claim that finds no queued    *)
(* row commits the sweep alone, which is ReapExpired.                       *)
Claim(w, t, length, batch, rank, count, now) ==
  /\ now \in TxnTime
  /\ batch \subseteq Expired(now)
  /\ Cardinality(batch) <= ReapLimit
  /\ Numbered(batch, rank, count)
  /\ Claimable(Reaped(batch)[t], now)
  /\ LET row == Leased(jobs[t], w, now + length)
         at  == cursor[row.session] + count[row.session] + 1
     IN /\ jobs' = [Reaped(batch) EXCEPT ![t] = row]
        /\ cursor' = [s \in Sessions |->
                        cursor[s] + count[s] + IF s = row.session THEN 1 ELSE 0]
        /\ events' = events \cup ReapedEvents(batch, rank) \cup {Entry(row, t, at)}
        /\ leases' = leases \cup
             {[turn |-> t, worker |-> w, fence |-> row.fence, attempt |-> row.attempts]}
  /\ UNCHANGED <<sessions, minted, replies, clock>>

(* Mutant: cancel leaves the fence alone. *)
CancelKeepingFence(t) ==
  /\ jobs[t].status \in {"queued", "running"}
  /\ Transition(t, Ended(jobs[t], "cancelled", jobs[t].fence, jobs[t].result))
  /\ UNCHANGED <<sessions, minted, leases, replies, clock>>

(* Mutant: cancel overwrites a published result. *)
CancelFinished(t) ==
  /\ jobs[t].status \in {"queued", "running", "completed"}
  /\ Transition(t, Ended(jobs[t], "cancelled", jobs[t].fence + 1, jobs[t].result))
  /\ UNCHANGED <<sessions, minted, leases, replies, clock>>

Cancel(t) ==
  /\ jobs[t].status \in {"queued", "running"}
  /\ Transition(t, Ended(jobs[t], "cancelled", jobs[t].fence + 1, jobs[t].result))
  /\ UNCHANGED <<sessions, minted, leases, replies, clock>>

Renew(l, length, now) ==
  /\ now \in TxnTime
  /\ Holds(l, now)
  /\ jobs' = [jobs EXCEPT ![l.turn].until = now + length]
  /\ UNCHANGED <<sessions, cursor, minted, events, leases, replies, clock>>

Complete(l, now) ==
  /\ now \in TxnTime
  /\ Holds(l, now)
  /\ Transition(l.turn, Ended(jobs[l.turn], "completed", l.fence, "output"))
  /\ UNCHANGED <<sessions, minted, leases, replies, clock>>

Fail(l, now) ==
  /\ now \in TxnTime
  /\ Holds(l, now)
  /\ Transition(l.turn, Ended(jobs[l.turn], "failed", l.fence, "worker_execution_failed"))
  /\ UNCHANGED <<sessions, minted, leases, replies, clock>>

Tick ==
  /\ clock < MaxTime
  /\ clock' = clock + 1
  /\ UNCHANGED <<sessions, cursor, jobs, minted, events, leases, replies>>

----------------------------------------------------------------------------

Ranks(batch) == [batch -> 1..ReapLimit]
Counts       == [Sessions -> 0..ReapLimit]

Sweep ==
  \E now \in TxnTime : \E batch \in SUBSET Expired(now) :
    \E rank \in Ranks(batch), count \in Counts :
      /\ batch # {}
      /\ ReapExpired(batch, rank, count, now)

ClaimNext(w) ==
  \E now \in TxnTime : \E batch \in SUBSET Expired(now) :
    \E rank \in Ranks(batch), count \in Counts :
      \E t \in Turns, length \in LeaseLengths :
        Claim(w, t, length, batch, rank, count, now)

UnderLease ==
  \E l \in leases, now \in TxnTime :
    \/ \E length \in LeaseLengths : Renew(l, length, now)
    \/ Complete(l, now)
    \/ Fail(l, now)

Submit ==
  \E t \in Turns, s \in Sessions, k \in Keys, p \in Payloads :
    \/ EnqueueNew(t, s, k, p)
    \/ EnqueueRetry(t, s, k, p)

Next ==
  \/ \E s \in Sessions : CreateSession(s) \/ DeleteSession(s)
  \/ Submit
  \/ Sweep
  \/ \E w \in Workers : ClaimNext(w)
  \/ \E t \in Turns : Cancel(t)
  \/ UnderLease
  \/ Tick

Spec == Init /\ [][Next]_vars

----------------------------------------------------------------------------
(* Properties *)

(* No turn is ever handed to a worker twice, whatever expires, crashes or   *)
(* is cancelled: claim never replays work whose effects are uncertain.      *)
AtMostOneExecution ==
  \A l, m \in leases : l.turn = m.turn => l = m

(* The lease a worker holds is powerless from the moment a cancel or a sweep *)
(* revoked it, because both bump the fence; while the row is still running,  *)
(* its owner and fence are those of the only lease handed out for it.        *)
RevokedLeaseIsStale ==
  \A l \in leases :
    LET row == jobs[l.turn]
    IN /\ row.status = "running" => row.owner = l.worker /\ row.fence = l.fence
       /\ \/ row.status = "cancelled"
          \/ row.result = "lease_expired_uncertain"
          => row.fence > l.fence

(* The strengthening that makes both inductive: what each status says of the *)
(* other columns of its row, and that a lease means the row left the queue.  *)
RowShape(row) ==
  /\ row.status = "none" => row = NoJob
  /\ row.status # "none" =>
       /\ row.session \in Sessions /\ sessions[row.session] = "live"
       /\ row.key \in Keys /\ row.payload \in Payloads
  /\ row.status = "queued" => row.fence = 0 /\ row.attempts = 0 /\ row.result = None
  /\ row.status = "running" => row.fence = 1 /\ row.attempts = 1 /\ row.result = None
  /\ row.status = "cancelled" => row.fence = row.attempts + 1 /\ row.result = None
  /\ row.result = "lease_expired_uncertain" => row.fence = row.attempts + 1

LedgerShape ==
  \A t \in Turns :
    /\ RowShape(jobs[t])
    /\ t \notin minted => jobs[t].status = "none"

LeaseShape ==
  \A l \in leases :
    /\ l.turn \in minted
    /\ l.fence = 1
    /\ LET row == jobs[l.turn]
       IN /\ row.status # "queued"
          /\ row.status # "none" => row.attempts = 1
          /\ row.status = "running" => row.owner = l.worker

(* The inductive invariant: types, row shapes, lease shapes, one lease per   *)
(* turn.  A lease is proof that its row left the queue, for good.            *)
IInv == TypeOK /\ LedgerShape /\ LeaseShape /\ AtMostOneExecution

(* Replaying the outbox of a session rebuilds the ledger: cursors run from 1 *)
(* without a gap or a double; a turn is announced queued first, then at most *)
(* once per state in the order of its life and with fences that never fall,  *)
(* and its newest event carries the status and the fence of its row.         *)
Trail(t) == {e \in events : e.turn = t}

CursorsAreDense ==
  \A s \in Sessions :
    LET mine == {e \in events : e.session = s}
    IN /\ {e.seq : e \in mine} = IF sessions[s] = "live" THEN 1..cursor[s] ELSE {}
       /\ \A e, f \in mine : e.seq = f.seq => e = f

TrailTellsRow(t) ==
  /\ \E e \in Trail(t) : e.state = "queued" /\ e.fence = 0
  /\ \E e \in Trail(t) :
       /\ e.state = jobs[t].status /\ e.fence = jobs[t].fence
       /\ \A f \in Trail(t) : f.seq <= e.seq /\ f.fence <= e.fence
  /\ jobs[t].attempts = 1 <=> \E e \in Trail(t) : e.state = "running"
  /\ \A e, f \in Trail(t) : e.state = f.state => e = f
  /\ \A e, f \in Trail(t) : e.seq < f.seq => e.fence <= f.fence
  /\ \A e \in Trail(t) : e.session = jobs[t].session

OutboxTellsLedger ==
  /\ CursorsAreDense
  /\ \A t \in Turns : IF t \in Rows THEN TrailTellsRow(t) ELSE Trail(t) = {}

(* What enqueue answered stays true: while the turn exists it is the work    *)
(* that was asked for, and no two existing turns answer for one key.         *)
RepliesStayTrue ==
  /\ \A r \in replies :
       LET row == jobs[r.turn]
       IN r.turn \in Rows =>
            <<row.session, row.key, row.payload>> = <<r.session, r.key, r.payload>>
  /\ \A q, r \in replies :
       q.key = r.key /\ {q.turn, r.turn} \subseteq Rows => q.turn = r.turn

(* An outcome is final: cancel, complete, fail and the sweep race for it,    *)
(* one wins, and nothing but deleting the session touches the row again.     *)
OutcomeIsFinal ==
  [][\A t \in Turns :
       jobs[t].status \in Terminal => jobs'[t] \in {jobs[t], NoJob}]_vars

(* The ledger implements the life of a turn as its observers see it.         *)
L == INSTANCE TurnLifecycle WITH
       phase <- [t \in Turns |-> jobs[t].status],
       spent <- minted,
       feed  <- {[session |-> e.session, seq |-> e.seq,
                  turn |-> e.turn, state |-> e.state] : e \in events}

ImplementsLifecycle == L!Spec
=============================================================================
