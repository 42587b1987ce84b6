-------------------------- MODULE TurnQueue_proofs --------------------------
(***************************************************************************)
(* Proofs about the durable turn ledger, for all sets of sessions, turns,  *)
(* keys, payloads and workers and for all bounds: the ledger itself, and    *)
(* then what it tells: its outbox of events, its answers to enqueue, and    *)
(* the life of a turn that TurnLifecycle promises.                         *)
(***************************************************************************)
EXTENDS TurnQueue, TLAPS

----------------------------------------------------------------------------
(* The shapes of the rows the operations write. *)

LEMMA NoJobType == NoJob \in Job
BY DEF NoJob, Job, Statuses, Results

LEMMA EndedType ==
  ASSUME NEW row \in Job, NEW status \in Statuses, NEW fence \in Nat,
         NEW result \in Results
  PROVE  Ended(row, status, fence, result) \in Job
BY DEF Ended, Job

LEMMA LeasedType ==
  ASSUME NEW row \in Job, NEW w \in Workers, NEW until \in Nat
  PROVE  Leased(row, w, until) \in Job
<1>1. "running" \in Statuses
  BY DEF Statuses
<1>2. row.fence + 1 \in Nat /\ row.attempts + 1 \in Nat
  BY DEF Job
<1>. QED  BY <1>1, <1>2 DEF Leased, Job

LEMMA EntryType ==
  ASSUME NEW row \in Job, row.status # "none", row.session # None,
         NEW t \in Turns, NEW seq \in Nat \ {0}
  PROVE  Entry(row, t, seq) \in Event
BY DEF Entry, Event, Job

LEMMA ReapedType ==
  ASSUME TypeOK, NEW batch
  PROVE  Reaped(batch) \in [Turns -> Job]
<1>1. ASSUME NEW t \in Turns
      PROVE  Ended(jobs[t], "failed", jobs[t].fence + 1,
                   "lease_expired_uncertain") \in Job
  <2>1. jobs[t] \in Job /\ jobs[t].fence + 1 \in Nat
    BY DEF TypeOK, Job
  <2>2. "failed" \in Statuses /\ "lease_expired_uncertain" \in Results
    BY DEF Statuses, Terminal, Results, Outcomes
  <2>. QED  BY <2>1, <2>2, EndedType
<1>. QED  BY <1>1 DEF Reaped, TypeOK

LEMMA TransitionType ==
  ASSUME TypeOK, NEW t \in Turns, NEW row \in Job,
         row.status # "none", row.session \in Sessions, Transition(t, row)
  PROVE  /\ jobs' \in [Turns -> Job]
         /\ cursor' \in [Sessions -> Nat]
         /\ events' \subseteq Event
         /\ jobs'[t] = row
         /\ \A u \in Turns : u # t => jobs'[u] = jobs[u]
<1>1. row.session # None
  BY LedgerAssumption
<1>2. cursor[row.session] + 1 \in Nat \ {0}
  BY DEF TypeOK
<1>3. Entry(row, t, cursor[row.session] + 1) \in Event
  BY <1>1, <1>2, EntryType
<1>. QED  BY <1>2, <1>3 DEF Transition, TypeOK

----------------------------------------------------------------------------
(* Every operation keeps the inductive invariant. *)

LEMMA InitIInv == Init => IInv
<1> SUFFICES ASSUME Init PROVE IInv
  OBVIOUS
<1>1. TypeOK
  BY NoJobType DEF Init, TypeOK
<1>2. LedgerShape
  BY LedgerAssumption DEF Init, LedgerShape, RowShape, NoJob
<1>3. LeaseShape /\ AtMostOneExecution
  BY DEF Init, LeaseShape, AtMostOneExecution
<1>. QED  BY <1>1, <1>2, <1>3 DEF IInv

LEMMA CreateSessionIInv ==
  ASSUME IInv, NEW s \in Sessions, CreateSession(s)
  PROVE  IInv'
<1>1. TypeOK'
  BY DEF IInv, TypeOK, CreateSession
<1>2. LedgerShape'
  BY DEF IInv, TypeOK, LedgerShape, RowShape, CreateSession
<1>3. LeaseShape' /\ AtMostOneExecution'
  BY DEF IInv, LeaseShape, AtMostOneExecution, CreateSession
<1>. QED  BY <1>1, <1>2, <1>3 DEF IInv

LEMMA DeleteSessionIInv ==
  ASSUME IInv, NEW s \in Sessions, DeleteSession(s)
  PROVE  IInv'
<1>1. \A t \in Turns : jobs'[t] = IF jobs[t].session = s THEN NoJob ELSE jobs[t]
  BY DEF DeleteSession
<1>2. TypeOK'
  BY NoJobType DEF IInv, TypeOK, DeleteSession
<1>3. LedgerShape'
  <2> SUFFICES ASSUME NEW t \in Turns
               PROVE  /\ RowShape(jobs[t])'
                      /\ t \notin minted' => jobs'[t].status = "none"
    BY DEF LedgerShape
  <2>1. RowShape(jobs[t]) /\ (t \notin minted => jobs[t].status = "none")
    BY DEF IInv, LedgerShape
  <2>2. CASE jobs[t].session = s
    BY <1>1, <2>2, LedgerAssumption DEF RowShape, NoJob, DeleteSession
  <2>3. CASE jobs[t].session # s
    <3>1. jobs'[t] = jobs[t] /\ minted' = minted
      BY <1>1, <2>3 DEF DeleteSession
    <3>2. \A r \in Sessions : r # s => sessions'[r] = sessions[r]
      BY DEF IInv, TypeOK, DeleteSession
    <3>. QED  BY <2>1, <2>3, <3>1, <3>2 DEF RowShape
  <2>. QED  BY <2>2, <2>3
<1>4. LeaseShape'
  <2> SUFFICES ASSUME NEW l \in leases
               PROVE  /\ l.turn \in minted
                      /\ l.fence = 1
                      /\ jobs'[l.turn].status # "queued"
                      /\ jobs'[l.turn].status # "none" => jobs'[l.turn].attempts = 1
                      /\ jobs'[l.turn].status = "running" => jobs'[l.turn].owner = l.worker
    BY DEF LeaseShape, DeleteSession
  <2>1. l.turn \in Turns
    BY DEF IInv, TypeOK, Lease
  <2>. QED  BY <1>1, <2>1 DEF IInv, LeaseShape, NoJob
<1>5. AtMostOneExecution'
  BY DEF IInv, AtMostOneExecution, DeleteSession
<1>. QED  BY <1>2, <1>3, <1>4, <1>5 DEF IInv

LEMMA EnqueueNewIInv ==
  ASSUME IInv, NEW t \in Turns, NEW s \in Sessions, NEW k \in Keys,
         NEW p \in Payloads, EnqueueNew(t, s, k, p)
  PROVE  IInv'
<1> DEFINE row == [NoJob EXCEPT !.status = "queued", !.session = s,
                                !.key = k, !.payload = p]
<1>1. /\ row \in Job /\ row.status = "queued" /\ row.session = s
      /\ row.key = k /\ row.payload = p
      /\ row.fence = 0 /\ row.attempts = 0 /\ row.result = None
  BY DEF NoJob, Job, Statuses, Results
<1> HIDE DEF row
<1>2. Transition(t, row)
  BY DEF EnqueueNew, row
<1>3. TypeOK
  BY DEF IInv
<1>4. /\ jobs' \in [Turns -> Job]
      /\ cursor' \in [Sessions -> Nat]
      /\ events' \subseteq Event
      /\ jobs'[t] = row
      /\ \A u \in Turns : u # t => jobs'[u] = jobs[u]
  BY <1>1, <1>2, <1>3, TransitionType
<1>5. TypeOK'
  BY <1>3, <1>4 DEF TypeOK, EnqueueNew, Reply
<1>6. LedgerShape'
  <2>1. RowShape(row)'
    BY <1>1, LedgerAssumption DEF RowShape, EnqueueNew
  <2>2. \A u \in Turns : RowShape(jobs[u]) => RowShape(jobs[u])' \/ u = t
    BY <1>4 DEF RowShape, EnqueueNew
  <2>. QED  BY <1>4, <2>1, <2>2 DEF IInv, LedgerShape, EnqueueNew
<1>7. LeaseShape'
  BY <1>4 DEF IInv, TypeOK, LeaseShape, Lease, EnqueueNew
<1>8. AtMostOneExecution'
  BY DEF IInv, AtMostOneExecution, EnqueueNew
<1>. QED  BY <1>5, <1>6, <1>7, <1>8 DEF IInv

LEMMA EnqueueRetryIInv ==
  ASSUME IInv, NEW t \in Turns, NEW s \in Sessions, NEW k \in Keys,
         NEW p \in Payloads, EnqueueRetry(t, s, k, p)
  PROVE  IInv'
<1>1. TypeOK'
  <2>1. jobs[t] \in Job /\ jobs[t].session = s /\ cursor[s] + 1 \in Nat \ {0}
    BY DEF IInv, TypeOK, EnqueueRetry, SameRequest
  <2>2. [Entry(jobs[t], t, cursor[s] + 1) EXCEPT !.state = "queued"] \in Event
    BY <2>1 DEF Entry, Event, Job, Statuses
  <2>3. events' \subseteq Event
    BY <2>1, <2>2 DEF IInv, TypeOK, EnqueueRetry
  <2>4. cursor' \in [Sessions -> Nat]
    BY <2>1 DEF IInv, TypeOK, EnqueueRetry
  <2>5. replies' \subseteq Reply
    BY DEF IInv, TypeOK, EnqueueRetry, Reply
  <2>. QED  BY <2>3, <2>4, <2>5 DEF IInv, TypeOK, EnqueueRetry
<1>2. LedgerShape' /\ LeaseShape' /\ AtMostOneExecution'
  BY DEF IInv, LedgerShape, RowShape, LeaseShape, AtMostOneExecution, EnqueueRetry
<1>. QED  BY <1>1, <1>2 DEF IInv

(* What the sweep makes of a row of its batch. *)
LEMMA ReapedRow ==
  ASSUME IInv, NEW now, NEW batch, batch \subseteq Expired(now), NEW t \in batch
  PROVE  /\ t \in Turns
         /\ jobs[t].status = "running"
         /\ jobs[t].attempts = 1
         /\ Reaped(batch)[t].status = "failed"
         /\ Reaped(batch)[t].session = jobs[t].session
         /\ Reaped(batch)[t].key = jobs[t].key
         /\ Reaped(batch)[t].payload = jobs[t].payload
         /\ Reaped(batch)[t].attempts = 1
         /\ Reaped(batch)[t].fence = 2
         /\ Reaped(batch)[t].result = "lease_expired_uncertain"
<1>1. t \in Turns /\ jobs[t].status = "running"
  BY DEF Expired
<1>2. jobs[t] \in Job /\ jobs[t].fence = 1 /\ jobs[t].attempts = 1
  BY <1>1 DEF IInv, TypeOK, LedgerShape, RowShape
<1>3. Reaped(batch)[t] =
        Ended(jobs[t], "failed", jobs[t].fence + 1, "lease_expired_uncertain")
  BY <1>1 DEF Reaped
<1>. QED  BY <1>1, <1>2, <1>3 DEF Ended, Job

LEMMA ReapedEventsType ==
  ASSUME IInv, NEW now, NEW batch, batch \subseteq Expired(now),
         NEW rank \in Ranks(batch)
  PROVE  ReapedEvents(batch, rank) \subseteq Event
<1> SUFFICES ASSUME NEW t \in batch
             PROVE  Entry(Reaped(batch)[t], t, cursor[jobs[t].session] + rank[t])
                      \in Event
  BY DEF ReapedEvents
<1>1. /\ Reaped(batch)[t] \in Job /\ t \in Turns
      /\ Reaped(batch)[t].status # "none"
      /\ Reaped(batch)[t].session = jobs[t].session
  <2>1. Reaped(batch) \in [Turns -> Job]
    BY ReapedType DEF IInv
  <2>. QED  BY <2>1, ReapedRow
<1>2. jobs[t].session \in Sessions /\ jobs[t].session # None
  <2>1. t \in Turns /\ jobs[t].status = "running"
    BY DEF Expired
  <2>. QED  BY <2>1, LedgerAssumption DEF IInv, LedgerShape, RowShape
<1>3. rank[t] \in Nat \ {0}
  <2>1. rank[t] \in 1..ReapLimit
    BY DEF Ranks
  <2>. QED  BY <2>1, LedgerAssumption
<1>4. cursor[jobs[t].session] + rank[t] \in Nat \ {0}
  BY <1>2, <1>3 DEF IInv, TypeOK
<1>. QED  BY <1>1, <1>2, <1>4, EntryType

LEMMA ReapedShape ==
  ASSUME IInv, NEW now, NEW batch, batch \subseteq Expired(now),
         NEW t \in Turns
  PROVE  /\ RowShape(Reaped(batch)[t])
         /\ Reaped(batch)[t].status = "none" <=> jobs[t].status = "none"
         /\ Reaped(batch)[t].status = "queued" <=> jobs[t].status = "queued"
         /\ Reaped(batch)[t].attempts = jobs[t].attempts
         /\ Reaped(batch)[t].status = "running" => Reaped(batch)[t] = jobs[t]
<1>1. RowShape(jobs[t])
  BY DEF IInv, LedgerShape
<1>2. CASE t \in batch
  <2>1. /\ jobs[t].status = "running"
        /\ jobs[t].attempts = 1
        /\ Reaped(batch)[t].status = "failed"
        /\ Reaped(batch)[t].session = jobs[t].session
        /\ Reaped(batch)[t].key = jobs[t].key
        /\ Reaped(batch)[t].payload = jobs[t].payload
        /\ Reaped(batch)[t].attempts = 1
        /\ Reaped(batch)[t].fence = 2
        /\ Reaped(batch)[t].result = "lease_expired_uncertain"
    BY <1>2, ReapedRow
  <2>2. RowShape(Reaped(batch)[t])
    BY <1>1, <2>1, LedgerAssumption DEF RowShape
  <2>. QED  BY <2>1, <2>2
<1>3. CASE t \notin batch
  BY <1>1, <1>3 DEF Reaped
<1>. QED  BY <1>2, <1>3

LEMMA ReapExpiredIInv ==
  ASSUME IInv, NEW now, NEW batch, NEW rank \in Ranks(batch),
         NEW count \in Counts, ReapExpired(batch, rank, count, now)
  PROVE  IInv'
<1>1. batch \subseteq Expired(now) /\ jobs' = Reaped(batch)
  BY DEF ReapExpired
<1>2. TypeOK'
  <2>1. events' \subseteq Event
    BY <1>1, ReapedEventsType DEF IInv, TypeOK, ReapExpired
  <2>2. cursor' \in [Sessions -> Nat]
    BY LedgerAssumption DEF IInv, TypeOK, ReapExpired, Counts
  <2>3. jobs' \in [Turns -> Job]
    BY <1>1, ReapedType DEF IInv
  <2>. QED  BY <2>1, <2>2, <2>3 DEF IInv, TypeOK, ReapExpired
<1>3. LedgerShape'
  BY <1>1, ReapedShape DEF IInv, LedgerShape, RowShape, ReapExpired
<1>4. LeaseShape'
  BY <1>1, ReapedShape DEF IInv, TypeOK, Lease, LeaseShape, ReapExpired
<1>5. AtMostOneExecution'
  BY DEF IInv, AtMostOneExecution, ReapExpired
<1>. QED  BY <1>2, <1>3, <1>4, <1>5 DEF IInv

LEMMA ClaimIInv ==
  ASSUME IInv, NEW w \in Workers, NEW t \in Turns, NEW length \in LeaseLengths,
         NEW now, NEW batch, NEW rank \in Ranks(batch), NEW count \in Counts,
         Claim(w, t, length, batch, rank, count, now)
  PROVE  IInv'
<1> DEFINE row == Leased(jobs[t], w, now + length)
           lease == [turn |-> t, worker |-> w, fence |-> row.fence,
                     attempt |-> row.attempts]
<1>1. /\ batch \subseteq Expired(now)
      /\ Reaped(batch)[t].status = "queued"
      /\ jobs' = [Reaped(batch) EXCEPT ![t] = row]
      /\ leases' = leases \cup {lease}
      /\ UNCHANGED <<sessions, minted, replies, clock>>
  BY DEF Claim, Claimable
<1>2. /\ jobs[t].status = "queued" /\ jobs[t].fence = 0 /\ jobs[t].attempts = 0
      /\ jobs[t].session \in Sessions /\ sessions[jobs[t].session] = "live"
      /\ jobs[t].key \in Keys /\ jobs[t].payload \in Payloads
      /\ jobs[t].result = None
  BY <1>1, ReapedShape DEF IInv, LedgerShape, RowShape
<1>3. jobs[t] \in Job /\ now + length \in Nat
  BY LedgerAssumption DEF IInv, TypeOK, Claim, TxnTime
<1>4. row \in Job
  BY <1>3, LeasedType
<1>5. /\ row.status = "running" /\ row.session = jobs[t].session
      /\ row.key = jobs[t].key /\ row.payload = jobs[t].payload
      /\ row.fence = 1 /\ row.attempts = 1 /\ row.owner = w /\ row.result = None
  BY <1>2, <1>3 DEF Leased, Job
<1> HIDE DEF row
<1>6. Reaped(batch) \in [Turns -> Job]
  BY ReapedType DEF IInv
<1>7. jobs'[t] = row /\ \A u \in Turns : u # t => jobs'[u] = Reaped(batch)[u]
  BY <1>1, <1>6
<1>8. /\ lease \in Lease /\ lease.turn = t /\ lease.worker = w
      /\ lease.fence = 1 /\ lease.attempt = 1
  BY <1>5 DEF Lease
<1> HIDE DEF lease
<1>9. TypeOK'
  <2> DEFINE at == cursor[row.session] + count[row.session] + 1
  <2>1. at \in Nat \ {0}
    <3>1. cursor[row.session] \in Nat /\ count[row.session] \in Nat
      BY <1>2, <1>5, LedgerAssumption DEF IInv, TypeOK, Counts
    <3>. QED  BY <3>1
  <2>2. Entry(row, t, at) \in Event
    <3>1. row.status # "none" /\ row.session # None
      BY <1>2, <1>5, LedgerAssumption
    <3>. QED  BY <1>4, <2>1, <3>1, EntryType
  <2>3. events' = events \cup ReapedEvents(batch, rank) \cup {Entry(row, t, at)}
    BY DEF Claim, row
  <2>4. ReapedEvents(batch, rank) \subseteq Event
    BY <1>1, ReapedEventsType
  <2>5. events' \subseteq Event
    BY <2>2, <2>3, <2>4 DEF IInv, TypeOK
  <2>6. cursor' \in [Sessions -> Nat]
    <3>1. \A s \in Sessions : cursor[s] \in Nat /\ count[s] \in Nat
      BY LedgerAssumption DEF IInv, TypeOK, Counts
    <3>2. cursor' = [s \in Sessions |->
                      cursor[s] + count[s] + IF s = row.session THEN 1 ELSE 0]
      BY DEF Claim, row
    <3>. QED  BY <3>1, <3>2
  <2>. QED  BY <1>1, <1>4, <1>6, <1>8, <2>5, <2>6 DEF IInv, TypeOK
<1>10. LedgerShape'
  <2>1. t \in minted
    BY <1>2 DEF IInv, LedgerShape
  <2>2. RowShape(jobs[t])'
    BY <1>1, <1>2, <1>5, <1>7, LedgerAssumption DEF RowShape
  <2>3. ASSUME NEW u \in Turns, u # t
        PROVE  RowShape(jobs[u])' /\ (u \notin minted' => jobs'[u].status = "none")
    <3>1. jobs'[u] = Reaped(batch)[u]
      BY <1>7, <2>3
    <3>2. /\ RowShape(Reaped(batch)[u])
          /\ Reaped(batch)[u].status = "none" <=> jobs[u].status = "none"
      BY <1>1, ReapedShape
    <3>3. u \notin minted => jobs[u].status = "none"
      BY DEF IInv, LedgerShape
    <3>4. RowShape(jobs[u])'
      BY <1>1, <3>1, <3>2 DEF RowShape
    <3>. QED  BY <1>1, <3>1, <3>2, <3>3, <3>4
  <2>. QED  BY <1>1, <1>7, <2>1, <2>2, <2>3 DEF LedgerShape
<1>11. \A l \in leases : l.turn \in Turns /\ l.turn # t
  BY <1>2 DEF IInv, TypeOK, Lease, LeaseShape
<1>12. LeaseShape'
  <2>1. t \in minted
    BY <1>2 DEF IInv, LedgerShape
  <2>2. ASSUME NEW l \in leases
        PROVE  /\ l.turn \in minted
               /\ l.fence = 1
               /\ jobs'[l.turn].status # "queued"
               /\ jobs'[l.turn].status # "none" => jobs'[l.turn].attempts = 1
               /\ jobs'[l.turn].status = "running" => jobs'[l.turn].owner = l.worker
    <3>1. l.turn \in Turns /\ jobs'[l.turn] = Reaped(batch)[l.turn]
      BY <1>7, <1>11
    <3>2. /\ Reaped(batch)[l.turn].status = "none" <=> jobs[l.turn].status = "none"
          /\ Reaped(batch)[l.turn].status = "queued" <=> jobs[l.turn].status = "queued"
          /\ Reaped(batch)[l.turn].attempts = jobs[l.turn].attempts
          /\ Reaped(batch)[l.turn].status = "running" =>
               Reaped(batch)[l.turn] = jobs[l.turn]
      BY <1>1, <3>1, ReapedShape
    <3>. QED  BY <3>1, <3>2 DEF IInv, LeaseShape
  <2>. QED  BY <1>1, <1>5, <1>7, <1>8, <2>1, <2>2 DEF LeaseShape
<1>13. AtMostOneExecution'
  BY <1>1, <1>8, <1>11 DEF IInv, AtMostOneExecution
<1>. QED  BY <1>9, <1>10, <1>12, <1>13 DEF IInv

(* cancel, complete and fail: a row ends. *)
LEMMA EndedRow ==
  ASSUME IInv, NEW t \in Turns, jobs[t].status \in {"queued", "running"},
         NEW status \in Terminal, NEW fence \in Nat, NEW result \in Results,
         Transition(t, Ended(jobs[t], status, fence, result)),
         status = "cancelled" => fence = jobs[t].fence + 1 /\ result = None,
         result # "lease_expired_uncertain",
         UNCHANGED <<sessions, minted, leases, replies, clock>>
  PROVE  IInv'
<1> DEFINE row == Ended(jobs[t], status, fence, result)
<1>1. jobs[t] \in Job /\ RowShape(jobs[t])
  BY DEF IInv, TypeOK, LedgerShape
<1>2. jobs[t].fence = jobs[t].attempts /\ jobs[t].session \in Sessions
  BY <1>1 DEF RowShape
<1>3. status \in Statuses /\ status \notin {"none", "queued", "running"}
  BY DEF Statuses, Terminal
<1>4. row \in Job
  BY <1>1, <1>3, EndedType
<1>5. /\ row.status = status /\ row.fence = fence /\ row.result = result
      /\ row.session = jobs[t].session /\ row.key = jobs[t].key
      /\ row.payload = jobs[t].payload /\ row.attempts = jobs[t].attempts
  BY <1>1 DEF Ended, Job
<1> HIDE DEF row
<1>6. Transition(t, row)
  BY DEF row
<1>7. TypeOK
  BY DEF IInv
<1>8. /\ jobs' \in [Turns -> Job]
      /\ cursor' \in [Sessions -> Nat]
      /\ events' \subseteq Event
      /\ jobs'[t] = row
      /\ \A u \in Turns : u # t => jobs'[u] = jobs[u]
  BY <1>2, <1>3, <1>4, <1>5, <1>6, <1>7, TransitionType
<1>9. TypeOK'
  BY <1>7, <1>8 DEF TypeOK
<1>10. LedgerShape'
  <2>1. RowShape(jobs[t])'
    BY <1>1, <1>2, <1>3, <1>5, <1>8 DEF RowShape
  <2>2. ASSUME NEW u \in Turns, u # t
        PROVE  RowShape(jobs[u])'
    BY <1>8, <2>2 DEF IInv, LedgerShape, RowShape
  <2>3. t \in minted
    BY DEF IInv, LedgerShape
  <2>. QED  BY <1>8, <2>1, <2>2, <2>3 DEF IInv, LedgerShape
<1>11. LeaseShape'
  <2> SUFFICES ASSUME NEW l \in leases
               PROVE  /\ l.turn \in minted
                      /\ l.fence = 1
                      /\ jobs'[l.turn].status # "queued"
                      /\ jobs'[l.turn].status # "none" => jobs'[l.turn].attempts = 1
                      /\ jobs'[l.turn].status = "running" => jobs'[l.turn].owner = l.worker
    BY DEF LeaseShape
  <2>1. l.turn \in Turns
    BY DEF IInv, TypeOK, Lease
  <2>2. /\ l.turn \in minted
        /\ l.fence = 1
        /\ jobs[l.turn].status # "queued"
        /\ jobs[l.turn].status # "none" => jobs[l.turn].attempts = 1
        /\ jobs[l.turn].status = "running" => jobs[l.turn].owner = l.worker
    BY DEF IInv, LeaseShape
  <2>3. CASE l.turn = t
    BY <1>3, <1>5, <1>8, <2>2, <2>3
  <2>4. CASE l.turn # t
    BY <1>8, <2>1, <2>2, <2>4
  <2>. QED  BY <2>3, <2>4
<1>12. AtMostOneExecution'
  BY DEF IInv, AtMostOneExecution
<1>. QED  BY <1>9, <1>10, <1>11, <1>12 DEF IInv

LEMMA CancelIInv ==
  ASSUME IInv, NEW t \in Turns, Cancel(t)
  PROVE  IInv'
<1>1. jobs[t] \in Job /\ jobs[t].result = None /\ jobs[t].fence + 1 \in Nat
  BY DEF IInv, TypeOK, LedgerShape, RowShape, Cancel, Job
<1>2. "cancelled" \in Terminal /\ jobs[t].result \in Results
  BY <1>1 DEF Terminal, Results
<1>3. jobs[t].result # "lease_expired_uncertain"
  BY <1>1, LedgerAssumption
<1>. QED  BY <1>1, <1>2, <1>3, EndedRow DEF Cancel

LEMMA CompleteIInv ==
  ASSUME IInv, NEW l \in leases, NEW now, Complete(l, now)
  PROVE  IInv'
<1>1. l.turn \in Turns /\ l.fence \in Nat
  BY DEF IInv, TypeOK, Lease
<1>2. "completed" \in Terminal /\ "output" \in Results
  BY DEF Terminal, Results, Outcomes
<1>3. jobs[l.turn].status = "running"
  BY DEF Complete, Holds
<1>. QED  BY <1>1, <1>2, <1>3, EndedRow DEF Complete

LEMMA FailIInv ==
  ASSUME IInv, NEW l \in leases, NEW now, Fail(l, now)
  PROVE  IInv'
<1>1. l.turn \in Turns /\ l.fence \in Nat
  BY DEF IInv, TypeOK, Lease
<1>2. "failed" \in Terminal /\ "worker_execution_failed" \in Results
  BY DEF Terminal, Results, Outcomes
<1>3. jobs[l.turn].status = "running"
  BY DEF Fail, Holds
<1>. QED  BY <1>1, <1>2, <1>3, EndedRow DEF Fail

LEMMA RenewIInv ==
  ASSUME IInv, NEW l \in leases, NEW length \in LeaseLengths, NEW now,
         Renew(l, length, now)
  PROVE  IInv'
<1>1. l.turn \in Turns /\ jobs[l.turn].status = "running" /\ now + length \in Nat
  BY LedgerAssumption DEF IInv, TypeOK, Lease, Renew, Holds, TxnTime
<1> DEFINE row == [jobs[l.turn] EXCEPT !.until = now + length]
<1>2. jobs[l.turn] \in Job
  BY <1>1 DEF IInv, TypeOK
<1>3. /\ row \in Job
      /\ row.status = "running" /\ row.session = jobs[l.turn].session
      /\ row.key = jobs[l.turn].key /\ row.payload = jobs[l.turn].payload
      /\ row.fence = jobs[l.turn].fence /\ row.attempts = jobs[l.turn].attempts
      /\ row.owner = jobs[l.turn].owner /\ row.result = jobs[l.turn].result
  BY <1>1, <1>2 DEF Job
<1>4. jobs' = [jobs EXCEPT ![l.turn] = row]
  BY DEF Renew
<1> HIDE DEF row
<1>5. /\ jobs' \in [Turns -> Job]
      /\ jobs'[l.turn] = row
      /\ \A u \in Turns : u # l.turn => jobs'[u] = jobs[u]
  BY <1>1, <1>3, <1>4 DEF IInv, TypeOK
<1>6. UNCHANGED <<sessions, cursor, minted, events, leases, replies, clock>>
  BY DEF Renew
<1>7. TypeOK'
  BY <1>5, <1>6 DEF IInv, TypeOK
<1>8. LedgerShape'
  <2>1. RowShape(jobs[l.turn]) /\ l.turn \in minted
    BY <1>1 DEF IInv, LedgerShape
  <2>2. RowShape(jobs[l.turn])'
    BY <1>1, <1>3, <1>5, <1>6, <2>1, LedgerAssumption DEF RowShape
  <2>3. ASSUME NEW u \in Turns, u # l.turn
        PROVE  RowShape(jobs[u])'
    BY <1>5, <1>6, <2>3 DEF IInv, LedgerShape, RowShape
  <2>. QED  BY <1>5, <1>6, <2>1, <2>2, <2>3 DEF IInv, LedgerShape
<1>9. LeaseShape'
  BY <1>1, <1>3, <1>5, <1>6 DEF IInv, TypeOK, Lease, LeaseShape
<1>10. AtMostOneExecution'
  BY <1>6 DEF IInv, AtMostOneExecution
<1>. QED  BY <1>7, <1>8, <1>9, <1>10 DEF IInv

LEMMA TickIInv ==
  ASSUME IInv, Tick \/ UNCHANGED vars
  PROVE  IInv'
<1>1. /\ UNCHANGED <<sessions, cursor, jobs, minted, events, leases, replies>>
      /\ clock' \in Nat
  BY DEF IInv, TypeOK, Tick, vars
<1>. QED  BY <1>1 DEF IInv, TypeOK, LedgerShape, RowShape, LeaseShape, AtMostOneExecution

----------------------------------------------------------------------------
(* The step, and the theorems. *)

LEMMA NextIInv == IInv /\ [Next]_vars => IInv'
<1> SUFFICES ASSUME IInv, [Next]_vars PROVE IInv'
  OBVIOUS
<1>1. ASSUME NEW s \in Sessions, CreateSession(s) \/ DeleteSession(s)
      PROVE  IInv'
  BY <1>1, CreateSessionIInv, DeleteSessionIInv
<1>2. ASSUME Submit PROVE IInv'
  BY <1>2, EnqueueNewIInv, EnqueueRetryIInv DEF Submit
<1>3. ASSUME Sweep PROVE IInv'
  BY <1>3, ReapExpiredIInv DEF Sweep
<1>4. ASSUME NEW w \in Workers, ClaimNext(w) PROVE IInv'
  BY <1>4, ClaimIInv DEF ClaimNext
<1>5. ASSUME NEW t \in Turns, Cancel(t) PROVE IInv'
  BY <1>5, CancelIInv
<1>6. ASSUME UnderLease PROVE IInv'
  BY <1>6, RenewIInv, CompleteIInv, FailIInv DEF UnderLease
<1>7. ASSUME Tick \/ UNCHANGED vars PROVE IInv'
  BY <1>7, TickIInv
<1>. QED  BY <1>1, <1>2, <1>3, <1>4, <1>5, <1>6, <1>7 DEF Next

(* The ledger keeps the types and the row and lease shapes of IInv, whatever *)
(* workers, callers and deletions do (all methods of the queue).             *)
THEOREM LedgerInvariant == Spec => []IInv
BY InitIInv, NextIInv, PTL DEF Spec

(* claim hands every turn to at most one worker, once.                       *)
THEOREM NoTurnRunsTwice == Spec => []AtMostOneExecution
<1>1. IInv => AtMostOneExecution
  BY DEF IInv
<1>. QED  BY <1>1, LedgerInvariant, PTL

LEMMA RevokedAreStale == IInv => RevokedLeaseIsStale
<1> SUFFICES ASSUME IInv, NEW l \in leases
             PROVE  /\ jobs[l.turn].status = "running" =>
                          /\ jobs[l.turn].owner = l.worker
                          /\ jobs[l.turn].fence = l.fence
                    /\ \/ jobs[l.turn].status = "cancelled"
                       \/ jobs[l.turn].result = "lease_expired_uncertain"
                       => jobs[l.turn].fence > l.fence
  BY DEF RevokedLeaseIsStale
<1>1. l.turn \in Turns /\ RowShape(jobs[l.turn])
  BY DEF IInv, TypeOK, Lease, LedgerShape
<1>2. /\ l.fence = 1
      /\ jobs[l.turn].status # "none" => jobs[l.turn].attempts = 1
      /\ jobs[l.turn].status = "running" => jobs[l.turn].owner = l.worker
  BY DEF IInv, LeaseShape
<1>. QED  BY <1>1, <1>2, LedgerAssumption DEF RowShape, NoJob

(* After cancel or the sweep ended a running turn, the lease its worker      *)
(* still holds carries an older fence than the row.                          *)
THEOREM RevocationFencesOut == Spec => []RevokedLeaseIsStale
<1>. QED  BY RevokedAreStale, LedgerInvariant, PTL

Final(t) == jobs[t].status \in Terminal => jobs'[t] \in {jobs[t], NoJob}

LEMMA TransitionFinal ==
  ASSUME IInv, NEW t \in Turns, NEW u \in Turns, NEW row,
         jobs[u].status \notin Terminal, Transition(u, row)
  PROVE  Final(t)
BY DEF IInv, TypeOK, Transition, Final

LEMMA ReapedFinal ==
  ASSUME NEW t \in Turns, NEW now, NEW batch, batch \subseteq Expired(now),
         jobs[t].status \in Terminal
  PROVE  Reaped(batch)[t] = jobs[t]
<1>1. t \notin batch
  BY DEF Expired, Terminal
<1>. QED  BY <1>1 DEF Reaped

LEMMA StepFinal ==
  ASSUME IInv, [Next]_vars, NEW t \in Turns
  PROVE  Final(t)
<1>1. ASSUME NEW s \in Sessions, CreateSession(s) \/ DeleteSession(s)
      PROVE  Final(t)
  BY <1>1 DEF Final, CreateSession, DeleteSession
<1>2. ASSUME Submit PROVE Final(t)
  <2>1. ASSUME NEW u \in Turns, NEW s \in Sessions, NEW k \in Keys,
               NEW p \in Payloads, EnqueueNew(u, s, k, p)
        PROVE  Final(t)
    <3>1. jobs[u].status \notin Terminal
      BY <2>1 DEF IInv, LedgerShape, EnqueueNew, Terminal
    <3>. QED  BY <2>1, <3>1, TransitionFinal DEF EnqueueNew
  <2>2. ASSUME NEW u \in Turns, NEW s \in Sessions, NEW k \in Keys,
               NEW p \in Payloads, EnqueueRetry(u, s, k, p)
        PROVE  Final(t)
    BY <2>2 DEF EnqueueRetry, Final
  <2>. QED  BY <1>2, <2>1, <2>2 DEF Submit
<1>3. ASSUME Sweep PROVE Final(t)
  BY <1>3, ReapedFinal DEF Sweep, ReapExpired, Final
<1>4. ASSUME NEW w \in Workers, ClaimNext(w) PROVE Final(t)
  <2> SUFFICES ASSUME NEW u \in Turns, NEW length \in LeaseLengths, NEW now,
                      NEW batch, NEW rank \in Ranks(batch), NEW count \in Counts,
                      Claim(w, u, length, batch, rank, count, now),
                      jobs[t].status \in Terminal
               PROVE  jobs'[t] = jobs[t]
    BY <1>4 DEF ClaimNext, Final
  <2>1. /\ batch \subseteq Expired(now)
        /\ Reaped(batch)[u].status = "queued"
        /\ \E row : jobs' = [Reaped(batch) EXCEPT ![u] = row]
    BY DEF Claim, Claimable
  <2>2. Reaped(batch)[t] = jobs[t]
    BY <2>1, ReapedFinal
  <2>3. t # u
    BY <2>1, <2>2 DEF Terminal
  <2>. QED  BY <2>1, <2>2, <2>3 DEF Reaped
<1>5. ASSUME NEW u \in Turns, Cancel(u) PROVE Final(t)
  BY <1>5, TransitionFinal DEF Cancel, Terminal
<1>6. ASSUME UnderLease PROVE Final(t)
  <2>1. ASSUME NEW l \in leases, NEW now, Holds(l, now)
        PROVE  l.turn \in Turns /\ jobs[l.turn].status \notin Terminal
    BY <2>1 DEF IInv, TypeOK, Lease, Holds, Terminal
  <2>2. ASSUME NEW l \in leases, NEW now, NEW length, Renew(l, length, now)
        PROVE  Final(t)
    BY <2>1, <2>2 DEF IInv, TypeOK, Renew, Final
  <2>3. ASSUME NEW l \in leases, NEW now, Complete(l, now) \/ Fail(l, now)
        PROVE  Final(t)
    BY <2>1, <2>3, TransitionFinal DEF Complete, Fail
  <2>. QED  BY <1>6, <2>2, <2>3 DEF UnderLease
<1>7. ASSUME Tick \/ UNCHANGED vars PROVE Final(t)
  BY <1>7 DEF Tick, vars, Final
<1>. QED  BY <1>1, <1>2, <1>3, <1>4, <1>5, <1>6, <1>7 DEF Next

(* Whichever of cancel, complete, fail and the sweep ends a turn first, no   *)
(* later operation of any worker or caller changes that outcome.             *)
THEOREM FirstOutcomeWins == Spec => OutcomeIsFinal
<1>1. IInv /\ [Next]_vars =>
        [\A t \in Turns :
           jobs[t].status \in Terminal => jobs'[t] \in {jobs[t], NoJob}]_vars
  BY StepFinal DEF Final
<1>. QED  BY <1>1, LedgerInvariant, PTL DEF Spec, OutcomeIsFinal

----------------------------------------------------------------------------
(* The strengthening.  A session that was never created has no cursor to go  *)
(* on from, and what was announced of a turn that is not over is no outcome. *)

UnusedCursors ==
  \A s \in Sessions : sessions[s] = "absent" => cursor[s] = 0

OpenTrails ==
  \A t \in Turns : jobs[t].status \in {"queued", "running"} =>
    \A e \in Trail(t) : e.state \in {"queued", "running"}

OutboxInv == IInv /\ OutboxTellsLedger /\ UnusedCursors /\ OpenTrails

(* A step in which the turns of a set move, each along one edge of their      *)
(* life, and e[t] announces the move of t: what enqueue, cancel, complete,   *)
(* fail, the sweep and claim have in common.                                *)
Announces(t, e) ==
  /\ e \in Event
  /\ e.turn = t /\ e.session = jobs'[t].session
  /\ e.state = jobs'[t].status /\ e.fence = jobs'[t].fence
  /\ sessions[e.session] = "live"
  /\ cursor[e.session] < e.seq /\ e.seq <= cursor'[e.session]

MovesOn(t) ==
  /\ <<jobs[t].status, jobs'[t].status>> \in L!Edges
  /\ jobs[t].status = "none" =>
       t \notin minted /\ jobs'[t].attempts = 0 /\ jobs'[t].fence = 0
  /\ jobs[t].status # "none" =>
       jobs'[t].session = jobs[t].session /\ jobs[t].fence <= jobs'[t].fence
  /\ jobs'[t].status = "running" => jobs'[t].attempts = 1
  /\ jobs'[t].status # "running" => jobs'[t].attempts = jobs[t].attempts

Stays(t) ==
  /\ jobs'[t].status = jobs[t].status /\ jobs'[t].session = jobs[t].session
  /\ jobs'[t].fence = jobs[t].fence /\ jobs'[t].attempts = jobs[t].attempts

NumbersGoOn(moved, e) ==
  /\ \A s \in Sessions : cursor[s] <= cursor'[s]
  /\ \A s \in Sessions : sessions[s] # "live" => cursor'[s] = cursor[s]
  /\ \A s \in Sessions : \A n \in (cursor[s] + 1)..cursor'[s] :
       \E t \in moved : e[t].session = s /\ e[t].seq = n
  /\ \A t, u \in moved :
       e[t].session = e[u].session /\ e[t].seq = e[u].seq => t = u

Moves(moved, e) ==
  /\ moved \subseteq Turns
  /\ sessions' = sessions /\ minted' = minted \cup moved
  /\ events' = events \cup {e[t] : t \in moved}
  /\ \A t \in moved : Announces(t, e[t]) /\ MovesOn(t)
  /\ \A t \in Turns \ moved : Stays(t)
  /\ NumbersGoOn(moved, e)

----------------------------------------------------------------------------
(* What the invariant says of one event.                                   *)

LEMMA EventFacts ==
  ASSUME OutboxInv, NEW e \in events
  PROVE  /\ e.session \in Sessions /\ e.seq \in Nat \ {0} /\ e.turn \in Turns
         /\ e.fence \in Nat
         /\ sessions[e.session] = "live" /\ e.seq <= cursor[e.session]
         /\ e.turn \in Rows /\ e.session = jobs[e.turn].session
<1>1. /\ e.session \in Sessions /\ e.seq \in Nat \ {0} /\ e.turn \in Turns
      /\ e.fence \in Nat
  BY DEF OutboxInv, IInv, TypeOK, Event
<1>2. sessions[e.session] = "live" /\ e.seq \in 1..cursor[e.session]
  BY <1>1 DEF OutboxInv, OutboxTellsLedger, CursorsAreDense
<1>3. e \in Trail(e.turn)
  BY DEF Trail
<1>4. e.turn \in Rows
  BY <1>1, <1>3 DEF OutboxInv, OutboxTellsLedger
<1>5. e.session = jobs[e.turn].session
  BY <1>1, <1>3, <1>4 DEF OutboxInv, OutboxTellsLedger, TrailTellsRow
<1>6. cursor[e.session] \in Nat
  BY <1>1 DEF OutboxInv, IInv, TypeOK
<1>. QED  BY <1>1, <1>2, <1>4, <1>5, <1>6

LEMMA RowFacts ==
  ASSUME IInv, NEW t \in Rows
  PROVE  /\ t \in Turns /\ jobs[t] \in Job /\ t \in minted
         /\ jobs[t].session \in Sessions /\ jobs[t].session # None
         /\ sessions[jobs[t].session] = "live"
         /\ jobs[t].fence \in Nat /\ jobs[t].attempts \in Nat
<1>1. t \in Turns /\ jobs[t].status # "none"
  BY DEF Rows
<1>2. jobs[t] \in Job
  BY <1>1 DEF IInv, TypeOK
<1>3. RowShape(jobs[t]) /\ t \in minted
  BY <1>1 DEF IInv, LedgerShape
<1>. QED  BY <1>1, <1>2, <1>3, LedgerAssumption DEF RowShape, Job

----------------------------------------------------------------------------
(* A step of that kind keeps the strengthened invariant.                   *)

LEMMA MovesKeepCursors ==
  ASSUME OutboxInv, IInv', NEW moved, NEW e, Moves(moved, e)
  PROVE  CursorsAreDense' /\ UnusedCursors'
<1>1. \A s \in Sessions : cursor[s] \in Nat /\ cursor'[s] \in Nat /\ cursor[s] <= cursor'[s]
  BY DEF OutboxInv, IInv, TypeOK, Moves, NumbersGoOn
<1>2. \A t \in moved : /\ e[t].session \in Sessions /\ e[t].seq \in Nat \ {0}
                       /\ sessions[e[t].session] = "live"
                       /\ cursor[e[t].session] < e[t].seq
                       /\ e[t].seq <= cursor'[e[t].session]
  BY DEF Moves, Announces, Event
<1>3. ASSUME NEW s \in Sessions
      PROVE  {f.seq : f \in {g \in events' : g.session = s}} =
               IF sessions'[s] = "live" THEN 1..cursor'[s] ELSE {}
  <2> DEFINE mine == {g \in events : g.session = s}
             new  == {g \in {e[t] : t \in moved} : g.session = s}
  <2>1. {g \in events' : g.session = s} = mine \cup new
    BY DEF Moves
  <2>2. {f.seq : f \in mine} = IF sessions[s] = "live" THEN 1..cursor[s] ELSE {}
    BY DEF OutboxInv, OutboxTellsLedger, CursorsAreDense
  <2>3. sessions' = sessions
    BY DEF Moves
  <2>4. CASE sessions[s] = "live"
    <3>1. \A f \in new : f.seq \in (cursor[s] + 1)..cursor'[s]
      BY <1>1, <1>2
    <3>2. \A n \in (cursor[s] + 1)..cursor'[s] : \E f \in new : f.seq = n
      BY DEF Moves, NumbersGoOn
    <3>3. {f.seq : f \in new} = (cursor[s] + 1)..cursor'[s]
      BY <3>1, <3>2
    <3>4. 1..cursor'[s] = (1..cursor[s]) \cup ((cursor[s] + 1)..cursor'[s])
      BY <1>1
    <3>5. {f.seq : f \in mine \cup new} = {f.seq : f \in mine} \cup {f.seq : f \in new}
      OBVIOUS
    <3>. QED  BY <2>1, <2>2, <2>3, <2>4, <3>3, <3>4, <3>5
  <2>5. CASE sessions[s] # "live"
    <3>1. new = {}
      BY <1>2, <2>5
    <3>. QED  BY <2>1, <2>2, <2>3, <2>5, <3>1
  <2>. QED  BY <2>4, <2>5
<1>4. ASSUME NEW f \in events', NEW g \in events', f.session = g.session,
             f.session \in Sessions, f.seq = g.seq
      PROVE  f = g
  <2>1. f \in events \cup {e[t] : t \in moved} /\ g \in events \cup {e[t] : t \in moved}
    BY DEF Moves
  <2>2. CASE f \in events /\ g \in events
    BY <1>4, <2>2 DEF OutboxInv, OutboxTellsLedger, CursorsAreDense
  <2>3. ASSUME NEW a \in events, NEW t \in moved, a.session = e[t].session
        PROVE  a.seq # e[t].seq
    <3>1. a.session \in Sessions /\ a.seq \in Nat /\ a.seq <= cursor[a.session]
      BY EventFacts
    <3>. QED  BY <1>1, <1>2, <2>3, <3>1
  <2>4. CASE f \notin events /\ g \notin events
    BY <1>4, <2>1, <2>4 DEF Moves, NumbersGoOn
  <2>. QED  BY <1>4, <2>1, <2>2, <2>3, <2>4
<1>5. CursorsAreDense'
  BY <1>3, <1>4 DEF CursorsAreDense
<1>6. UnusedCursors'
  BY DEF OutboxInv, UnusedCursors, Moves, NumbersGoOn
<1>. QED  BY <1>5, <1>6

LEMMA EdgeFacts ==
  ASSUME NEW a, NEW b, <<a, b>> \in L!Edges
  PROVE  /\ a \in {"none", "queued", "running"} /\ b # "none"
         /\ a = "none" <=> b = "queued"
         /\ b = "running" => a = "queued"
         /\ b # "queued" /\ b # "running" => b \in Terminal
BY DEF L!Edges, L!Terminal, Terminal

LEMMA MovedTrail ==
  ASSUME OutboxInv, NEW moved, NEW e, Moves(moved, e), NEW t \in moved
  PROVE  /\ t \in Rows' /\ TrailTellsRow(t)'
         /\ jobs'[t].status \in {"queued", "running"} =>
              \A f \in Trail(t)' : f.state \in {"queued", "running"}
<1> DEFINE a == e[t]
<1>1. /\ t \in Turns
      /\ a.turn = t /\ a.session = jobs'[t].session
      /\ a.state = jobs'[t].status /\ a.fence = jobs'[t].fence
      /\ cursor[a.session] < a.seq /\ a.session \in Sessions
      /\ a.seq \in Nat /\ a.fence \in Nat
  BY DEF Moves, Announces, Event
<1>2. /\ jobs[t].status \in {"none", "queued", "running"} /\ jobs'[t].status # "none"
      /\ jobs[t].status = "none" <=> jobs'[t].status = "queued"
      /\ jobs'[t].status = "running" => jobs[t].status = "queued"
  BY EdgeFacts DEF Moves, MovesOn
<1>3. Trail(t)' = Trail(t) \cup {a}
  BY DEF Moves, Announces, Trail
<1>4. t \in Rows'
  BY <1>1, <1>2 DEF Rows
<1> HIDE DEF a
<1>5. CASE jobs[t].status = "none"
  <2>1. Trail(t) = {}
    BY <1>1, <1>5 DEF OutboxInv, OutboxTellsLedger, Rows
  <2>2. Trail(t)' = {a}
    BY <1>3, <2>1
  <2>3. a.state = "queued" /\ a.fence = 0 /\ jobs'[t].attempts = 0
    BY <1>1, <1>2, <1>5 DEF Moves, MovesOn
  <2>4. TrailTellsRow(t)'
    BY <1>1, <2>2, <2>3 DEF TrailTellsRow
  <2>. QED  BY <1>4, <2>2, <2>3, <2>4
<1>6. CASE jobs[t].status # "none"
  <2>1. t \in Rows
    BY <1>1, <1>6 DEF Rows
  <2>2. TrailTellsRow(t)
    BY <1>1, <2>1 DEF OutboxInv, OutboxTellsLedger
  <2>3. \A f \in Trail(t) : f.state \in {"queued", "running"}
    BY <1>1, <1>2, <1>6 DEF OutboxInv, OpenTrails
  <2>4. a.session = jobs[t].session /\ jobs[t].fence <= a.fence
    BY <1>1, <1>6 DEF Moves, MovesOn
  <2>5. jobs[t].fence \in Nat
    BY <2>1, RowFacts DEF OutboxInv
  <2>6. ASSUME NEW f \in Trail(t)
        PROVE  /\ f.session = a.session /\ f.seq \in Nat /\ f.seq < a.seq
               /\ f.fence \in Nat /\ f.fence <= a.fence /\ f.state # a.state
    <3>1. f \in events /\ f.turn = t
      BY DEF Trail
    <3>2. f.session = a.session /\ f.seq \in Nat /\ f.seq <= cursor[f.session]
          /\ f.fence \in Nat
      BY <2>4, <3>1, EventFacts
    <3>3. cursor[a.session] \in Nat
      BY <1>1 DEF OutboxInv, IInv, TypeOK
    <3>4. f.seq < a.seq
      BY <1>1, <3>2, <3>3
    <3>5. f.fence <= a.fence
      <4>1. PICK g \in Trail(t) : g.fence = jobs[t].fence /\ f.fence <= g.fence
        BY <2>2 DEF TrailTellsRow
      <4>. QED  BY <1>1, <2>4, <2>5, <3>2, <4>1
    <3>6. f.state # a.state
      <4>1. a.state # "queued"
        BY <1>1, <1>2, <1>6
      <4>2. a.state = "running" => jobs[t].attempts # 1
        <5>1. a.state = "running" => jobs[t].status = "queued"
          BY <1>1, <1>2
        <5>2. jobs[t].status = "queued" => jobs[t].attempts = 0
          BY <1>1 DEF OutboxInv, IInv, LedgerShape, RowShape
        <5>. QED  BY <5>1, <5>2
      <4>3. f.state = "running" => jobs[t].attempts = 1
        BY <2>2 DEF TrailTellsRow
      <4>. QED  BY <2>3, <4>1, <4>2, <4>3
    <3>. QED  BY <3>2, <3>4, <3>5, <3>6
  <2>7. jobs'[t].attempts = 1 <=> \E f \in Trail(t)' : f.state = "running"
    <3>1. CASE jobs'[t].status = "running"
      BY <1>1, <1>3, <3>1 DEF Moves, MovesOn
    <3>2. CASE jobs'[t].status # "running"
      <4>1. jobs'[t].attempts = jobs[t].attempts
        BY <3>2 DEF Moves, MovesOn
      <4>2. jobs[t].attempts = 1 <=> \E f \in Trail(t) : f.state = "running"
        BY <2>2 DEF TrailTellsRow
      <4>. QED  BY <1>1, <1>3, <3>2, <4>1, <4>2
    <3>. QED  BY <3>1, <3>2
  <2>8. \E f \in Trail(t)' : f.state = "queued" /\ f.fence = 0
    BY <1>3, <2>2 DEF TrailTellsRow
  <2>9. \A f \in Trail(t)' : f.seq <= a.seq /\ f.fence <= a.fence
    BY <1>1, <1>3, <2>6
  <2>10. \A f, g \in Trail(t)' : f.state = g.state => f = g
    BY <1>3, <2>2, <2>6 DEF TrailTellsRow
  <2>11. \A f, g \in Trail(t)' : f.seq < g.seq => f.fence <= g.fence
    <3> SUFFICES ASSUME NEW f \in Trail(t) \cup {a}, NEW g \in Trail(t) \cup {a},
                        f.seq < g.seq
                 PROVE  f.fence <= g.fence
      BY <1>3
    <3>1. CASE f \in Trail(t) /\ g \in Trail(t)
      BY <2>2, <3>1 DEF TrailTellsRow
    <3>2. CASE f \in Trail(t) /\ g = a
      BY <2>6, <3>2
    <3>3. CASE f = a
      <4>1. g.seq \in Nat /\ g.seq <= a.seq
        BY <1>1, <2>6
      <4>. QED  BY <1>1, <3>3, <4>1
    <3>. QED  BY <3>1, <3>2, <3>3
  <2>12. \A f \in Trail(t)' : f.session = jobs'[t].session
    BY <1>1, <1>3, <2>6
  <2>13. \E f \in Trail(t)' :
           /\ f.state = jobs'[t].status /\ f.fence = jobs'[t].fence
           /\ \A g \in Trail(t)' : g.seq <= f.seq /\ g.fence <= f.fence
    BY <1>1, <1>3, <2>9
  <2>14. TrailTellsRow(t)'
    BY <2>7, <2>8, <2>10, <2>11, <2>12, <2>13 DEF TrailTellsRow
  <2>15. jobs'[t].status \in {"queued", "running"} =>
           \A f \in Trail(t)' : f.state \in {"queued", "running"}
    BY <1>1, <1>3, <2>3
  <2>. QED  BY <1>4, <2>14, <2>15
<1>. QED  BY <1>5, <1>6

LEMMA StayingTrail ==
  ASSUME OutboxInv, NEW t \in Turns, Stays(t), Trail(t)' = Trail(t)
  PROVE  /\ IF t \in Rows' THEN TrailTellsRow(t)' ELSE Trail(t)' = {}
         /\ jobs'[t].status \in {"queued", "running"} =>
              \A f \in Trail(t)' : f.state \in {"queued", "running"}
<1>1. t \in Rows' <=> t \in Rows
  BY DEF Rows, Stays
<1>2. TrailTellsRow(t) => TrailTellsRow(t)'
  BY DEF TrailTellsRow, Stays
<1>3. IF t \in Rows THEN TrailTellsRow(t) ELSE Trail(t) = {}
  BY DEF OutboxInv, OutboxTellsLedger
<1>4. jobs[t].status \in {"queued", "running"} =>
        \A f \in Trail(t) : f.state \in {"queued", "running"}
  BY DEF OutboxInv, OpenTrails
<1>. QED  BY <1>1, <1>2, <1>3, <1>4 DEF Stays

LEMMA MovesOutboxInv ==
  ASSUME OutboxInv, IInv', NEW moved, NEW e, Moves(moved, e)
  PROVE  OutboxInv'
<1>1. \A t \in Turns \ moved : Stays(t) /\ Trail(t)' = Trail(t)
  BY DEF Moves, Announces, Trail
<1>2. ASSUME NEW t \in Turns
      PROVE  /\ IF t \in Rows' THEN TrailTellsRow(t)' ELSE Trail(t)' = {}
             /\ jobs'[t].status \in {"queued", "running"} =>
                  \A f \in Trail(t)' : f.state \in {"queued", "running"}
  <2>1. CASE t \in moved
    BY <2>1, MovedTrail
  <2>2. CASE t \notin moved
    BY <1>1, <2>2, StayingTrail
  <2>. QED  BY <2>1, <2>2
<1>3. OutboxTellsLedger' /\ OpenTrails'
  BY <1>2, MovesKeepCursors DEF OutboxTellsLedger, OpenTrails
<1>. QED  BY <1>3, MovesKeepCursors DEF OutboxInv

----------------------------------------------------------------------------
(* Each operation is a step of that kind, or announces nothing.            *)

LEMMA TransitionMoves ==
  ASSUME OutboxInv, NEW t \in Turns, NEW row \in Job, Transition(t, row),
         row.session \in Sessions, sessions[row.session] = "live",
         sessions' = sessions, minted' = minted \cup {t},
         <<jobs[t].status, row.status>> \in L!Edges,
         jobs[t].status = "none" => t \notin minted /\ row.attempts = 0 /\ row.fence = 0,
         jobs[t].status # "none" =>
           row.session = jobs[t].session /\ jobs[t].fence <= row.fence,
         row.status = "running" => row.attempts = 1,
         row.status # "running" => row.attempts = jobs[t].attempts
  PROVE  Moves({t}, [u \in {t} |-> Entry(row, t, cursor[row.session] + 1)])
<1> DEFINE a == Entry(row, t, cursor[row.session] + 1)
           e == [u \in {t} |-> a]
<1>1. row.status # "none"
  BY EdgeFacts
<1>2. row.session # None /\ TypeOK
  BY LedgerAssumption DEF OutboxInv, IInv
<1>3. /\ jobs'[t] = row
      /\ \A u \in Turns : u # t => jobs'[u] = jobs[u]
  BY <1>1, <1>2, TransitionType
<1>4. \A s \in Sessions : cursor[s] \in Nat
                          /\ cursor'[s] = IF s = row.session THEN cursor[s] + 1 ELSE cursor[s]
  BY <1>2 DEF TypeOK, Transition
<1>5. a \in Event
  BY <1>1, <1>2, <1>4, EntryType
<1>6. /\ a.turn = t /\ a.session = row.session /\ a.state = row.status
      /\ a.fence = row.fence /\ a.seq = cursor[row.session] + 1
  BY DEF Entry
<1>7. events' = events \cup {e[u] : u \in {t}}
  BY DEF Transition
<1> HIDE DEF a
<1>8. Announces(t, e[t])
  BY <1>3, <1>4, <1>5, <1>6 DEF Announces
<1>9. MovesOn(t)
  BY <1>3 DEF MovesOn
<1>10. \A u \in Turns \ {t} : Stays(u)
  BY <1>3 DEF Stays
<1>11. NumbersGoOn({t}, e)
  <2>1. \A s \in Sessions : \A n \in (cursor[s] + 1)..cursor'[s] :
          \E u \in {t} : e[u].session = s /\ e[u].seq = n
    BY <1>4, <1>6
  <2>. QED  BY <1>4, <2>1 DEF NumbersGoOn
<1> HIDE DEF e
<1>12. Moves({t}, e)
  BY <1>7, <1>8, <1>9, <1>10, <1>11 DEF Moves
<1>. QED  BY <1>12 DEF e, a

LEMMA EnqueueNewMoves ==
  ASSUME OutboxInv, NEW t \in Turns, NEW s \in Sessions, NEW k \in Keys,
         NEW p \in Payloads, EnqueueNew(t, s, k, p)
  PROVE  \E e : Moves({t}, e)
<1> DEFINE row == [NoJob EXCEPT !.status = "queued", !.session = s,
                                !.key = k, !.payload = p]
<1>1. /\ row \in Job /\ row.status = "queued" /\ row.session = s
      /\ row.fence = 0 /\ row.attempts = 0
  BY DEF NoJob, Job, Statuses, Results
<1>2. Transition(t, row) /\ sessions[s] = "live" /\ t \notin minted
      /\ sessions' = sessions /\ minted' = minted \cup {t}
  BY DEF EnqueueNew
<1>3. jobs[t].status = "none" /\ jobs[t].attempts = 0
  BY <1>2 DEF OutboxInv, IInv, LedgerShape, RowShape, NoJob
<1>4. <<jobs[t].status, row.status>> \in L!Edges
  BY <1>1, <1>3 DEF L!Edges
<1> HIDE DEF row
<1>5. Moves({t}, [u \in {t} |-> Entry(row, t, cursor[row.session] + 1)])
  BY <1>1, <1>2, <1>3, <1>4, TransitionMoves
<1>. QED  BY <1>5

LEMMA EndMoves ==
  ASSUME OutboxInv, NEW t \in Turns, NEW status \in Terminal, NEW fence \in Nat,
         NEW result \in Results,
         jobs[t].status = "running" \/ (jobs[t].status = "queued" /\ status = "cancelled"),
         jobs[t].fence <= fence,
         Transition(t, Ended(jobs[t], status, fence, result)),
         sessions' = sessions, minted' = minted
  PROVE  \E e : Moves({t}, e)
<1> DEFINE row == Ended(jobs[t], status, fence, result)
<1>1. t \in Rows
  BY DEF Rows
<1>2. /\ jobs[t] \in Job /\ t \in minted /\ jobs[t].session \in Sessions
      /\ sessions[jobs[t].session] = "live"
  BY <1>1, RowFacts DEF OutboxInv
<1>3. status \in Statuses /\ status # "running"
  BY DEF Statuses, Terminal
<1>4. row \in Job
  BY <1>2, <1>3, EndedType
<1>5. /\ row.status = status /\ row.fence = fence
      /\ row.session = jobs[t].session /\ row.attempts = jobs[t].attempts
  BY <1>2 DEF Ended, Job
<1>6. Transition(t, row)
  OBVIOUS
<1>7. <<jobs[t].status, status>> \in L!Edges
  BY DEF L!Edges, L!Terminal, Terminal
<1>8. minted' = minted \cup {t}
  BY <1>2
<1> HIDE DEF row
<1>9. Moves({t}, [u \in {t} |-> Entry(row, t, cursor[row.session] + 1)])
  BY <1>2, <1>3, <1>4, <1>5, <1>6, <1>7, <1>8, TransitionMoves
<1>. QED  BY <1>9

LEMMA CancelMoves ==
  ASSUME OutboxInv, NEW t \in Turns, Cancel(t)
  PROVE  \E e : Moves({t}, e)
<1>1. jobs[t].fence \in Nat /\ jobs[t].fence + 1 \in Nat /\ jobs[t].fence <= jobs[t].fence + 1
  BY DEF OutboxInv, IInv, TypeOK, Job
<1>2. jobs[t].result \in Results /\ "cancelled" \in Terminal
  BY DEF OutboxInv, IInv, TypeOK, Job, Terminal
<1>3. jobs[t].status = "running" \/ jobs[t].status = "queued"
  BY DEF Cancel
<1>. QED  BY <1>1, <1>2, <1>3, EndMoves DEF Cancel

LEMMA PublishMoves ==
  ASSUME OutboxInv, NEW l \in leases, NEW now, Complete(l, now) \/ Fail(l, now)
  PROVE  \E e : Moves({l.turn}, e)
<1>1. l.turn \in Turns /\ l.fence \in Nat
  BY DEF OutboxInv, IInv, TypeOK, Lease
<1>2. jobs[l.turn].status = "running" /\ jobs[l.turn].fence <= l.fence
  BY <1>1 DEF Complete, Fail, Holds
<1>3. {"completed", "failed"} \subseteq Terminal /\ {"output", "worker_execution_failed"} \subseteq Results
  BY DEF Terminal, Results, Outcomes
<1>4. CASE Complete(l, now)
  BY <1>1, <1>2, <1>3, <1>4, EndMoves DEF Complete
<1>5. CASE Fail(l, now)
  BY <1>1, <1>2, <1>3, <1>5, EndMoves DEF Fail
<1>. QED  BY <1>4, <1>5

(* The numbers the sweep gives out.                                        *)
LEMMA SweepNumbers ==
  ASSUME OutboxInv, NEW now, NEW batch, batch \subseteq Expired(now),
         NEW rank \in Ranks(batch), NEW count \in Counts,
         Numbered(batch, rank, count)
  PROVE  /\ \A s \in Sessions : count[s] \in Nat /\ cursor[s] \in Nat
         /\ \A s \in Sessions : sessions[s] # "live" => count[s] = 0
         /\ \A t \in batch : /\ jobs[t].session \in Sessions
                             /\ rank[t] \in Nat /\ 1 <= rank[t]
                             /\ rank[t] <= count[jobs[t].session]
         /\ \A s \in Sessions : \A n \in (cursor[s] + 1)..(cursor[s] + count[s]) :
              \E t \in batch : jobs[t].session = s /\ cursor[s] + rank[t] = n
         /\ \A t, u \in batch :
              jobs[t].session = jobs[u].session /\ rank[t] = rank[u] => t = u
<1>1. \A s \in Sessions : count[s] \in Nat /\ cursor[s] \in Nat
  BY LedgerAssumption DEF OutboxInv, IInv, TypeOK, Counts
<1>2. \A t \in batch : t \in Rows
  BY DEF Expired, Rows
<1>3. \A t \in batch : jobs[t].session \in Sessions /\ sessions[jobs[t].session] = "live"
  BY <1>2, RowFacts DEF OutboxInv
<1>4. ASSUME NEW s \in Sessions
      PROVE  /\ {rank[t] : t \in {u \in batch : jobs[u].session = s}} = 1..count[s]
             /\ \A t, u \in batch : jobs[t].session = s /\ jobs[u].session = s
                                    /\ rank[t] = rank[u] => t = u
  BY DEF Numbered
<1>5. \A t \in batch : rank[t] \in 1..count[jobs[t].session]
  BY <1>3, <1>4
<1>6. \A s \in Sessions : sessions[s] # "live" => count[s] = 0
  <2> SUFFICES ASSUME NEW s \in Sessions, sessions[s] # "live" PROVE count[s] = 0
    OBVIOUS
  <2>1. {rank[t] : t \in {u \in batch : jobs[u].session = s}} = {}
    BY <1>3
  <2>2. 1..count[s] = {}
    BY <1>4, <2>1
  <2>. QED  BY <1>1, <2>2
<1>7. ASSUME NEW s \in Sessions, NEW n \in (cursor[s] + 1)..(cursor[s] + count[s])
      PROVE  \E t \in batch : jobs[t].session = s /\ cursor[s] + rank[t] = n
  <2>1. n - cursor[s] \in 1..count[s]
    BY <1>1, <1>7
  <2>2. PICK t \in {u \in batch : jobs[u].session = s} : rank[t] = n - cursor[s]
    BY <1>4, <2>1
  <2>. QED  BY <1>1, <1>7, <2>2
<1>8. \A t \in batch : rank[t] \in Nat /\ 1 <= rank[t] /\ rank[t] <= count[jobs[t].session]
  BY <1>1, <1>3, <1>5
<1>. QED  BY <1>1, <1>3, <1>4, <1>6, <1>7, <1>8

(* One row of the sweep.                                                   *)
LEMMA SweptRowMoves ==
  ASSUME OutboxInv, NEW now, NEW batch, batch \subseteq Expired(now),
         NEW rank \in Ranks(batch), NEW count \in Counts,
         Numbered(batch, rank, count), NEW t \in batch,
         jobs'[t] = Reaped(batch)[t],
         NEW s, s = jobs[t].session, cursor[s] + count[s] <= cursor'[s], cursor'[s] \in Nat
  PROVE  /\ Announces(t, Entry(Reaped(batch)[t], t, cursor[s] + rank[t]))
         /\ MovesOn(t)
<1> DEFINE a == Entry(Reaped(batch)[t], t, cursor[s] + rank[t])
<1>1. /\ t \in Turns /\ jobs[t].status = "running"
      /\ Reaped(batch)[t].status = "failed"
      /\ Reaped(batch)[t].session = jobs[t].session
      /\ jobs[t].attempts = 1 /\ Reaped(batch)[t].attempts = 1
      /\ Reaped(batch)[t].fence = 2
  BY ReapedRow DEF OutboxInv
<1>2. jobs[t].fence = 1
  BY <1>1 DEF OutboxInv, IInv, LedgerShape, RowShape
<1>3. t \in Rows
  BY <1>1 DEF Rows
<1>4. s \in Sessions /\ s # None /\ sessions[s] = "live"
  BY <1>3, RowFacts DEF OutboxInv
<1>5. /\ cursor[s] \in Nat /\ count[s] \in Nat
      /\ rank[t] \in Nat /\ 1 <= rank[t] /\ rank[t] <= count[s]
  BY <1>4, SweepNumbers
<1>6. cursor[s] + rank[t] \in Nat \ {0}
  BY <1>5
<1>7. Reaped(batch)[t] \in Job
  BY <1>1, ReapedType DEF OutboxInv, IInv
<1>8. a \in Event
  BY <1>1, <1>4, <1>6, <1>7, EntryType
<1>9. /\ a.turn = t /\ a.session = s /\ a.state = "failed" /\ a.fence = 2
      /\ a.seq = cursor[s] + rank[t]
  BY <1>1 DEF Entry
<1>10. cursor[s] < a.seq /\ a.seq <= cursor'[s]
  BY <1>5, <1>9
<1> HIDE DEF a
<1>11. Announces(t, a)
  BY <1>1, <1>4, <1>8, <1>9, <1>10 DEF Announces
<1>12. MovesOn(t)
  <2>1. <<jobs[t].status, jobs'[t].status>> \in L!Edges
    BY <1>1 DEF L!Edges, L!Terminal
  <2>. QED  BY <1>1, <1>2, <2>1 DEF MovesOn
<1>. QED  BY <1>11, <1>12 DEF a

LEMMA ReapedStays ==
  ASSUME NEW batch, NEW t \in Turns, t \notin batch, jobs'[t] = Reaped(batch)[t]
  PROVE  Stays(t)
BY DEF Reaped, Stays

LEMMA SweepMoves ==
  ASSUME OutboxInv, NEW now, NEW batch, NEW rank \in Ranks(batch),
         NEW count \in Counts, ReapExpired(batch, rank, count, now)
  PROVE  \E e : Moves(batch, e)
<1>1. /\ batch \subseteq Expired(now) /\ Numbered(batch, rank, count)
      /\ jobs' = Reaped(batch)
      /\ cursor' = [s \in Sessions |-> cursor[s] + count[s]]
      /\ events' = events \cup ReapedEvents(batch, rank)
      /\ sessions' = sessions /\ minted' = minted
  BY DEF ReapExpired
<1> DEFINE e == [t \in batch |->
                   Entry(Reaped(batch)[t], t, cursor[jobs[t].session] + rank[t])]
<1>2. batch \subseteq Turns /\ batch \subseteq minted
  <2>1. \A t \in batch : t \in Rows
    BY <1>1 DEF Expired, Rows
  <2>. QED  BY <2>1, RowFacts DEF OutboxInv
<1>3. /\ \A s \in Sessions : count[s] \in Nat /\ cursor[s] \in Nat
      /\ \A s \in Sessions : sessions[s] # "live" => count[s] = 0
      /\ \A t \in batch : jobs[t].session \in Sessions /\ rank[t] \in Nat
      /\ \A s \in Sessions : \A n \in (cursor[s] + 1)..(cursor[s] + count[s]) :
           \E t \in batch : jobs[t].session = s /\ cursor[s] + rank[t] = n
      /\ \A t, u \in batch :
           jobs[t].session = jobs[u].session /\ rank[t] = rank[u] => t = u
  BY <1>1, SweepNumbers
<1>4. \A s \in Sessions : cursor'[s] = cursor[s] + count[s] /\ cursor'[s] \in Nat
                          /\ cursor[s] <= cursor'[s]
  BY <1>1, <1>3
<1>5. events' = events \cup {e[t] : t \in batch}
  BY <1>1 DEF ReapedEvents
<1>6. ASSUME NEW t \in batch
      PROVE  Announces(t, e[t]) /\ MovesOn(t)
  <2>1. jobs'[t] = Reaped(batch)[t]
    BY <1>1
  <2>2. jobs[t].session \in Sessions
    BY <1>3
  <2>3. /\ cursor[jobs[t].session] + count[jobs[t].session] <= cursor'[jobs[t].session]
        /\ cursor'[jobs[t].session] \in Nat
    BY <1>4, <2>2
  <2>4. e[t] = Entry(Reaped(batch)[t], t, cursor[jobs[t].session] + rank[t])
    OBVIOUS
  <2> HIDE DEF e
  <2>. QED  BY <1>1, <2>1, <2>3, <2>4, SweptRowMoves
<1>7. \A t \in Turns \ batch : Stays(t)
  BY <1>1, ReapedStays
<1>8. \A t \in batch : /\ e[t].session = jobs[t].session
                       /\ e[t].seq = cursor[jobs[t].session] + rank[t]
  BY <1>1, ReapedRow DEF Entry, OutboxInv
<1> HIDE DEF e
<1>9. NumbersGoOn(batch, e)
  <2>1. \A s \in Sessions : sessions[s] # "live" => cursor'[s] = cursor[s]
    BY <1>3, <1>4
  <2>2. \A s \in Sessions : \A n \in (cursor[s] + 1)..cursor'[s] :
          \E t \in batch : e[t].session = s /\ e[t].seq = n
    BY <1>3, <1>4, <1>8
  <2>3. \A t, u \in batch :
          e[t].session = e[u].session /\ e[t].seq = e[u].seq => t = u
    BY <1>3, <1>8
  <2>. QED  BY <1>4, <2>1, <2>2, <2>3 DEF NumbersGoOn
<1>10. minted' = minted \cup batch
  BY <1>1, <1>2
<1>. QED  BY <1>1, <1>2, <1>5, <1>6, <1>7, <1>9, <1>10 DEF Moves

LEMMA ClaimMoves ==
  ASSUME OutboxInv, NEW w \in Workers, NEW t \in Turns, NEW length \in LeaseLengths,
         NEW now, NEW batch, NEW rank \in Ranks(batch), NEW count \in Counts,
         Claim(w, t, length, batch, rank, count, now)
  PROVE  \E e : Moves(batch \cup {t}, e)
<1> DEFINE row == Leased(jobs[t], w, now + length)
           s   == jobs[t].session
           at  == cursor[s] + count[s] + 1
           a   == Entry(row, t, at)
           e   == [u \in batch \cup {t} |->
                     IF u = t THEN a
                     ELSE Entry(Reaped(batch)[u], u, cursor[jobs[u].session] + rank[u])]
<1>1. /\ batch \subseteq Expired(now) /\ Numbered(batch, rank, count)
      /\ Reaped(batch)[t].status = "queued"
      /\ sessions' = sessions /\ minted' = minted
  BY DEF Claim, Claimable
<1>2. jobs[t].status = "queued" /\ jobs[t].fence = 0 /\ jobs[t].attempts = 0
  BY <1>1, ReapedShape DEF OutboxInv, IInv, LedgerShape, RowShape
<1>3. t \in Rows
  BY <1>2 DEF Rows
<1>4. /\ jobs[t] \in Job /\ t \in minted /\ s \in Sessions /\ s # None
      /\ sessions[s] = "live"
  BY <1>3, RowFacts DEF OutboxInv
<1>5. now + length \in Nat
  BY LedgerAssumption DEF OutboxInv, IInv, TypeOK, Claim, TxnTime
<1>6. row \in Job
  BY <1>4, <1>5, LeasedType
<1>7. /\ row.status = "running" /\ row.session = s /\ row.fence = 1 /\ row.attempts = 1
  BY <1>2, <1>4 DEF Leased, Job
<1>8. /\ jobs' = [Reaped(batch) EXCEPT ![t] = row]
      /\ cursor' = [r \in Sessions |-> cursor[r] + count[r] + IF r = s THEN 1 ELSE 0]
      /\ events' = events \cup ReapedEvents(batch, rank) \cup {a}
  BY <1>7 DEF Claim
<1> HIDE DEF row
<1>9. t \notin batch /\ batch \subseteq Turns /\ batch \subseteq minted
  <2>1. \A u \in batch : u \in Rows /\ u # t
    BY <1>1, <1>2 DEF Expired, Rows
  <2>. QED  BY <2>1, RowFacts DEF OutboxInv
<1>10. Reaped(batch) \in [Turns -> Job]
  BY ReapedType DEF OutboxInv, IInv
<1>11. jobs'[t] = row /\ \A u \in Turns : u # t => jobs'[u] = Reaped(batch)[u]
  BY <1>8, <1>10
<1>12. /\ \A r \in Sessions : count[r] \in Nat /\ cursor[r] \in Nat
       /\ \A r \in Sessions : sessions[r] # "live" => count[r] = 0
       /\ \A u \in batch : /\ jobs[u].session \in Sessions /\ rank[u] \in Nat
                           /\ rank[u] <= count[jobs[u].session]
       /\ \A r \in Sessions : \A n \in (cursor[r] + 1)..(cursor[r] + count[r]) :
            \E u \in batch : jobs[u].session = r /\ cursor[r] + rank[u] = n
       /\ \A u, v \in batch :
            jobs[u].session = jobs[v].session /\ rank[u] = rank[v] => u = v
  BY <1>1, SweepNumbers
<1>13. \A r \in Sessions : /\ cursor'[r] = IF r = s THEN at ELSE cursor[r] + count[r]
                           /\ cursor'[r] \in Nat
                           /\ cursor[r] + count[r] <= cursor'[r]
                           /\ cursor[r] <= cursor'[r]
  BY <1>8, <1>12
<1>14. a \in Event
  <2>1. at \in Nat \ {0}
    BY <1>4, <1>12
  <2>. QED  BY <1>4, <1>6, <1>7, <2>1, EntryType
<1>15. /\ a.turn = t /\ a.session = s /\ a.state = "running" /\ a.fence = 1 /\ a.seq = at
  BY <1>7 DEF Entry
<1>16. Announces(t, a) /\ MovesOn(t)
  <2>1. cursor[s] < at /\ at <= cursor'[s]
    BY <1>4, <1>12, <1>13
  <2>2. Announces(t, a)
    BY <1>4, <1>7, <1>11, <1>14, <1>15, <2>1 DEF Announces
  <2>3. <<jobs[t].status, jobs'[t].status>> \in L!Edges
    BY <1>2, <1>7, <1>11 DEF L!Edges
  <2>4. MovesOn(t)
    BY <1>2, <1>7, <1>11, <2>3 DEF MovesOn
  <2>. QED  BY <2>2, <2>4
<1>17. \A u \in batch : /\ e[u] = Entry(Reaped(batch)[u], u, cursor[jobs[u].session] + rank[u])
                        /\ e[u].session = jobs[u].session
                        /\ e[u].seq = cursor[jobs[u].session] + rank[u]
  BY <1>1, <1>9, ReapedRow DEF Entry, OutboxInv
<1>18. e[t] = a
  OBVIOUS
<1>19. events' = events \cup {e[u] : u \in batch \cup {t}}
  <2>1. {e[u] : u \in batch \cup {t}} = {e[u] : u \in batch} \cup {a}
    BY <1>18
  <2>2. {e[u] : u \in batch} = ReapedEvents(batch, rank)
    BY <1>17 DEF ReapedEvents
  <2>. QED  BY <1>8, <2>1, <2>2
<1> HIDE DEF e, a
<1>20. ASSUME NEW u \in batch
       PROVE  Announces(u, e[u]) /\ MovesOn(u)
  <2>1. jobs'[u] = Reaped(batch)[u]
    BY <1>9, <1>11
  <2>2. /\ cursor[jobs[u].session] + count[jobs[u].session] <= cursor'[jobs[u].session]
        /\ cursor'[jobs[u].session] \in Nat
    BY <1>12, <1>13
  <2>3. e[u] = Entry(Reaped(batch)[u], u, cursor[jobs[u].session] + rank[u])
    BY <1>17
  <2>. QED  BY <1>1, <2>1, <2>2, <2>3, SweptRowMoves
<1>21. \A u \in Turns \ (batch \cup {t}) : Stays(u)
  BY <1>11, ReapedStays
<1>22. NumbersGoOn(batch \cup {t}, e)
  <2>1. \A r \in Sessions : sessions[r] # "live" => cursor'[r] = cursor[r]
    BY <1>4, <1>12, <1>13
  <2>2. ASSUME NEW r \in Sessions, NEW n \in (cursor[r] + 1)..cursor'[r]
        PROVE  \E u \in batch \cup {t} : e[u].session = r /\ e[u].seq = n
    <3>1. CASE n \in (cursor[r] + 1)..(cursor[r] + count[r])
      BY <1>12, <1>17, <3>1
    <3>2. CASE n \notin (cursor[r] + 1)..(cursor[r] + count[r])
      <4>1. r = s /\ n = at
        BY <1>12, <1>13, <2>2, <3>2
      <4>. QED  BY <1>15, <1>18, <4>1
    <3>. QED  BY <3>1, <3>2
  <2>3. ASSUME NEW u \in batch PROVE e[u].session = e[t].session => e[u].seq # e[t].seq
    <3>1. jobs[u].session = s => cursor[s] + rank[u] # at
      BY <1>4, <1>12
    <3>. QED  BY <1>15, <1>17, <1>18, <3>1
  <2>4. \A u, v \in batch :
          e[u].session = e[v].session /\ e[u].seq = e[v].seq => u = v
    BY <1>12, <1>17
  <2>5. \A u, v \in batch \cup {t} :
          e[u].session = e[v].session /\ e[u].seq = e[v].seq => u = v
    BY <2>3, <2>4
  <2>. QED  BY <1>13, <2>1, <2>2, <2>5 DEF NumbersGoOn
<1>23. minted' = minted \cup (batch \cup {t})
  BY <1>1, <1>4, <1>9
<1>. QED  BY <1>1, <1>9, <1>16, <1>18, <1>19, <1>20, <1>21, <1>22, <1>23 DEF Moves

(* A retry finds its turn announced, and says nothing again.               *)
LEMMA RetryIsSilent ==
  ASSUME OutboxInv, NEW t \in Turns, NEW s \in Sessions, NEW k \in Keys,
         NEW p \in Payloads, EnqueueRetry(t, s, k, p)
  PROVE  UNCHANGED <<sessions, cursor, jobs, minted, events, leases, clock>>
<1>1. t \in Rows
  BY DEF EnqueueRetry
<1>2. TrailTellsRow(t)
  BY <1>1 DEF OutboxInv, OutboxTellsLedger
<1>3. Announced(t)
  BY <1>2 DEF TrailTellsRow, Trail, Announced
<1>. QED  BY <1>3 DEF EnqueueRetry

(* Whatever is left of the life of a session goes when it is deleted.      *)
LEMMA DeletedRows ==
  ASSUME OutboxInv, NEW s \in Sessions, DeleteSession(s), NEW t \in Turns
  PROVE  /\ jobs[t].session = s => jobs'[t] = NoJob /\ Trail(t)' = {}
         /\ jobs[t].session # s => jobs'[t] = jobs[t] /\ Trail(t)' = Trail(t)
<1>1. jobs'[t] = IF jobs[t].session = s THEN NoJob ELSE jobs[t]
  BY DEF DeleteSession
<1>2. events' = {e \in events : e.session # s}
  BY DEF DeleteSession
<1>3. \A e \in Trail(t) : e.session = jobs[t].session
  BY EventFacts DEF Trail
<1>. QED  BY <1>1, <1>2, <1>3 DEF Trail

LEMMA DeleteOutboxInv ==
  ASSUME OutboxInv, IInv', NEW s \in Sessions, DeleteSession(s)
  PROVE  OutboxInv'
<1>1. /\ sessions[s] = "live"
      /\ sessions' = [sessions EXCEPT ![s] = "deleted"]
      /\ events' = {e \in events : e.session # s} /\ cursor' = cursor
  BY DEF DeleteSession
<1>2. ASSUME NEW t \in Turns
      PROVE  /\ IF t \in Rows' THEN TrailTellsRow(t)' ELSE Trail(t)' = {}
             /\ jobs'[t].status \in {"queued", "running"} =>
                  \A f \in Trail(t)' : f.state \in {"queued", "running"}
  <2>1. CASE jobs[t].session = s
    BY <2>1, DeletedRows DEF NoJob, Rows
  <2>2. CASE jobs[t].session # s
    <3>1. Stays(t) /\ Trail(t)' = Trail(t)
      BY <2>2, DeletedRows DEF Stays
    <3>. QED  BY <3>1, StayingTrail
  <2>. QED  BY <2>1, <2>2
<1>3. CursorsAreDense'
  <2> SUFFICES ASSUME NEW r \in Sessions
               PROVE  LET mine == {e \in events' : e.session = r}
                      IN /\ {e.seq : e \in mine} =
                              IF sessions'[r] = "live" THEN 1..cursor[r] ELSE {}
                         /\ \A e, f \in mine : e.seq = f.seq => e = f
    BY <1>1 DEF CursorsAreDense
  <2>1. sessions'[r] = IF r = s THEN "deleted" ELSE sessions[r]
    BY <1>1 DEF OutboxInv, IInv, TypeOK
  <2>2. CASE r = s
    BY <1>1, <2>1, <2>2
  <2>3. CASE r # s
    <3>1. {e \in events' : e.session = r} = {e \in events : e.session = r}
      BY <1>1, <2>3
    <3>2. LET mine == {e \in events : e.session = r}
          IN /\ {e.seq : e \in mine} = IF sessions[r] = "live" THEN 1..cursor[r] ELSE {}
             /\ \A e, f \in mine : e.seq = f.seq => e = f
      BY DEF OutboxInv, OutboxTellsLedger, CursorsAreDense
    <3>. QED  BY <2>1, <2>3, <3>1, <3>2
  <2>. QED  BY <2>2, <2>3
<1>4. UnusedCursors'
  BY <1>1 DEF OutboxInv, IInv, TypeOK, UnusedCursors
<1>. QED  BY <1>2, <1>3, <1>4 DEF OutboxInv, OutboxTellsLedger, OpenTrails

LEMMA CreateOutboxInv ==
  ASSUME OutboxInv, IInv', NEW s \in Sessions, CreateSession(s)
  PROVE  OutboxInv'
<1>1. /\ sessions[s] = "absent" /\ cursor[s] = 0
      /\ UNCHANGED <<cursor, jobs, events>>
      /\ \A r \in Sessions : sessions'[r] = IF r = s THEN "live" ELSE sessions[r]
  BY DEF CreateSession, OutboxInv, UnusedCursors, IInv, TypeOK
<1>2. ASSUME NEW r \in Sessions
      PROVE  (IF sessions'[r] = "live" THEN 1..cursor[r] ELSE {}) =
             (IF sessions[r] = "live" THEN 1..cursor[r] ELSE {})
  <2>1. CASE r = s
    <3>1. 1..0 = {}
      OBVIOUS
    <3>. QED  BY <1>1, <2>1, <3>1
  <2>2. CASE r # s
    BY <1>1, <2>2
  <2>. QED  BY <2>1, <2>2
<1>3. CursorsAreDense'
  BY <1>1, <1>2 DEF OutboxInv, OutboxTellsLedger, CursorsAreDense
<1>4. UnusedCursors'
  BY <1>1 DEF OutboxInv, UnusedCursors
<1>5. OutboxTellsLedger' /\ OpenTrails'
  BY <1>1, <1>3 DEF OutboxInv, OutboxTellsLedger, OpenTrails, TrailTellsRow, Trail, Rows
<1>. QED  BY <1>4, <1>5 DEF OutboxInv

(* Renewal and time: the outbox and what it is about stay as they are.      *)
LEMMA SameOutboxInv ==
  ASSUME OutboxInv, IInv', UNCHANGED <<sessions, cursor, events>>,
         \A t \in Turns : Stays(t)
  PROVE  OutboxInv'
<1>1. CursorsAreDense' /\ UnusedCursors'
  BY DEF OutboxInv, OutboxTellsLedger, CursorsAreDense, UnusedCursors
<1>2. \A t \in Turns : Trail(t)' = Trail(t)
  BY DEF Trail
<1>3. OutboxTellsLedger' /\ OpenTrails'
  BY <1>1, <1>2, StayingTrail DEF OutboxTellsLedger, OpenTrails
<1>. QED  BY <1>1, <1>3 DEF OutboxInv

LEMMA RenewStays ==
  ASSUME IInv, NEW l \in leases, NEW length \in LeaseLengths, NEW now,
         Renew(l, length, now)
  PROVE  /\ \A t \in Turns : Stays(t)
         /\ UNCHANGED <<sessions, cursor, minted, events, leases, replies, clock>>
<1>1. jobs' = [jobs EXCEPT ![l.turn].until = now + length]
      /\ UNCHANGED <<sessions, cursor, minted, events, leases, replies, clock>>
  BY DEF Renew
<1>2. l.turn \in Turns /\ jobs \in [Turns -> Job]
  BY DEF IInv, TypeOK, Lease
<1>3. \A t \in Turns : jobs'[t] = IF t = l.turn THEN [jobs[t] EXCEPT !.until = now + length]
                                  ELSE jobs[t]
  BY <1>1, <1>2
<1>4. \A t \in Turns : jobs[t] \in Job
  BY <1>2
<1>. QED  BY <1>1, <1>3, <1>4 DEF Stays, Job

(* The steps of the ledger, as far as its outbox goes.                      *)
LEMMA StepCases ==
  ASSUME OutboxInv, [Next]_vars
  PROVE  \/ \E moved, e : Moves(moved, e)
         \/ \E s \in Sessions : CreateSession(s) \/ DeleteSession(s)
         \/ UNCHANGED <<sessions, cursor, minted, events>> /\ \A t \in Turns : Stays(t)
<1>1. ASSUME Submit
      PROVE  \/ \E moved, e : Moves(moved, e)
             \/ UNCHANGED <<sessions, cursor, minted, events>> /\ \A t \in Turns : Stays(t)
  BY <1>1, EnqueueNewMoves, RetryIsSilent DEF Submit, Stays
<1>2. ASSUME Sweep PROVE \E moved, e : Moves(moved, e)
  BY <1>2, SweepMoves DEF Sweep
<1>3. ASSUME NEW w \in Workers, ClaimNext(w) PROVE \E moved, e : Moves(moved, e)
  BY <1>3, ClaimMoves DEF ClaimNext
<1>4. ASSUME NEW t \in Turns, Cancel(t) PROVE \E moved, e : Moves(moved, e)
  BY <1>4, CancelMoves
<1>5. ASSUME UnderLease
      PROVE  \/ \E moved, e : Moves(moved, e)
             \/ UNCHANGED <<sessions, cursor, minted, events>> /\ \A t \in Turns : Stays(t)
  BY <1>5, RenewStays, PublishMoves DEF UnderLease, OutboxInv
<1>6. ASSUME Tick \/ UNCHANGED vars
      PROVE  UNCHANGED <<sessions, cursor, minted, events>> /\ \A t \in Turns : Stays(t)
  BY <1>6 DEF Tick, vars, Stays
<1>. QED  BY <1>1, <1>2, <1>3, <1>4, <1>5, <1>6 DEF Next

LEMMA InitOutboxInv == Init => OutboxInv
<1> SUFFICES ASSUME Init PROVE OutboxInv
  OBVIOUS
<1>1. IInv
  BY InitIInv
<1>2. \A t \in Turns : Trail(t) = {} /\ t \notin Rows
  BY DEF Init, Trail, Rows, NoJob
<1>3. CursorsAreDense
  BY DEF Init, CursorsAreDense
<1>. QED  BY <1>1, <1>2, <1>3 DEF Init, OutboxInv, OutboxTellsLedger, UnusedCursors, OpenTrails

LEMMA NextOutboxInv == OutboxInv /\ [Next]_vars => OutboxInv'
<1> SUFFICES ASSUME OutboxInv, [Next]_vars PROVE OutboxInv'
  OBVIOUS
<1>1. IInv'
  BY NextIInv DEF OutboxInv
<1>. QED  BY <1>1, StepCases, MovesOutboxInv, CreateOutboxInv, DeleteOutboxInv, SameOutboxInv

LEMMA OutboxInvariant == Spec => []OutboxInv
BY InitOutboxInv, NextOutboxInv, PTL DEF Spec

(* Whoever replays the outbox of a session rebuilds the ledger: cursors run   *)
(* from 1 without a gap or a double, and a turn is announced once per state  *)
(* of its life, the newest being that of its row (_event and every caller).  *)
THEOREM OutboxRebuildsLedger == Spec => []OutboxTellsLedger
<1>1. OutboxInv => OutboxTellsLedger
  BY DEF OutboxInv
<1>. QED  BY <1>1, OutboxInvariant, PTL

----------------------------------------------------------------------------
(* The ledger as its observers see it: every step is a move of some turns,   *)
(* each announced once, a session that goes, or nothing they could tell.     *)

Told(e) == [session |-> e.session, seq |-> e.seq, turn |-> e.turn, state |-> e.state]

Phase == [t \in Turns |-> jobs[t].status]
Feed == {[session |-> e.session, seq |-> e.seq,
          turn |-> e.turn, state |-> e.state] : e \in events}

LEMMA MovesAreMoves ==
  ASSUME OutboxInv, OutboxInv', NEW moved, NEW e, Moves(moved, e)
  PROVE  L!Move(moved)
<1> DEFINE a(t) == Told(e[t])
<1>0. Feed = {Told(f) : f \in events} /\ Feed' = {Told(f) : f \in events'}
  BY DEF Feed, Told
<1>1. /\ moved \subseteq Turns /\ minted' = minted \cup moved
      /\ events' = events \cup {e[t] : t \in moved}
      /\ \A t \in moved : Announces(t, e[t]) /\ MovesOn(t)
      /\ \A t \in Turns \ moved : Stays(t)
  BY DEF Moves
<1>2. \A t \in Turns : Phase[t] = jobs[t].status /\ Phase'[t] = jobs'[t].status
  BY DEF Phase
<1>3. \A t \in Turns : IF t \in moved THEN <<Phase[t], Phase'[t]>> \in L!Edges
                       ELSE Phase'[t] = Phase[t]
  BY <1>1, <1>2 DEF MovesOn, Stays
<1>4. Phase' \in [Turns -> L!Phases]
  <2>1. \A t \in Turns : jobs'[t].status \in L!Phases
    BY DEF OutboxInv, IInv, TypeOK, Job, Statuses, Terminal, L!Phases, L!Terminal
  <2>. QED  BY <2>1 DEF Phase
<1>5. \A t \in moved : Phase[t] = "none" => t \notin minted
  BY <1>1, <1>2 DEF MovesOn
<1>6. Feed' = Feed \cup {a(t) : t \in moved}
  BY <1>0, <1>1
<1>7. ASSUME NEW t \in moved
      PROVE  /\ a(t).turn = t /\ a(t).state = jobs'[t].status
             /\ a(t).session \in Sessions /\ a(t).seq = e[t].seq
             /\ a(t).session = e[t].session
             /\ a(t).seq \in Nat /\ cursor[a(t).session] < a(t).seq
             /\ a(t).seq <= cursor'[a(t).session]
  BY <1>1 DEF Announces, Event, Told
<1>8. ASSUME NEW b \in Feed
      PROVE  /\ b.session \in Sessions /\ b.seq \in Nat /\ b.seq <= cursor[b.session]
  <2>1. PICK f \in events : b = Told(f)
    BY <1>0
  <2>2. b.session = f.session /\ b.seq = f.seq
    BY <2>1 DEF Told
  <2>. QED  BY <2>2, EventFacts
<1>9. \A s \in Sessions : cursor[s] \in Nat /\ cursor'[s] \in Nat
  BY DEF OutboxInv, IInv, TypeOK
<1> HIDE DEF a
<1>10. \A t \in moved : a(t) \notin Feed
  BY <1>7, <1>8, <1>9
<1>11. Feed' \ Feed = {a(t) : t \in moved}
  BY <1>6, <1>10
<1>12. \A t \in moved : a(t) \in Feed' \ Feed /\ a(t).turn = t /\ a(t).state = Phase'[t]
                        /\ \A b \in Feed' : b.turn = t /\ b # a(t) => b \in Feed
  BY <1>1, <1>2, <1>6, <1>7, <1>11
<1>13. ASSUME NEW t \in moved
       PROVE  /\ a(t).turn \in moved
              /\ \A b \in Feed : b.session = a(t).session => b.seq < a(t).seq
              /\ \A b \in Feed' : b.session = a(t).session /\ b.seq = a(t).seq => a(t) = b
              /\ a(t).seq = 1 \/ \E b \in Feed' : b.session = a(t).session /\ b.seq + 1 = a(t).seq
  <2>1. ASSUME NEW b \in Feed, b.session = a(t).session PROVE b.seq < a(t).seq
    BY <1>7, <1>8, <1>9, <2>1
  <2>2. ASSUME NEW b \in Feed', b.session = a(t).session, b.seq = a(t).seq
        PROVE  a(t) = b
    <3>1. CASE b \in Feed
      BY <1>7, <1>8, <2>1, <2>2, <3>1
    <3>2. CASE b \notin Feed
      <4>1. PICK u \in moved : b = a(u)
        BY <1>6, <2>2, <3>2
      <4>2. e[u].session = e[t].session /\ e[u].seq = e[t].seq
        BY <1>7, <2>2, <4>1
      <4>3. u = t
        BY <4>2 DEF Moves, NumbersGoOn
      <4>. QED  BY <4>1, <4>3
    <3>. QED  BY <3>1, <3>2
  <2>3. ASSUME a(t).seq # 1
        PROVE  \E b \in Feed' : b.session = a(t).session /\ b.seq + 1 = a(t).seq
    <3> DEFINE s == a(t).session
               n == a(t).seq - 1
    <3>1. s \in Sessions /\ n \in 1..cursor'[s] /\ n + 1 = a(t).seq
      BY <1>7, <1>9, <2>3
    <3>2. sessions'[s] = "live"
      BY <1>1, <1>7 DEF Announces, Moves
    <3>3. {f.seq : f \in {g \in events' : g.session = s}} = 1..cursor'[s]
      BY <3>1, <3>2 DEF OutboxInv, OutboxTellsLedger, CursorsAreDense
    <3>4. PICK f \in events' : f.session = s /\ f.seq = n
      BY <3>1, <3>3
    <3>5. Told(f) \in Feed' /\ Told(f).session = s /\ Told(f).seq = n
      BY <1>0, <3>4 DEF Told
    <3>. QED  BY <3>1, <3>5
  <2>. QED  BY <1>7, <2>1, <2>2, <2>3
<1>14. \A b \in Feed' \ Feed :
         /\ b.turn \in moved
         /\ \A c \in Feed : c.session = b.session => c.seq < b.seq
         /\ \A c \in Feed' : c.session = b.session /\ c.seq = b.seq => b = c
         /\ b.seq = 1 \/ \E c \in Feed' : c.session = b.session /\ c.seq + 1 = b.seq
  BY <1>11, <1>13
<1>15. \A t \in moved : \E b \in Feed' \ Feed :
         b.turn = t /\ b.state = Phase'[t] /\ \A c \in Feed' : c.turn = t /\ c # b => c \in Feed
  BY <1>12
<1>16. Feed \subseteq Feed'
  BY <1>6
<1>17. \A t \in Turns : IF t \in moved THEN <<Phase[t], Phase'[t]>> \in L!Edges
                        ELSE Phase'[t] = Phase[t]
  BY <1>3
<1>18. minted' = minted \cup moved
  BY <1>1
<1>. QED  BY <1>4, <1>5, <1>14, <1>15, <1>16, <1>17, <1>18, ZenonT(60) DEF L!Move, Phase, Feed

LEMMA DeleteIsDrop ==
  ASSUME OutboxInv, NEW s \in Sessions, DeleteSession(s)
  PROVE  L!Next
<1> SUFFICES ASSUME NEW gone \in SUBSET Turns, gone = {t \in Turns : jobs[t].session = s}
             PROVE  L!Next
  OBVIOUS
<1>1. \A t \in Turns : jobs'[t].status = IF t \in gone THEN "none" ELSE jobs[t].status
  BY DEF DeleteSession, NoJob
<1>2. Phase' = [t \in Turns |-> IF t \in gone THEN "none" ELSE Phase[t]]
  BY <1>1 DEF Phase
<1>3. Feed' = {a \in Feed : a.session # s}
  BY DEF DeleteSession, Feed
<1>4. \A a \in Feed : a.turn \in gone => a.session = s
  BY EventFacts DEF Feed
<1>5. minted' = minted
  BY DEF DeleteSession
<1>6. L!Drop(s, gone)
  BY <1>2, <1>3, <1>4, <1>5 DEF L!Drop, Phase, Feed
<1>. QED  BY <1>6 DEF L!Next

LEMMA SameIsStutter ==
  ASSUME UNCHANGED <<minted, events>>, \A t \in Turns : jobs'[t].status = jobs[t].status
  PROVE  UNCHANGED L!vars
BY DEF L!vars

LEMMA InitLifecycle == Init => L!Init
BY DEF Init, L!Init, NoJob

LEMMA NextLifecycle == OutboxInv /\ OutboxInv' /\ [Next]_vars => [L!Next]_(L!vars)
<1> SUFFICES ASSUME OutboxInv, OutboxInv', [Next]_vars PROVE [L!Next]_(L!vars)
  OBVIOUS
<1>1. ASSUME NEW moved, NEW e, Moves(moved, e) PROVE L!Next
  BY <1>1, MovesAreMoves DEF L!Next, Moves
<1>2. ASSUME NEW s \in Sessions, CreateSession(s) PROVE UNCHANGED L!vars
  BY <1>2, SameIsStutter DEF CreateSession
<1>3. ASSUME UNCHANGED <<sessions, cursor, minted, events>>, \A t \in Turns : Stays(t)
      PROVE  UNCHANGED L!vars
  BY <1>3, SameIsStutter DEF Stays
<1>. QED  BY <1>1, <1>2, <1>3, StepCases, DeleteIsDrop

(* The ledger implements TurnLifecycle: whatever workers, sweeps, retries and *)
(* cancels do, an observer sees turns walk once along the edges of their life *)
(* and every phase announced once, in the step that enters it.               *)
THEOREM LedgerImplementsLifecycle == Spec => ImplementsLifecycle
<1>1. OutboxInv /\ [Next]_vars => [L!Next]_(L!vars)
  BY NextLifecycle, NextOutboxInv
<1>. QED  BY <1>1, InitLifecycle, OutboxInvariant, PTL DEF Spec, ImplementsLifecycle, L!Spec

----------------------------------------------------------------------------
(* What enqueue answered.  One key names one row, and a turn that was         *)
(* answered was inserted.                                                   *)

KeysAreUnique == \A t, u \in Rows : jobs[t].key = jobs[u].key => t = u
RepliesAreMinted == \A r \in replies : r.turn \in minted
RepliesMatch ==
  \A r \in replies : r.turn \in Rows =>
    /\ jobs[r.turn].session = r.session /\ jobs[r.turn].key = r.key
    /\ jobs[r.turn].payload = r.payload

RepliesInv == IInv /\ KeysAreUnique /\ RepliesAreMinted /\ RepliesMatch

LEMMA RepliesInvImplies == RepliesInv => RepliesStayTrue
BY DEF RepliesInv, KeysAreUnique, RepliesMatch, RepliesStayTrue

(* A step after which every row is as it was, in these columns, or is gone.   *)
Remains(t) ==
  \/ jobs'[t].status = "none"
  \/ /\ t \in Rows /\ jobs'[t].session = jobs[t].session
     /\ jobs'[t].key = jobs[t].key /\ jobs'[t].payload = jobs[t].payload

LEMMA RemainsRepliesInv ==
  ASSUME RepliesInv, IInv', \A t \in Turns : Remains(t), minted' = minted,
         replies' = replies
  PROVE  RepliesInv'
<1>1. \A t \in Rows' : /\ t \in Rows /\ jobs'[t].session = jobs[t].session
                       /\ jobs'[t].key = jobs[t].key /\ jobs'[t].payload = jobs[t].payload
  BY DEF Rows, Remains
<1>. QED  BY <1>1 DEF RepliesInv, KeysAreUnique, RepliesAreMinted, RepliesMatch

LEMMA EnqueueNewRepliesInv ==
  ASSUME RepliesInv, IInv', NEW t \in Turns, NEW s \in Sessions, NEW k \in Keys,
         NEW p \in Payloads, EnqueueNew(t, s, k, p)
  PROVE  RepliesInv'
<1> DEFINE row == [NoJob EXCEPT !.status = "queued", !.session = s,
                                !.key = k, !.payload = p]
           r == [session |-> s, key |-> k, payload |-> p, turn |-> t]
<1>1. row.status # "none" /\ row.session = s /\ row.key = k /\ row.payload = p
  BY DEF NoJob
<1>2. /\ t \notin minted /\ \A u \in Rows : jobs[u].key # k
      /\ jobs' = [jobs EXCEPT ![t] = row]
      /\ minted' = minted \cup {t} /\ replies' = replies \cup {r}
  BY DEF EnqueueNew, Transition
<1>3. jobs'[t] = row /\ \A u \in Turns : u # t => jobs'[u] = jobs[u]
  BY <1>2 DEF RepliesInv, IInv, TypeOK
<1> HIDE DEF row
<1>4. Rows' = Rows \cup {t}
  BY <1>1, <1>3 DEF Rows
<1>5. \A q \in replies : q.turn \in minted /\ q.turn # t
  BY <1>2 DEF RepliesInv, RepliesAreMinted
<1>6. KeysAreUnique'
  BY <1>1, <1>2, <1>3, <1>4 DEF RepliesInv, KeysAreUnique, Rows
<1>7. RepliesAreMinted'
  BY <1>2, <1>5 DEF RepliesAreMinted
<1>8. RepliesMatch'
  <2>1. ASSUME NEW q \in replies, q.turn \in Rows'
        PROVE  /\ jobs'[q.turn].session = q.session /\ jobs'[q.turn].key = q.key
               /\ jobs'[q.turn].payload = q.payload
    <3>1. q.turn \in Rows /\ q.turn \in Turns
      BY <1>4, <1>5, <2>1 DEF Rows
    <3>2. jobs'[q.turn] = jobs[q.turn]
      BY <1>3, <1>5, <3>1
    <3>. QED  BY <3>1, <3>2 DEF RepliesInv, RepliesMatch
  <2>2. /\ jobs'[r.turn].session = r.session /\ jobs'[r.turn].key = r.key
        /\ jobs'[r.turn].payload = r.payload
    BY <1>1, <1>3
  <2>. QED  BY <1>2, <2>1, <2>2 DEF RepliesMatch
<1>. QED  BY <1>6, <1>7, <1>8 DEF RepliesInv

LEMMA EnqueueRetryRepliesInv ==
  ASSUME RepliesInv, IInv', NEW t \in Turns, NEW s \in Sessions, NEW k \in Keys,
         NEW p \in Payloads, EnqueueRetry(t, s, k, p)
  PROVE  RepliesInv'
<1>1. /\ t \in Rows /\ jobs[t].key = k /\ jobs[t].session = s /\ jobs[t].payload = p
      /\ replies' = replies \cup {[session |-> s, key |-> k, payload |-> p, turn |-> t]}
      /\ UNCHANGED <<jobs, minted>>
  BY DEF EnqueueRetry, SameRequest
<1>2. t \in minted
  BY <1>1, RowFacts DEF RepliesInv
<1>3. Rows' = Rows
  BY <1>1 DEF Rows
<1>. QED  BY <1>1, <1>2, <1>3 DEF RepliesInv, KeysAreUnique, RepliesAreMinted, RepliesMatch

LEMMA TransitionRemains ==
  ASSUME IInv, NEW t \in Rows, NEW row, Transition(t, row),
         row.session = jobs[t].session, row.key = jobs[t].key,
         row.payload = jobs[t].payload
  PROVE  \A u \in Turns : Remains(u)
BY DEF IInv, TypeOK, Transition, Remains, Rows

LEMMA EndedColumns ==
  ASSUME NEW row \in Job, NEW status, NEW fence, NEW result
  PROVE  LET ended == Ended(row, status, fence, result)
         IN /\ ended.session = row.session /\ ended.key = row.key
            /\ ended.payload = row.payload
BY DEF Ended, Job

LEMMA ReapedRemains ==
  ASSUME IInv, NEW now, NEW batch, batch \subseteq Expired(now), NEW t \in Turns
  PROVE  /\ Reaped(batch)[t].session = jobs[t].session
         /\ Reaped(batch)[t].key = jobs[t].key
         /\ Reaped(batch)[t].payload = jobs[t].payload
         /\ Reaped(batch)[t].status = "none" <=> jobs[t].status = "none"
<1>1. CASE t \in batch
  BY <1>1, ReapedRow
<1>2. CASE t \notin batch
  BY <1>2 DEF Reaped
<1>. QED  BY <1>1, <1>2

LEMMA NextRepliesInv == RepliesInv /\ [Next]_vars => RepliesInv'
<1> SUFFICES ASSUME RepliesInv, [Next]_vars PROVE RepliesInv'
  OBVIOUS
<1>1. IInv /\ IInv'
  BY NextIInv DEF RepliesInv
<1>2. ASSUME NEW s \in Sessions, CreateSession(s) \/ DeleteSession(s)
      PROVE  RepliesInv'
  <2>1. \A t \in Turns : jobs'[t] = jobs[t] \/ jobs'[t].status = "none"
    BY <1>2 DEF CreateSession, DeleteSession, NoJob
  <2>2. \A t \in Turns : Remains(t)
    BY <2>1 DEF Remains, Rows
  <2>3. minted' = minted /\ replies' = replies
    BY <1>2 DEF CreateSession, DeleteSession
  <2>. QED  BY <1>1, <2>2, <2>3, RemainsRepliesInv
<1>3. ASSUME Submit PROVE RepliesInv'
  BY <1>1, <1>3, EnqueueNewRepliesInv, EnqueueRetryRepliesInv DEF Submit
<1>4. ASSUME NEW now, NEW batch, NEW rank, NEW count, ReapExpired(batch, rank, count, now)
      PROVE  RepliesInv'
  <2>1. /\ batch \subseteq Expired(now) /\ jobs' = Reaped(batch)
        /\ minted' = minted /\ replies' = replies
    BY <1>4 DEF ReapExpired
  <2>2. \A t \in Turns : Remains(t)
    BY <1>1, <2>1, ReapedRemains DEF Remains, Rows
  <2>. QED  BY <1>1, <2>1, <2>2, RemainsRepliesInv
<1>5. ASSUME NEW w \in Workers, ClaimNext(w) PROVE RepliesInv'
  <2> SUFFICES ASSUME NEW t \in Turns, NEW length \in LeaseLengths, NEW now, NEW batch,
                      NEW rank, NEW count, Claim(w, t, length, batch, rank, count, now)
               PROVE  RepliesInv'
    BY <1>5 DEF ClaimNext
  <2> DEFINE row == Leased(jobs[t], w, now + length)
  <2>1. /\ batch \subseteq Expired(now) /\ Reaped(batch)[t].status = "queued"
        /\ jobs' = [Reaped(batch) EXCEPT ![t] = row]
        /\ minted' = minted /\ replies' = replies
    BY DEF Claim, Claimable
  <2>2. jobs[t] \in Job
    BY <1>1 DEF IInv, TypeOK
  <2>3. row.session = jobs[t].session /\ row.key = jobs[t].key /\ row.payload = jobs[t].payload
    BY <2>2 DEF Leased, Job
  <2> HIDE DEF row
  <2>4. Reaped(batch) \in [Turns -> Job]
    BY <1>1, ReapedType DEF IInv
  <2>5. jobs'[t] = row /\ \A u \in Turns : u # t => jobs'[u] = Reaped(batch)[u]
    BY <2>1, <2>4
  <2>6. Remains(t)
    <3>1. Reaped(batch)[t].status # "none"
      BY <2>1
    <3>2. jobs[t].status # "none"
      BY <1>1, <2>1, <3>1, ReapedRemains
    <3>. QED  BY <2>3, <2>5, <3>2 DEF Remains, Rows
  <2>7. \A u \in Turns : Remains(u)
    BY <1>1, <2>1, <2>5, <2>6, ReapedRemains DEF Remains, Rows
  <2>. QED  BY <1>1, <2>1, <2>7, RemainsRepliesInv
<1>6. ASSUME NEW t \in Turns, NEW status, NEW fence, NEW result,
             jobs[t].status \in {"queued", "running"},
             Transition(t, Ended(jobs[t], status, fence, result)),
             minted' = minted, replies' = replies
      PROVE  RepliesInv'
  <2>1. t \in Rows /\ jobs[t] \in Job
    BY <1>1, <1>6 DEF Rows, IInv, TypeOK
  <2>2. \A u \in Turns : Remains(u)
    BY <1>1, <1>6, <2>1, EndedColumns, TransitionRemains
  <2>. QED  BY <1>1, <1>6, <2>2, RemainsRepliesInv
<1>7. ASSUME NEW t \in Turns, Cancel(t) PROVE RepliesInv'
  BY <1>6, <1>7 DEF Cancel
<1>8. ASSUME UnderLease PROVE RepliesInv'
  <2>1. ASSUME NEW l \in leases PROVE l.turn \in Turns
    BY <1>1 DEF IInv, TypeOK, Lease
  <2>2. ASSUME NEW l \in leases, NEW now, Complete(l, now) \/ Fail(l, now)
        PROVE  RepliesInv'
    BY <1>6, <2>1, <2>2 DEF Complete, Fail, Holds
  <2>3. ASSUME NEW l \in leases, NEW length \in LeaseLengths, NEW now, Renew(l, length, now)
        PROVE  RepliesInv'
    <3>1. jobs' = [jobs EXCEPT ![l.turn].until = now + length]
          /\ minted' = minted /\ replies' = replies
      BY <2>3 DEF Renew
    <3>2. l.turn \in Turns /\ l.turn \in Rows /\ jobs[l.turn] \in Job
      BY <1>1, <2>1, <2>3 DEF Renew, Holds, Rows, IInv, TypeOK
    <3>3. \A t \in Turns : jobs'[t] = IF t = l.turn THEN [jobs[t] EXCEPT !.until = now + length]
                                      ELSE jobs[t]
      BY <1>1, <3>1 DEF IInv, TypeOK
    <3>4. \A t \in Turns : Remains(t)
      BY <3>2, <3>3 DEF Remains, Rows, Job
    <3>. QED  BY <1>1, <3>1, <3>4, RemainsRepliesInv
  <2>. QED  BY <1>8, <2>2, <2>3 DEF UnderLease
<1>9. ASSUME Tick \/ UNCHANGED vars PROVE RepliesInv'
  <2>1. UNCHANGED <<jobs, minted, replies>>
    BY <1>9 DEF Tick, vars
  <2>. QED  BY <1>1, <2>1, RemainsRepliesInv DEF Remains, Rows
<1>. QED  BY <1>2, <1>3, <1>4, <1>5, <1>7, <1>8, <1>9 DEF Next, Sweep

(* What enqueue answered stays true through claims, sweeps, cancels and       *)
(* retries: while a turn exists it is the work its key was first used for,   *)
(* and no two existing turns answer for one key.                             *)
THEOREM AnswersStayTrue == Spec => []RepliesStayTrue
<1>1. Init => RepliesInv
  <2>1. Init => IInv
    BY InitIInv
  <2>. QED  BY <2>1 DEF Init, RepliesInv, KeysAreUnique, RepliesAreMinted, RepliesMatch, Rows, NoJob
<1>. QED  BY <1>1, NextRepliesInv, RepliesInvImplies, PTL DEF Spec
=============================================================================
