------------------------ MODULE HostedWorker_proofs ------------------------
(***************************************************************************)
(* Proofs about run_one, for any number of workers, turns and tokens: what *)
(* a worker reports, what becomes of its permit, and what it holds while   *)
(* its runner executes.                                                    *)
(***************************************************************************)
EXTENDS HostedWorker, TurnQueue_proofs, FiniteSetTheorems

----------------------------------------------------------------------------
(* The strengthening.  What a worker has at each point of run_one, that a     *)
(* token names one run, and that a held permit has a run.                    *)

Leasing == {"verify", "execute", "settle", "publish", "failing", "fail"}

RunShape(w) ==
  LET m == main[w]
  IN /\ m.pc \in Leasing => m.lease \in leases
     /\ m.lease # NoLease => m.lease.worker = w
     /\ m.pc = "admit" => m.token = None
     /\ m.pc \notin {"idle", "admit"} =>
          m.token \in Tokens /\ permit[m.token].state = "held"
     /\ m.token # None => permit[m.token].state # "unused"
     /\ m.report \in {"completed", "failed"} =>
          /\ m.pc \in {"release", "idle"}
          /\ m.lease \in leases /\ jobs[m.lease.turn].status = m.report
     /\ watch[w].state # "off" => m.token \in Tokens /\ m.lease \in leases

TokensAreOwn ==
  \A w, u \in Workers : main[w].token = main[u].token /\ main[w].token # None => w = u

HeldByRuns ==
  \A t \in Tokens : permit[t].state = "held" =>
    \E w \in Workers : main[w].token = t /\ main[w].pc # "idle"

WInv ==
  /\ IInv /\ WorkerTypeOK
  /\ \A w \in Workers : RunShape(w)
  /\ TokensAreOwn /\ HeldByRuns

Main  == [pc : PCs, stage : Stages, token : Tokens \cup {None},
          lease : leases \cup {NoLease}, lost : BOOLEAN, told : BOOLEAN,
          report : {"none", "refused", "idle", "completed", "failed", "lost"}]
Watch == [state : {"off", "sleep"} \cup Stages, due : Nat]

----------------------------------------------------------------------------
(* What the operations of the ledger leave alone. *)

LedgerKept ==
  /\ IInv' /\ leases \subseteq leases'
  /\ \A t \in Turns : jobs[t].status \in Terminal => jobs'[t].status = jobs[t].status

LEMMA SameKept ==
  ASSUME IInv, UNCHANGED <<ledgerVars, clock>>
  PROVE  LedgerKept
<1>1. UNCHANGED vars
  BY DEF ledgerVars, vars
<1>. QED  BY <1>1, TickIInv DEF LedgerKept, vars

LEMMA TickKept ==
  ASSUME IInv, Tick
  PROVE  LedgerKept
BY TickIInv DEF LedgerKept, Tick

LEMMA RenewTouches ==
  ASSUME IInv, NEW l \in leases, NEW length \in LeaseLengths, NEW now,
         Renew(l, length, now)
  PROVE  /\ LedgerKept /\ leases' = leases /\ clock' = clock
         /\ l.turn \in Turns /\ jobs[l.turn].status = "running"
         /\ jobs'[l.turn].status = "running" /\ jobs'[l.turn].until = now + length
         /\ \A t \in Turns : t # l.turn => jobs'[t] = jobs[t]
<1>1. l.turn \in Turns /\ jobs \in [Turns -> Job]
  BY DEF IInv, TypeOK, Lease
<1>2. IInv'
  BY RenewIInv
<1>3. /\ jobs[l.turn].status = "running"
      /\ jobs'[l.turn] = [jobs[l.turn] EXCEPT !.until = now + length]
      /\ \A t \in Turns : t # l.turn => jobs'[t] = jobs[t]
  BY <1>1 DEF Renew, Holds
<1>4. jobs'[l.turn].status = "running" /\ jobs'[l.turn].until = now + length
  BY <1>1, <1>3 DEF Job
<1>5. leases' = leases /\ clock' = clock
  BY DEF Renew
<1>. QED  BY <1>1, <1>2, <1>3, <1>4, <1>5 DEF LedgerKept, Terminal

LEMMA EndedTouches ==
  ASSUME IInv, NEW t \in Turns, NEW status, NEW fence, NEW result,
         Transition(t, Ended(jobs[t], status, fence, result))
  PROVE  /\ jobs'[t].status = status
         /\ \A u \in Turns : u # t => jobs'[u] = jobs[u]
<1>1. jobs \in [Turns -> Job]
  BY DEF IInv, TypeOK
<1>. QED  BY <1>1 DEF Transition, Ended, Job

LEMMA PublishTouches ==
  ASSUME IInv, NEW l \in leases, NEW now, NEW status,
         \/ Complete(l, now) /\ status = "completed"
         \/ Fail(l, now) /\ status = "failed"
  PROVE  /\ LedgerKept /\ leases' = leases /\ clock' = clock
         /\ l.turn \in Turns /\ jobs[l.turn].status = "running"
         /\ jobs'[l.turn].status = status
         /\ \A t \in Turns : t # l.turn => jobs'[t] = jobs[t]
<1>1. l.turn \in Turns
  BY DEF IInv, TypeOK, Lease
<1>2. IInv'
  BY CompleteIInv, FailIInv
<1>3. jobs[l.turn].status = "running" /\ leases' = leases /\ clock' = clock
  BY DEF Complete, Fail, Holds
<1>4. \E fence, result : Transition(l.turn, Ended(jobs[l.turn], status, fence, result))
  BY DEF Complete, Fail
<1>5. /\ jobs'[l.turn].status = status
      /\ \A t \in Turns : t # l.turn => jobs'[t] = jobs[t]
  BY <1>1, <1>4, EndedTouches
<1>. QED  BY <1>1, <1>2, <1>3, <1>5 DEF LedgerKept, Terminal

LEMMA CancelTouches ==
  ASSUME IInv, NEW t \in Turns, Cancel(t)
  PROVE  /\ LedgerKept /\ leases' = leases /\ clock' = clock
         /\ jobs[t].status \in {"queued", "running"}
         /\ jobs'[t].status = "cancelled"
         /\ \A u \in Turns : u # t => jobs'[u] = jobs[u]
<1>1. IInv'
  BY CancelIInv
<1>2. jobs[t].status \in {"queued", "running"} /\ leases' = leases /\ clock' = clock
  BY DEF Cancel
<1>3. jobs'[t].status = "cancelled" /\ \A u \in Turns : u # t => jobs'[u] = jobs[u]
  BY EndedTouches DEF Cancel
<1>. QED  BY <1>1, <1>2, <1>3 DEF LedgerKept, Terminal

(* A sweep passes over every row whose lease has not lapsed. *)
Unswept(t) == jobs[t].status = "running" => clock < jobs[t].until

LEMMA ReapedTouches ==
  ASSUME IInv, NEW now \in TxnTime, NEW batch, batch \subseteq Expired(now),
         NEW t \in Turns, Unswept(t)
  PROVE  Reaped(batch)[t] = jobs[t]
<1>1. clock \in Nat /\ now \in Nat /\ now <= clock /\ jobs[t].until \in Nat
  BY DEF IInv, TypeOK, Job, TxnTime
<1>2. t \notin batch
  BY <1>1 DEF Expired, Unswept
<1>. QED  BY <1>2 DEF Reaped

LEMMA ReapTouches ==
  ASSUME IInv, NEW now, NEW batch, NEW rank \in Ranks(batch),
         NEW count \in Counts, ReapExpired(batch, rank, count, now)
  PROVE  /\ LedgerKept /\ leases' = leases /\ clock' = clock
         /\ \A t \in Turns : Unswept(t) => jobs'[t] = jobs[t]
<1>1. /\ now \in TxnTime /\ batch \subseteq Expired(now) /\ jobs' = Reaped(batch)
      /\ leases' = leases /\ clock' = clock
  BY DEF ReapExpired
<1>2. IInv'
  BY ReapExpiredIInv
<1>3. \A t \in Turns : Unswept(t) => jobs'[t] = jobs[t]
  BY <1>1, ReapedTouches
<1>. QED  BY <1>1, <1>2, <1>3 DEF LedgerKept, Terminal, Unswept

LEMMA ClaimTouches ==
  ASSUME IInv, NEW w \in Workers, NEW t \in Turns, NEW length \in LeaseLengths,
         NEW now, NEW batch, NEW rank \in Ranks(batch), NEW count \in Counts,
         Claim(w, t, length, batch, rank, count, now)
  PROVE  /\ LedgerKept /\ clock' = clock
         /\ \A u \in Turns : jobs[u].status # "queued" /\ Unswept(u) => jobs'[u] = jobs[u]
         /\ \E l \in leases' : /\ leases' \ leases = {l} /\ l.worker = w
                               /\ jobs'[l.turn].status = "running"
<1> DEFINE row == Leased(jobs[t], w, now + length)
           l   == [turn |-> t, worker |-> w, fence |-> row.fence, attempt |-> row.attempts]
<1>1. /\ now \in TxnTime /\ batch \subseteq Expired(now)
      /\ Reaped(batch)[t].status = "queued"
      /\ jobs' = [Reaped(batch) EXCEPT ![t] = row]
      /\ leases' = leases \cup {l} /\ clock' = clock
  BY DEF Claim, Claimable
<1>2. IInv'
  BY ClaimIInv
<1>3. jobs[t].status = "queued" /\ jobs[t] \in Job
  BY <1>1, ReapedShape DEF IInv, TypeOK
<1>4. row.status = "running"
  BY <1>3 DEF Leased, Job
<1> HIDE DEF row
<1>5. Reaped(batch) \in [Turns -> Job]
  BY ReapedType DEF IInv
<1>6. jobs'[t] = row /\ \A u \in Turns : u # t => jobs'[u] = Reaped(batch)[u]
  BY <1>1, <1>5
<1>7. ASSUME NEW u \in Turns, jobs[u].status # "queued", Unswept(u)
      PROVE  jobs'[u] = jobs[u]
  BY <1>1, <1>3, <1>6, <1>7, ReapedTouches
<1>8. l \notin leases
  BY <1>3 DEF IInv, LeaseShape
<1>9. l.turn = t /\ l.worker = w
  OBVIOUS
<1> HIDE DEF l
<1>10. leases' \ leases = {l} /\ l \in leases'
  BY <1>1, <1>8
<1>11. \A u \in Turns : jobs[u].status \in Terminal => jobs'[u] = jobs[u]
  BY <1>7 DEF Terminal, Unswept
<1>12. LedgerKept
  BY <1>1, <1>2, <1>11 DEF LedgerKept
<1>13. \E m \in leases' : /\ leases' \ leases = {m} /\ m.worker = w
                          /\ jobs'[m.turn].status = "running"
  BY <1>4, <1>6, <1>9, <1>10
<1>14. \A u \in Turns : jobs[u].status # "queued" /\ Unswept(u) => jobs'[u] = jobs[u]
  BY <1>7
<1>15. clock' = clock
  BY <1>1
<1>. QED  BY <1>12, <1>13, <1>14, <1>15

----------------------------------------------------------------------------
(* What the scripts of the admission store do to its one set of tokens.       *)

Counting == A!Live("user")

(* The instance brings its own copy of the operator. *)
LEMMA SameCardinality == ASSUME NEW S PROVE A!Cardinality(S) = Cardinality(S)
BY DEF A!Cardinality, Cardinality

LEMMA OneSet == A!SetsOf("scope") = {"user"}
<1>1. DOMAIN <<"user">> = 1..1
  OBVIOUS
<1>. QED  BY <1>1 DEF A!SetsOf

LEMMA StoreFacts ==
  ASSUME A!TypeOK
  PROVE  /\ score["user"] \in [Tokens -> Nat] /\ permit \in [Tokens -> A!Permit]
         /\ clock \in Nat /\ Ttl \in Nat
         /\ \A t \in Tokens : permit[t].scope = "scope" /\ permit[t].state \in A!PermitStates
         /\ \A t \in Tokens : t \in Counting <=> score["user"][t] > clock
         /\ A!Purged("user") \in [Tokens -> Nat]
         /\ \A t \in Tokens : A!Purged("user")[t] =
                                IF t \in Counting THEN score["user"][t] ELSE 0
<1>1. score["user"] \in [Tokens -> Nat] /\ permit \in [Tokens -> A!Permit] /\ clock \in Nat
  BY DEF A!TypeOK
<1>2. Ttl \in Nat
  BY WorkerAssumption
<1>. QED  BY <1>1, <1>2 DEF A!Permit, A!Live, Counting, A!Purged

LEMMA AcquireStore ==
  ASSUME A!TypeOK, NEW t \in Tokens, NEW answer \in {"held", "lost"},
         A!Acquire("scope", t, answer)
  PROVE  /\ A!TypeOK' /\ clock' = clock
         /\ permit[t].state = "unused" /\ permit'[t].state = answer
         /\ \A u \in Tokens : u # t => permit'[u] = permit[u]
         /\ \A u \in Counting : u # t => score'["user"][u] = score["user"][u]
         /\ Counting' = Counting \cup {t} /\ ~(Cardinality(Counting) >= Capacity)
<1>1. /\ score'["user"] = [A!Purged("user") EXCEPT ![t] = clock + Ttl]
      /\ DOMAIN score' = {"user"} /\ score' = [c \in {"user"} |-> score'[c]]
      /\ keyUntil' = [c \in {"user"} |-> clock + 2 * Ttl]
      /\ permit' = [permit EXCEPT ![t] = [state |-> answer, scope |-> "scope"]]
      /\ clock' = clock /\ permit[t].state = "unused" /\ A!FullAt("scope") = {}
  BY OneSet DEF A!Acquire, A!Expiry, A!KeyExpiry
<1>2. score'["user"] \in [Tokens -> Nat] /\ clock + 2 * Ttl \in Nat
  BY <1>1, StoreFacts
<1>3. permit' \in [Tokens -> A!Permit]
  BY <1>1, StoreFacts DEF A!Permit, A!PermitStates
<1>4. A!TypeOK'
  BY <1>1, <1>2, <1>3 DEF A!TypeOK
<1>5. \A u \in Tokens : u # t => permit'[u] = permit[u]
  BY <1>1, StoreFacts
<1>6. permit'[t].state = answer
  BY <1>1, StoreFacts
<1>7. \A u \in Tokens : score'["user"][u] =
        IF u = t THEN clock + Ttl ELSE IF u \in Counting THEN score["user"][u] ELSE 0
  BY <1>1, StoreFacts
<1>8. \A u \in Counting : u # t => score'["user"][u] = score["user"][u]
  BY <1>7 DEF Counting, A!Live
<1>9. Counting' = Counting \cup {t}
  <2>1. Ttl \in Nat \ {0}
    BY WorkerAssumption
  <2>2. \A u \in Tokens : score'["user"][u] > clock <=> u = t \/ u \in Counting
    BY <1>7, <2>1, StoreFacts
  <2>. QED  BY <1>1, <2>2 DEF Counting, A!Live
<1>10. ~(Cardinality(Counting) >= Capacity)
  <2> DEFINE sets == [s \in {"scope"} |-> <<"user">>]["scope"]
             card(i) == Cardinality(A!Live(sets[i]))
             lim(i)  == [c \in {"user"} |-> Capacity][sets[i]]
  <2>1. \A i \in DOMAIN sets :
          (\A j \in 1..(i - 1) : card(j) < lim(j)) => ~(card(i) >= lim(i))
    BY <1>1, SameCardinality DEF A!FullAt
  <2>2. 1 \in DOMAIN sets /\ sets[1] = "user"
    OBVIOUS
  <2>3. card(1) = Cardinality(A!Live("user")) /\ lim(1) = Capacity
    BY <2>2
  <2> HIDE DEF card, lim, sets
  <2>4. ~(Cardinality(A!Live("user")) >= Capacity)
    BY <2>1, <2>2, <2>3
  <2>. QED  BY <2>4 DEF Counting
<1>. QED  BY <1>1, <1>4, <1>5, <1>6, <1>8, <1>9, <1>10

LEMMA RefuseStore ==
  ASSUME A!TypeOK, A!Refuse("scope")
  PROVE  /\ A!TypeOK' /\ clock' = clock /\ permit' = permit
         /\ \A u \in Counting : score'["user"][u] = score["user"][u]
         /\ Counting' = Counting
<1>1. /\ score'["user"] \in {A!Purged("user"), score["user"]}
      /\ score' = [c \in {"user"} |-> score'[c]]
      /\ UNCHANGED <<keyUntil, permit, clock>>
  BY DEF A!Refuse
<1>2. A!TypeOK'
  BY <1>1, StoreFacts DEF A!TypeOK
<1>3. \A u \in Tokens : score'["user"][u] \in {score["user"][u], 0}
                        /\ (u \in Counting => score'["user"][u] = score["user"][u])
  BY <1>1, StoreFacts
<1>4. Counting' = Counting
  <2>1. \A u \in Tokens : score'["user"][u] > clock <=> score["user"][u] > clock
    BY <1>3, StoreFacts
  <2>. QED  BY <1>1, <2>1 DEF Counting, A!Live
<1>5. Counting \subseteq Tokens
  BY DEF Counting, A!Live
<1>. QED  BY <1>1, <1>2, <1>3, <1>4, <1>5

LEMMA RenewStore ==
  ASSUME A!TypeOK, NEW t \in Tokens, A!Renew(t)
  PROVE  /\ A!TypeOK' /\ clock' = clock /\ permit' = permit
         /\ score'["user"][t] = clock + Ttl
         /\ \A u \in Tokens : u # t => score'["user"][u] = score["user"][u]
         /\ Counting' = Counting
<1>1. permit[t].scope = "scope"
  BY StoreFacts
<1>2. /\ score'["user"] = [score["user"] EXCEPT ![t] = clock + Ttl]
      /\ score' = [c \in {"user"} |-> score'[c]]
      /\ keyUntil' = [c \in {"user"} |-> clock + 2 * Ttl]
      /\ UNCHANGED <<permit, clock>> /\ t \in Counting
  BY <1>1, OneSet DEF A!Renew, A!Expiry, A!KeyExpiry, A!Renewable, Counting
<1>3. score'["user"] \in [Tokens -> Nat] /\ clock + 2 * Ttl \in Nat
  BY <1>2, StoreFacts
<1>4. A!TypeOK'
  BY <1>2, <1>3 DEF A!TypeOK
<1>5. /\ score'["user"][t] = clock + Ttl
      /\ \A u \in Tokens : u # t => score'["user"][u] = score["user"][u]
  BY <1>2, StoreFacts
<1>6. Counting' = Counting
  <2>1. Ttl \in Nat \ {0}
    BY WorkerAssumption
  <2>2. \A u \in Tokens : score'["user"][u] > clock <=> u \in Counting
    BY <1>2, <1>5, <2>1, StoreFacts
  <2>. QED  BY <1>2, <2>2 DEF Counting, A!Live
<1>. QED  BY <1>2, <1>4, <1>5, <1>6

LEMMA ReleaseStore ==
  ASSUME A!TypeOK, NEW t \in Tokens, A!Release(t, "released")
  PROVE  /\ A!TypeOK' /\ clock' = clock /\ permit'[t].state = "released"
         /\ \A u \in Tokens : u # t => permit'[u] = permit[u]
                                       /\ score'["user"][u] = score["user"][u]
         /\ Counting' \subseteq Counting
<1>1. permit[t].scope = "scope"
  BY StoreFacts
<1>2. /\ score'["user"] = [score["user"] EXCEPT ![t] = 0]
      /\ score' = [c \in {"user"} |-> score'[c]]
      /\ permit' = [permit EXCEPT ![t].state = "released"]
      /\ UNCHANGED <<keyUntil, clock>>
  BY <1>1, OneSet DEF A!Release, A!ReleasedFrom
<1>3. permit' \in [Tokens -> A!Permit] /\ permit'[t].state = "released"
  BY <1>2, StoreFacts DEF A!Permit, A!PermitStates
<1>4. score'["user"] \in [Tokens -> Nat]
  BY <1>2, StoreFacts
<1>5. A!TypeOK'
  BY <1>2, <1>3, <1>4 DEF A!TypeOK
<1>6. \A u \in Tokens : u # t => permit'[u] = permit[u]
                                 /\ score'["user"][u] = score["user"][u]
  BY <1>2, StoreFacts
<1>7. Counting' \subseteq Counting
  <2>1. \A u \in Tokens : score'["user"][u] > clock => score["user"][u] > clock
    BY <1>2, StoreFacts
  <2>. QED  BY <1>2, <2>1 DEF Counting, A!Live
<1>. QED  BY <1>2, <1>3, <1>5, <1>6, <1>7

----------------------------------------------------------------------------
(* A step of one worker: what it may do to its own state and to the permits,  *)
(* so that the invariant holds of everybody.                                 *)

LEMMA WorkerTypes ==
  ASSUME WInv, NEW w \in Workers
  PROVE  /\ main \in [Workers -> Main] /\ watch \in [Workers -> Watch]
         /\ main[w] \in Main /\ watch[w] \in Watch /\ RunShape(w)
         /\ IInv /\ A!TypeOK /\ member \in BOOLEAN
         /\ None \notin Tokens
BY WorkerAssumption DEF WInv, WorkerTypeOK, Main, Watch

OthersStay(w) ==
  \A u \in Workers : u # w => main'[u] = main[u] /\ watch'[u] = watch[u]

PermitsFollow(w) ==
  /\ \/ main'[w].token \in {None, main[w].token}
     \/ permit[main'[w].token].state = "unused"
  /\ \A t \in Tokens :
       \/ permit'[t].state = permit[t].state
       \/ t = main[w].token
       \/ permit[t].state = "unused"
  /\ \A t \in Tokens : permit'[t].state = "held" =>
       \/ t = main'[w].token /\ main'[w].pc # "idle"
       \/ permit[t].state = "held" /\ (t # main[w].token \/ main[w].pc = "idle")

(* Other workers notice a step only if it takes their permit or changes the  *)
(* outcome of their turn.                                                   *)
LEMMA ShapeStays ==
  ASSUME WInv, LedgerKept, NEW u \in Workers,
         main'[u] = main[u], watch'[u] = watch[u],
         main[u].token \in Tokens =>
           permit'[main[u].token].state = permit[main[u].token].state
  PROVE  RunShape(u)'
<1>1. main[u] \in Main /\ RunShape(u)
  BY WorkerTypes
<1>2. \A l \in leases : l.turn \in Turns
  BY DEF WInv, IInv, TypeOK, Lease
<1>3. main[u].report \in {"completed", "failed"} =>
        jobs'[main[u].lease.turn].status = main[u].report
  BY <1>1, <1>2 DEF RunShape, LedgerKept, Terminal
<1>4. main[u].token # None => main[u].token \in Tokens
  BY <1>1 DEF Main
<1>. QED  BY <1>1, <1>3, <1>4 DEF RunShape, LedgerKept

LEMMA RunStep ==
  ASSUME WInv, LedgerKept, A!TypeOK', member' \in BOOLEAN, NEW w \in Workers,
         main' \in [Workers -> Main'], watch' \in [Workers -> Watch],
         OthersStay(w), RunShape(w)', PermitsFollow(w)
  PROVE  WInv'
<1>1. \A u \in Workers : /\ main[u] \in Main /\ RunShape(u)
                         /\ main[u].token # None => main[u].token \in Tokens
                                                    /\ permit[main[u].token].state # "unused"
  BY WorkerTypes DEF Main, RunShape
<1>2. \A u \in Workers : u # w => main[u].token # main[w].token \/ main[u].token = None
  BY DEF WInv, TokensAreOwn
<1>3. ASSUME NEW u \in Workers, u # w PROVE RunShape(u)'
  <2>1. main'[u] = main[u] /\ watch'[u] = watch[u]
    BY <1>3 DEF OthersStay
  <2>2. main[u].token \in Tokens => permit'[main[u].token].state = permit[main[u].token].state
    BY <1>1, <1>2, <1>3, WorkerAssumption DEF PermitsFollow
  <2>. QED  BY <2>1, <2>2, ShapeStays
<1>4. TokensAreOwn'
  <2>1. ASSUME NEW u \in Workers, u # w, main'[u].token = main'[w].token, main'[u].token # None
        PROVE  FALSE
    <3>1. main[u].token = main'[w].token /\ main[u].token # None
      BY <2>1 DEF OthersStay
    <3>. QED  BY <1>1, <1>2, <2>1, <3>1 DEF PermitsFollow
  <2>2. ASSUME NEW u \in Workers, NEW x \in Workers, u # w, x # w,
               main'[u].token = main'[x].token, main'[u].token # None
        PROVE  u = x
    BY <2>2 DEF OthersStay, WInv, TokensAreOwn
  <2>. QED  BY <2>1, <2>2 DEF TokensAreOwn
<1>5. HeldByRuns'
  <2> SUFFICES ASSUME NEW t \in Tokens, permit'[t].state = "held"
               PROVE  \E u \in Workers : main'[u].token = t /\ main'[u].pc # "idle"
    BY DEF HeldByRuns
  <2>1. CASE t = main'[w].token /\ main'[w].pc # "idle"
    BY <2>1
  <2>2. CASE permit[t].state = "held" /\ (t # main[w].token \/ main[w].pc = "idle")
    <3>1. PICK u \in Workers : main[u].token = t /\ main[u].pc # "idle"
      BY <2>2 DEF WInv, HeldByRuns
    <3>2. u # w
      BY <2>2, <3>1
    <3>. QED  BY <3>1, <3>2 DEF OthersStay
  <2>. QED  BY <2>1, <2>2 DEF PermitsFollow
<1>6. WorkerTypeOK'
  BY DEF WorkerTypeOK, LedgerKept, IInv, Main, Watch
<1>7. \A u \in Workers : RunShape(u)'
  BY <1>3
<1>. QED  BY <1>4, <1>5, <1>6, <1>7 DEF WInv, LedgerKept

(* A step in which no worker moves and no permit of a worker changes. *)
LEMMA WorldStep ==
  ASSUME WInv, LedgerKept, A!TypeOK', member' \in BOOLEAN, main' = main, watch' = watch,
         \A t \in Tokens : \/ permit'[t].state = permit[t].state
                           \/ permit'[t].state # "held" /\ \A w \in Workers : main[w].token # t
  PROVE  WInv'
<1>1. \A u \in Workers : RunShape(u)'
  BY ShapeStays
<1>2. TokensAreOwn' /\ HeldByRuns'
  BY DEF WInv, TokensAreOwn, HeldByRuns
<1>3. WorkerTypeOK'
  BY DEF WInv, WorkerTypeOK, LedgerKept, IInv
<1>. QED  BY <1>1, <1>2, <1>3 DEF WInv, LedgerKept

----------------------------------------------------------------------------
(* How main[w] changes. *)

LEMMA GotoMain ==
  ASSUME WInv, leases \subseteq leases', NEW w \in Workers,
         NEW pc \in PCs, NEW stage \in Stages, Goto(w, pc, stage)
  PROVE  /\ main' \in [Workers -> Main'] /\ \A u \in Workers : u # w => main'[u] = main[u]
         /\ main'[w].pc = pc /\ main'[w].stage = stage
         /\ main'[w].token = main[w].token /\ main'[w].lease = main[w].lease
         /\ main'[w].lost = main[w].lost /\ main'[w].told = main[w].told
         /\ main'[w].report = main[w].report
<1>1. main \in [Workers -> Main] /\ main[w] \in Main
  BY WorkerTypes
<1>2. main'[w] = [main[w] EXCEPT !.pc = pc, !.stage = stage]
  BY <1>1 DEF Goto
<1>3. \A u \in Workers : u # w => main'[u] = main[u]
  BY <1>1 DEF Goto
<1>4. DOMAIN main' = Workers /\ main' = [u \in Workers |-> main'[u]]
  BY <1>1 DEF Goto
<1>6. \A u \in Workers : main[u] \in Main'
  BY <1>1 DEF Main
<1>5. main'[w] \in Main'
  BY <1>2, <1>6 DEF Main
<1>7. main' \in [Workers -> Main']
  BY <1>3, <1>4, <1>5, <1>6
<1>. QED  BY <1>1, <1>2, <1>3, <1>7 DEF Main

LEMMA ReportMain ==
  ASSUME WInv, leases \subseteq leases', NEW w \in Workers, NEW pc \in PCs,
         NEW what \in {"refused", "idle", "completed", "failed", "lost"},
         Report(w, pc, what)
  PROVE  /\ main' \in [Workers -> Main'] /\ \A u \in Workers : u # w => main'[u] = main[u]
         /\ main'[w].pc = pc /\ main'[w].stage = main[w].stage
         /\ main'[w].token = main[w].token /\ main'[w].lease = main[w].lease
         /\ main'[w].lost = main[w].lost /\ main'[w].told = main[w].told
         /\ main'[w].report = what
<1>1. main \in [Workers -> Main] /\ main[w] \in Main
  BY WorkerTypes
<1>2. main'[w] = [main[w] EXCEPT !.pc = pc, !.report = what]
  BY <1>1 DEF Report
<1>3. \A u \in Workers : u # w => main'[u] = main[u]
  BY <1>1 DEF Report
<1>4. DOMAIN main' = Workers /\ main' = [u \in Workers |-> main'[u]]
  BY <1>1 DEF Report
<1>6. \A u \in Workers : main[u] \in Main'
  BY <1>1 DEF Main
<1>5. main'[w] \in Main'
  BY <1>2, <1>6 DEF Main
<1>7. main' \in [Workers -> Main']
  BY <1>3, <1>4, <1>5, <1>6
<1>. QED  BY <1>1, <1>2, <1>3, <1>7 DEF Main

(* A run that ends as lost, or goes on to fail its turn, is told to stop. *)
Failing(w) ==
  main' = [main EXCEPT ![w].pc = "failing", ![w].stage = "member", ![w].told = TRUE]

LEMMA ToldMain ==
  ASSUME WInv, leases \subseteq leases', NEW w \in Workers, LoseLease(w) \/ Failing(w)
  PROVE  /\ main' \in [Workers -> Main'] /\ \A u \in Workers : u # w => main'[u] = main[u]
         /\ main'[w].pc \in {"release", "failing"}
         /\ main'[w].token = main[w].token /\ main'[w].lease = main[w].lease
         /\ main'[w].told /\ main'[w].report \in {"lost", main[w].report}
<1>1. main \in [Workers -> Main] /\ main[w] \in Main
  BY WorkerTypes
<1>2. \/ main'[w] = [main[w] EXCEPT !.pc = "release", !.stage = "none",
                                    !.told = TRUE, !.report = "lost"]
      \/ main'[w] = [main[w] EXCEPT !.pc = "failing", !.stage = "member", !.told = TRUE]
  BY <1>1 DEF LoseLease, Failing
<1>3. \A u \in Workers : u # w => main'[u] = main[u]
  BY <1>1 DEF LoseLease, Failing
<1>4. DOMAIN main' = Workers /\ main' = [u \in Workers |-> main'[u]]
  BY <1>1 DEF LoseLease, Failing
<1>6. \A u \in Workers : main[u] \in Main'
  BY <1>1 DEF Main
<1>5. main'[w] \in Main'
  BY <1>2, <1>6 DEF Main, PCs, Stages
<1>7. main' \in [Workers -> Main']
  BY <1>3, <1>4, <1>5, <1>6
<1>. QED  BY <1>1, <1>2, <1>3, <1>7 DEF Main

(* A run goes on from claim to release with the token and the lease it has.   *)
LEMMA RunsOn ==
  ASSUME WInv, LedgerKept, A!TypeOK', member' = member, NEW w \in Workers,
         main[w].pc \in Leasing, main'[w].pc \in Leasing \cup {"release"},
         main' \in [Workers -> Main'], watch' \in [Workers -> Watch], OthersStay(w),
         main'[w].token = main[w].token, main'[w].lease = main[w].lease,
         permit' = permit,
         \/ main'[w].report \in {main[w].report, "lost"}
         \/ main'[w].pc = "release" /\ main'[w].report = jobs'[main[w].lease.turn].status
  PROVE  WInv'
<1>1. main[w] \in Main /\ RunShape(w) /\ member \in BOOLEAN
  BY WorkerTypes
<1>2. /\ main[w].lease \in leases' /\ main[w].token \in Tokens
      /\ permit[main[w].token].state = "held"
      /\ main[w].report \notin {"completed", "failed"}
  BY <1>1 DEF RunShape, LedgerKept, Leasing
<1>3. RunShape(w)'
  BY <1>1, <1>2 DEF RunShape, Leasing
<1>4. PermitsFollow(w)
  BY <1>1 DEF PermitsFollow, Leasing
<1>. QED  BY <1>1, <1>3, <1>4, RunStep

(* What one question of renew_once may change, answered or not.              *)
LEMMA AskedKept ==
  ASSUME WInv, NEW w \in Workers, NEW stage, main[w].token \in Tokens,
         main[w].lease \in leases, Granted(w, stage) \/ Denied(w, stage), clock' = clock
  PROVE  LedgerKept /\ A!TypeOK' /\ permit' = permit /\ leases' = leases
<1>1. IInv /\ A!TypeOK
  BY DEF WInv, WorkerTypeOK
<1>2. CASE Granted(w, stage)
  <2>1. CASE UNCHANGED <<ledgerVars, storeVars>>
    BY <1>1, <2>1, SameKept DEF ledgerVars, storeVars, A!TypeOK
  <2>2. CASE A!Renew(main[w].token) /\ UNCHANGED ledgerVars
    BY <1>1, <2>2, SameKept, RenewStore DEF ledgerVars
  <2>3. CASE /\ \E length \in LeaseLengths, now \in TxnTime : Renew(main[w].lease, length, now)
             /\ UNCHANGED storeVars
    BY <1>1, <2>3, RenewTouches DEF storeVars, A!TypeOK
  <2>. QED  BY <1>2, <2>1, <2>2, <2>3 DEF Granted
<1>3. CASE UNCHANGED <<ledgerVars, storeVars, clock>>
  BY <1>1, <1>3, SameKept DEF ledgerVars, storeVars, A!TypeOK
<1>. QED  BY <1>2, <1>3 DEF Denied

----------------------------------------------------------------------------
(* Every step of run_one keeps the invariant. *)

LEMMA AuthorizeWInv ==
  ASSUME WInv, NEW w \in Workers, Authorize(w)
  PROVE  WInv'
<1>1. /\ main \in [Workers -> Main] /\ watch \in [Workers -> Watch] /\ IInv /\ A!TypeOK
      /\ member \in BOOLEAN
  BY WorkerTypes
<1>2. /\ LedgerKept /\ A!TypeOK' /\ member' = member /\ watch' = watch /\ permit' = permit
      /\ main[w].pc = "idle" /\ watch[w].state = "off"
      /\ main' = [main EXCEPT ![w] = [AtRest EXCEPT !.pc = "admit"]]
  BY <1>1, SameKept DEF Authorize, ledgerVars, storeVars, A!TypeOK
<1>3. \A u \in Workers : main[u] \in Main'
  BY <1>1, <1>2 DEF Main, LedgerKept
<1>4. [AtRest EXCEPT !.pc = "admit"] \in Main'
  BY DEF AtRest, Main, PCs, Stages
<1>5. main' \in [Workers -> Main']
  BY <1>1, <1>2, <1>3, <1>4
<1>6. /\ main'[w].pc = "admit" /\ main'[w].token = None /\ main'[w].lease = NoLease
      /\ main'[w].report = "none"
  BY <1>1, <1>2 DEF AtRest
<1>7. OthersStay(w)
  BY <1>1, <1>2 DEF OthersStay
<1>8. RunShape(w)'
  BY <1>2, <1>6 DEF RunShape, Leasing
<1>9. PermitsFollow(w)
  BY <1>2, <1>6 DEF PermitsFollow
<1>. QED  BY <1>1, <1>2, <1>5, <1>7, <1>8, <1>9, RunStep

LEMMA AdmitWInv ==
  ASSUME WInv, NEW w \in Workers, Admit(w)
  PROVE  WInv'
<1>1. /\ main \in [Workers -> Main] /\ main[w] \in Main /\ RunShape(w)
      /\ watch \in [Workers -> Watch] /\ IInv /\ A!TypeOK /\ member \in BOOLEAN
  BY WorkerTypes
<1>2. /\ main[w].pc = "admit" /\ main[w].token = None
      /\ LedgerKept /\ leases' = leases /\ member' = member /\ watch' = watch
      /\ watch[w].state = "off" /\ main[w].report \notin {"completed", "failed"}
  BY <1>1, SameKept, WorkerAssumption DEF Admit, ledgerVars, RunShape
<1>3. ASSUME NEW t \in Tokens, A!Acquire("scope", t, "held"),
             main' = [main EXCEPT ![w].pc = "claim", ![w].token = t]
      PROVE  WInv'
  <2>1. /\ A!TypeOK' /\ permit[t].state = "unused" /\ permit'[t].state = "held"
        /\ \A u \in Tokens : u # t => permit'[u] = permit[u]
    BY <1>1, <1>3, AcquireStore
  <2>2. /\ main'[w] = [main[w] EXCEPT !.pc = "claim", !.token = t]
        /\ \A u \in Workers : u # w => main'[u] = main[u]
        /\ main' = [u \in Workers |-> main'[u]]
    BY <1>1, <1>3
  <2>3. /\ main'[w].pc = "claim" /\ main'[w].token = t /\ main'[w].lease = main[w].lease
        /\ main'[w].report = main[w].report
    BY <1>1, <2>2 DEF Main
  <2>4. main'[w] \in Main' /\ \A u \in Workers : main[u] \in Main'
    BY <1>1, <1>2, <2>2 DEF Main, PCs
  <2>5. main' \in [Workers -> Main']
    BY <2>2, <2>4
  <2>6. RunShape(w)'
    BY <1>1, <1>2, <2>1, <2>3 DEF RunShape, Leasing
  <2>7. PermitsFollow(w)
    BY <1>2, <2>1, <2>3, WorkerAssumption DEF PermitsFollow
  <2>. QED  BY <1>1, <1>2, <2>1, <2>2, <2>5, <2>6, <2>7, RunStep DEF OthersStay
<1>4. ASSUME NEW t \in Tokens, A!Acquire("scope", t, "lost"), Report(w, "idle", "lost")
      PROVE  WInv'
  <2>1. /\ A!TypeOK' /\ permit[t].state = "unused" /\ permit'[t].state = "lost"
        /\ \A u \in Tokens : u # t => permit'[u] = permit[u]
    BY <1>1, <1>4, AcquireStore
  <2>2. /\ main' \in [Workers -> Main'] /\ \A u \in Workers : u # w => main'[u] = main[u]
        /\ main'[w].pc = "idle" /\ main'[w].token = None /\ main'[w].lease = main[w].lease
        /\ main'[w].report = "lost"
    BY <1>2, <1>4, ReportMain DEF PCs
  <2>3. RunShape(w)'
    BY <1>1, <1>2, <2>2 DEF RunShape, Leasing
  <2>4. PermitsFollow(w)
    BY <1>2, <2>1, <2>2, WorkerAssumption DEF PermitsFollow
  <2>. QED  BY <1>1, <1>2, <2>1, <2>2, <2>3, <2>4, RunStep DEF OthersStay
<1>5. ASSUME A!Refuse("scope"), Report(w, "idle", "refused")
      PROVE  WInv'
  <2>1. A!TypeOK' /\ permit' = permit
    BY <1>1, <1>5, RefuseStore
  <2>2. /\ main' \in [Workers -> Main'] /\ \A u \in Workers : u # w => main'[u] = main[u]
        /\ main'[w].pc = "idle" /\ main'[w].token = None /\ main'[w].lease = main[w].lease
        /\ main'[w].report = "refused"
    BY <1>2, <1>5, ReportMain DEF PCs
  <2>3. RunShape(w)'
    BY <1>1, <1>2, <2>2 DEF RunShape, Leasing
  <2>4. PermitsFollow(w)
    BY <1>2, <2>1, <2>2, WorkerAssumption DEF PermitsFollow
  <2>. QED  BY <1>1, <1>2, <2>1, <2>2, <2>3, <2>4, RunStep DEF OthersStay
<1>. QED  BY <1>3, <1>4, <1>5 DEF Admit

LEMMA ClaimTurnWInv ==
  ASSUME WInv, NEW w \in Workers, ClaimTurn(w)
  PROVE  WInv'
<1>1. /\ main \in [Workers -> Main] /\ main[w] \in Main /\ RunShape(w)
      /\ watch \in [Workers -> Watch] /\ IInv /\ A!TypeOK /\ member \in BOOLEAN
  BY WorkerTypes
<1>2. /\ main[w].pc = "claim" /\ permit' = permit /\ member' = member /\ watch' = watch
      /\ UNCHANGED storeVars
      /\ main[w].token \in Tokens /\ permit[main[w].token].state = "held"
      /\ main[w].report \notin {"completed", "failed"}
  BY <1>1 DEF ClaimTurn, storeVars, RunShape
<1>3. ASSUME clock' = clock PROVE A!TypeOK'
  BY <1>1, <1>2, <1>3 DEF A!TypeOK, storeVars
<1>4. ASSUME LedgerKept, clock' = clock, NEW what \in {"idle", "lost"},
             Report(w, "release", what)
      PROVE  WInv'
  <2>1. /\ main' \in [Workers -> Main'] /\ \A u \in Workers : u # w => main'[u] = main[u]
        /\ main'[w].pc = "release" /\ main'[w].token = main[w].token
        /\ main'[w].lease = main[w].lease /\ main'[w].report = what
    BY <1>4, ReportMain DEF PCs, LedgerKept
  <2>2. RunShape(w)'
    BY <1>1, <1>2, <1>4, <2>1 DEF RunShape, Leasing, LedgerKept
  <2>3. PermitsFollow(w)
    BY <1>2, <2>1 DEF PermitsFollow
  <2>. QED  BY <1>1, <1>2, <1>3, <1>4, <2>1, <2>2, <2>3, RunStep DEF OthersStay
<1>5. ASSUME LedgerKept, clock' = clock, NEW l \in leases', leases' \ leases = {l},
             l.worker = w,
             main' = [main EXCEPT ![w].pc = "verify", ![w].stage = "member",
                                  ![w].lease = CHOOSE m \in leases' \ leases : TRUE]
      PROVE  WInv'
  <2>1. (CHOOSE m \in leases' \ leases : TRUE) = l
    BY <1>5
  <2>2. /\ main'[w] = [main[w] EXCEPT !.pc = "verify", !.stage = "member", !.lease = l]
        /\ \A u \in Workers : u # w => main'[u] = main[u]
        /\ main' = [u \in Workers |-> main'[u]]
    BY <1>1, <1>5, <2>1
  <2>3. /\ main'[w].pc = "verify" /\ main'[w].token = main[w].token /\ main'[w].lease = l
        /\ main'[w].report = main[w].report
    BY <1>1, <2>2 DEF Main
  <2>4. main'[w] \in Main' /\ \A u \in Workers : main[u] \in Main'
    <3>1. "verify" \in PCs /\ "member" \in Stages /\ leases \subseteq leases'
      BY <1>5 DEF PCs, Stages, LedgerKept
    <3>2. \A u \in Workers : main[u] \in Main'
      BY <1>1, <3>1 DEF Main
    <3>3. main'[w] \in Main'
      BY <1>1, <1>5, <2>2, <3>1 DEF Main
    <3>. QED  BY <3>2, <3>3
  <2>5. main' \in [Workers -> Main']
    BY <2>2, <2>4
  <2>6. RunShape(w)'
    BY <1>1, <1>2, <1>5, <2>3 DEF RunShape, Leasing
  <2>7. PermitsFollow(w)
    BY <1>2, <2>3 DEF PermitsFollow
  <2>. QED  BY <1>1, <1>2, <1>3, <1>5, <2>2, <2>5, <2>6, <2>7, RunStep DEF OthersStay
<1>6. ASSUME NEW now, NEW rank \in Ranks(Expired(now)), NEW count \in Counts,
             ReapExpired(Expired(now), rank, count, now), Report(w, "release", "idle")
      PROVE  WInv'
  BY <1>1, <1>4, <1>6, ReapTouches
<1>7. ASSUME NEW now, NEW rank \in Ranks(Expired(now)), NEW count \in Counts,
             NEW t \in Turns, NEW length \in LeaseLengths,
             Claim(w, t, length, Expired(now), rank, count, now)
      PROVE  /\ LedgerKept /\ clock' = clock
             /\ \E l \in leases' : leases' \ leases = {l} /\ l.worker = w
  BY <1>1, <1>7, ClaimTouches
<1>. QED  BY <1>4, <1>5, <1>6, <1>7 DEF ClaimTurn

LEMMA MainVerifiesWInv ==
  ASSUME WInv, NEW w \in Workers, MainVerifies(w)
  PROVE  WInv'
<1>1. /\ main[w] \in Main /\ RunShape(w) /\ watch \in [Workers -> Watch] /\ watch[w] \in Watch
      /\ clock \in Nat
  BY WorkerTypes DEF IInv, TypeOK
<1>2. /\ main[w].pc \in {"verify", "settle", "failing"} /\ clock' = clock /\ member' = member
      /\ main[w].token \in Tokens /\ main[w].lease \in leases
  BY <1>1 DEF MainVerifies, RunShape, Leasing
<1>3. /\ LedgerKept /\ A!TypeOK' /\ permit' = permit /\ leases' = leases
  BY <1>2, AskedKept DEF MainVerifies
<1>4. clock + Heartbeat \in Nat
  BY <1>1, WorkerAssumption
<1>5. /\ watch' \in [Workers -> Watch]
      /\ \A u \in Workers : u # w => watch'[u] = watch[u]
  BY <1>1, <1>4 DEF MainVerifies, Watch
<1>6. ASSUME NEW pc \in PCs, NEW stage \in Stages, Goto(w, pc, stage),
             pc \in Leasing
      PROVE  WInv'
  <2>1. /\ main' \in [Workers -> Main'] /\ \A u \in Workers : u # w => main'[u] = main[u]
        /\ main'[w].pc = pc /\ main'[w].token = main[w].token
        /\ main'[w].lease = main[w].lease /\ main'[w].report = main[w].report
    BY <1>3, <1>6, GotoMain
  <2>. QED  BY <1>2, <1>3, <1>5, <1>6, <2>1, RunsOn DEF OthersStay, Leasing
<1>7. ASSUME LoseLease(w) PROVE WInv'
  <2>1. /\ main' \in [Workers -> Main'] /\ \A u \in Workers : u # w => main'[u] = main[u]
        /\ main'[w].pc \in {"release", "failing"} /\ main'[w].token = main[w].token
        /\ main'[w].lease = main[w].lease /\ main'[w].report \in {"lost", main[w].report}
    BY <1>3, <1>7, ToldMain
  <2>. QED  BY <1>2, <1>3, <1>5, <2>1, RunsOn DEF OthersStay, Leasing
<1>8. \A stage : Granted(w, stage) =>
        \/ stage = "member" /\ AfterStage(stage) = "permit"
        \/ stage = "permit" /\ AfterStage(stage) = "lease"
        \/ stage = "lease" /\ AfterStage(stage) = "done"
  BY DEF Granted, AfterStage
<1>9. Verified(w) \in {"execute", "publish", "fail"}
  BY <1>2 DEF Verified
<1>10. /\ main[w].pc \in PCs /\ main[w].pc \in Leasing
       /\ {"execute", "publish", "fail"} \subseteq PCs \cap Leasing
       /\ {"permit", "lease", "none"} \subseteq Stages
  BY <1>2 DEF PCs, Leasing, Stages
<1>11. \/ LoseLease(w)
       \/ Goto(w, Verified(w), "none")
       \/ \E stage \in {"permit", "lease"} : Goto(w, main[w].pc, stage)
  BY <1>8 DEF MainVerifies
<1>. QED  BY <1>6, <1>7, <1>9, <1>10, <1>11

LEMMA RunnerEndsWInv ==
  ASSUME WInv, NEW w \in Workers, RunnerReturns(w) \/ RunnerRaises(w)
  PROVE  WInv'
<1>1. watch \in [Workers -> Watch] /\ IInv /\ A!TypeOK
  BY WorkerTypes
<1>2. /\ main[w].pc \in Leasing /\ LedgerKept /\ A!TypeOK' /\ permit' = permit
      /\ member' = member /\ watch' = watch
  BY <1>1, SameKept DEF RunnerReturns, RunnerRaises, ledgerVars, storeVars, A!TypeOK, Leasing
<1>3. ASSUME LoseLease(w) \/ Failing(w) PROVE WInv'
  <2>1. /\ main' \in [Workers -> Main'] /\ \A u \in Workers : u # w => main'[u] = main[u]
        /\ main'[w].pc \in {"release", "failing"} /\ main'[w].token = main[w].token
        /\ main'[w].lease = main[w].lease /\ main'[w].report \in {"lost", main[w].report}
    BY <1>2, <1>3, ToldMain DEF LedgerKept
  <2>. QED  BY <1>1, <1>2, <2>1, RunsOn DEF OthersStay, Leasing
<1>4. ASSUME Goto(w, "settle", "member") PROVE WInv'
  <2>1. /\ main' \in [Workers -> Main'] /\ \A u \in Workers : u # w => main'[u] = main[u]
        /\ main'[w].pc = "settle" /\ main'[w].token = main[w].token
        /\ main'[w].lease = main[w].lease /\ main'[w].report = main[w].report
    BY <1>2, <1>4, GotoMain DEF LedgerKept, PCs, Stages
  <2>. QED  BY <1>1, <1>2, <2>1, RunsOn DEF OthersStay, Leasing
<1>. QED  BY <1>3, <1>4 DEF RunnerReturns, RunnerRaises, Failing

LEMMA SettleWInv ==
  ASSUME WInv, NEW w \in Workers, Publish(w) \/ FailTurn(w)
  PROVE  WInv'
<1>1. watch \in [Workers -> Watch] /\ IInv /\ A!TypeOK /\ RunShape(w)
  BY WorkerTypes
<1>2. /\ main[w].pc \in Leasing /\ main[w].lease \in leases
      /\ UNCHANGED storeVars /\ permit' = permit /\ member' = member /\ watch' = watch
  BY <1>1 DEF Publish, FailTurn, storeVars, RunShape, Leasing
<1>3. ASSUME NEW now, NEW status,
             \/ Complete(main[w].lease, now) /\ status = "completed"
             \/ Fail(main[w].lease, now) /\ status = "failed"
      PROVE  LedgerKept /\ clock' = clock /\ jobs'[main[w].lease.turn].status = status
  BY <1>1, <1>2, <1>3, PublishTouches
<1>4. ASSUME UNCHANGED <<ledgerVars, clock>> PROVE LedgerKept /\ clock' = clock
  BY <1>1, <1>4, SameKept
<1>5. ASSUME LedgerKept, clock' = clock, LoseLease(w) \/ Failing(w) PROVE WInv'
  <2>1. A!TypeOK'
    BY <1>1, <1>2, <1>5 DEF A!TypeOK, storeVars
  <2>2. /\ main' \in [Workers -> Main'] /\ \A u \in Workers : u # w => main'[u] = main[u]
        /\ main'[w].pc \in {"release", "failing"} /\ main'[w].token = main[w].token
        /\ main'[w].lease = main[w].lease /\ main'[w].report \in {"lost", main[w].report}
    BY <1>5, ToldMain DEF LedgerKept
  <2>. QED  BY <1>1, <1>2, <1>5, <2>1, <2>2, RunsOn DEF OthersStay, Leasing
<1>6. ASSUME LedgerKept, clock' = clock, NEW what \in {"completed", "failed"},
             jobs'[main[w].lease.turn].status = what, Report(w, "release", what)
      PROVE  WInv'
  <2>1. A!TypeOK'
    BY <1>1, <1>2, <1>6 DEF A!TypeOK, storeVars
  <2>2. /\ main' \in [Workers -> Main'] /\ \A u \in Workers : u # w => main'[u] = main[u]
        /\ main'[w].pc = "release" /\ main'[w].token = main[w].token
        /\ main'[w].lease = main[w].lease /\ main'[w].report = what
    BY <1>6, ReportMain DEF LedgerKept, PCs
  <2>. QED  BY <1>1, <1>2, <1>6, <2>1, <2>2, RunsOn DEF OthersStay, Leasing
<1>7. CASE Publish(w)
  BY <1>3, <1>4, <1>5, <1>6, <1>7 DEF Publish, Failing
<1>8. CASE FailTurn(w)
  BY <1>3, <1>4, <1>5, <1>6, <1>8 DEF FailTurn
<1>. QED  BY <1>7, <1>8

(* Whoever lets go of a run, lets go of its permit. *)
LEMMA FinishWInv ==
  ASSUME WInv, NEW w \in Workers, Finish(w)
  PROVE  WInv'
<1>1. /\ main \in [Workers -> Main] /\ main[w] \in Main /\ RunShape(w)
      /\ watch \in [Workers -> Watch] /\ IInv /\ A!TypeOK /\ member \in BOOLEAN
  BY WorkerTypes
<1>2. /\ main[w].pc = "release" /\ LedgerKept /\ clock' = clock /\ member' = member
      /\ main[w].token \in Tokens /\ Goto(w, "idle", "none")
      /\ watch' = [watch EXCEPT ![w] = IF @.state = "sleep" THEN Asleep ELSE @]
  BY <1>1, SameKept DEF Finish, ledgerVars, RunShape
<1>3. /\ A!TypeOK' /\ permit'[main[w].token].state \in {"released", "lost"}
      /\ \A t \in Tokens : t # main[w].token => permit'[t] = permit[t]
  <2>1. CASE A!Release(main[w].token, "released")
    BY <1>1, <1>2, <2>1, ReleaseStore
  <2>2. CASE /\ permit' = [permit EXCEPT ![main[w].token].state = "lost"]
             /\ UNCHANGED <<score, keyUntil>>
    <3>1. /\ permit' \in [Tokens -> A!Permit] /\ permit'[main[w].token].state = "lost"
          /\ \A t \in Tokens : t # main[w].token => permit'[t] = permit[t]
      BY <1>1, <1>2, <2>2, StoreFacts DEF A!Permit, A!PermitStates
    <3>. QED  BY <1>1, <1>2, <2>2, <3>1 DEF A!TypeOK
  <2>. QED  BY <2>1, <2>2 DEF Finish
<1>4. /\ main' \in [Workers -> Main'] /\ \A u \in Workers : u # w => main'[u] = main[u]
      /\ main'[w].pc = "idle" /\ main'[w].token = main[w].token
      /\ main'[w].lease = main[w].lease /\ main'[w].report = main[w].report
  BY <1>2, GotoMain DEF LedgerKept, PCs, Stages
<1>5. /\ watch' \in [Workers -> Watch] /\ \A u \in Workers : u # w => watch'[u] = watch[u]
      /\ watch'[w] \in {watch[w], Asleep}
  BY <1>1, <1>2 DEF Asleep, Watch
<1>6. RunShape(w)'
  <2>1. watch'[w].state # "off" => watch[w].state # "off"
    BY <1>5 DEF Asleep
  <2>2. main[w].report \in {"completed", "failed"} =>
          jobs'[main[w].lease.turn].status = main[w].report
    BY <1>1, <1>2 DEF RunShape, LedgerKept, Terminal, IInv, TypeOK, Lease
  <2>. QED  BY <1>1, <1>2, <1>3, <1>4, <2>1, <2>2 DEF RunShape, LedgerKept, Leasing
<1>7. PermitsFollow(w)
  BY <1>2, <1>3, <1>4 DEF PermitsFollow
<1>. QED  BY <1>1, <1>2, <1>3, <1>4, <1>5, <1>6, <1>7, RunStep DEF OthersStay

LEMMA CrashWInv ==
  ASSUME WInv, NEW w \in Workers, Crash(w)
  PROVE  WInv'
<1>1. /\ main \in [Workers -> Main] /\ main[w] \in Main /\ RunShape(w)
      /\ watch \in [Workers -> Watch] /\ IInv /\ A!TypeOK /\ member \in BOOLEAN
  BY WorkerTypes
<1>2. /\ LedgerKept /\ clock' = clock /\ member' = member /\ UNCHANGED <<score, keyUntil>>
      /\ main' = [main EXCEPT ![w] = [AtRest EXCEPT !.report = "lost"]]
      /\ watch' = [watch EXCEPT ![w] = Asleep]
  BY <1>1, SameKept DEF Crash, ledgerVars
<1>3. /\ permit' \in [Tokens -> A!Permit]
      /\ \A t \in Tokens : t # main[w].token => permit'[t] = permit[t]
      /\ main[w].token \in Tokens => permit'[main[w].token].state # "held"
  <2>1. CASE main[w].token = None
    BY <1>1, <2>1, StoreFacts, WorkerAssumption DEF Crash
  <2>2. CASE main[w].token # None
    <3>1. main[w].token \in Tokens
      BY <1>1, <2>2 DEF Main
    <3>2. permit' = [permit EXCEPT ![main[w].token].state =
                       IF permit[main[w].token].state = "held"
                         THEN "lost" ELSE permit[main[w].token].state]
      BY <2>2 DEF Crash
    <3>. QED  BY <1>1, <3>1, <3>2, StoreFacts DEF A!Permit, A!PermitStates
  <2>. QED  BY <2>1, <2>2
<1>4. A!TypeOK'
  BY <1>1, <1>2, <1>3 DEF A!TypeOK
<1>5. [AtRest EXCEPT !.report = "lost"] \in Main' /\ Asleep \in Watch
  BY DEF AtRest, Main, PCs, Stages, Asleep, Watch
<1>6. \A u \in Workers : main[u] \in Main'
  BY <1>1, <1>2 DEF Main, LedgerKept
<1>7. main' \in [Workers -> Main'] /\ watch' \in [Workers -> Watch] /\ OthersStay(w)
  BY <1>1, <1>2, <1>5, <1>6 DEF OthersStay
<1>8. /\ main'[w].pc = "idle" /\ main'[w].token = None /\ main'[w].lease = NoLease
      /\ main'[w].report = "lost" /\ watch'[w].state = "off"
  BY <1>1, <1>2 DEF AtRest, Asleep
<1>9. RunShape(w)'
  BY <1>8 DEF RunShape, Leasing
<1>10. PermitsFollow(w)
  BY <1>3, <1>8 DEF PermitsFollow
<1>. QED  BY <1>1, <1>2, <1>4, <1>7, <1>9, <1>10, RunStep

(* The watch thread asks, and may tell the runner; the run stands where it is. *)
LEMMA StandsStill ==
  ASSUME WInv, LedgerKept, A!TypeOK', member' = member, NEW w \in Workers,
         main' \in [Workers -> Main'], watch' \in [Workers -> Watch], OthersStay(w),
         main'[w].pc = main[w].pc, main'[w].token = main[w].token,
         main'[w].lease = main[w].lease, main'[w].report = main[w].report,
         permit' = permit, watch'[w].state # "off" => watch[w].state # "off"
  PROVE  WInv'
<1>1. RunShape(w) /\ member \in BOOLEAN /\ IInv
  BY WorkerTypes
<1>2. main[w].report \in {"completed", "failed"} =>
        jobs'[main[w].lease.turn].status = main[w].report
  BY <1>1 DEF RunShape, LedgerKept, Terminal, IInv, TypeOK, Lease
<1>3. RunShape(w)'
  BY <1>1, <1>2 DEF RunShape, LedgerKept, Leasing
<1>4. PermitsFollow(w)
  BY DEF PermitsFollow
<1>. QED  BY <1>1, <1>3, <1>4, RunStep

LEMMA WakeWInv ==
  ASSUME WInv, NEW w \in Workers, Wake(w)
  PROVE  WInv'
<1>1. /\ main \in [Workers -> Main] /\ watch \in [Workers -> Watch] /\ watch[w] \in Watch
      /\ IInv /\ A!TypeOK
  BY WorkerTypes
<1>2. /\ LedgerKept /\ A!TypeOK' /\ permit' = permit /\ member' = member /\ main' = main
      /\ watch[w].state = "sleep" /\ leases' = leases
      /\ watch' = [watch EXCEPT ![w].state = "member"]
  BY <1>1, SameKept DEF Wake, ledgerVars, storeVars, A!TypeOK
<1>3. watch' \in [Workers -> Watch] /\ OthersStay(w)
  BY <1>1, <1>2 DEF Watch, Stages, OthersStay
<1>4. main' \in [Workers -> Main']
  BY <1>1, <1>2 DEF Main
<1>. QED  BY <1>1, <1>2, <1>3, <1>4, StandsStill

LEMMA WatchVerifiesWInv ==
  ASSUME WInv, NEW w \in Workers, WatchVerifies(w)
  PROVE  WInv'
<1>1. /\ main \in [Workers -> Main] /\ main[w] \in Main /\ watch \in [Workers -> Watch]
      /\ watch[w] \in Watch /\ RunShape(w) /\ clock \in Nat
  BY WorkerTypes DEF IInv, TypeOK
<1>2. /\ watch[w].state # "off" /\ clock' = clock /\ member' = member
      /\ main[w].token \in Tokens /\ main[w].lease \in leases
  BY <1>1 DEF WatchVerifies, RunShape, Stages
<1>3. LedgerKept /\ A!TypeOK' /\ permit' = permit /\ leases' = leases
  BY <1>2, AskedKept DEF WatchVerifies
<1>4. \A stage : Granted(w, stage) => AfterStage(stage) \in {"permit", "lease", "done"}
  BY DEF Granted, AfterStage
<1>5. clock + Heartbeat \in Nat /\ Asleep \in Watch
  BY <1>1, WorkerAssumption DEF Asleep, Watch
<1>6. \A u \in Workers : u # w => main'[u] = main[u] /\ watch'[u] = watch[u]
  BY <1>1 DEF WatchVerifies
<1>7. watch' \in [Workers -> Watch]
  BY <1>1, <1>4, <1>5 DEF WatchVerifies, Watch, Stages
<1>8. \/ main' = main
      \/ main' = [main EXCEPT ![w].lost = TRUE, ![w].told = TRUE]
  BY DEF WatchVerifies
<1>9. /\ main' \in [Workers -> Main] /\ main'[w].pc = main[w].pc
      /\ main'[w].token = main[w].token /\ main'[w].lease = main[w].lease
      /\ main'[w].report = main[w].report
  <2>1. CASE main' = main
    BY <1>1, <2>1
  <2>2. CASE main' = [main EXCEPT ![w].lost = TRUE, ![w].told = TRUE]
    <3>1. main'[w] = [main[w] EXCEPT !.lost = TRUE, !.told = TRUE]
      BY <1>1, <2>2
    <3>2. [main[w] EXCEPT !.lost = TRUE, !.told = TRUE] \in Main
      BY <1>1 DEF Main
    <3>3. main' \in [Workers -> Main]
      BY <1>1, <2>2, <3>1, <3>2
    <3>. QED  BY <1>1, <3>1, <3>3 DEF Main
  <2>. QED  BY <1>8, <2>1, <2>2
<1>10. Main' = Main
  BY <1>3 DEF Main
<1>. QED  BY <1>2, <1>3, <1>6, <1>7, <1>9, <1>10, StandsStill DEF OthersStay

----------------------------------------------------------------------------
(* The world around the workers. *)

LEMMA MembershipWInv ==
  ASSUME WInv, Revoke \/ Reinstate
  PROVE  WInv'
<1>1. IInv /\ A!TypeOK
  BY DEF WInv, WorkerTypeOK
<1>2. /\ UNCHANGED <<ledgerVars, clock>> /\ UNCHANGED storeVars
      /\ main' = main /\ watch' = watch /\ member' \in BOOLEAN
  BY DEF Revoke, Reinstate
<1>. QED  BY <1>1, <1>2, SameKept, WorldStep DEF storeVars, A!TypeOK

LEMMA CancelTurnWInv ==
  ASSUME WInv, NEW t \in Turns, CancelTurn(t)
  PROVE  WInv'
<1>1. IInv /\ A!TypeOK /\ member \in BOOLEAN
  BY DEF WInv, WorkerTypeOK
<1>2. /\ Cancel(t) /\ UNCHANGED storeVars
      /\ main' = main /\ watch' = watch /\ member' = member
  BY DEF CancelTurn
<1>3. LedgerKept /\ clock' = clock
  BY <1>1, <1>2, CancelTouches
<1>. QED  BY <1>1, <1>2, <1>3, WorldStep DEF storeVars, A!TypeOK

LEMMA RecycleWInv ==
  ASSUME WInv, NEW t \in Tokens, Recycle(t)
  PROVE  WInv'
<1>1. IInv /\ A!TypeOK /\ member \in BOOLEAN
  BY DEF WInv, WorkerTypeOK
<1>2. /\ UNCHANGED <<ledgerVars, clock>> /\ keyUntil' = keyUntil
      /\ main' = main /\ watch' = watch /\ member' = member
      /\ permit' = [permit EXCEPT ![t].state = "unused"]
      /\ score' = [score EXCEPT !["user"][t] = 0]
      /\ \A w \in Workers : main[w].token # t
  BY DEF Recycle
<1>3. /\ permit' \in [Tokens -> A!Permit] /\ permit'[t].state = "unused"
      /\ \A u \in Tokens : u # t => permit'[u] = permit[u]
  BY <1>1, <1>2, StoreFacts DEF A!Permit, A!PermitStates
<1>4. score' \in [{"user"} -> [Tokens -> Nat]]
  BY <1>1, <1>2 DEF A!TypeOK
<1>5. A!TypeOK'
  BY <1>1, <1>2, <1>3, <1>4 DEF A!TypeOK
<1>6. LedgerKept
  BY <1>1, <1>2, SameKept
<1>. QED  BY <1>1, <1>2, <1>3, <1>5, <1>6, WorldStep

(* A tick also resets what an idle worker remembers of its last run. *)
LEMMA TimeWInv ==
  ASSUME WInv, Time
  PROVE  WInv'
<1>1. /\ IInv /\ A!TypeOK /\ member \in BOOLEAN /\ main \in [Workers -> Main]
      /\ watch \in [Workers -> Watch] /\ \A w \in Workers : RunShape(w)
  BY DEF WInv, WorkerTypeOK, Main, Watch
<1>2. /\ Tick /\ UNCHANGED storeVars /\ member' = member /\ watch' = watch
      /\ permit' = permit
      /\ main' = [w \in Workers |-> IF main[w].pc = "idle" /\ watch[w].state = "off"
                                      THEN AtRest ELSE main[w]]
  BY DEF Time, storeVars
<1>3. LedgerKept /\ jobs' = jobs /\ leases' = leases
  BY <1>1, <1>2, TickKept DEF Tick
<1>4. A!TypeOK'
  BY <1>1, <1>2 DEF A!TypeOK, Tick, storeVars
<1>5. \A w \in Workers : \/ main'[w] = main[w]
                         \/ /\ main[w].pc = "idle" /\ watch[w].state = "off"
                            /\ main'[w] = AtRest
  BY <1>2
<1>6. AtRest \in Main /\ AtRest.token = None /\ AtRest.pc = "idle" /\ AtRest.lease = NoLease
      /\ AtRest.report = "none"
  BY DEF AtRest, Main, PCs, Stages
<1>7. main' \in [Workers -> Main']
  BY <1>1, <1>2, <1>3, <1>6 DEF Main
<1>8. WorkerTypeOK'
  BY <1>1, <1>2, <1>3, <1>4, <1>7 DEF WorkerTypeOK, LedgerKept, IInv, Main, Watch
<1>9. ASSUME NEW w \in Workers PROVE RunShape(w)'
  <2>1. CASE main'[w] = main[w]
    BY <1>1, <1>2, <1>3, <2>1 DEF RunShape
  <2>2. CASE main[w].pc = "idle" /\ watch[w].state = "off" /\ main'[w] = AtRest
    BY <1>2, <1>6, <2>2 DEF RunShape, Leasing
  <2>. QED  BY <1>5, <2>1, <2>2
<1>10. TokensAreOwn'
  BY <1>5, <1>6 DEF WInv, TokensAreOwn
<1>11. HeldByRuns'
  <2> SUFFICES ASSUME NEW t \in Tokens, permit'[t].state = "held"
               PROVE  \E w \in Workers : main'[w].token = t /\ main'[w].pc # "idle"
    BY DEF HeldByRuns
  <2>1. PICK w \in Workers : main[w].token = t /\ main[w].pc # "idle"
    BY <1>2 DEF WInv, HeldByRuns
  <2>. QED  BY <1>5, <2>1
<1>. QED  BY <1>3, <1>8, <1>9, <1>10, <1>11 DEF WInv, LedgerKept

LEMMA NextWInv == WInv /\ [WNext]_allVars => WInv'
<1> SUFFICES ASSUME WInv, [WNext]_allVars PROVE WInv'
  OBVIOUS
<1>1. ASSUME NEW w \in Workers, Step(w) PROVE WInv'
  BY <1>1, AuthorizeWInv, AdmitWInv, ClaimTurnWInv, MainVerifiesWInv, RunnerEndsWInv,
     SettleWInv, FinishWInv DEF Step
<1>2. ASSUME NEW w \in Workers, Wake(w) \/ WatchVerifies(w) \/ Crash(w) PROVE WInv'
  BY <1>2, WakeWInv, WatchVerifiesWInv, CrashWInv
<1>3. CASE Revoke \/ Reinstate
  BY <1>3, MembershipWInv
<1>4. ASSUME NEW t \in Turns, CancelTurn(t) PROVE WInv'
  BY <1>4, CancelTurnWInv
<1>5. ASSUME NEW t \in Tokens, Recycle(t) PROVE WInv'
  BY <1>5, RecycleWInv
<1>6. CASE Time
  BY <1>6, TimeWInv
<1>7. CASE UNCHANGED allVars
  <2>1. IInv /\ A!TypeOK /\ member \in BOOLEAN
    BY DEF WInv, WorkerTypeOK
  <2>2. /\ UNCHANGED <<ledgerVars, clock>> /\ UNCHANGED storeVars /\ main' = main
        /\ watch' = watch /\ member' = member
    BY <1>7 DEF allVars
  <2>. QED  BY <2>1, <2>2, SameKept, WorldStep DEF storeVars, A!TypeOK
<1>. QED  BY <1>1, <1>2, <1>3, <1>4, <1>5, <1>6, <1>7 DEF WNext

----------------------------------------------------------------------------
(* The workers start over a queue that has its rows already: such a queue    *)
(* exists, and it has the invariant of the ledger.                           *)

(* The turns of each session can be numbered from 1. *)
LEMMA NumberingExists ==
  ASSUME NEW home \in [Turns -> Sessions]
  PROVE  \E f \in [Turns -> 1..Cardinality(Turns)] :
           \A s \in Sessions : LET mine == {t \in Turns : home[t] = s}
                               IN {f[t] : t \in mine} = 1..Cardinality(mine)
<1> DEFINE mine(s) == {t \in Turns : home[t] = s}
           n(s)    == Cardinality(mine(s))
           list(s) == CHOOSE b : b \in Bijection(1..n(s), mine(s))
           f       == [t \in Turns |-> CHOOSE i \in 1..n(home[t]) : list(home[t])[i] = t]
<1>1. IsFiniteSet(Turns) /\ Cardinality(Turns) \in Nat
  BY WorkerAssumption, FS_CardinalityType
<1>2. ASSUME NEW s \in Sessions
      PROVE  /\ n(s) \in Nat /\ n(s) <= Cardinality(Turns)
             /\ list(s) \in Bijection(1..n(s), mine(s))
  <2>1. mine(s) \in SUBSET Turns
    OBVIOUS
  <2>2. IsFiniteSet(mine(s)) /\ n(s) <= Cardinality(Turns)
    BY <1>1, <2>1, FS_Subset
  <2>3. n(s) \in Nat /\ ExistsBijection(1..n(s), mine(s))
    BY <2>2, FS_CardinalityType
  <2>4. list(s) \in Bijection(1..n(s), mine(s))
    BY <2>3 DEF ExistsBijection
  <2>. QED  BY <2>2, <2>3, <2>4
<1> HIDE DEF list, n
<1>3. ASSUME NEW t \in Turns
      PROVE  f[t] \in 1..n(home[t]) /\ list(home[t])[f[t]] = t
  <2>1. \E i \in 1..n(home[t]) : list(home[t])[i] = t
    BY <1>2 DEF Bijection, Surjection
  <2>. QED  BY <2>1
<1>4. ASSUME NEW s \in Sessions, NEW i \in 1..n(s)
      PROVE  \E t \in mine(s) : f[t] = i
  <2>1. list(s)[i] \in mine(s)
    BY <1>2 DEF Bijection, Injection
  <2>2. /\ f[list(s)[i]] \in 1..n(s) /\ list(s)[f[list(s)[i]]] = list(s)[i]
    BY <1>3, <2>1
  <2>3. f[list(s)[i]] = i
    BY <1>2, <2>2 DEF Bijection, Injection, IsInjective
  <2>. QED  BY <2>1, <2>3
<1> HIDE DEF f
<1>5. \A s \in Sessions : {f[t] : t \in mine(s)} = 1..n(s)
  BY <1>3, <1>4
<1>6. f \in [Turns -> 1..Cardinality(Turns)]
  <2>1. ASSUME NEW t \in Turns PROVE f[t] \in 1..Cardinality(Turns)
    <3>1. home[t] \in Sessions
      OBVIOUS
    <3>2. n(home[t]) \in Nat /\ n(home[t]) <= Cardinality(Turns)
      BY <1>2, <3>1
    <3>. QED  BY <1>1, <1>3, <3>2
  <2>2. f = [t \in Turns |-> f[t]]
    BY DEF f
  <2>. QED  BY <2>1, <2>2
<1>. QED  BY <1>5, <1>6 DEF n

LEMMA QueuedIInv == InitiallyQueued => IInv
<1> SUFFICES ASSUME InitiallyQueued PROVE IInv
  OBVIOUS
<1> DEFINE key == CHOOSE f \in [Turns -> Keys] : \A t, u \in Turns : f[t] = f[u] => t = u
           numbers(home, f) ==
             \A s \in Sessions : LET mine == {t \in Turns : home[t] = s}
                                 IN {f[t] : t \in mine} = 1..Cardinality(mine)
           at(home) == CHOOSE f \in [Turns -> 1..Cardinality(Turns)] : numbers(home, f)
           row(home, p, t) == [NoJob EXCEPT !.status = "queued", !.session = home[t],
                                            !.key = key[t], !.payload = p]
<1>1. PICK home \in [Turns -> Sessions], p \in Payloads :
        /\ jobs = [t \in Turns |-> row(home, p, t)]
        /\ events = {Entry(jobs[t], t, at(home)[t]) : t \in Turns}
        /\ cursor = [s \in Sessions |-> Cardinality({t \in Turns : home[t] = s})]
  BY DEF InitiallyQueued
<1>2. key \in [Turns -> Keys] /\ sessions = [s \in Sessions |-> "live"] /\ minted = Turns
  BY WorkerAssumption DEF InitiallyQueued
<1>3. at(home) \in [Turns -> 1..Cardinality(Turns)]
  BY NumberingExists
<1> HIDE DEF key, at
<1>4. \A t \in Turns :
        /\ row(home, p, t) \in Job /\ row(home, p, t).status = "queued"
        /\ row(home, p, t).session = home[t] /\ row(home, p, t).key = key[t]
        /\ row(home, p, t).payload = p
        /\ row(home, p, t).fence = 0 /\ row(home, p, t).attempts = 0
        /\ row(home, p, t).result = None
  BY <1>2, NoJobType DEF NoJob, Job, Statuses
<1> HIDE DEF row
<1>5. \A t \in Turns : jobs[t] = row(home, p, t)
  BY <1>1
<1>6. TypeOK
  <2>1. jobs \in [Turns -> Job]
    BY <1>1, <1>4
  <2>2. events \subseteq Event
    <3>1. ASSUME NEW t \in Turns PROVE Entry(jobs[t], t, at(home)[t]) \in Event
      <4>1. Cardinality(Turns) \in Nat
        BY WorkerAssumption, FS_CardinalityType
      <4>2. at(home)[t] \in Nat \ {0}
        BY <1>3, <4>1
      <4>3. home[t] # None
        BY LedgerAssumption
      <4>. QED  BY <1>4, <1>5, <4>2, <4>3, EntryType
    <3>. QED  BY <1>1, <3>1
  <2>3. cursor \in [Sessions -> Nat]
    <3>1. ASSUME NEW s \in Sessions PROVE Cardinality({t \in Turns : home[t] = s}) \in Nat
      <4>1. {t \in Turns : home[t] = s} \in SUBSET Turns
        OBVIOUS
      <4>2. IsFiniteSet({t \in Turns : home[t] = s})
        BY <4>1, WorkerAssumption, FS_Subset
      <4>. QED  BY <4>2, FS_CardinalityType
    <3>. QED  BY <1>1, <3>1
  <2>. QED  BY <2>1, <2>2, <2>3 DEF InitiallyQueued, TypeOK
<1>7. LedgerShape
  <2>1. ASSUME NEW t \in Turns PROVE RowShape(jobs[t])
    <3>1. jobs[t].status = "queued" /\ jobs[t].session \in Sessions /\ jobs[t].key \in Keys
          /\ jobs[t].payload \in Payloads /\ jobs[t].fence = 0 /\ jobs[t].attempts = 0
          /\ jobs[t].result = None
      BY <1>2, <1>4, <1>5
    <3>. QED  BY <1>2, <3>1, LedgerAssumption DEF RowShape
  <2>. QED  BY <1>2, <2>1 DEF LedgerShape
<1>8. LeaseShape /\ AtMostOneExecution
  BY DEF InitiallyQueued, LeaseShape, AtMostOneExecution
<1>. QED  BY <1>6, <1>7, <1>8 DEF IInv

LEMMA InitWInv == WInit => WInv
<1> SUFFICES ASSUME WInit PROVE WInv
  OBVIOUS
<1>1. IInv /\ leases = {} /\ clock = 0
  BY QueuedIInv DEF WInit, InitiallyQueued
<1>2. /\ permit = [t \in Tokens |-> [state |-> "unused", scope |-> CHOOSE s \in {"scope"} : TRUE]]
      /\ score = [c \in {"user"} |-> [t \in Tokens |-> 0]]
      /\ keyUntil = [c \in {"user"} |-> 0]
  BY DEF WInit, A!Init
<1>3. A!TypeOK
  BY <1>1, <1>2 DEF A!TypeOK, A!Permit, A!PermitStates
<1>4. AtRest \in Main /\ Asleep \in Watch
  BY DEF AtRest, Main, PCs, Stages, Asleep, Watch
<1>5. WorkerTypeOK
  BY <1>1, <1>3, <1>4 DEF WInit, WorkerTypeOK, IInv, Main, Watch
<1>6. \A w \in Workers : main[w] = AtRest /\ watch[w] = Asleep
  BY DEF WInit
<1>7. \A w \in Workers : RunShape(w)
  BY <1>6 DEF RunShape, AtRest, Asleep, Leasing
<1>8. TokensAreOwn /\ HeldByRuns
  BY <1>2, <1>6 DEF TokensAreOwn, HeldByRuns, AtRest
<1>. QED  BY <1>1, <1>5, <1>7, <1>8 DEF WInv

----------------------------------------------------------------------------

(* WInv in every reachable state: at each point of run_one a worker has the   *)
(* lease and the token that point needs, a token names one run, and a permit  *)
(* that is held has a run.                                                  *)
THEOREM WorkerInvariant == WSpec => []WInv
<1>. QED  BY InitWInv, NextWInv, PTL DEF WSpec

(* What run_one tells its caller is what the ledger says, for any number of   *)
(* workers, whatever lapses, is cancelled, raises or crashes in between.      *)
THEOREM WorkersReportTruly == WSpec => []ReportsAreTrue
<1>1. WInv => ReportsAreTrue
  BY DEF WInv, RunShape, ReportsAreTrue
<1>. QED  BY <1>1, WorkerInvariant, PTL

(* A permit is held by exactly one run in progress: no way out of run_one, by *)
(* return, exception or lost lease, leaves its permit behind.               *)
THEOREM NoPermitLeaks == WSpec => []PermitsFollowRuns
<1>1. WInv => PermitsFollowRuns
  <2> SUFFICES ASSUME WInv, NEW t \in Tokens, permit[t].state = "held"
               PROVE  Cardinality({w \in Workers : main[w].token = t /\ main[w].pc # "idle"}) = 1
    BY DEF WInv, PermitsFollowRuns
  <2>1. PICK w \in Workers : main[w].token = t /\ main[w].pc # "idle"
    BY DEF WInv, HeldByRuns
  <2>2. {u \in Workers : main[u].token = t /\ main[u].pc # "idle"} = {w}
    BY <2>1, WorkerAssumption DEF WInv, TokensAreOwn
  <2>. QED  BY <2>2, FS_Singleton
<1>. QED  BY <1>1, WorkerInvariant, PTL

----------------------------------------------------------------------------
(* The leases of an executing runner.  Its permit and its row outlive the    *)
(* moment its watch thread is due, so they live whenever it looks, if no     *)
(* thread dawdles and a heartbeat is shorter than both leases.  The code     *)
(* checks the second against the lease of the row only.                      *)

Prompt == Timely /\ Heartbeat < Ttl /\ TxnAge <= Heartbeat

Counted == IsFiniteSet(Counting) /\ Cardinality(Counting) <= Capacity

LeasedRun(w) ==
  LET m  == main[w]
      at == score["user"][m.token]
  IN /\ Executing(w) =>
          /\ watch[w].state # "off" /\ clock <= watch[w].due /\ watch[w].due < at
          /\ jobs[m.lease.turn].status \in {"running", "cancelled"}
          /\ jobs[m.lease.turn].status = "running" => watch[w].due < jobs[m.lease.turn].until
          /\ watch[w].state = "lease" => clock + Ttl <= at
     /\ m.pc = "verify" /\ m.stage = "lease" => clock + Ttl <= at
     /\ watch[w].state # "off" => watch[w].due <= clock + Heartbeat

LInv == Counted /\ \A w \in Workers : LeasedRun(w)

(* What a step of worker w leaves to the others. *)
SparesLedger(w) ==
  \A l \in leases : l.worker # w /\ jobs[l.turn].status \in {"running", "cancelled"}
                    /\ Unswept(l.turn) =>
    jobs'[l.turn] = jobs[l.turn] \/ jobs'[l.turn].status = "cancelled"

SparesStore(w) ==
  \A t \in Counting : permit[t].state = "held" /\ t # main[w].token =>
    score'["user"][t] = score["user"][t]

(* The numbers in LeasedRun are numbers. *)
LEMMA LeasedTypes ==
  ASSUME WInv, NEW w \in Workers
  PROVE  /\ main \in [Workers -> Main] /\ main[w] \in Main /\ RunShape(w)
         /\ watch \in [Workers -> Watch] /\ watch[w] \in Watch /\ watch[w].due \in Nat
         /\ clock \in Nat /\ Ttl \in Nat \ {0} /\ Heartbeat \in Nat /\ TxnAge \in Nat
         /\ \A t \in Tokens : score["user"][t] \in Nat
         /\ \A t \in Turns : jobs[t] \in Job /\ jobs[t].until \in Nat
         /\ \A l \in leases : l.turn \in Turns
         /\ \A t \in Tokens : t \in Counting <=> score["user"][t] > clock
<1>1. /\ main \in [Workers -> Main] /\ main[w] \in Main /\ RunShape(w)
      /\ watch \in [Workers -> Watch] /\ watch[w] \in Watch /\ IInv /\ A!TypeOK
  BY WorkerTypes
<1>2. /\ clock \in Nat /\ \A t \in Turns : jobs[t] \in Job
      /\ \A l \in leases : l.turn \in Turns
  BY <1>1 DEF IInv, TypeOK, Lease
<1>3. \A t \in Tokens : score["user"][t] \in Nat
  BY <1>1, StoreFacts
<1>4. \A t \in Tokens : t \in Counting <=> score["user"][t] > clock
  BY <1>1, StoreFacts
<1>5. \A t \in Turns : jobs[t].until \in Nat
  BY <1>2 DEF Job
<1>6. Ttl \in Nat \ {0} /\ Heartbeat \in Nat /\ TxnAge \in Nat
  BY WorkerAssumption, LedgerAssumption
<1>7. watch[w].due \in Nat
  BY <1>1 DEF Watch
<1>. QED  BY <1>1, <1>2, <1>3, <1>4, <1>5, <1>6, <1>7

(* A worker that does not move keeps its leases while the others spare them.  *)
LEMMA LeasesStay ==
  ASSUME WInv, LInv, NEW u \in Workers, clock' = clock,
         main'[u] = main[u], watch'[u] = watch[u],
         main[u].token \in Counting /\ permit[main[u].token].state = "held" =>
           score'["user"][main[u].token] = score["user"][main[u].token],
         Executing(u) /\ Unswept(main[u].lease.turn) =>
           \/ jobs'[main[u].lease.turn] = jobs[main[u].lease.turn]
           \/ jobs'[main[u].lease.turn].status = "cancelled"
  PROVE  LeasedRun(u)'
<1>1. /\ main[u] \in Main /\ RunShape(u) /\ watch[u].due \in Nat /\ clock \in Nat
      /\ Ttl \in Nat \ {0} /\ \A l \in leases : l.turn \in Turns
      /\ \A t \in Tokens : score["user"][t] \in Nat
      /\ \A t \in Turns : jobs[t].until \in Nat
      /\ \A t \in Tokens : t \in Counting <=> score["user"][t] > clock
  BY LeasedTypes
<1>2. LeasedRun(u)
  BY DEF LInv
<1>3. ASSUME Executing(u) \/ (main[u].pc = "verify" /\ main[u].stage = "lease")
      PROVE  score'["user"][main[u].token] = score["user"][main[u].token]
  <2>1. main[u].token \in Tokens /\ permit[main[u].token].state = "held"
    BY <1>1, <1>3 DEF RunShape, Executing
  <2>2. main[u].token \in Counting
    BY <1>1, <1>2, <1>3, <2>1 DEF LeasedRun
  <2>. QED  BY <2>1, <2>2
<1>4. ASSUME Executing(u) PROVE main[u].lease \in leases /\ Unswept(main[u].lease.turn)
  <2>1. main[u].lease \in leases
    BY <1>1, <1>4 DEF RunShape, Executing, Leasing
  <2>2. jobs[main[u].lease.turn].until \in Nat
    BY <1>1, <2>1
  <2>. QED  BY <1>1, <1>2, <1>4, <2>1, <2>2 DEF LeasedRun, Unswept
<1>5. Executing(u)' <=> Executing(u)
  BY DEF Executing
<1>6. CASE Executing(u)
  <2>1. \/ jobs'[main[u].lease.turn] = jobs[main[u].lease.turn]
        \/ jobs'[main[u].lease.turn].status = "cancelled"
    BY <1>4, <1>6
  <2>2. main[u].pc = "execute"
    BY <1>6 DEF Executing
  <2>3. /\ watch[u].state # "off" /\ clock <= watch[u].due
        /\ watch[u].due < score["user"][main[u].token]
        /\ jobs[main[u].lease.turn].status \in {"running", "cancelled"}
        /\ jobs[main[u].lease.turn].status = "running" =>
             watch[u].due < jobs[main[u].lease.turn].until
        /\ watch[u].state = "lease" => clock + Ttl <= score["user"][main[u].token]
        /\ watch[u].due <= clock + Heartbeat
    BY <1>2, <1>6 DEF LeasedRun
  <2>4. /\ jobs'[main[u].lease.turn].status \in {"running", "cancelled"}
        /\ jobs'[main[u].lease.turn].status = "running" =>
             watch[u].due < jobs'[main[u].lease.turn].until
    BY <2>1, <2>3
  <2>5. score'["user"][main[u].token] = score["user"][main[u].token]
    BY <1>3, <1>6
  <2>. QED  BY <2>2, <2>3, <2>4, <2>5 DEF LeasedRun
<1>7. CASE ~Executing(u)
  BY <1>2, <1>3, <1>5, <1>7 DEF LeasedRun
<1>. QED  BY <1>6, <1>7

LEMMA LeasedStep ==
  ASSUME WInv, LInv, clock' = clock, NEW w \in Workers, OthersStay(w),
         SparesLedger(w), SparesStore(w), Counted', LeasedRun(w)'
  PROVE  LInv'
<1>1. ASSUME NEW u \in Workers, u # w PROVE LeasedRun(u)'
  <2>1. main[u] \in Main /\ RunShape(u)
    BY LeasedTypes
  <2>2. main'[u] = main[u] /\ watch'[u] = watch[u]
    BY <1>1 DEF OthersStay
  <2>3. ASSUME main[u].token \in Counting, permit[main[u].token].state = "held"
        PROVE  score'["user"][main[u].token] = score["user"][main[u].token]
    <3>1. main[u].token # None
      BY <2>3, WorkerAssumption DEF Counting, A!Live
    <3>2. main[u].token # main[w].token
      BY <1>1, <3>1 DEF WInv, TokensAreOwn
    <3>. QED  BY <2>3, <3>2 DEF SparesStore
  <2>4. ASSUME Executing(u), Unswept(main[u].lease.turn)
        PROVE  \/ jobs'[main[u].lease.turn] = jobs[main[u].lease.turn]
               \/ jobs'[main[u].lease.turn].status = "cancelled"
    <3>1. main[u].lease \in leases
      BY <2>1, <2>4 DEF RunShape, Executing, Leasing
    <3>2. main[u].lease # NoLease => main[u].lease.worker = u
      BY <2>1 DEF RunShape
    <3>3. NoLease \notin leases
      BY LedgerAssumption DEF WInv, IInv, TypeOK, Lease, NoLease
    <3>4. jobs[main[u].lease.turn].status \in {"running", "cancelled"}
      BY <2>4 DEF LInv, LeasedRun
    <3>. QED  BY <1>1, <2>4, <3>1, <3>2, <3>3, <3>4 DEF SparesLedger
  <2>. QED  BY <2>2, <2>3, <2>4, LeasesStay
<1>. QED  BY <1>1 DEF LInv

(* A worker that neither executes unaware nor waits for its row promises      *)
(* nothing.                                                                 *)
LEMMA NothingLeased ==
  ASSUME WInv, LInv, NEW w \in Workers, clock' = clock,
         main'[w].pc # "execute" \/ main'[w].told,
         main'[w].pc # "verify" \/ main'[w].stage # "lease",
         watch'[w].state = "off" \/ watch'[w] = watch[w]
  PROVE  LeasedRun(w)'
BY DEF LInv, LeasedRun, Executing

(* A step of w's main thread that touches neither row nor store. *)
LEMMA QuietStep ==
  ASSUME WInv, LInv, NEW w \in Workers, OthersStay(w), LeasedRun(w)',
         jobs' = jobs, clock' = clock, score' = score
  PROVE  LInv'
<1>1. Counted'
  BY DEF LInv, Counted, Counting, A!Live
<1>. QED  BY <1>1, LeasedStep DEF SparesLedger, SparesStore

(* A set of tokens that only shrinks stays within the capacity. *)
LEMMA FewerCounted ==
  ASSUME Counted, Counting' \subseteq Counting
  PROVE  Counted'
<1>1. Counting' \in SUBSET Counting
  OBVIOUS
<1>2. IsFiniteSet(Counting') /\ Cardinality(Counting') <= Cardinality(Counting)
  BY <1>1, FS_Subset DEF Counted
<1>3. Cardinality(Counting') \in Nat /\ Cardinality(Counting) \in Nat /\ Capacity \in Nat
  BY <1>2, FS_CardinalityType, WorkerAssumption DEF Counted
<1>. QED  BY <1>2, <1>3 DEF Counted

LEMMA AuthorizeLInv ==
  ASSUME WInv, LInv, NEW w \in Workers, Authorize(w)
  PROVE  LInv'
<1>1. main \in [Workers -> Main] /\ watch \in [Workers -> Watch]
  BY LeasedTypes
<1>2. /\ jobs' = jobs /\ clock' = clock /\ score' = score /\ watch' = watch
      /\ watch[w].state = "off" /\ main'[w] = [AtRest EXCEPT !.pc = "admit"]
      /\ OthersStay(w)
  BY <1>1 DEF Authorize, ledgerVars, storeVars, OthersStay
<1>3. main'[w].pc = "admit"
  BY <1>2 DEF AtRest
<1>. QED  BY <1>2, <1>3, NothingLeased, QuietStep

LEMMA AdmitLInv ==
  ASSUME WInv, LInv, NEW w \in Workers, Admit(w)
  PROVE  LInv'
<1>1. /\ main \in [Workers -> Main] /\ main[w] \in Main /\ watch \in [Workers -> Watch]
      /\ A!TypeOK
  BY LeasedTypes DEF WInv, WorkerTypeOK
<1>2. /\ jobs' = jobs /\ clock' = clock /\ watch' = watch
      /\ \A u \in Workers : u # w => main'[u] = main[u]
      /\ main'[w].pc \in {"claim", "idle"}
  BY <1>1 DEF Admit, ledgerVars, Report, Main
<1>3. SparesLedger(w) /\ LeasedRun(w)' /\ OthersStay(w)
  BY <1>2, NothingLeased DEF SparesLedger, OthersStay
<1>4. ASSUME NEW t \in Tokens, NEW answer \in {"held", "lost"}, A!Acquire("scope", t, answer)
      PROVE  SparesStore(w) /\ Counted'
  <2>1. /\ permit[t].state = "unused"
        /\ \A u \in Counting : u # t => score'["user"][u] = score["user"][u]
        /\ Counting' = Counting \cup {t} /\ ~(Cardinality(Counting) >= Capacity)
    BY <1>1, <1>4, AcquireStore
  <2>2. IsFiniteSet(Counting') /\ Cardinality(Counting) \in Nat /\ Capacity \in Nat
        /\ Cardinality(Counting') \in {Cardinality(Counting), Cardinality(Counting) + 1}
    BY <2>1, FS_AddElement, FS_CardinalityType, WorkerAssumption DEF LInv, Counted
  <2>. QED  BY <2>1, <2>2 DEF SparesStore, Counted
<1>5. ASSUME A!Refuse("scope") PROVE SparesStore(w) /\ Counted'
  BY <1>1, <1>5, RefuseStore, FewerCounted DEF SparesStore, LInv
<1>6. SparesStore(w) /\ Counted'
  BY <1>4, <1>5 DEF Admit
<1>. QED  BY <1>2, <1>3, <1>6, LeasedStep

LEMMA ClaimTurnLInv ==
  ASSUME WInv, LInv, NEW w \in Workers, ClaimTurn(w)
  PROVE  LInv'
<1>1. /\ main \in [Workers -> Main] /\ main[w] \in Main /\ watch \in [Workers -> Watch]
      /\ IInv /\ \A l \in leases : l.turn \in Turns
  BY LeasedTypes DEF WInv
<1>2. /\ score' = score /\ watch' = watch
      /\ \A u \in Workers : u # w => main'[u] = main[u]
      /\ \/ main'[w].pc = "release"
         \/ main'[w].pc = "verify" /\ main'[w].stage = "member"
  BY <1>1 DEF ClaimTurn, storeVars, Report, Main
<1>3. ASSUME NEW now, NEW rank \in Ranks(Expired(now)), NEW count \in Counts,
             ReapExpired(Expired(now), rank, count, now)
      PROVE  clock' = clock /\ SparesLedger(w)
  BY <1>1, <1>3, ReapTouches DEF SparesLedger
<1>4. ASSUME NEW now, NEW rank \in Ranks(Expired(now)), NEW count \in Counts,
             NEW t \in Turns, NEW length \in LeaseLengths,
             Claim(w, t, length, Expired(now), rank, count, now)
      PROVE  clock' = clock /\ SparesLedger(w)
  <2>1. /\ clock' = clock
        /\ \A u \in Turns : jobs[u].status # "queued" /\ Unswept(u) => jobs'[u] = jobs[u]
    BY <1>1, <1>4, ClaimTouches
  <2>. QED  BY <1>1, <2>1 DEF SparesLedger
<1>5. clock' = clock /\ SparesLedger(w)
  BY <1>3, <1>4 DEF ClaimTurn
<1>6. SparesStore(w) /\ OthersStay(w) /\ LeasedRun(w)'
  BY <1>2, <1>5, NothingLeased DEF SparesStore, OthersStay
<1>7. Counted'
  BY <1>2, <1>5 DEF LInv, Counted, Counting, A!Live
<1>. QED  BY <1>5, <1>6, <1>7, LeasedStep

(* An answer True of renew_once, and how long what it renewed lasts. *)
LEMMA GrantedLasts ==
  ASSUME Prompt, WInv, NEW w \in Workers, NEW stage, main[w].token \in Tokens,
         main[w].lease \in leases, Granted(w, stage)
  PROVE  LET token == main[w].token
             turn  == main[w].lease.turn
         IN \/ stage = "member" /\ jobs' = jobs /\ score' = score
            \/ /\ stage = "permit" /\ jobs' = jobs /\ score'["user"][token] = clock + Ttl
               /\ \A t \in Tokens : t # token => score'["user"][t] = score["user"][t]
               /\ Counting' = Counting
            \/ /\ stage = "lease" /\ score' = score
               /\ jobs[turn].status = "running" /\ jobs'[turn].status = "running"
               /\ clock + Heartbeat < jobs'[turn].until
               /\ \A t \in Turns : t # turn => jobs'[t] = jobs[t]
<1> DEFINE token == main[w].token
           turn  == main[w].lease.turn
<1>1. IInv /\ A!TypeOK /\ clock \in Nat
  BY DEF WInv, WorkerTypeOK, IInv, TypeOK
<1>2. CASE stage = "member" /\ UNCHANGED <<ledgerVars, storeVars>>
  BY <1>2 DEF ledgerVars, storeVars
<1>3. CASE stage = "permit" /\ A!Renew(token) /\ UNCHANGED ledgerVars
  <2>1. /\ score'["user"][token] = clock + Ttl /\ Counting' = Counting
        /\ \A t \in Tokens : t # token => score'["user"][t] = score["user"][t]
    BY <1>1, <1>3, RenewStore
  <2>. QED  BY <1>3, <2>1 DEF ledgerVars
<1>4. ASSUME stage = "lease", UNCHANGED storeVars, NEW length \in LeaseLengths,
             NEW now \in TxnTime, Renew(main[w].lease, length, now)
      PROVE  /\ stage = "lease" /\ score' = score
             /\ jobs[turn].status = "running" /\ jobs'[turn].status = "running"
             /\ clock + Heartbeat < jobs'[turn].until
             /\ \A t \in Turns : t # turn => jobs'[t] = jobs[t]
  <2>1. /\ jobs[turn].status = "running" /\ jobs'[turn].status = "running"
        /\ jobs'[turn].until = now + length
        /\ \A t \in Turns : t # turn => jobs'[t] = jobs[t]
    BY <1>1, <1>4, RenewTouches
  <2>2. now \in Nat /\ now + TxnAge >= clock
    BY <1>1 DEF TxnTime
  <2>3. length \in Nat /\ 2 * Heartbeat < length /\ Heartbeat \in Nat /\ TxnAge \in Nat
    BY LedgerAssumption, WorkerAssumption
  <2>4. clock + Heartbeat < now + length
    BY <1>1, <2>2, <2>3 DEF Prompt
  <2>. QED  BY <1>4, <2>1, <2>4 DEF storeVars
<1>. QED  BY <1>2, <1>3, <1>4 DEF Granted

(* One question of renew_once, answered or not, spares the others. *)
LEMMA AskedSpares ==
  ASSUME Prompt, WInv, LInv, NEW w \in Workers, NEW stage, main[w].token \in Tokens,
         main[w].lease \in leases, Granted(w, stage) \/ Denied(w, stage), clock' = clock
  PROVE  /\ SparesLedger(w) /\ SparesStore(w) /\ Counted'
         /\ score'["user"][main[w].token] \in {score["user"][main[w].token], clock + Ttl}
<1>1. /\ \A l \in leases : l.turn \in Turns
      /\ main[w].lease.worker = w
  BY SMTT(20), LeasedTypes, LedgerAssumption DEF RunShape, WInv, IInv, TypeOK, Lease, NoLease
<1>2. \A l \in leases : l.turn = main[w].lease.turn => l.worker = w
  BY <1>1 DEF WInv, IInv, AtMostOneExecution
<1>3. CASE Granted(w, stage)
  <2>1. CASE jobs' = jobs /\ score' = score
    BY <2>1 DEF LInv, Counted, Counting, A!Live, SparesLedger, SparesStore
  <2>2. CASE /\ jobs' = jobs /\ score'["user"][main[w].token] = clock + Ttl
             /\ \A t \in Tokens : t # main[w].token => score'["user"][t] = score["user"][t]
             /\ Counting' = Counting
    <3>1. Counting \subseteq Tokens
      BY DEF Counting, A!Live
    <3>2. SparesLedger(w) /\ SparesStore(w)
      BY <2>2, <3>1 DEF SparesLedger, SparesStore
    <3>. QED  BY <2>2, <3>2 DEF LInv, Counted
  <2>3. CASE /\ score' = score
             /\ \A t \in Turns : t # main[w].lease.turn => jobs'[t] = jobs[t]
    <3>1. SparesLedger(w)
      BY <1>1, <1>2, <2>3 DEF SparesLedger
    <3>. QED  BY <2>3, <3>1 DEF LInv, Counted, Counting, A!Live, SparesStore
  <2>. QED  BY <1>3, <2>1, <2>2, <2>3, GrantedLasts
<1>4. CASE UNCHANGED <<ledgerVars, storeVars, clock>>
  BY <1>4 DEF LInv, Counted, Counting, A!Live, SparesLedger, SparesStore,
              ledgerVars, storeVars
<1>. QED  BY <1>3, <1>4 DEF Denied

LEMMA MainVerifiesLInv ==
  ASSUME Prompt, WInv, LInv, NEW w \in Workers, MainVerifies(w)
  PROVE  LInv'
<1>1. /\ main \in [Workers -> Main] /\ main[w] \in Main /\ RunShape(w)
      /\ watch \in [Workers -> Watch] /\ clock \in Nat /\ Heartbeat \in Nat /\ Ttl \in Nat
      /\ watch[w] \in Watch
  BY LeasedTypes
<1>2. /\ main[w].pc \in {"verify", "settle", "failing"} /\ clock' = clock
      /\ main[w].token \in Tokens /\ main[w].lease \in leases
      /\ Granted(w, main[w].stage) \/ Denied(w, main[w].stage)
  BY <1>1 DEF MainVerifies, RunShape, Leasing
<1>3. /\ SparesLedger(w) /\ SparesStore(w) /\ Counted'
      /\ score'["user"][main[w].token] \in {score["user"][main[w].token], clock + Ttl}
  BY <1>2, AskedSpares
<1>4. \A u \in Workers : u # w => main'[u] = main[u] /\ watch'[u] = watch[u]
  BY <1>1 DEF MainVerifies, Goto, LoseLease
<1>5. ASSUME LoseLease(w), UNCHANGED watch PROVE LeasedRun(w)'
  <2>1. main'[w].pc = "release"
    BY <1>1, <1>5 DEF LoseLease, Main
  <2>. QED  BY <1>2, <1>5, <2>1, NothingLeased
<1>6. ASSUME Granted(w, main[w].stage), AfterStage(main[w].stage) # "done",
             Goto(w, main[w].pc, AfterStage(main[w].stage)), UNCHANGED watch
      PROVE  LeasedRun(w)'
  <2>1. /\ main'[w].pc = main[w].pc /\ main'[w].token = main[w].token
        /\ main'[w].stage = AfterStage(main[w].stage)
    BY <1>1, <1>6 DEF Goto, Main
  <2>2. main'[w].stage = "lease" => score'["user"][main[w].token] = clock + Ttl
    BY <1>2, <1>6, <2>1, GrantedLasts DEF AfterStage
  <2>3. watch[w].state # "off" => watch[w].due <= clock + Heartbeat
    BY DEF LInv, LeasedRun
  <2>4. clock + Ttl <= clock + Ttl
    BY <1>1
  <2>. QED  BY <1>2, <1>6, <2>1, <2>2, <2>3, <2>4 DEF LeasedRun, Executing
<1>7. ASSUME Granted(w, main[w].stage), AfterStage(main[w].stage) = "done",
             main[w].pc = "verify", Goto(w, Verified(w), "none"),
             watch' = [watch EXCEPT ![w] = [state |-> "sleep", due |-> clock + Heartbeat]]
      PROVE  LeasedRun(w)'
  <2>1. /\ main'[w].pc = "execute" /\ main'[w].token = main[w].token
        /\ main'[w].lease = main[w].lease
    BY <1>1, <1>7 DEF Goto, Main, Verified
  <2>2. watch'[w] = [state |-> "sleep", due |-> clock + Heartbeat]
    BY <1>1, <1>7
  <2>3. /\ main[w].stage = "lease" /\ score' = score
        /\ jobs'[main[w].lease.turn].status = "running"
        /\ clock + Heartbeat < jobs'[main[w].lease.turn].until
    BY <1>2, <1>7, GrantedLasts DEF AfterStage
  <2>4. score["user"][main[w].token] \in Nat /\ clock + Ttl <= score["user"][main[w].token]
    BY <1>2, <1>7, <2>3, LeasedTypes DEF LInv, LeasedRun
  <2>5. /\ clock <= clock + Heartbeat /\ clock + Heartbeat <= clock + Heartbeat
        /\ clock + Heartbeat < score["user"][main[w].token]
    BY <1>1, <2>4 DEF Prompt
  <2>. QED  BY <1>2, <2>1, <2>2, <2>3, <2>5 DEF LeasedRun
<1>8. ASSUME Granted(w, main[w].stage), AfterStage(main[w].stage) = "done",
             main[w].pc # "verify", Goto(w, Verified(w), "none"), UNCHANGED watch
      PROVE  LeasedRun(w)'
  <2>1. main'[w].pc \in {"publish", "fail"}
    BY <1>1, <1>2, <1>8 DEF Goto, Main, Verified
  <2>. QED  BY <1>2, <1>8, <2>1, NothingLeased
<1>9. LeasedRun(w)'
  BY <1>5, <1>6, <1>7, <1>8 DEF MainVerifies
<1>. QED  BY <1>2, <1>3, <1>4, <1>9, LeasedStep DEF OthersStay

LEMMA RunnerEndsLInv ==
  ASSUME WInv, LInv, NEW w \in Workers, RunnerReturns(w) \/ RunnerRaises(w)
  PROVE  LInv'
<1>1. main \in [Workers -> Main] /\ main[w] \in Main /\ watch \in [Workers -> Watch]
  BY LeasedTypes
<1>2. /\ jobs' = jobs /\ clock' = clock /\ score' = score /\ watch' = watch
      /\ LoseLease(w) \/ Goto(w, "settle", "member") \/ Failing(w)
  BY DEF RunnerReturns, RunnerRaises, ledgerVars, storeVars, Failing
<1>3. /\ main'[w].pc \in {"release", "settle", "failing"}
      /\ \A u \in Workers : u # w => main'[u] = main[u]
  BY <1>1, <1>2 DEF LoseLease, Goto, Failing, Main
<1>. QED  BY <1>2, <1>3, NothingLeased, QuietStep DEF OthersStay

LEMMA SettleLInv ==
  ASSUME WInv, LInv, NEW w \in Workers, Publish(w) \/ FailTurn(w)
  PROVE  LInv'
<1>1. /\ main \in [Workers -> Main] /\ main[w] \in Main /\ watch \in [Workers -> Watch]
      /\ RunShape(w) /\ IInv /\ \A l \in leases : l.turn \in Turns
  BY LeasedTypes DEF WInv
<1>2. /\ main[w].lease \in leases /\ main[w].lease.worker = w
      /\ score' = score /\ watch' = watch
  BY <1>1, LedgerAssumption
  DEF Publish, FailTurn, storeVars, RunShape, Leasing, IInv, TypeOK, Lease, NoLease
<1>3. /\ LoseLease(w) \/ Failing(w) \/ \E what \in {"completed", "failed"} :
                                         Report(w, "release", what)
  BY DEF Publish, FailTurn, Failing
<1>4. /\ main'[w].pc \in {"release", "failing"}
      /\ \A u \in Workers : u # w => main'[u] = main[u]
  BY <1>1, <1>3 DEF LoseLease, Failing, Report, Main
<1>5. ASSUME NEW now, Complete(main[w].lease, now) \/ Fail(main[w].lease, now)
      PROVE  SparesLedger(w) /\ clock' = clock
  <2>1. /\ clock' = clock
        /\ \A t \in Turns : t # main[w].lease.turn => jobs'[t] = jobs[t]
    BY <1>1, <1>2, <1>5, PublishTouches
  <2>2. \A l \in leases : l.turn = main[w].lease.turn => l.worker = w
    BY <1>1, <1>2 DEF IInv, AtMostOneExecution
  <2>. QED  BY <1>1, <2>1, <2>2 DEF SparesLedger
<1>6. ASSUME UNCHANGED <<ledgerVars, clock>>
      PROVE  SparesLedger(w) /\ clock' = clock
  BY <1>6 DEF SparesLedger, ledgerVars
<1>7. SparesLedger(w) /\ clock' = clock
  BY <1>5, <1>6 DEF Publish, FailTurn
<1>8. Counted' /\ SparesStore(w) /\ LeasedRun(w)'
  BY <1>2, <1>4, <1>7, NothingLeased DEF LInv, Counted, Counting, A!Live, SparesStore
<1>. QED  BY <1>2, <1>4, <1>7, <1>8, LeasedStep DEF OthersStay

LEMMA FinishLInv ==
  ASSUME WInv, LInv, NEW w \in Workers, Finish(w)
  PROVE  LInv'
<1>1. /\ main \in [Workers -> Main] /\ main[w] \in Main /\ watch \in [Workers -> Watch]
      /\ RunShape(w) /\ A!TypeOK
  BY LeasedTypes DEF WInv, WorkerTypeOK
<1>2. /\ jobs' = jobs /\ clock' = clock /\ main[w].token \in Tokens
      /\ watch' = [watch EXCEPT ![w] = IF @.state = "sleep" THEN Asleep ELSE @]
      /\ Goto(w, "idle", "none")
  BY <1>1 DEF Finish, ledgerVars, RunShape
<1>3. /\ main'[w].pc = "idle" /\ \A u \in Workers : u # w => main'[u] = main[u]
      /\ watch'[w] = watch[w] \/ watch'[w].state = "off"
      /\ \A u \in Workers : u # w => watch'[u] = watch[u]
  BY <1>1, <1>2 DEF Goto, Main, Asleep
<1>4. SparesStore(w) /\ Counted'
  <2>1. CASE A!Release(main[w].token, "released")
    <3>1. Counting \subseteq Tokens
      BY DEF Counting, A!Live
    <3>. QED  BY <1>1, <1>2, <2>1, <3>1, ReleaseStore, FewerCounted DEF LInv, SparesStore
  <2>2. CASE UNCHANGED <<score, keyUntil>>
    BY <1>2, <2>2 DEF LInv, Counted, Counting, A!Live, SparesStore
  <2>. QED  BY <2>1, <2>2 DEF Finish
<1>. QED  BY <1>2, <1>3, <1>4, NothingLeased, LeasedStep DEF OthersStay, SparesLedger

LEMMA CrashLInv ==
  ASSUME WInv, LInv, NEW w \in Workers, Crash(w)
  PROVE  LInv'
<1>1. main \in [Workers -> Main] /\ watch \in [Workers -> Watch]
  BY LeasedTypes
<1>2. /\ jobs' = jobs /\ clock' = clock /\ score' = score
      /\ main'[w] = [AtRest EXCEPT !.report = "lost"] /\ watch'[w] = Asleep
      /\ OthersStay(w)
  BY <1>1 DEF Crash, ledgerVars, OthersStay
<1>3. main'[w].pc = "idle" /\ watch'[w].state = "off"
  BY <1>2 DEF AtRest, Asleep
<1>. QED  BY <1>2, <1>3, NothingLeased, QuietStep

LEMMA WakeLInv ==
  ASSUME WInv, LInv, NEW w \in Workers, Wake(w)
  PROVE  LInv'
<1>1. watch \in [Workers -> Watch] /\ watch[w] \in Watch
  BY LeasedTypes
<1>2. /\ jobs' = jobs /\ clock' = clock /\ score' = score /\ main' = main
      /\ watch[w].state = "sleep" /\ watch' = [watch EXCEPT ![w].state = "member"]
  BY DEF Wake, ledgerVars, storeVars
<1>3. /\ watch'[w].state = "member" /\ watch'[w].due = watch[w].due /\ OthersStay(w)
  BY <1>1, <1>2 DEF Watch, OthersStay
<1>4. LeasedRun(w)
  BY DEF LInv
<1>5. LeasedRun(w)'
  BY <1>2, <1>3, <1>4 DEF LeasedRun, Executing
<1>. QED  BY <1>2, <1>3, <1>5, QuietStep

LEMMA WatchVerifiesLInv ==
  ASSUME Prompt, WInv, LInv, NEW w \in Workers, WatchVerifies(w)
  PROVE  LInv'
<1>1. /\ main \in [Workers -> Main] /\ main[w] \in Main /\ RunShape(w)
      /\ watch \in [Workers -> Watch] /\ watch[w] \in Watch /\ watch[w].due \in Nat
      /\ clock \in Nat /\ Heartbeat \in Nat /\ Ttl \in Nat \ {0}
      /\ score["user"][main[w].token] \in Nat
  BY LeasedTypes DEF WatchVerifies, RunShape, Stages
<1>2. /\ watch[w].state # "off" /\ clock' = clock
      /\ main[w].token \in Tokens /\ main[w].lease \in leases
      /\ Granted(w, watch[w].state) \/ Denied(w, watch[w].state)
  BY <1>1 DEF WatchVerifies, RunShape, Stages
<1>3. /\ SparesLedger(w) /\ SparesStore(w) /\ Counted'
      /\ score'["user"][main[w].token] \in {score["user"][main[w].token], clock + Ttl}
  BY <1>2, AskedSpares
<1>4. \A u \in Workers : u # w => main'[u] = main[u] /\ watch'[u] = watch[u]
  BY <1>1 DEF WatchVerifies
<1>5. LeasedRun(w) /\ clock + Ttl <= clock + Ttl
  BY <1>1 DEF LInv
<1>6. main[w].pc = "verify" /\ main[w].stage = "lease" =>
        clock + Ttl <= score'["user"][main[w].token]
  BY <1>3, <1>5 DEF LeasedRun
<1>7. ASSUME main' = [main EXCEPT ![w].lost = TRUE, ![w].told = TRUE],
             watch' = [watch EXCEPT ![w] = Asleep]
      PROVE  LeasedRun(w)'
  <2>1. main'[w] = [main[w] EXCEPT !.lost = TRUE, !.told = TRUE] /\ watch'[w] = Asleep
    BY <1>1, <1>7
  <2>2. /\ main'[w].told /\ main'[w].pc = main[w].pc /\ main'[w].stage = main[w].stage
        /\ main'[w].token = main[w].token /\ watch'[w].state = "off"
    BY <1>1, <2>1 DEF Main, Asleep
  <2>. QED  BY <1>2, <1>6, <2>2 DEF LeasedRun, Executing
<1>8. ASSUME Granted(w, watch[w].state), AfterStage(watch[w].state) # "done", main' = main,
             watch' = [watch EXCEPT ![w] = [@ EXCEPT !.state = AfterStage(watch[w].state)]]
      PROVE  LeasedRun(w)'
  <2>1. watch'[w].due = watch[w].due /\ watch'[w].state = AfterStage(watch[w].state)
    BY <1>1, <1>8 DEF Watch
  <2>2. \/ watch'[w].state = "permit" /\ jobs' = jobs /\ score' = score
        \/ /\ watch'[w].state = "lease" /\ jobs' = jobs
           /\ score'["user"][main[w].token] = clock + Ttl
    BY <1>2, <1>8, <2>1, GrantedLasts DEF AfterStage
  <2>3. watch[w].due <= clock + Heartbeat
    BY <1>2, <1>5 DEF LeasedRun
  <2>4. watch[w].due < clock + Ttl
    BY <1>1, <2>3 DEF Prompt
  <2>5. watch[w].due < score["user"][main[w].token] =>
          watch[w].due < score'["user"][main[w].token]
    BY <2>2, <2>4
  <2>6. watch'[w].state = "lease" => clock + Ttl <= score'["user"][main[w].token]
    BY <1>5, <2>2
  <2>. QED  BY <1>2, <1>5, <1>6, <1>8, <2>1, <2>2, <2>3, <2>5, <2>6 DEF LeasedRun, Executing
<1>9. ASSUME Granted(w, watch[w].state), AfterStage(watch[w].state) = "done", main' = main,
             main[w].pc = "idle", watch' = [watch EXCEPT ![w] = Asleep]
      PROVE  LeasedRun(w)'
  <2>1. watch'[w].state = "off"
    BY <1>1, <1>9 DEF Asleep
  <2>. QED  BY <1>2, <1>9, <2>1, NothingLeased
<1>10. ASSUME Granted(w, watch[w].state), AfterStage(watch[w].state) = "done", main' = main,
              watch' = [watch EXCEPT ![w] = [state |-> "sleep", due |-> clock + Heartbeat]]
       PROVE  LeasedRun(w)'
  <2>1. watch'[w].state = "sleep" /\ watch'[w].due = clock + Heartbeat
    BY <1>1, <1>10
  <2>2. /\ watch[w].state = "lease" /\ score' = score
        /\ jobs'[main[w].lease.turn].status = "running"
        /\ clock + Heartbeat < jobs'[main[w].lease.turn].until
    BY <1>2, <1>10, GrantedLasts DEF AfterStage
  <2>3. Executing(w) => clock + Heartbeat < score["user"][main[w].token]
    BY <1>1, <1>5, <2>2 DEF LeasedRun, Prompt
  <2>4. clock <= clock + Heartbeat /\ clock + Heartbeat <= clock + Heartbeat
    BY <1>1
  <2>. QED  BY <1>2, <1>6, <1>10, <2>1, <2>2, <2>3, <2>4 DEF LeasedRun, Executing
<1>11. LeasedRun(w)'
  BY <1>7, <1>8, <1>9, <1>10 DEF WatchVerifies
<1>. QED  BY <1>2, <1>3, <1>4, <1>11, LeasedStep DEF OthersStay

LEMMA WorldLInv ==
  ASSUME WInv, LInv,
         \/ Revoke \/ Reinstate \/ UNCHANGED allVars
         \/ \E t \in Turns : CancelTurn(t)
         \/ \E t \in Tokens : Recycle(t)
  PROVE  LInv'
<1>1. clock' = clock /\ main' = main /\ watch' = watch
  BY DEF Revoke, Reinstate, CancelTurn, Cancel, Recycle, allVars, ledgerVars
<1>2. /\ A!TypeOK /\ \A w \in Workers : main[w].lease \in leases => main[w].lease.turn \in Turns
      /\ IInv /\ \A w \in Workers : RunShape(w)
  BY DEF WInv, WorkerTypeOK, IInv, TypeOK, Lease
<1>3. CASE UNCHANGED <<ledgerVars, storeVars>>
  BY <1>1, <1>3, LeasesStay DEF LInv, Counted, Counting, A!Live, ledgerVars, storeVars
<1>4. ASSUME NEW t \in Turns, CancelTurn(t) PROVE LInv'
  <2>1. /\ jobs'[t].status = "cancelled" /\ \A u \in Turns : u # t => jobs'[u] = jobs[u]
        /\ score' = score
    BY <1>2, <1>4, CancelTouches DEF CancelTurn, storeVars
  <2>2. \A w \in Workers : Executing(w) => main[w].lease.turn \in Turns
    BY <1>2 DEF RunShape, Leasing, Executing
  <2>3. \A w \in Workers : LeasedRun(w)'
    BY <1>1, <2>1, <2>2, LeasesStay
  <2>. QED  BY <1>1, <2>1, <2>3 DEF LInv, Counted, Counting, A!Live
<1>5. ASSUME NEW t \in Tokens, Recycle(t) PROVE LInv'
  <2>1. /\ jobs' = jobs /\ score' = [score EXCEPT !["user"][t] = 0]
        /\ \A w \in Workers : main[w].token # t
        /\ score \in [{"user"} -> [Tokens -> Nat]]
    BY <1>2, <1>5 DEF Recycle, ledgerVars, A!TypeOK
  <2>2. \A u \in Tokens : u # t => score'["user"][u] = score["user"][u]
    BY <2>1
  <2>3. \A w \in Workers : main[w].token \in Tokens =>
          score'["user"][main[w].token] = score["user"][main[w].token]
    BY <2>1, <2>2
  <2>4. \A w \in Workers : LeasedRun(w)'
    BY <1>1, <2>1, <2>3, LeasesStay DEF Counting, A!Live
  <2>5. Counting' \subseteq Counting
    <3>1. t \notin Counting /\ clock \in Nat
      BY <1>2, <1>5, StoreFacts DEF Recycle, Counting
    <3>2. score'["user"][t] = 0
      BY <2>1
    <3>. QED  BY <1>1, <2>2, <3>1, <3>2 DEF Counting, A!Live
  <2>6. Counted'
    BY <2>5, FewerCounted DEF LInv
  <2>. QED  BY <2>4, <2>6 DEF LInv
<1>. QED  BY <1>3, <1>4, <1>5 DEF Revoke, Reinstate, allVars

(* Time passes only while no thread is in a call and no watch thread is due,  *)
(* so an executing runner is looked after before its leases lapse.           *)
LEMMA TimeLInv ==
  ASSUME Prompt, WInv, LInv, Time
  PROVE  LInv'
<1>1. /\ jobs' = jobs /\ score' = score /\ watch' = watch /\ clock' = clock + 1
      /\ \A w \in Workers : ~InCall(w)
      /\ \A w \in Workers : main'[w] = main[w] \/ main'[w] = AtRest
  BY DEF Time, Tick, storeVars, Prompt
<1>2. /\ clock \in Nat /\ Counting \subseteq Tokens
      /\ \A t \in Tokens : score["user"][t] \in Nat
  BY StoreFacts DEF WInv, WorkerTypeOK, IInv, TypeOK, A!TypeOK, Counting, A!Live
<1>3. ASSUME NEW w \in Workers PROVE LeasedRun(w)'
  <2>1. /\ watch[w] \in Watch /\ watch[w].due \in Nat /\ Heartbeat \in Nat /\ LeasedRun(w)
    BY LeasedTypes DEF LInv
  <2>2. watch'[w].state # "off" => watch'[w].due <= clock' + Heartbeat
    BY <1>1, <1>2, <2>1 DEF LeasedRun
  <2>3. main'[w].pc # "verify"
    BY <1>1 DEF InCall, AtRest
  <2>4. ASSUME Executing(w)' PROVE Executing(w) /\ main'[w] = main[w]
    BY <1>1, <2>4 DEF Executing, AtRest
  <2>5. ASSUME Executing(w)
        PROVE  watch[w].state = "sleep" /\ clock' <= watch[w].due
    <3>1. watch[w].state = "sleep"
      BY <1>1, <2>1, <2>5 DEF LeasedRun, InCall, Watch
    <3>2. ~(watch[w].due <= clock)
      BY <1>1, <3>1 DEF InCall
    <3>. QED  BY <1>1, <1>2, <2>1, <3>1, <3>2
  <2>6. CASE Executing(w)'
    BY <1>1, <2>1, <2>2, <2>3, <2>4, <2>5, <2>6 DEF LeasedRun
  <2>7. CASE ~Executing(w)'
    BY <2>2, <2>3, <2>7 DEF LeasedRun
  <2>. QED  BY <2>6, <2>7
<1>4. Counting' \subseteq Counting
  BY <1>1, <1>2 DEF Counting, A!Live
<1>. QED  BY <1>3, <1>4, FewerCounted DEF LInv

LEMMA NextLInv == Prompt /\ WInv /\ LInv /\ [WNext]_allVars => LInv'
<1> SUFFICES ASSUME Prompt, WInv, LInv, [WNext]_allVars PROVE LInv'
  OBVIOUS
<1>1. ASSUME NEW w \in Workers, Step(w) PROVE LInv'
  BY <1>1, AuthorizeLInv, AdmitLInv, ClaimTurnLInv, MainVerifiesLInv, RunnerEndsLInv,
     SettleLInv, FinishLInv DEF Step
<1>2. ASSUME NEW w \in Workers, Wake(w) \/ WatchVerifies(w) \/ Crash(w) PROVE LInv'
  BY <1>2, WakeLInv, WatchVerifiesLInv, CrashLInv
<1>. QED  BY <1>1, <1>2, WorldLInv, TimeLInv DEF WNext

LEMMA InitLInv == WInit => LInv
<1> SUFFICES ASSUME WInit PROVE LInv
  OBVIOUS
<1>1. /\ Counting = {} /\ \A w \in Workers : main[w] = AtRest /\ watch[w] = Asleep
  <2>1. score = [c \in {"user"} |-> [t \in Tokens |-> 0]] /\ clock = 0
    BY DEF WInit, InitiallyQueued, A!Init
  <2>2. \A t \in Tokens : ~(score["user"][t] > clock)
    BY <2>1
  <2>. QED  BY <2>2 DEF WInit, Counting, A!Live
<1>2. IsFiniteSet({}) /\ Cardinality({}) = 0
  BY FS_EmptySet
<1>3. Counted
  BY <1>1, <1>2, WorkerAssumption DEF Counted
<1>4. \A w \in Workers : LeasedRun(w)
  BY <1>1 DEF LeasedRun, Executing, AtRest, Asleep
<1>. QED  BY <1>3, <1>4 DEF LInv

LEMMA LeasedIsLive ==
  ASSUME WInv, LInv
  PROVE  ExecutesOnlyWhileLeased
<1> DEFINE running == {w \in Workers : Executing(w)}
<1>1. ASSUME NEW w \in Workers, Executing(w)
      PROVE  main[w].token \in Counting /\ main[w].token # None
    <2>1. /\ RunShape(w) /\ watch[w].due \in Nat /\ clock \in Nat
          /\ \A t \in Tokens : score["user"][t] \in Nat
          /\ \A t \in Tokens : t \in Counting <=> score["user"][t] > clock
      BY LeasedTypes
    <2>2. main[w].token \in Tokens
      BY <1>1, <2>1 DEF RunShape, Executing
    <2>3. clock <= watch[w].due /\ watch[w].due < score["user"][main[w].token]
      BY <1>1 DEF LInv, LeasedRun
    <2>. QED  BY <2>1, <2>2, <2>3, WorkerAssumption
<1>2. ASSUME NEW w \in Workers, Executing(w)
      PROVE  jobs[main[w].lease.turn].status = "cancelled" \/ Holds(main[w].lease, clock)
    <2>1. /\ RunShape(w) /\ watch[w].due \in Nat /\ clock \in Nat
          /\ \A l \in leases : l.turn \in Turns
          /\ \A t \in Turns : jobs[t].until \in Nat
      BY LeasedTypes
    <2>2. main[w].lease \in leases /\ main[w].lease.turn \in Turns
      BY <1>2, <2>1 DEF RunShape, Executing, Leasing
    <2>3. RevokedLeaseIsStale
      BY RevokedAreStale DEF WInv
    <2>4. CASE jobs[main[w].lease.turn].status = "running"
      <3>1. clock <= watch[w].due /\ watch[w].due < jobs[main[w].lease.turn].until
        BY <1>2, <2>4 DEF LInv, LeasedRun
      <3>2. jobs[main[w].lease.turn].until > clock
        BY <2>1, <2>2, <3>1
      <3>. QED  BY <2>2, <2>3, <2>4, <3>2 DEF RevokedLeaseIsStale, Holds
    <2>. QED  BY <1>2, <2>4 DEF LInv, LeasedRun
<1>3. Cardinality(running) <= Capacity
  <2> DEFINE token == [w \in running |-> main[w].token]
  <2>1. token \in Injection(running, Counting)
    BY <1>1 DEF Injection, IsInjective, WInv, TokensAreOwn
  <2>2. IsFiniteSet(running) /\ Cardinality(running) <= Cardinality(Counting)
    BY <2>1, FS_Injection DEF LInv, Counted
  <2>3. Cardinality(running) \in Nat /\ Cardinality(Counting) \in Nat /\ Capacity \in Nat
    BY <2>2, FS_CardinalityType, WorkerAssumption DEF LInv, Counted
  <2>. QED  BY <2>2, <2>3 DEF LInv, Counted
<1>. QED  BY <1>1, <1>2, <1>3 DEF ExecutesOnlyWhileLeased, Counting

(* While no thread dawdles, and with a heartbeat below the life of a permit   *)
(* and above the age of a transaction, no runner works unaware without its    *)
(* permit and its row, whatever else fails, and so never more of them than   *)
(* the scope may have.                                                      *)
THEOREM RunnersAreLeased ==
  ASSUME Timely, Heartbeat < Ttl, TxnAge <= Heartbeat
  PROVE  WSpec => []ExecutesOnlyWhileLeased
<1>1. Prompt
  BY DEF Prompt
<1>2. WSpec => [](WInv /\ LInv)
  <2>1. WInit => WInv /\ LInv
    BY InitWInv, InitLInv
  <2>2. WInv /\ LInv /\ [WNext]_allVars => (WInv /\ LInv)'
    BY <1>1, NextWInv, NextLInv
  <2>. QED  BY <2>1, <2>2, PTL DEF WSpec
<1>3. WInv /\ LInv => ExecutesOnlyWhileLeased
  BY LeasedIsLive
<1>. QED  BY <1>2, <1>3, PTL
=============================================================================
