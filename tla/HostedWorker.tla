---------------------------- MODULE HostedWorker ----------------------------
(***************************************************************************)
(* core/runtime/hosted_worker.py over the durable ledger (TurnQueue) and   *)
(* the shared admission store (RedisAdmission), all workers serving one    *)
(* user.  A worker process has two threads: the main thread walks through  *)
(* run_one; while the runner executes, the watch thread verifies the three *)
(* leases every Heartbeat.  Both verify with renew_once, which asks        *)
(* membership, permit and ledger one after the other, so other actors act  *)
(* in between.  A process may crash at any point; a call may raise, before *)
(* or after it took effect.                                                *)
(***************************************************************************)
EXTENDS TurnQueue

CONSTANTS
  Tokens,       \* admission tokens
  Capacity,     \* permits the binding limit of the scope allows
  Ttl,          \* life of a permit
  Heartbeat,    \* the watch thread's period
  Timely,       \* TRUE: no thread dawdles while time passes
  FaultsUntil   \* crashes, failing calls and revocations happen until then

ASSUME WorkerAssumption ==
  /\ Heartbeat \in Nat \ {0}
  /\ \A l \in LeaseLengths : 2 * Heartbeat < l   \* checked by __init__
  /\ Timely \in BOOLEAN
  /\ FaultsUntil \in Nat
  /\ Capacity \in Nat \ {0} /\ Ttl \in Nat \ {0}
  /\ None \notin Tokens
  /\ IsFiniteSet(Turns)                         \* each under a key of its own
  /\ \E f \in [Turns -> Keys] : \A t, u \in Turns : f[t] = f[u] => t = u

VARIABLES
  score, keyUntil, permit,  \* the admission store
  member,                   \* authorize_membership answers True
  main,                     \* [Workers -> state of run_one]
  watch                     \* [Workers -> state of the watch thread]

ledgerVars == <<sessions, cursor, jobs, minted, events, leases, replies>>
storeVars  == <<score, keyUntil, permit>>
allVars    == <<ledgerVars, clock, storeVars, member, main, watch>>

A == INSTANCE RedisAdmission WITH
       Scopes <- {"scope"}, Counters <- {"user"},
       CountersOf <- [s \in {"scope"} |-> <<"user">>],
       Limit <- [c \in {"user"} |-> Capacity],
       MaxTime <- MaxTime + Ttl

(***************************************************************************)
(* main.pc: idle, admit, claim, then verify, execute, settle, publish or   *)
(* failing, fail, and last release; in verify, settle and failing `stage`  *)
(* is where renew_once stands.  `told` is the event `cancelled`.           *)
(***************************************************************************)
PCs    == {"idle", "admit", "claim", "verify", "execute", "settle",
           "publish", "failing", "fail", "release"}
Stages == {"none", "member", "permit", "lease"}

NoLease == [turn |-> None, worker |-> None, fence |-> 0, attempt |-> 0]
AtRest  == [pc |-> "idle", stage |-> "none", token |-> None, lease |-> NoLease,
            lost |-> FALSE, told |-> FALSE, report |-> "none"]
Asleep  == [state |-> "off", due |-> 0]

WorkerTypeOK ==
  /\ TypeOK /\ A!TypeOK
  /\ member \in BOOLEAN
  /\ main \in [Workers ->
       [pc : PCs, stage : Stages, token : Tokens \cup {None},
        lease : leases \cup {NoLease}, lost : BOOLEAN, told : BOOLEAN,
        report : {"none", "refused", "idle", "completed", "failed", "lost"}]]
  /\ watch \in [Workers ->
       [state : {"off", "sleep"} \cup Stages, due : Nat]]

(* The turns are in the queue when the workers start. *)
InitiallyQueued ==
  /\ sessions = [s \in Sessions |-> "live"]
  /\ minted = Turns
  /\ \E home \in [Turns -> Sessions], p \in Payloads :
       LET key == CHOOSE f \in [Turns -> Keys] : \A t, u \in Turns : f[t] = f[u] => t = u
           at  == CHOOSE f \in [Turns -> 1..Cardinality(Turns)] :
                    \A s \in Sessions : LET mine == {t \in Turns : home[t] = s}
                                        IN {f[t] : t \in mine} = 1..Cardinality(mine)
       IN /\ jobs = [t \in Turns |->
                       [NoJob EXCEPT !.status = "queued", !.session = home[t],
                                     !.key = key[t], !.payload = p]]
          /\ events = {Entry(jobs[t], t, at[t]) : t \in Turns}
          /\ cursor = [s \in Sessions |-> Cardinality({t \in Turns : home[t] = s})]
  /\ replies = {} /\ leases = {} /\ clock = 0

WInit ==
  /\ InitiallyQueued
  /\ A!Init
  /\ member = TRUE
  /\ main = [w \in Workers |-> AtRest]
  /\ watch = [w \in Workers |-> Asleep]

Faulty == clock <= FaultsUntil

Goto(w, pc, stage) ==
  main' = [main EXCEPT ![w].pc = pc, ![w].stage = stage]

Report(w, pc, what) ==
  main' = [main EXCEPT ![w].pc = pc, ![w].report = what]

----------------------------------------------------------------------------
(* renew_once, one question at a time.  Ok and Bad are what happens next.    *)

(* Mutant: the ledger lease is not renewed. *)
AfterStageSkippingLease(stage) == IF stage = "member" THEN "permit" ELSE "done"

AfterStage(stage) ==
  CASE stage = "member" -> "permit"
    [] stage = "permit" -> "lease"
    [] stage = "lease"  -> "done"

(* The answer to one question is True, and the state changes it makes. *)
Granted(w, stage) ==
  \/ /\ stage = "member" /\ member
     /\ UNCHANGED <<ledgerVars, storeVars>>
  \/ /\ stage = "permit" /\ A!Renew(main[w].token)
     /\ UNCHANGED ledgerVars
  \/ /\ stage = "lease"
     /\ \E length \in LeaseLengths, now \in TxnTime : Renew(main[w].lease, length, now)
     /\ UNCHANGED storeVars

(* It is False, or the call raises before or after it took effect. *)
Denied(w, stage) ==
  \/ /\ \/ Faulty
        \/ stage = "member" /\ ~member
        \/ stage = "permit" /\ ~(permit[main[w].token].state = "held"
                                   /\ A!Renewable(main[w].token))
        \/ stage = "lease" /\ \A now \in TxnTime : ~Holds(main[w].lease, now)
     /\ UNCHANGED <<ledgerVars, storeVars, clock>>
  \/ Faulty /\ Granted(w, stage)

----------------------------------------------------------------------------
(* The main thread: run_one. *)

(* The caller starts the next run_one when the watch thread of the last is   *)
(* gone and, in a timely system, once per tick.                             *)
Authorize(w) ==
  /\ main[w].pc = "idle" /\ watch[w].state = "off"
  /\ Timely => main[w].report = "none"
  /\ member
  /\ main' = [main EXCEPT ![w] = [AtRest EXCEPT !.pc = "admit"]]
  /\ UNCHANGED <<ledgerVars, clock, storeVars, member, watch>>

(* Admission comes first: without capacity no turn is claimed. *)
Admit(w) ==
  /\ main[w].pc = "admit"
  /\ \/ \E t \in Tokens :
          \/ /\ A!Acquire("scope", t, "held")
             /\ main' = [main EXCEPT ![w].pc = "claim", ![w].token = t]
          \/ /\ Faulty /\ A!Acquire("scope", t, "lost")
             /\ Report(w, "idle", "lost")
     \/ A!Refuse("scope") /\ Report(w, "idle", "refused")
  /\ UNCHANGED <<ledgerVars, clock, member, watch>>

(* claim sweeps every expired row: no other transaction is in its way here.  *)
ClaimTurn(w) ==
  /\ main[w].pc = "claim"
  /\ \E now \in TxnTime : \E rank \in Ranks(Expired(now)), count \in Counts :
       \/ \E t \in Turns, length \in LeaseLengths :
            /\ Claim(w, t, length, Expired(now), rank, count, now)
            /\ LET lease == CHOOSE l \in leases' \ leases : TRUE
               IN main' = [main EXCEPT ![w].pc = "verify", ![w].stage = "member",
                                       ![w].lease = lease]
       \/ /\ \A t \in Turns : jobs[t].status # "queued"
          /\ ReapExpired(Expired(now), rank, count, now)
          /\ Report(w, "release", "idle")
       \/ /\ Faulty                    \* committed, but the call raised
          /\ \E t \in Turns, length \in LeaseLengths :
               Claim(w, t, length, Expired(now), rank, count, now)
          /\ Report(w, "release", "lost")
  /\ UNCHANGED <<storeVars, member, watch>>

LoseLease(w) ==
  main' = [main EXCEPT ![w].pc = "release", ![w].stage = "none",
                       ![w].told = TRUE, ![w].report = "lost"]

(* What a renew_once that answered True leads to. *)
Verified(w) ==
  CASE main[w].pc = "verify"  -> "execute"
    [] main[w].pc = "settle"  -> "publish"
    [] main[w].pc = "failing" -> "fail"

MainVerifies(w) ==
  /\ main[w].pc \in {"verify", "settle", "failing"}
  /\ \/ /\ Granted(w, main[w].stage)
        /\ LET next == AfterStage(main[w].stage)
           IN IF next # "done"
                THEN Goto(w, main[w].pc, next) /\ UNCHANGED watch
                ELSE /\ Goto(w, Verified(w), "none")
                     /\ watch' = IF main[w].pc = "verify"
                                   THEN [watch EXCEPT ![w] =
                                           [state |-> "sleep", due |-> clock + Heartbeat]]
                                   ELSE watch
     \/ Denied(w, main[w].stage) /\ LoseLease(w) /\ UNCHANGED watch
  /\ UNCHANGED <<clock, member>>

(* The runner returns, raises, or raises HostedLeaseLost as the docker       *)
(* runner does once it was told to stop or sees no membership.              *)
RunnerReturns(w) ==
  /\ main[w].pc = "execute"
  /\ IF main[w].lost \/ main[w].told
       THEN LoseLease(w) ELSE Goto(w, "settle", "member")
  /\ UNCHANGED <<ledgerVars, clock, storeVars, member, watch>>

RunnerRaises(w) ==
  /\ main[w].pc = "execute"
  /\ \/ (main[w].told \/ ~member) /\ LoseLease(w)
     \/ /\ Faulty
        /\ IF main[w].lost THEN LoseLease(w)
           ELSE main' = [main EXCEPT ![w].pc = "failing", ![w].stage = "member",
                                     ![w].told = TRUE]
  /\ UNCHANGED <<ledgerVars, clock, storeVars, member, watch>>

(* Mutant: the answer of the ledger is not looked at. *)
PublishBlindly(w) ==
  /\ main[w].pc = "publish"
  /\ \E now \in TxnTime :
       \/ Complete(main[w].lease, now)
       \/ ~Holds(main[w].lease, now) /\ UNCHANGED <<ledgerVars, clock>>
  /\ Report(w, "release", "completed")
  /\ UNCHANGED <<storeVars, member, watch>>

(* complete() is the last word of the ledger; an exception from it, even     *)
(* after the commit, leads to the failing branch.                           *)
Publish(w) ==
  /\ main[w].pc = "publish"
  /\ \E now \in TxnTime :
       \/ Complete(main[w].lease, now) /\ Report(w, "release", "completed")
       \/ /\ ~Holds(main[w].lease, now)
          /\ LoseLease(w)
          /\ UNCHANGED <<ledgerVars, clock>>
       \/ /\ Faulty
          /\ \/ Complete(main[w].lease, now)
             \/ UNCHANGED <<ledgerVars, clock>>
          /\ IF main[w].lost
               THEN LoseLease(w)
               ELSE main' = [main EXCEPT ![w].pc = "failing", ![w].stage = "member",
                                         ![w].told = TRUE]
  /\ UNCHANGED <<storeVars, member, watch>>

FailTurn(w) ==
  /\ main[w].pc = "fail"
  /\ \E now \in TxnTime :
       \/ Fail(main[w].lease, now) /\ Report(w, "release", "failed")
       \/ /\ \/ ~Holds(main[w].lease, now) /\ UNCHANGED <<ledgerVars, clock>>
             \/ Faulty /\ (Fail(main[w].lease, now) \/ UNCHANGED <<ledgerVars, clock>>)
          /\ LoseLease(w)
  /\ UNCHANGED <<storeVars, member, watch>>

(* Mutant: a run that lost its lease forgets its permit. *)
FinishUnlessLost(w) ==
  /\ main[w].pc = "release"
  /\ IF main[w].report = "lost" THEN UNCHANGED storeVars
                               ELSE A!Release(main[w].token, "released")
  /\ Goto(w, "idle", "none")
  /\ watch' = [watch EXCEPT ![w] = IF @.state = "sleep" THEN Asleep ELSE @]
  /\ UNCHANGED <<ledgerVars, clock, member>>

(* finally: stop the watch thread (join gives up on one that is in a call)   *)
(* and release the permit; a failed release is swallowed, the Ttl remains.   *)
Finish(w) ==
  /\ main[w].pc = "release"
  /\ \/ A!Release(main[w].token, "released")
     \/ /\ Faulty
        /\ permit' = [permit EXCEPT ![main[w].token].state = "lost"]
        /\ UNCHANGED <<score, keyUntil>>
  /\ Goto(w, "idle", "none")
  /\ watch' = [watch EXCEPT ![w] = IF @.state = "sleep" THEN Asleep ELSE @]
  /\ UNCHANGED <<ledgerVars, clock, member>>

(* The process dies: its permit and its lease live on without it. *)
Crash(w) ==
  /\ Faulty
  /\ main[w].pc # "idle"
  /\ main' = [main EXCEPT ![w] = [AtRest EXCEPT !.report = "lost"]]
  /\ watch' = [watch EXCEPT ![w] = Asleep]
  /\ permit' = IF main[w].token = None THEN permit
               ELSE [permit EXCEPT ![main[w].token].state =
                       IF @ = "held" THEN "lost" ELSE @]
  /\ UNCHANGED <<ledgerVars, clock, score, keyUntil, member>>

----------------------------------------------------------------------------
(* The watch thread. *)

Wake(w) ==
  /\ watch[w].state = "sleep" /\ clock >= watch[w].due
  /\ watch' = [watch EXCEPT ![w].state = "member"]
  /\ UNCHANGED <<ledgerVars, clock, storeVars, member, main>>

WatchVerifies(w) ==
  /\ watch[w].state \in Stages \ {"none"}
  /\ \/ /\ Granted(w, watch[w].state)
        /\ LET next == AfterStage(watch[w].state)
           IN watch' = [watch EXCEPT ![w] =
                IF next # "done" THEN [@ EXCEPT !.state = next]
                ELSE IF main[w].pc = "idle" THEN Asleep
                ELSE [state |-> "sleep", due |-> clock + Heartbeat]]
        /\ UNCHANGED main
     \/ /\ Denied(w, watch[w].state)
        /\ watch' = [watch EXCEPT ![w] = Asleep]
        /\ main' = [main EXCEPT ![w].lost = TRUE, ![w].told = TRUE]
  /\ UNCHANGED <<clock, member>>

----------------------------------------------------------------------------
(* The world around the workers. *)

Revoke ==
  /\ Faulty /\ member
  /\ member' = FALSE
  /\ UNCHANGED <<ledgerVars, clock, storeVars, main, watch>>

Reinstate ==
  /\ ~member
  /\ member' = TRUE
  /\ UNCHANGED <<ledgerVars, clock, storeVars, main, watch>>

CancelTurn(t) ==
  /\ Faulty
  /\ Cancel(t)
  /\ UNCHANGED <<storeVars, member, main, watch>>

InCall(w) ==
  \/ main[w].pc \notin {"idle", "execute"}
  \/ watch[w].state \in Stages
  \/ watch[w].state = "sleep" /\ watch[w].due <= clock

Time ==
  /\ Timely => \A w \in Workers : ~InCall(w)
  /\ Tick
  /\ main' = [w \in Workers |-> IF main[w].pc = "idle" /\ watch[w].state = "off"
                             THEN AtRest ELSE main[w]]
  /\ UNCHANGED <<storeVars, member, watch>>

(* Bound: a token nobody holds and no set counts may stand for a new one. *)
Recycle(t) ==
  /\ permit[t].state \in {"released", "lost"}
  /\ t \notin A!Live("user")
  /\ \A w \in Workers : main[w].token # t
  /\ permit' = [permit EXCEPT ![t].state = "unused"]
  /\ score' = [score EXCEPT !["user"][t] = 0]
  /\ UNCHANGED <<ledgerVars, clock, keyUntil, member, main, watch>>

Step(w) ==
  \/ Authorize(w) \/ Admit(w) \/ ClaimTurn(w) \/ MainVerifies(w)
  \/ RunnerReturns(w) \/ RunnerRaises(w) \/ Publish(w) \/ FailTurn(w) \/ Finish(w)

WNext ==
  \/ \E w \in Workers : Step(w) \/ Wake(w) \/ WatchVerifies(w) \/ Crash(w)
  \/ Revoke \/ Reinstate
  \/ \E t \in Turns : CancelTurn(t)
  \/ \E t \in Tokens : Recycle(t)
  \/ Time

WSpec == WInit /\ [][WNext]_allVars

(* The caller keeps calling run_one, threads are scheduled, time passes, a   *)
(* revoked membership is reinstated.  Nothing obliges a runner to return.    *)
Fairness ==
  /\ \A w \in Workers :
       /\ WF_allVars(main[w].pc # "execute" /\ Step(w))
       /\ WF_allVars(Wake(w)) /\ WF_allVars(WatchVerifies(w))
  /\ \A t \in Tokens : WF_allVars(Recycle(t))
  /\ WF_allVars(Time) /\ WF_allVars(Reinstate)

FairWSpec == WSpec /\ Fairness

----------------------------------------------------------------------------
(* Properties *)

Executing(w) == main[w].pc = "execute" /\ ~main[w].told

(* What run_one tells its caller is what the ledger says: a lease that lapsed *)
(* between the last verification and complete() or fail() is never reported   *)
(* as a result, whoever swept or cancelled the row meanwhile.                *)
ReportsAreTrue ==
  \A w \in Workers :
    main[w].report \in {"completed", "failed"} =>
      jobs[main[w].lease.turn].status = main[w].report

(* Capacity is never leaked: a permit is held only by a run in progress, by   *)
(* one run, and run_one gives it back on every way out of it.  (And types.)  *)
PermitsFollowRuns ==
  /\ WorkerTypeOK
  /\ \A t \in Tokens : permit[t].state = "held" =>
       Cardinality({w \in Workers : main[w].token = t /\ main[w].pc # "idle"}) = 1

(* Execute one private job only while Redis + PostgreSQL leases are live: as  *)
(* long as the runner has not been told to stop, its permit counts, and the   *)
(* row is its own unless a cancel took it away.  So no more runners work     *)
(* unaware than the scope may have, although permits lapse on the server's    *)
(* clock and are renewed by a thread.                                       *)
ExecutesOnlyWhileLeased ==
  /\ \A w \in Workers : Executing(w) =>
       /\ main[w].token \in A!Live("user")
       /\ jobs[main[w].lease.turn].status = "cancelled" \/ Holds(main[w].lease, clock)
  /\ Cardinality({w \in Workers : Executing(w)}) <= Capacity

(* A claimed turn ends, even if its worker crashed or lost its lease: the     *)
(* permit it left behind lapses, and the next claim sweeps the row.          *)
RunnersReturn ==
  \A w \in Workers : WF_allVars(RunnerReturns(w) \/ RunnerRaises(w))

EveryClaimedTurnEnds ==
  RunnersReturn =>
    \A t \in Turns : jobs[t].status = "running" ~> jobs[t].status # "running"

(* A runner whose turn was cancelled or swept is told, even if it never       *)
(* returns on its own.                                                      *)
LosersAreTold ==
  \A w \in Workers :
    Executing(w) /\ jobs[main[w].lease.turn].status # "running" ~> ~Executing(w)
=============================================================================
