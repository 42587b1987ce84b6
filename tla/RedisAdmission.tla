--------------------------- MODULE RedisAdmission ---------------------------
(***************************************************************************)
(* core/runtime/distributed_admission.py: turn permits as members of four  *)
(* Redis sorted sets (global, tenant, user, project) whose scores are      *)
(* expiry times of the server.  Each Lua script is atomic, so each is one  *)
(* action; the reply of a script may be lost after it ran, which the       *)
(* client sees as DistributedAdmissionUnavailable.                         *)
(***************************************************************************)
EXTENDS Naturals, Sequences, FiniteSets

CONSTANTS
  Scopes,      \* verified memory scopes
  Counters,    \* names of sorted sets
  CountersOf,  \* [Scopes -> Seq(Counters)]: global, tenant, user, project
  Limit,       \* [Counters -> capacity]
  Tokens,      \* permit tokens
  Ttl,         \* lease length
  MaxTime      \* bound on the server clock

ASSUME AdmissionAssumption ==
  /\ Scopes # {}
  /\ CountersOf \in [Scopes -> Seq(Counters)]
  /\ \A s \in Scopes : Len(CountersOf[s]) <= 4      \* for i=1,4
  /\ Limit \in [Counters -> Nat \ {0}]
  /\ Ttl \in Nat \ {0}
  /\ MaxTime \in Nat

VARIABLES
  score,     \* [Counters -> [Tokens -> Nat]], 0 if absent
  keyUntil,  \* [Counters -> Nat], PEXPIRE of the whole set
  permit,    \* [Tokens -> permit object]
  clock

admissionVars == <<score, keyUntil, permit>>
vars == <<score, keyUntil, permit, clock>>

(* "lost": the script ran but the client never got a permit object. *)
PermitStates == {"unused", "held", "released", "lost"}
Permit == [state : PermitStates, scope : Scopes]

TypeOK ==
  /\ score \in [Counters -> [Tokens -> Nat]]
  /\ keyUntil \in [Counters -> Nat]
  /\ permit \in [Tokens -> Permit]
  /\ clock \in Nat

Init ==
  /\ score = [c \in Counters |-> [t \in Tokens |-> 0]]
  /\ keyUntil = [c \in Counters |-> 0]
  /\ permit = [t \in Tokens |-> [state |-> "unused", scope |-> CHOOSE s \in Scopes : TRUE]]
  /\ clock = 0

SetsOf(s) == {CountersOf[s][i] : i \in DOMAIN CountersOf[s]}
Live(c)   == {t \in Tokens : score[c][t] > clock}

(* ZREMRANGEBYSCORE key -inf now *)
Purged(c) == [t \in Tokens |-> IF t \in Live(c) THEN score[c][t] ELSE 0]

(* Mutant: room is looked for in the global set only. *)
FullAtGlobal(s) == {i \in {1} :
                Cardinality(Live(CountersOf[s][i])) >= Limit[CountersOf[s][i]]}

(* The set at which the scan of _ACQUIRE stops: the first full one, if any. *)
FullAt(s) == {i \in DOMAIN CountersOf[s] :
                /\ Cardinality(Live(CountersOf[s][i])) >= Limit[CountersOf[s][i]]
                /\ \A j \in 1..(i - 1) :
                     Cardinality(Live(CountersOf[s][j])) < Limit[CountersOf[s][j]]}

(* Mutant: the permit has no expiry. *)
NoExpiry == MaxTime + 1

(* The score a script gives a token, now + ttl. *)
Expiry == clock + Ttl

(* PEXPIRE key ttl*2 *)
KeyExpiry(c) == clock + 2 * Ttl

(* acquire granted; answer = "held", or "lost" when the reply is.           *)
Acquire(s, t, answer) ==
  /\ permit[t].state = "unused"
  /\ FullAt(s) = {}
  /\ clock + Ttl <= MaxTime                                        \* bound
  /\ score' = [c \in Counters |->
                 IF c \in SetsOf(s) THEN [Purged(c) EXCEPT ![t] = Expiry]
                                    ELSE score[c]]
  /\ keyUntil' = [c \in Counters |->
                    IF c \in SetsOf(s) THEN KeyExpiry(c) ELSE keyUntil[c]]
  /\ permit' = [permit EXCEPT ![t] = [state |-> answer, scope |-> s]]
  /\ UNCHANGED clock

(* acquire refused: the sets scanned so far stay purged. *)
Refuse(s) ==
  /\ \E i \in FullAt(s) :
       LET scanned == {CountersOf[s][j] : j \in 1..i}
       IN score' = [c \in Counters |-> IF c \in scanned THEN Purged(c) ELSE score[c]]
  /\ UNCHANGED <<keyUntil, permit, clock>>

(* Mutant: only the presence of the token is looked at. *)
RenewableIfPresent(t) ==
  \A c \in SetsOf(permit[t].scope) : score[c][t] # 0

(* _RENEW refuses a token that expired in any of its sets. *)
Renewable(t) ==
  \A c \in SetsOf(permit[t].scope) : t \in Live(c)

(* renew() returned True, or would have but the reply was lost. *)
Renew(t) ==
  /\ permit[t].state = "held"
  /\ Renewable(t)
  /\ clock + Ttl <= MaxTime                                        \* bound
  /\ score' = [c \in Counters |->
                 IF c \in SetsOf(permit[t].scope)
                   THEN [score[c] EXCEPT ![t] = Expiry] ELSE score[c]]
  /\ keyUntil' = [c \in Counters |->
                    IF c \in SetsOf(permit[t].scope)
                      THEN KeyExpiry(c) ELSE keyUntil[c]]
  /\ UNCHANGED <<permit, clock>>

(* Mutant: the project set is forgotten. *)
ReleasedFromThree(t) ==
  {CountersOf[permit[t].scope][i] : i \in 1..(Len(CountersOf[permit[t].scope]) - 1)}

(* release: ZREM from the four sets; `_released` is set only when the call   *)
(* came back, so a lost reply leaves the permit to be released again.       *)
ReleasedFrom(t) == SetsOf(permit[t].scope)

Release(t, answer) ==
  /\ permit[t].state = "held"
  /\ score' = [c \in Counters |->
                 IF c \in ReleasedFrom(t)
                   THEN [score[c] EXCEPT ![t] = 0] ELSE score[c]]
  /\ permit' = [permit EXCEPT ![t].state = answer]
  /\ UNCHANGED <<keyUntil, clock>>

(* Redis drops a whole set whose PEXPIRE has passed. *)
KeyExpires(c) ==
  /\ keyUntil[c] # 0 /\ keyUntil[c] <= clock
  /\ keyUntil' = [keyUntil EXCEPT ![c] = 0]
  /\ score' = [score EXCEPT ![c] = [t \in Tokens |-> 0]]
  /\ UNCHANGED <<permit, clock>>

Tick ==
  /\ clock < MaxTime
  /\ clock' = clock + 1
  /\ UNCHANGED admissionVars

Next ==
  \/ \E s \in Scopes :
       \/ \E t \in Tokens, answer \in {"held", "lost"} : Acquire(s, t, answer)
       \/ Refuse(s)
  \/ \E t \in Tokens :
       Renew(t) \/ \E answer \in {"held", "released"} : Release(t, answer)
  \/ \E c \in Counters : KeyExpires(c)
  \/ Tick

Spec == Init /\ [][Next]_vars

----------------------------------------------------------------------------
(* Properties *)

(* No set of the hierarchy ever holds more live permits than its limit,      *)
(* however acquisitions of different tenants, users and projects interleave. *)
WithinLimits == \A c \in Counters : Cardinality(Live(c)) <= Limit[c]

(* The types, and: a set outlives the permits in it, so that PEXPIRE never   *)
(* frees capacity that is in use; a token never handed out is in no set.     *)
Shape ==
  /\ TypeOK
  /\ \A c \in Counters, t \in Tokens :
       score[c][t] <= keyUntil[c] /\ score[c][t] <= Expiry
  /\ \A t \in Tokens : permit[t].state = "unused" =>
       \A c \in Counters : score[c][t] = 0

(* A permit counts against all four of its limits or against none, even      *)
(* though scans purge the sets one at a time and keys expire on their own.   *)
CountedEverywhereOrNowhere ==
  \A t \in Tokens : \A c, d \in SetsOf(permit[t].scope) :
    t \in Live(c) => t \in Live(d) /\ score[c][t] = score[d][t]

(* A permit that has lapsed stays lapsed: its holder cannot renew itself     *)
(* back in beside whoever took its place.                                    *)
LapsedStaysLapsed ==
  [][\A t \in Tokens : \A c \in SetsOf(permit[t].scope) :
       permit[t].state # "unused" /\ t \notin Live(c) => t \notin Live(c)']_vars
=============================================================================
