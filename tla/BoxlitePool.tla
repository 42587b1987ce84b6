---------------------------- MODULE BoxlitePool ----------------------------
(***************************************************************************)
(* The pool of warm micro-VMs of core/sandbox/boxlite_pool.py and the      *)
(* commands core/sandbox/boxlite_provider.py runs in them.  Callers hold   *)
(* the lock of the pool only while they change its tables; VMs are         *)
(* started, used and stopped on a private event loop in between, each call *)
(* with a deadline.  The reaper and a shutdown work beside the callers.    *)
(***************************************************************************)
EXTENDS Naturals, Sequences, FiniteSets, SequencesExt

CONSTANTS
  Callers, Scopes,
  Boxes,        \* bound: VMs that exist at a time
  Capacity,     \* max_replicas
  None

VARIABLES
  keepWarm,   \* idle_timeout > 0
  lease,      \* _leases: [Scopes -> the VM and whether a command runs, or None]
  warm,       \* the scopes whose lease is not active, least recently used first
  pending,    \* _pending
  closed, poisoned,
  loop,       \* the event loop runs
  vm,         \* [Boxes -> "none", "starting", "cancelled", "up"]
  dirty,      \* VMs in which an abandoned command may still run
  lost,       \* VMs whose start failed or was given up, and that may be up
  doomed,     \* [{"reaper", "shutdown"} -> VMs each still has to stop]
  caller

vars == <<keepWarm, lease, warm, pending, closed, poisoned, loop, vm, dirty, lost, doomed, caller>>
tables == <<keepWarm, lease, warm, pending>>

Sweepers == {"reaper", "shutdown"}
NoCaller == [pc |-> "idle", scope |-> None, box |-> None, bad |-> FALSE]
Leased == {s \in Scopes : lease[s] # None}

Init ==
  /\ keepWarm \in BOOLEAN
  /\ lease = [s \in Scopes |-> None] /\ warm = <<>> /\ pending = {}
  /\ closed = FALSE /\ poisoned = FALSE /\ loop = TRUE
  /\ vm = [b \in Boxes |-> "none"] /\ dirty = {} /\ lost = {}
  /\ doomed = [w \in Sweepers |-> {}]
  /\ caller = [c \in Callers |-> NoCaller]

At(c, pc) == caller[c].pc = pc
Go(c, pc) == caller' = [caller EXCEPT ![c].pc = pc]
Leave(c) == caller' = [caller EXCEPT ![c] = NoCaller]

-----------------------------------------------------------------------------
(* Stopping a VM: confirmed, or not, and then nobody is let in any more.    *)
Disposed(b) ==
  \/ /\ loop
     /\ vm' = [vm EXCEPT ![b] = "none"]
     /\ dirty' = dirty \ {b} /\ lost' = lost \ {b}
     /\ UNCHANGED poisoned
  \/ poisoned' = TRUE /\ UNCHANGED <<vm, dirty, lost>>

(* The warm leases but that of s. *)
Without(s) ==
  IF s \in Range(warm) THEN RemoveAt(warm, CHOOSE i \in DOMAIN warm : warm[i] = s) ELSE warm

(* acquire *)

(* Mutant: what is being started is not counted. *)
FullOfLeases == Cardinality(Leased) >= Capacity
Full == Cardinality(Leased) + Cardinality(pending) >= Capacity

(* acquire: the VM of the same scope, a new one, or one for the place of the *)
(* least recently used; otherwise the call is refused.                      *)
Acquire(c, s) ==
  /\ At(c, "idle") /\ ~closed /\ ~poisoned
  /\ \/ /\ s \in Range(warm)
        /\ warm' = Without(s)
        /\ caller' = [caller EXCEPT ![c] = [@ EXCEPT !.pc = "ready", !.scope = s]]
        /\ UNCHANGED <<lease, pending>>
     \/ /\ s \notin Leased \cup pending /\ ~Full
        /\ pending' = pending \cup {s}
        /\ caller' = [caller EXCEPT ![c] = [@ EXCEPT !.pc = "start", !.scope = s]]
        /\ UNCHANGED <<lease, warm>>
     \/ /\ s \notin Leased \cup pending /\ Full /\ warm # <<>>
        /\ pending' = pending \cup {s}
        /\ lease' = [lease EXCEPT ![Head(warm)] = None]
        /\ warm' = Tail(warm)
        /\ caller' = [caller EXCEPT ![c] =
             [@ EXCEPT !.pc = "evict", !.scope = s, !.box = lease[Head(warm)].box]]
  /\ UNCHANGED <<keepWarm, closed, poisoned, loop, vm, dirty, lost, doomed>>

Evict(c) ==
  /\ At(c, "evict")
  /\ Disposed(caller[c].box)
  /\ caller' = [caller EXCEPT ![c].pc = IF vm'[caller[c].box] = "none" THEN "start" ELSE "fail",
                              ![c].box = None]
  /\ UNCHANGED <<tables, closed, loop, doomed>>

(* A VM nobody has anything to do with any more. *)
Unused(b) ==
  /\ vm[b] = "none"
  /\ \A c \in Callers : caller[c].box # b
  /\ \A s \in Leased : lease[s].box # b
  /\ \A w \in Sweepers : b \notin doomed[w]

Start(c) ==
  /\ At(c, "start")
  /\ \/ /\ loop
        /\ \E b \in Boxes :
             /\ Unused(b) /\ b = CHOOSE x \in Boxes : Unused(x)
             /\ vm' = [vm EXCEPT ![b] = "starting"]
             /\ caller' = [caller EXCEPT ![c].pc = "starting", ![c].box = b]
     \/ ~loop /\ Go(c, "fail") /\ UNCHANGED vm
  /\ UNCHANGED <<tables, closed, poisoned, loop, dirty, lost, doomed>>

(* The loop brings a VM up, or its start fails and it is left, as far as    *)
(* that succeeds.                                                           *)
VmUp(b) ==
  /\ vm[b] = "starting" /\ loop
  /\ vm' = [vm EXCEPT ![b] = "up"]
  /\ UNCHANGED <<tables, closed, poisoned, loop, dirty, lost, doomed, caller>>

Started(c) ==
  /\ At(c, "starting") /\ vm[caller[c].box] = "up"
  /\ Go(c, "publish")
  /\ UNCHANGED <<tables, closed, poisoned, loop, vm, dirty, lost, doomed>>

LeftBehind(b) ==
  \/ vm' = [vm EXCEPT ![b] = "none"] /\ UNCHANGED lost
  \/ vm' = [vm EXCEPT ![b] = "up"] /\ lost' = lost \cup {b}

StartFails(c) ==
  /\ At(c, "starting") /\ vm[caller[c].box] = "starting" /\ loop
  /\ LeftBehind(caller[c].box)
  /\ caller' = [caller EXCEPT ![c].pc = "fail", ![c].box = None]
  /\ UNCHANGED <<tables, closed, poisoned, loop, dirty, doomed>>

(* 90 s are over, or the loop has stopped: the start is cancelled, unless   *)
(* it has just come to its end.                                             *)
StartGivenUp(c) ==
  LET b == caller[c].box IN
  /\ At(c, "starting")
  /\ vm' = [vm EXCEPT ![b] = IF @ = "starting" THEN "cancelled" ELSE @]
  /\ lost' = lost \cup {b}
  /\ caller' = [caller EXCEPT ![c].pc = "fail", ![c].box = None]
  /\ UNCHANGED <<tables, closed, poisoned, loop, dirty, doomed>>

CancelledStartEnds(b) ==
  /\ vm[b] = "cancelled"
  /\ \/ vm' = [vm EXCEPT ![b] = "none"] /\ lost' = lost \ {b}
     \/ vm' = [vm EXCEPT ![b] = "up"] /\ UNCHANGED lost
  /\ UNCHANGED <<tables, closed, poisoned, loop, dirty, doomed, caller>>

Publish(c) ==
  /\ At(c, "publish")
  /\ IF closed
       THEN Go(c, "discard") /\ UNCHANGED lease
       ELSE /\ lease' = [lease EXCEPT ![caller[c].scope] =
                           [box |-> caller[c].box, executing |-> FALSE]]
            /\ Go(c, "acquired")
  /\ UNCHANGED <<keepWarm, warm, pending, closed, poisoned, loop, vm, dirty, lost, doomed>>

(* A VM that came up during a shutdown. *)
Discard(c) ==
  /\ At(c, "discard")
  /\ Disposed(caller[c].box)
  /\ caller' = [caller EXCEPT ![c].pc = "fail", ![c].box = None]
  /\ UNCHANGED <<tables, closed, loop, doomed>>

(* acquire, finally *)
Settle(c) ==
  /\ caller[c].pc \in {"acquired", "fail"}
  /\ pending' = pending \ {caller[c].scope}
  /\ IF At(c, "acquired")
       THEN caller' = [caller EXCEPT ![c].pc = "ready", ![c].box = None]
       ELSE Leave(c)
  /\ UNCHANGED <<keepWarm, lease, warm, closed, poisoned, loop, vm, dirty, lost, doomed>>

-----------------------------------------------------------------------------
(* execute *)

Active(s) == s \in Leased /\ s \notin Range(warm)

Execute(c) ==
  LET s == caller[c].scope IN
  /\ At(c, "ready")
  /\ IF closed \/ poisoned \/ ~Active(s) \/ lease[s].executing
       THEN Go(c, "release") /\ UNCHANGED lease
       ELSE /\ lease' = [lease EXCEPT ![s].executing = TRUE]
            /\ caller' = [caller EXCEPT ![c].pc = "running", ![c].box = lease[s].box]
  /\ UNCHANGED <<keepWarm, warm, pending, closed, poisoned, loop, vm, dirty, lost, doomed>>

(* The command ends, or fails, is interrupted or given up.                  *)
CommandEnds(c) ==
  /\ At(c, "running")
  /\ \E bad \in BOOLEAN :
       /\ ~loop => bad
       /\ dirty' = IF bad THEN dirty \cup {caller[c].box} ELSE dirty
       /\ caller' = [caller EXCEPT ![c].pc = "ended", ![c].bad = bad]
  /\ UNCHANGED <<tables, closed, poisoned, loop, vm, lost, doomed>>

(* Mutant: the lease of a command that went wrong is kept. *)
AfterCommandKeeps(c) ==
  LET s == caller[c].scope
      mine == s \in Leased /\ lease[s].box = caller[c].box IN
  /\ At(c, "ended")
  /\ lease' = [lease EXCEPT ![s] = IF mine THEN [@ EXCEPT !.executing = FALSE] ELSE @]
  /\ Go(c, IF caller[c].bad THEN "invalidate" ELSE "release")
  /\ UNCHANGED <<keepWarm, warm, pending, closed, poisoned, loop, vm, dirty, lost, doomed>>

(* execute, finally: a lease of the same scope may be another one by now.   *)
AfterCommand(c) ==
  LET s == caller[c].scope
      mine == s \in Leased /\ lease[s].box = caller[c].box IN
  /\ At(c, "ended")
  /\ lease' = [lease EXCEPT ![s] = IF ~mine THEN @ ELSE IF caller[c].bad THEN None
                                   ELSE [@ EXCEPT !.executing = FALSE]]
  /\ Go(c, IF caller[c].bad THEN "invalidate" ELSE "release")
  /\ UNCHANGED <<keepWarm, warm, pending, closed, poisoned, loop, vm, dirty, lost, doomed>>

(* The VM of a command that went wrong, or of a lease that is not kept.     *)
Invalidate(c) ==
  /\ caller[c].pc \in {"invalidate", "drop"}
  /\ Disposed(caller[c].box)
  /\ IF At(c, "drop") THEN Leave(c)
     ELSE caller' = [caller EXCEPT ![c].pc = "release", ![c].box = None]
  /\ UNCHANGED <<tables, closed, loop, doomed>>

(* release: of the scope, whoever holds it by now. *)
Release(c) ==
  LET s == caller[c].scope IN
  /\ At(c, "release")
  /\ IF s \notin {t \in Leased : ~lease[t].executing}
       THEN Leave(c) /\ UNCHANGED <<lease, warm>>
     ELSE IF keepWarm
       THEN /\ warm' = Append(Without(s), s)
            /\ Leave(c) /\ UNCHANGED lease
       ELSE /\ lease' = [lease EXCEPT ![s] = None]
            /\ caller' = [caller EXCEPT ![c].pc = "drop", ![c].box = lease[s].box]
            /\ UNCHANGED warm
  /\ UNCHANGED <<keepWarm, pending, closed, poisoned, loop, vm, dirty, lost, doomed>>

-----------------------------------------------------------------------------
(* The reaper and the shutdown. *)

(* reap_idle: what was not used for idle_timeout, the oldest first. *)
Reap ==
  /\ ~closed /\ doomed["reaper"] = {}
  /\ \E n \in 1..Len(warm) :
       /\ doomed' = [doomed EXCEPT !["reaper"] = {lease[warm[i]].box : i \in 1..n}]
       /\ lease' = [s \in Scopes |-> IF \E i \in 1..n : warm[i] = s THEN None ELSE lease[s]]
       /\ warm' = SubSeq(warm, n + 1, Len(warm))
  /\ UNCHANGED <<keepWarm, pending, closed, poisoned, loop, vm, dirty, lost, caller>>

Shutdown ==
  /\ ~closed
  /\ closed' = TRUE
  /\ doomed' = [doomed EXCEPT !["shutdown"] = {lease[s].box : s \in Leased}]
  /\ lease' = [s \in Scopes |-> None] /\ warm' = <<>>
  /\ UNCHANGED <<keepWarm, pending, poisoned, loop, vm, dirty, lost, caller>>

Sweep(w, b) ==
  /\ b \in doomed[w]
  /\ Disposed(b)
  /\ doomed' = [doomed EXCEPT ![w] = @ \ {b}]
  /\ UNCHANGED <<tables, closed, loop, caller>>

(* The loop is stopped last; what is still starting is cancelled. *)
StopLoop ==
  /\ closed /\ loop /\ doomed["shutdown"] = {}
  /\ loop' = FALSE
  /\ vm' = [b \in Boxes |-> IF vm[b] = "starting" THEN "cancelled" ELSE vm[b]]
  /\ UNCHANGED <<tables, closed, poisoned, dirty, lost, doomed, caller>>

Call(c) ==
  \/ \E s \in Scopes : Acquire(c, s)
  \/ Evict(c) \/ Start(c) \/ Started(c) \/ StartFails(c) \/ StartGivenUp(c)
  \/ Publish(c) \/ Discard(c) \/ Settle(c)
  \/ Execute(c) \/ CommandEnds(c) \/ AfterCommand(c) \/ Invalidate(c) \/ Release(c)

Next ==
  \/ \E c \in Callers : Call(c)
  \/ \E b \in Boxes : VmUp(b) \/ CancelledStartEnds(b) \/ \E w \in Sweepers : Sweep(w, b)
  \/ Reap \/ Shutdown \/ StopLoop

Spec == Init /\ [][Next]_vars

-----------------------------------------------------------------------------
(* Properties. *)

TypeOK ==
  /\ lease \in [Scopes -> {None} \cup [box : Boxes, executing : BOOLEAN]]
  /\ Range(warm) \subseteq Leased /\ IsInjective(warm)
  /\ pending \subseteq Scopes
  /\ vm \in [Boxes -> {"none", "starting", "cancelled", "up"}]
  /\ dirty \subseteq Boxes /\ lost \subseteq Boxes

Live == {b \in Boxes : vm[b] # "none"}

(* What the pool counts: leased, or of an acquire that is under way. *)
Acquiring == {"evict", "starting", "publish", "discard"}
Counted == {lease[s].box : s \in Leased}
           \cup {caller[c].box : c \in {d \in Callers : caller[d].pc \in Acquiring}}

(* On its way down: an actor has still to stop it. *)
GoingDown == doomed["reaper"] \cup doomed["shutdown"]
             \cup {caller[c].box : c \in {d \in Callers : caller[d].pc \in
                                            {"running", "ended", "invalidate", "drop"}}}

(* "Hard capped pool": the VMs the pool counts are never more than its       *)
(* capacity, whichever callers start, evict, invalidate and release at the  *)
(* same time; and there is no VM it has forgotten: each is counted, on its  *)
(* way down, one whose start failed or was given up, or of a pool that      *)
(* knows that a disposal was not confirmed and lets nobody in.  (And the    *)
(* types.)                                                                 *)
CapacityHolds ==
  /\ TypeOK
  /\ Cardinality(Counted) <= Capacity
  /\ Live \subseteq Counted \cup GoingDown \cup lost \/ poisoned

(* A command gets a VM that is up and has it for itself: none runs beside    *)
(* another or one that was abandoned, although a caller may release a lease *)
(* that is no longer its own.                                               *)
CommandStartsAlone ==
  \A c \in Callers :
    At(c, "ready") /\ caller'[c].pc = "running" =>
      /\ vm[caller'[c].box] = "up" /\ caller'[c].box \notin dirty
      /\ \A d \in Callers \ {c} : At(d, "running") => caller[d].box # caller'[c].box

(* No VM is stopped under a command that its caller waits for, by an         *)
(* eviction, the reaper or a release; only a shutdown does that.            *)
StopsNoWaitedCommand ==
  \A c \in Callers : At(c, "running") /\ vm'[caller[c].box] = "none" => closed

CommandOwnsItsVm == CommandStartsAlone /\ StopsNoWaitedCommand

-----------------------------------------------------------------------------
(* The strengthening, in parts.                                             *)

Lease == [box : Boxes, executing : BOOLEAN]
Filling == {"evict", "start", "starting", "publish", "discard"}
Runs == {"running", "ended"}
Holds == {"evict", "starting", "publish", "discard", "invalidate", "drop"} \cup Runs
Fresh == {"starting", "publish", "discard"}
CallerStates ==
  [pc : Holds \cup {"idle", "ready", "start", "acquired", "fail", "release"},
   scope : Scopes \cup {None}, box : Boxes \cup {None}, bad : BOOLEAN]

FullTypeOK ==
  /\ TypeOK
  /\ keepWarm \in BOOLEAN /\ closed \in BOOLEAN /\ poisoned \in BOOLEAN /\ loop \in BOOLEAN
  /\ warm \in Seq(Scopes) /\ (keepWarm \/ warm = <<>>)
  /\ doomed \in [Sweepers -> SUBSET Boxes]
  /\ caller \in [Callers -> CallerStates]
  /\ \A c \in Callers : /\ caller[c].pc # "idle" => caller[c].scope \in Scopes
                        /\ caller[c].pc \in Holds \cup {"acquired"} => caller[c].box \in Boxes

(* A scope has one acquire under way, which fills a place nobody has.         *)
PlacesAreFilledOnce ==
  \A c \in Callers :
    /\ caller[c].pc \in Filling \cup {"acquired", "fail"} =>
         /\ caller[c].scope \in pending
         /\ \A d \in Callers \ {c} : caller[d].pc \in Filling \cup {"acquired", "fail"} =>
              caller[d].scope # caller[c].scope
    /\ caller[c].pc \in Filling => caller[c].scope \notin Leased

Taken == Leased \cup {caller[c].scope : c \in {d \in Callers : caller[d].pc \in Filling}}
PlacesAreCounted == Cardinality(Taken) <= Capacity

(* A VM that is starting for a caller, or up, is of nobody else.             *)
FreshIsSole ==
  \A c \in Callers : caller[c].pc \in Fresh =>
    /\ \A d \in Callers \ {c} : caller[d].box # caller[c].box
    /\ \A w \in Sweepers : caller[c].box \notin doomed[w]
    /\ caller[c].pc = "publish" => vm[caller[c].box] = "up"
    /\ ~closed => caller[c].box \notin dirty

(* A lease is of a VM that is up, that nobody but its command uses, and that  *)
(* was not abandoned but by it.                                             *)
LeaseIsSole ==
  \A s \in Leased :
    /\ vm[lease[s].box] = "up"
    /\ s \in Range(warm) => ~lease[s].executing
    /\ \A t \in Leased \ {s} : lease[t].box # lease[s].box
    /\ \A w \in Sweepers : lease[s].box \notin doomed[w]
    /\ \A c \in Callers : caller[c].pc \in Holds /\ caller[c].box = lease[s].box =>
         caller[c].pc \in Runs /\ caller[c].scope = s /\ lease[s].executing
    /\ lease[s].box \in dirty =>
         \E c \in Callers : /\ caller[c].pc = "ended" /\ caller[c].bad
                           /\ caller[c].scope = s /\ caller[c].box = lease[s].box

(* A command has its lease, until a shutdown takes it.                       *)
CommandIsLeased ==
  \A c \in Callers : caller[c].pc \in Runs =>
    /\ \A d \in Callers \ {c} : caller[d].pc \in Runs => caller[d].box # caller[c].box
    /\ \/ caller[c].scope \in Leased /\ lease[caller[c].scope].box = caller[c].box
       \/ /\ closed
          /\ \/ caller[c].box \in doomed["shutdown"]
             \/ vm[caller[c].box] = "none" \/ poisoned

AbandonedIsUp == ~closed => \A b \in dirty : vm[b] = "up"

(* Somebody has a VM: a lease, a caller, or who is to stop it.               *)
Rented == {lease[s].box : s \in Leased}
Used(b) ==
  \/ b \in Rented
  \/ \E c \in Callers : caller[c].pc \in Holds /\ caller[c].box = b
  \/ \E w \in Sweepers : b \in doomed[w]
NoneIsForgotten ==
  poisoned \/ \A b \in Boxes : vm[b] # "none" => Used(b) \/ b \in lost

ClosedIsEmpty == IF closed THEN Leased = {} ELSE doomed["shutdown"] = {}

IInv ==
  /\ FullTypeOK /\ PlacesAreFilledOnce /\ PlacesAreCounted /\ FreshIsSole /\ LeaseIsSole
  /\ CommandIsLeased /\ AbandonedIsUp /\ NoneIsForgotten /\ ClosedIsEmpty
=============================================================================
