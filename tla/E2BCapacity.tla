---------------------------- MODULE E2BCapacity ----------------------------
(***************************************************************************)
(* Remote virtual machines: E2BCommandProvider (core/sandbox/               *)
(* e2b_provider.py) runs the commands of a session in one machine, that it   *)
(* makes when it is first needed, and RedisE2BCapacity                      *)
(* (e2b_redis_capacity.py) counts the machines of all gateways.  Every call  *)
(* of the SDK is made in a thread of its own and waited for only so long; a  *)
(* reply of Redis may be lost; a gateway may die.                           *)
(***************************************************************************)
EXTENDS Naturals, FiniteSets

CONSTANTS
  Providers,     \* sessions, each with its token
  Limit,         \* capacity_limit
  MaxCommands, MaxLosses   \* bounds

VARIABLES
  slots,         \* the reservations: Providers -> "no", "pending" or "tracked"
  claims,        \* providers whose command claim is held
  vm,            \* Providers -> "none", "up" or "gone"
  inside,        \* commands running in the machine
  main,          \* the thread in execute(): the step it is at
  creator,       \* the thread in create(): "none", "calling", "returned", "killing", "done"
  closer,        \* the thread in close(): "no", "aborting", "killing", "done"
  client, busy, closed, poisoned, abort, reserved,   \* the fields of the provider
  commands, losses

vars == <<slots, claims, vm, inside, main, creator, closer,
          client, busy, closed, poisoned, abort, reserved, commands, losses>>
fields == <<client, busy, closed, poisoned, abort, reserved>>
ledger == <<slots, claims>>

Init ==
  /\ slots = [p \in Providers |-> "no"] /\ claims = {}
  /\ vm = [p \in Providers |-> "none"] /\ inside = [p \in Providers |-> 0]
  /\ main = [p \in Providers |-> "idle"] /\ creator = [p \in Providers |-> "none"]
  /\ closer = [p \in Providers |-> "no"]
  /\ client = {} /\ busy = {} /\ closed = {} /\ poisoned = {} /\ abort = {} /\ reserved = {}
  /\ commands = [p \in Providers |-> 0] /\ losses = 0

At(p, pc) == main[p] = pc
Go(p, pc) == main' = [main EXCEPT ![p] = pc]

-----------------------------------------------------------------------------
(* RedisE2BCapacity: the scripts.  A call answers, or its answer is lost      *)
(* after the script ran or before it could.                                 *)
Full == Cardinality({p \in Providers : slots[p] # "no"}) >= Limit

Granted(p) == slots[p] = "no" /\ ~Full
ReserveIn(p)  == slots' = [slots EXCEPT ![p] = "pending"] /\ UNCHANGED claims
TrackIn(p)    == slots' = [slots EXCEPT ![p] = "tracked"] /\ UNCHANGED claims
ReleaseIn(p)  == slots' = [slots EXCEPT ![p] = "no"] /\ claims' = claims \ {p}
BeginIn(p)    == claims' = claims \cup {p} /\ UNCHANGED slots
EndIn(p)      == claims' = claims \ {p} /\ UNCHANGED slots

Lost(script) ==
  /\ losses < MaxLosses                                             \* bound
  /\ losses' = losses + 1
  /\ script \/ UNCHANGED ledger

-----------------------------------------------------------------------------
(* execute() *)

(* One command at a time, none once there is a doubt.                        *)
Execute(p) ==
  /\ At(p, "idle") /\ p \notin closed \cup poisoned \cup busy
  /\ commands[p] < MaxCommands                                      \* bound
  /\ commands' = [commands EXCEPT ![p] = @ + 1]
  /\ busy' = busy \cup {p} /\ Go(p, "ensure")
  /\ UNCHANGED <<ledger, vm, inside, creator, closer, client, closed, poisoned, abort,
                 reserved, losses>>

Ensure(p) ==
  /\ At(p, "ensure")
  /\ Go(p, IF p \in closed \cup abort THEN "finally"
           ELSE IF p \in client THEN "begin" ELSE "reserve")
  /\ UNCHANGED <<ledger, vm, inside, creator, closer, fields, commands, losses>>

Reserve(p) ==
  /\ At(p, "reserve")
  /\ IF Granted(p)
     THEN \/ ReserveIn(p) /\ reserved' = reserved \cup {p} /\ Go(p, "create") /\ UNCHANGED losses
          \/ Lost(ReserveIn(p)) /\ Go(p, "finally") /\ UNCHANGED reserved
     ELSE Go(p, "finally") /\ UNCHANGED <<ledger, reserved, losses>>
  /\ UNCHANGED <<vm, inside, creator, closer, client, busy, closed, poisoned, abort, commands>>

Create(p) ==
  /\ At(p, "create") /\ creator[p] = "none"
  /\ creator' = [creator EXCEPT ![p] = "calling"] /\ Go(p, "created")
  /\ UNCHANGED <<ledger, vm, inside, closer, fields, commands, losses>>

(* The thread of the call: the machine is there, or the call fails with or    *)
(* without one.                                                            *)
Returns(p) ==
  /\ creator[p] = "calling"
  /\ \/ vm' = [vm EXCEPT ![p] = "up"] /\ creator' = [creator EXCEPT ![p] = "returned"]
     \/ vm' = [vm EXCEPT ![p] = "up"] /\ creator' = [creator EXCEPT ![p] = "failed"]
     \/ UNCHANGED vm /\ creator' = [creator EXCEPT ![p] = "failed"]
  /\ UNCHANGED <<ledger, inside, main, closer, fields, commands, losses>>
LooksAtAbort(p) ==
  /\ creator[p] = "returned"
  /\ creator' = [creator EXCEPT ![p] = IF p \in abort /\ p \notin client THEN "killing"
                                       ELSE "done"]
  /\ UNCHANGED <<ledger, vm, inside, main, closer, fields, commands, losses>>
KillsLate(p) ==
  /\ creator[p] = "killing"
  /\ \/ vm' = [vm EXCEPT ![p] = "gone"] /\ inside' = [inside EXCEPT ![p] = 0]
     \/ UNCHANGED <<vm, inside>>
  /\ creator' = [creator EXCEPT ![p] = "done"]
  /\ UNCHANGED <<ledger, main, closer, fields, commands, losses>>

(* The waiting thread: the result, the time-out or cancellation (which also    *)
(* answers close()).                                                       *)
Created(p) ==
  /\ At(p, "created") /\ creator[p] = "done"
  /\ IF p \in abort
     THEN poisoned' = poisoned \cup {p} /\ Go(p, "finally") /\ UNCHANGED client
     ELSE client' = client \cup {p} /\ Go(p, "track") /\ UNCHANGED poisoned
  /\ UNCHANGED <<ledger, vm, inside, creator, closer, busy, closed, abort, reserved, commands,
                 losses>>
NotCreated(p) ==
  /\ At(p, "created") /\ creator[p] = "failed"
  /\ poisoned' = poisoned \cup {p} /\ Go(p, "finally")
  /\ UNCHANGED <<ledger, vm, inside, creator, closer, client, busy, closed, abort, reserved,
                 commands, losses>>
GiveUp(p) ==
  /\ main[p] \in {"created", "running"}
  /\ abort' = abort \cup {p} /\ poisoned' = poisoned \cup {p}
  /\ Go(p, IF At(p, "created") THEN "finally" ELSE "kill")
  /\ UNCHANGED <<ledger, vm, inside, creator, closer, client, busy, closed, reserved, commands,
                 losses>>

(* A call of the ledger after which, if it is not confirmed, the machine is   *)
(* killed.                                                                 *)
Confirmed(p, from, script, next) ==
  /\ At(p, from)
  /\ \/ script /\ Go(p, next) /\ UNCHANGED <<poisoned, losses>>
     \/ Lost(script) /\ Go(p, "kill") /\ poisoned' = poisoned \cup {p}
  /\ UNCHANGED <<vm, inside, creator, closer, client, busy, closed, abort, reserved, commands>>
Track(p)  == Confirmed(p, "track", TrackIn(p), "begin")
Begun(p)  == Confirmed(p, "begin", BeginIn(p), "run")
Ended(p)  == Confirmed(p, "end", EndIn(p), "finally")

(* The command runs in the machine, and may go on when nobody waits for it.   *)
Run(p) ==
  /\ At(p, "run") /\ Go(p, "running")
  /\ inside' = [inside EXCEPT ![p] = IF vm[p] = "up" THEN @ + 1 ELSE @]
  /\ UNCHANGED <<ledger, vm, creator, closer, fields, commands, losses>>
(* With a whole result, or with an error that says nothing.                  *)
Ran(p) ==
  /\ At(p, "running") /\ inside[p] > 0
  /\ inside' = [inside EXCEPT ![p] = @ - 1] /\ Go(p, "end")
  /\ UNCHANGED <<ledger, vm, creator, closer, fields, commands, losses>>
RunFails(p) ==
  /\ At(p, "running") /\ Go(p, "kill") /\ poisoned' = poisoned \cup {p}
  /\ UNCHANGED <<ledger, vm, inside, creator, closer, client, busy, closed, abort, reserved,
                 commands, losses>>
Finishes(p) ==
  /\ inside[p] > 0 /\ ~At(p, "running")
  /\ inside' = [inside EXCEPT ![p] = @ - 1]
  /\ UNCHANGED <<ledger, vm, main, creator, closer, fields, commands, losses>>

(* _kill_remote: only a kill that is known to have worked gives the slot back. *)
(* Mutant: a kill that was not confirmed gives it back too.                  *)
KilledUnconfirmed(p) ==
  /\ client' = client \ {p} /\ ReleaseIn(p) /\ reserved' = reserved \ {p}
  /\ UNCHANGED <<vm, inside, losses, poisoned>>
Killed(p) ==
  \/ /\ vm' = [vm EXCEPT ![p] = "gone"] /\ inside' = [inside EXCEPT ![p] = 0]
     /\ client' = client \ {p}
     /\ IF p \notin reserved THEN UNCHANGED <<ledger, reserved, poisoned, losses>>
        ELSE \/ ReleaseIn(p) /\ reserved' = reserved \ {p} /\ UNCHANGED <<poisoned, losses>>
             \/ Lost(ReleaseIn(p)) /\ poisoned' = poisoned \cup {p} /\ UNCHANGED reserved
  \/ /\ poisoned' = poisoned \cup {p}                    \* error or no answer in 5 s
     /\ \/ UNCHANGED <<vm, inside>>
        \/ vm' = [vm EXCEPT ![p] = "gone"] /\ inside' = [inside EXCEPT ![p] = 0]
     /\ UNCHANGED <<client, ledger, reserved, losses>>

Kill(p) ==
  /\ At(p, "kill") /\ Go(p, "finally")
  /\ IF p \in client THEN Killed(p)
     ELSE UNCHANGED <<vm, inside, client, ledger, reserved, poisoned, losses>>
  /\ UNCHANGED <<creator, closer, busy, closed, abort, commands>>

(* finally: a close() that found the provider busy left the kill to it.       *)
Finally(p) ==
  /\ At(p, "finally") /\ busy' = busy \ {p}
  /\ Go(p, IF p \in closed /\ p \in client THEN "last kill" ELSE "idle")
  /\ UNCHANGED <<ledger, vm, inside, creator, closer, client, closed, poisoned, abort, reserved,
                 commands, losses>>
LastKill(p) ==
  /\ At(p, "last kill") /\ Go(p, "idle") /\ Killed(p)
  /\ UNCHANGED <<creator, closer, busy, closed, abort, commands>>

-----------------------------------------------------------------------------
(* close() *)

Close(p) ==
  /\ closer[p] = "no" /\ closer' = [closer EXCEPT ![p] = "aborting"]
  /\ abort' = abort \cup {p}
  /\ UNCHANGED <<ledger, vm, inside, main, creator, client, busy, closed, poisoned, reserved,
                 commands, losses>>
CloseLocked(p) ==
  /\ closer[p] = "aborting" /\ closed' = closed \cup {p}
  /\ closer' = [closer EXCEPT ![p] = IF p \notin busy /\ p \in client THEN "killing" ELSE "done"]
  /\ UNCHANGED <<ledger, vm, inside, main, creator, client, busy, poisoned, abort, reserved,
                 commands, losses>>
CloseKill(p) ==
  /\ closer[p] = "killing" /\ closer' = [closer EXCEPT ![p] = "done"]
  /\ IF p \in client THEN Killed(p)
     ELSE UNCHANGED <<vm, inside, client, ledger, reserved, poisoned, losses>>
  /\ UNCHANGED <<main, creator, busy, closed, abort, commands>>

-----------------------------------------------------------------------------
(* The gateway dies: nothing of the ledger expires.                          *)
Dies(p) ==
  /\ main[p] # "dead" /\ losses < MaxLosses                         \* bound
  /\ losses' = losses + 1 /\ Go(p, "dead")
  /\ creator' = [creator EXCEPT ![p] = IF @ = "calling" THEN @ ELSE "dead"]
  /\ closer' = [closer EXCEPT ![p] = "done"]
  /\ UNCHANGED <<ledger, vm, inside, fields, commands>>
(* ... and a machine, its time to live over.                                 *)
Expires(p) ==
  /\ vm[p] = "up" /\ vm' = [vm EXCEPT ![p] = "gone"] /\ inside' = [inside EXCEPT ![p] = 0]
  /\ UNCHANGED <<ledger, main, creator, closer, fields, commands, losses>>

Next ==
  \E p \in Providers :
    \/ Execute(p) \/ Ensure(p) \/ Reserve(p) \/ Create(p) \/ Returns(p) \/ LooksAtAbort(p)
    \/ KillsLate(p) \/ Created(p) \/ NotCreated(p) \/ GiveUp(p) \/ Track(p) \/ Begun(p)
    \/ Run(p) \/ Ran(p) \/ RunFails(p) \/ Finishes(p) \/ Ended(p) \/ Kill(p) \/ Finally(p)
    \/ LastKill(p) \/ Close(p) \/ CloseLocked(p) \/ CloseKill(p) \/ Dies(p) \/ Expires(p)

Spec == Init /\ [][Next]_vars

-----------------------------------------------------------------------------
(* Properties. *)

(* Every machine that is up, or may still come up, has a slot, through lost   *)
(* replies, calls given up, closing and the death of its gateway; there are   *)
(* never more than the limit, and no machine runs two commands.              *)
SlotsCoverMachines ==
  /\ Cardinality({p \in Providers : slots[p] # "no"}) <= Limit
  /\ \A p \in Providers :
       /\ vm[p] = "up" \/ creator[p] = "calling" => slots[p] # "no"
       /\ inside[p] <= 1 /\ (inside[p] = 1 /\ ~At(p, "running") => main[p] \notin {"begin", "run"})

-----------------------------------------------------------------------------
(* What the comments say and the code does not do *)

(* "A late Sandbox.create result must be destroyed by its worker."           *)
LateMachinesAreKilled ==
  \A p \in Providers :
    creator[p] = "done" /\ p \in abort /\ p \notin client /\ main[p] = "idle" /\ losses = 0
      => vm[p] # "up"
=============================================================================
