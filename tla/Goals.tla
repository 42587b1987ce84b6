-------------------------------- MODULE Goals --------------------------------
(***************************************************************************)
(* The goal of a session: a file that the Goal tool, the driver of automatic *)
(* rounds and the handlers of the desktop service read and replace.  The    *)
(* file is replaced at once, but nothing is locked between reading a goal   *)
(* and writing it back.                                                     *)
(***************************************************************************)
EXTENDS Naturals, Sequences

CONSTANTS
  None,
  Runners,      \* agents that run turns of the session
  Budgets,      \* max_rounds that may be asked for
  MaxAuto,      \* AGENT_GOAL_MAX_AUTO_ROUNDS
  MaxSets, MaxTurns, MaxCalls   \* bounds

VARIABLES
  disk,       \* the file: None or a goal
  run,        \* what a runner does, and the goal it has read
  flag,       \* the interrupt flag of a runner
  asked,      \* for the properties: it was asked to stop this invocation,
  word,       \*   the goal that was set last, None if it was cleared since,
  clash,      \*   whether that fell between a reading and a writing,
  claimed,    \*   the rounds the driver started for each goal,
  over,       \*   and the goals that were completed or blocked
  turns

vars == <<disk, run, flag, asked, word, clash, claimed, over, turns>>
told == <<word, clash>>

Idle == [pc |-> "idle", held |-> None, op |-> None, auto |-> 0, calls |-> 0,
         status |-> None]

Init ==
  /\ disk = None /\ word = None /\ clash = FALSE /\ turns = 0 /\ over = {}
  /\ claimed = <<>>
  /\ run = [r \in Runners |-> Idle]
  /\ flag = [r \in Runners |-> FALSE] /\ asked = [r \in Runners |-> FALSE]

At(r, pc) == run[r].pc = pc
Goes(r, fields) == run' = [run EXCEPT ![r] = fields]
To(r, pc) == Goes(r, [run[r] EXCEPT !.pc = pc])

-----------------------------------------------------------------------------
(* The store.                                                              *)

(* A goal is known by its number.                                       *)
Fresh(budget) ==
  [id |-> Len(claimed) + 1, status |-> "active", rounds |-> 0, max |-> budget]

Said(id) == word' = id /\ clash' = \E r \in Runners : At(r, "write")

SetObjective(budget) ==
  /\ Len(claimed) < MaxSets
  /\ disk' = Fresh(budget)
  /\ claimed' = Append(claimed, 0)
  /\ Said(Len(claimed) + 1)

Clear == disk' = None /\ Said(None) /\ UNCHANGED claimed

(* Mutants: a blocked goal goes on; one round too many.                     *)
NotComplete(goal) == goal.status # "complete"
OneMore(goal) == goal.rounds > goal.max

Active(goal) == goal.status = "active"
Exhausted(goal) == goal.rounds >= goal.max

Changed(goal, op) ==
  CASE op = "round"    -> [goal EXCEPT !.rounds = @ + 1]
    [] op = "complete" -> [goal EXCEPT !.status = "complete"]
    [] op = "block"    -> [goal EXCEPT !.status = "blocked"]

(* The goal of the session, as it is on disk now.                          *)
Get == disk

Allowed(goal, op) ==
  /\ goal # None
  /\ op = "round" => Active(goal) /\ ~Exhausted(goal)
  /\ op = "complete" => goal.status # "complete"

-----------------------------------------------------------------------------
(* The handlers of the service: PUT and DELETE of the goal.                 *)
Put(budget) ==
  /\ SetObjective(budget)
  /\ UNCHANGED <<run, flag, asked, over, turns>>

Delete ==
  /\ Get # None /\ Clear
  /\ UNCHANGED <<run, flag, asked, over, turns>>

(* An interrupt of the turn.  Between reading the flag and clearing it, it    *)
(* is lost; once the driver has looked, the next round notices it.          *)
Interrupt(r) ==
  /\ ~At(r, "idle") /\ ~flag[r]
  /\ flag' = [flag EXCEPT ![r] = TRUE]
  /\ asked' = [asked EXCEPT ![r] =
       @ \/ run[r].pc \in {"turn", "decide"} \/ (At(r, "write") /\ run[r].status = None)]
  /\ UNCHANGED <<disk, run, told, claimed, over, turns>>

-----------------------------------------------------------------------------
(* Turns, and calls of the tool in them.                                   *)

Begin(r) ==
  /\ At(r, "idle") /\ turns < MaxTurns /\ turns' = turns + 1
  /\ To(r, "turn")
  /\ UNCHANGED <<disk, flag, asked, told, claimed, over>>

MayCall(r) == At(r, "turn") /\ run[r].calls < MaxCalls
Called(r) == [run[r] EXCEPT !.calls = @ + 1]

CallSets(r) ==
  /\ MayCall(r) /\ Goes(r, Called(r))
  /\ \/ \E b \in Budgets : SetObjective(b)
     \/ Get # None /\ Clear
  /\ UNCHANGED <<flag, asked, over, turns>>

(* start_round, complete and block read the goal, and answer with an error    *)
(* or write it back.                                                        *)
CallReads(r, op) ==
  /\ MayCall(r)
  /\ Goes(r, IF Allowed(Get, op)
             THEN [Called(r) EXCEPT !.pc = "write", !.held = Get, !.op = op]
             ELSE Called(r))
  /\ UNCHANGED <<disk, flag, asked, told, claimed, over, turns>>

Write(r) ==
  /\ At(r, "write") /\ disk' = Changed(run[r].held, run[r].op)
  /\ over' = IF run[r].op = "round" THEN over ELSE over \cup {run[r].held.id}
  /\ IF run[r].status = None
     THEN /\ Goes(r, [run[r] EXCEPT !.pc = "turn", !.held = None, !.op = None])
          /\ UNCHANGED claimed
     ELSE /\ Goes(r, [Idle EXCEPT !.pc = "turn", !.auto = run[r].auto + 1])
          /\ claimed' = [claimed EXCEPT ![run[r].held.id] = @ + 1]
  /\ UNCHANGED <<flag, asked, told, turns>>

(* The turn ends; its flag is read, then cleared.                           *)
TurnEnds(r) ==
  /\ At(r, "turn")
  /\ \E failed \in BOOLEAN :
       Goes(r, [run[r] EXCEPT !.pc = "clear", !.status =
                  IF flag[r] THEN "cancelled" ELSE IF failed THEN "failed" ELSE "completed"])
  /\ UNCHANGED <<disk, flag, asked, told, claimed, over, turns>>

ClearFlag(r) ==
  /\ At(r, "clear") /\ flag' = [flag EXCEPT ![r] = FALSE] /\ To(r, "decide")
  /\ UNCHANGED <<disk, asked, told, claimed, over, turns>>

-----------------------------------------------------------------------------
(* The driver.                                                             *)

(* Mutant: a failed turn is followed by a round as well.                    *)
DueUnlessStopped(r) ==
  ~flag[r] /\ run[r].status # "cancelled" /\ run[r].auto < MaxAuto
Due(r) == ~flag[r] /\ run[r].status = "completed" /\ run[r].auto < MaxAuto

Decide(r) ==
  /\ At(r, "decide")
  /\ IF Get # None /\ Active(Get) /\ Due(r) /\ ~Exhausted(Get)
     THEN Goes(r, [run[r] EXCEPT !.pc = "claim", !.held = Get]) /\ UNCHANGED asked
     ELSE Goes(r, Idle) /\ asked' = [asked EXCEPT ![r] = FALSE]
  /\ UNCHANGED <<disk, flag, told, claimed, over, turns>>

(* Mutant: the goal of the decision is written back, without another look.   *)
AsDecided(r) == run[r].held
Claims(r) == Get

(* start_round reads the goal again.                                        *)
Claim(r) ==
  /\ At(r, "claim")
  /\ IF Allowed(Claims(r), "round")
     THEN /\ Goes(r, [run[r] EXCEPT !.pc = "write", !.held = Claims(r), !.op = "round"])
          /\ UNCHANGED asked
     ELSE Goes(r, Idle) /\ asked' = [asked EXCEPT ![r] = FALSE]
  /\ UNCHANGED <<disk, flag, told, claimed, over, turns>>

Next ==
  \/ \E b \in Budgets : Put(b)
  \/ Delete
  \/ \E r \in Runners :
       \/ Interrupt(r) \/ Begin(r) \/ CallSets(r)
       \/ \E op \in {"round", "complete", "block"} : CallReads(r, op)
       \/ Write(r) \/ TurnEnds(r) \/ ClearFlag(r) \/ Decide(r) \/ Claim(r)

Spec == Init /\ [][Next]_vars

-----------------------------------------------------------------------------
(* A goal that was set stays, and one that was cleared stays away, unless     *)
(* that fell between a reading and a writing of the agent.                  *)
UserHasTheLastWord ==
  ~clash => IF word = None THEN disk = None ELSE disk # None /\ disk.id = word

(* Whatever the user sets and clears meanwhile, a round of the driver starts  *)
(* only after a turn that completed, with no interrupt that was noticed, for *)
(* a goal that is neither completed nor blocked, and within its budget and   *)
(* that of the invocation.                                                  *)
RoundsAreDue ==
  \A r \in Runners : run'[r].auto > run[r].auto =>
    /\ run[r].status = "completed" /\ ~asked[r]
    /\ run[r].held.id \notin over
    /\ claimed'[run[r].held.id] <= run[r].held.max
    /\ run'[r].auto <= MaxAuto
=============================================================================
