---------------------------- MODULE MCServices ----------------------------
(***************************************************************************)
(* Two components whose threads never stop, side by side: those who follow   *)
(* the event journal, whose module this one extends, and the workers and    *)
(* the sweep of a team.  A behaviour is one of the component it has its     *)
(* focus on; the other stands still, and fairness is of the focus.          *)
(***************************************************************************)
EXTENDS EventStream

CONSTANTS None, Lead, Peer

VARIABLES
  focus,
  kind, inbox, status, items, registry, thread, caller, memory, saved, sweep,
  faults, restarts

Work == INSTANCE TeamWork WITH
  Threads <- 1..2, Callers <- {Lead, Peer}, Messages <- {"letter"},
  Overlap <- FALSE, Slow <- FALSE,
  MaxFanout <- 1, MaxAttempts <- 2, MaxFaults <- 1, MaxRestarts <- 1

workVars     == <<kind, inbox, status, items, registry, thread, caller, memory, saved,
                  sweep, faults, restarts>>
servicesVars == <<focus, workVars, vars>>

NoWork ==
  /\ kind = None /\ inbox = None /\ status = None /\ items = None
  /\ registry = None /\ thread = None /\ caller = None /\ memory = None
  /\ saved = None /\ sweep = None /\ faults = None /\ restarts = None
NoStream == Init /\ \A f \in Followers : transport[f] = "sse"

ServicesInit ==
  \/ focus = "work"   /\ Work!Init /\ NoStream
  \/ focus = "stream" /\ Init /\ NoWork

WorkStep   == focus = "work" /\ Work!Next /\ UNCHANGED <<focus, vars>>
StreamStep == focus = "stream" /\ Next /\ UNCHANGED <<focus, workVars>>

(* The fairness of FairSpec in either module.                               *)
ServicesSpec ==
  /\ ServicesInit /\ [][WorkStep \/ StreamStep]_servicesVars
  /\ WF_workVars(focus = "work" /\ Work!Sweep)
  /\ WF_workVars(focus = "work" /\ \E i \in Work!ItemIds : Work!GrowOld(i) /\ Work!Runners(i) = {})
  /\ \A f \in Followers : /\ WF_vars(focus = "stream" /\ Follow(f))
                          /\ WF_vars(focus = "stream" /\ Join(f))

(* TeamWork *)
WorkIsDoneOnce ==
  /\ [](focus = "work" => Work!OneRunnerPerItem /\ Work!OneItemForEachMessage)
  /\ [][focus = "work" => Work!SucceededStays]_servicesVars

(* Both: StuckWorkIsRequeued, and CatchesUp                                  *)
Stuck(i) == focus = "work" /\ Work!Stuck(i)
WorkGoesOn ==
  /\ \A i \in 1..2 : Stuck(i) ~> ~Stuck(i)
  /\ \A f \in Followers :
       focus = "stream" /\ IsLive(f) ~> focus = "stream" /\ HasCaughtUp(f)
=============================================================================
