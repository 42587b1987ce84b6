------------------------------ MODULE AgentLoop ------------------------------
(***************************************************************************)
(* The steps of a turn: AgentLoop (core/runtime/agent_loop.py) asks the     *)
(* model, and CodeAgent runs the tools the model calls.  The calls of one    *)
(* answer run in batches (tool_scheduler.py): adjacent calls that are safe   *)
(* may overlap, any other runs alone.  Policies and hooks are asked on the   *)
(* thread of the agent (tool_runtime.py); ToolRegistry.execute_tool then     *)
(* checks each call against what was advertised for this step               *)
(* (tool_snapshot.py), while MCP servers come and go, and runs its adapter   *)
(* in a thread of its own that is not waited for for ever.                  *)
(***************************************************************************)
EXTENDS Naturals, Sequences, SequencesExt, FiniteSets

CONSTANTS
  Tools,
  Safe,          \* may run alongside other calls, as first registered
  PlanTools,     \* PLAN_MODE_TOOLS
  Switch,        \* EnterPlanMode and ExitPlanMode
  Unbudgeted,    \* tools with a time-out of zero, run on the caller's thread
  Threshold,     \* failure_threshold of the circuit breaker
  ForkTo,        \* "rounds" or "messages", see Fork
  MaxTurns, MaxSteps, MaxCalls, MaxChanges   \* bounds; max_steps is one in the code

VARIABLES
  registry,      \* Tools -> the adapter registered under the name, 0 if there is none
  advertised,    \* the step snapshot: Tools -> adapter, 0 if the model was not shown it
  planning,      \* _in_plan_mode
  interrupted,   \* _interrupt_requested
  breaker,       \* Tools -> [failures, open]
  hooks,         \* there are hooks, a budget or delegation: nothing runs in parallel
  owner,         \* the thread of the agent: [pc, step, turns, retried, parallel]
  work,          \* the calls of the answer, in order: [tool, valid, safe, adapter, pc]
  next, upto,    \* the calls next..upto are the batch; those before next are answered
  history        \* of the branch: "user", "text", "result" or [calls |-> n]

vars == <<registry, advertised, planning, interrupted, breaker, hooks, owner, work,
          next, upto, history>>
gates == <<registry, planning, breaker, hooks>>

At(pc) == owner.pc = pc
Batch  == next..upto
Item(kind, n) == [kind |-> kind, n |-> n]
Results(end) == [k \in 1..(end - next + 1) |-> Item("result", next + k - 1)]

(* An adapter registered later under the name of a safe tool may not be safe. *)
(* Mutant: the name is asked, not what is registered under it.              *)
IsSafeByName(t, adapter) == t \in Safe
IsSafe(t, adapter) == t \in Safe /\ adapter = 1

(* get_openai_tools, and the live guards of the plan mode.                   *)
Permitted(t) == planning => t \in PlanTools
Offered(t)   == registry[t] # 0 /\ ~breaker[t].open /\ Permitted(t)

Init ==
  /\ registry = [t \in Tools |-> 1] /\ advertised = [t \in Tools |-> 0]
  /\ planning = FALSE /\ interrupted = FALSE /\ hooks \in BOOLEAN
  /\ breaker = [t \in Tools |-> [failures |-> 0, open |-> FALSE]]
  /\ owner = [pc |-> "idle", step |-> 0, turns |-> 0, retried |-> FALSE, parallel |-> FALSE]
  /\ work = <<>> /\ next = 1 /\ upto = 0 /\ history = <<>>

-----------------------------------------------------------------------------
(* AgentLoop.run *)

StartTurn ==
  /\ At("idle") /\ owner.turns < MaxTurns                           \* bound
  /\ owner' = [owner EXCEPT !.pc = "step", !.step = 1, !.turns = @ + 1]
  /\ history' = Append(history, Item("user", 0))
  /\ UNCHANGED <<gates, advertised, interrupted, work, next, upto>>

(* What the model is shown is sealed for the step.                          *)
StepBegins ==
  /\ At("step")
  /\ IF interrupted \/ owner.step > MaxSteps
     THEN owner' = [owner EXCEPT !.pc = "finally"] /\ UNCHANGED advertised
     ELSE /\ owner' = [owner EXCEPT !.pc = "model", !.retried = FALSE]
          /\ advertised' = [t \in Tools |-> IF Offered(t) THEN registry[t] ELSE 0]
  /\ UNCHANGED <<gates, interrupted, work, next, upto, history>>

(* An answer without calls, a cut off one (whose calls are not announced), an *)
(* error, or nothing twice, ends the turn.                                  *)
ModelEnds ==
  /\ At("model")
  /\ owner' = [owner EXCEPT !.pc = "finally"]
  /\ history' \in {history} \cup {Append(history, Item("text", 0))}
  /\ UNCHANGED <<gates, advertised, interrupted, work, next, upto>>
ModelSaysNothing ==
  /\ At("model") /\ ~owner.retried
  /\ owner' = [owner EXCEPT !.retried = TRUE]
  /\ UNCHANGED <<gates, advertised, interrupted, work, next, upto, history>>

(* The calls are announced in the history, and the batches planned.  The      *)
(* model may name any tool, and arguments may fail to parse.                *)
ModelCalls(names, valid) ==
  /\ At("model")
  /\ IF interrupted
     THEN owner' = [owner EXCEPT !.pc = "finally"] /\ UNCHANGED <<work, history, next, upto>>
     ELSE /\ owner' = [owner EXCEPT !.pc = "batch"]
          /\ history' = Append(history, Item("calls", Len(names)))
          /\ work' = [i \in DOMAIN names |->
               [tool |-> names[i], valid |-> i \in valid, adapter |-> 0, pc |-> "waiting",
                safe |-> ~hooks /\ i \in valid /\ IsSafe(names[i], registry[names[i]])]]
          /\ next' = 1 /\ upto' = 0
  /\ UNCHANGED <<gates, advertised, interrupted>>

-----------------------------------------------------------------------------
(* _execute_step_tools: batches *)

BatchEnds ==
  CHOOSE k \in next..Len(work) :
    /\ \A i \in next..k : i = k \/ (work[i].safe /\ work[i + 1].safe)
    /\ work[k].safe => k = Len(work) \/ ~work[k + 1].safe

(* An interrupt that came before the batch: every call of it is answered.     *)
(* Mutant: the calls that did not run are left without an answer.            *)
BatchIsDropped ==
  /\ interrupted
  /\ owner' = [owner EXCEPT !.pc = "step", !.step = @ + 1]
  /\ work' = <<>> /\ next' = 1 /\ upto' = 0 /\ UNCHANGED history
BatchIsInterrupted ==
  /\ interrupted
  /\ history' = history \o Results(BatchEnds)
  /\ next' = BatchEnds + 1 /\ upto' = BatchEnds
  /\ UNCHANGED <<owner, work>>

(* Policies, then hooks, on the thread of the agent: a call may be blocked,   *)
(* and a hook may fail.                                                     *)
Prepared(call, refused) ==
  [call EXCEPT !.pc = IF ~call.valid \/ ~Permitted(call.tool) \/ refused THEN "refused"
                      ELSE "ready"]
BatchIsPrepared(refused) ==
  LET end  == BatchEnds
      prep == [i \in DOMAIN work |-> IF i \in next..end THEN Prepared(work[i], i \in refused)
                                     ELSE work[i]]
  IN /\ ~interrupted /\ refused \subseteq next..end
     /\ refused # {} => hooks
     /\ work' = prep /\ upto' = end
     /\ owner' = [owner EXCEPT !.pc = "tools",
                    !.parallel = /\ end > next
                                 /\ \A i \in next..end :
                                      /\ prep[i].pc = "ready" /\ work[i].safe
                                      /\ IsSafe(work[i].tool, registry[work[i].tool])]
     /\ UNCHANGED <<next, history>>

NextBatch ==
  /\ At("batch") /\ next <= Len(work)
  /\ BatchIsInterrupted \/ \E refused \in SUBSET (next..Len(work)) : BatchIsPrepared(refused)
  /\ UNCHANGED <<gates, advertised, interrupted>>

StepEnds ==
  /\ At("batch") /\ next > Len(work)
  /\ owner' = [owner EXCEPT !.pc = "step", !.step = @ + 1]
  /\ work' = <<>> /\ next' = 1 /\ upto' = 0
  /\ UNCHANGED <<gates, advertised, interrupted, history>>

(* The results are published and written down in the order of the calls.     *)
Collect ==
  /\ At("tools") /\ \A i \in Batch : work[i].pc = "done"
  /\ owner' = [owner EXCEPT !.pc = "batch", !.parallel = FALSE]
  /\ history' = history \o Results(upto)
  /\ next' = upto + 1
  /\ UNCHANGED <<gates, advertised, interrupted, work, upto>>

-----------------------------------------------------------------------------
(* execute() of one call, on a thread of the pool or, in turn, on the         *)
(* agent's: the interrupt, the refusal, then the registry.                  *)
Answered == [tool |-> "", valid |-> FALSE, safe |-> FALSE, adapter |-> 0, pc |-> "done"]
Goes(i, pc) ==
  work' = [work EXCEPT ![i] = IF pc = "done" THEN Answered ELSE [@ EXCEPT !.pc = pc]]

Execute(i) ==
  /\ At("tools") /\ i \in Batch /\ work[i].pc \in {"ready", "refused"}
  /\ owner.parallel \/ \A j \in next..(i - 1) : work[j].pc = "done"
  /\ Goes(i, IF interrupted \/ work[i].pc = "refused" THEN "done" ELSE "dispatched")
  /\ UNCHANGED <<gates, advertised, interrupted, owner, next, upto, history>>

(* Under the lock of the registry: the adapter is the one advertised, and it  *)
(* would be advertised still.                                              *)
(* Mutant: the name is looked for, not the adapter.                         *)
BoundByName(t) == advertised[t] # 0 /\ Offered(t)
Bound(t) == advertised[t] # 0 /\ registry[t] = advertised[t] /\ Offered(t)
Bind(i) ==
  /\ At("tools") /\ i \in Batch /\ work[i].pc = "dispatched"
  /\ IF Bound(work[i].tool)
     THEN work' = [work EXCEPT ![i].pc = "bound", ![i].adapter = registry[work[i].tool]]
     ELSE Goes(i, "done")
  /\ UNCHANGED <<gates, advertised, interrupted, owner, next, upto, history>>

(* The circuit is looked at once more, the adapter begins.                   *)
Start(i) ==
  /\ At("tools") /\ i \in Batch /\ work[i].pc = "bound"
  /\ Goes(i, IF breaker[work[i].tool].open THEN "done" ELSE "running")
  /\ UNCHANGED <<gates, advertised, interrupted, owner, next, upto, history>>

(* An error of the tool counts, unless it is one of the caller's; anything     *)
(* else clears the count.  Nobody waits for ever: a call that takes too long  *)
(* has failed too, though its adapter may go on in its thread.               *)
Record(t, failed) ==
  LET n == breaker[t].failures + 1
  IN breaker' = [breaker EXCEPT ![t] =
       IF ~failed THEN [failures |-> 0, open |-> FALSE]
       ELSE [failures |-> IF n < Threshold THEN n ELSE Threshold,
             open |-> @.open \/ n >= Threshold]]

AdapterEnds(i, failed) ==
  /\ At("tools") /\ i \in Batch /\ work[i].pc = "running"
  /\ Goes(i, "done") /\ Record(work[i].tool, failed)
  /\ IF work[i].tool = Switch /\ ~failed THEN planning' \in BOOLEAN ELSE UNCHANGED planning
  /\ UNCHANGED <<registry, hooks, advertised, interrupted, owner, next, upto, history>>

(* current_cancel_event(): a variable of the context the adapter runs in.     *)
(* The thread that bounds its time has a context of its own.                 *)
CanNotice(i) == interrupted /\ work[i].tool \in Unbudgeted
NoticesInterrupt(i) ==
  /\ At("tools") /\ i \in Batch /\ work[i].pc = "running" /\ CanNotice(i)
  /\ Goes(i, "done") /\ Record(work[i].tool, FALSE)
  /\ UNCHANGED <<registry, planning, hooks, advertised, interrupted, owner, next, upto,
                 history>>

-----------------------------------------------------------------------------
(* The end of a turn, and those who interfere *)

TurnEnds ==
  /\ At("finally")
  /\ owner' = [owner EXCEPT !.pc = "idle"] /\ interrupted' = FALSE
  /\ UNCHANGED <<gates, advertised, work, next, upto, history>>

Interrupt ==
  /\ ~At("idle") /\ ~interrupted /\ interrupted' = TRUE
  /\ UNCHANGED <<gates, advertised, owner, work, next, upto, history>>

(* replace_owned_tools, for a server that is lost or back.                   *)
Changes == {t \in Tools : registry[t] # 1}
Reregister(t) ==
  /\ Cardinality(Changes \cup {t}) <= MaxChanges /\ registry[t] < 2  \* bound
  /\ registry' = [registry EXCEPT ![t] = IF @ = 1 THEN 0 ELSE 2]
  /\ UNCHANGED <<planning, breaker, hooks, advertised, interrupted, owner, work, next, upto,
                 history>>

(* recovery_timeout is over: half open, until the next failure.              *)
CircuitCools(t) ==
  /\ breaker[t].open /\ breaker' = [breaker EXCEPT ![t].open = FALSE]
  /\ UNCHANGED <<registry, planning, hooks, advertised, interrupted, owner, work, next, upto,
                 history>>

(* fork(): to a message of the idle session.  A branch may also be cut        *)
(* between an announcement and its results ("messages").                     *)
Whole(h) == h # <<>> => Last(h).kind \in {"user", "text"}
Fork(n) ==
  /\ At("idle") /\ owner.turns < MaxTurns                           \* bound
  /\ ForkTo = "rounds" => Whole(SubSeq(history, 1, n))
  /\ history' = SubSeq(history, 1, n)
  /\ UNCHANGED <<gates, advertised, interrupted, owner, work, next, upto>>

Next ==
  \/ StartTurn \/ StepBegins \/ ModelEnds \/ ModelSaysNothing
  \/ \E n \in 1..MaxCalls :
       \E names \in [1..n -> Tools], valid \in SUBSET (1..n) : ModelCalls(names, valid)
  \/ NextBatch \/ StepEnds \/ Collect \/ TurnEnds \/ Interrupt
  \/ \E i \in DOMAIN work :
       \/ Execute(i) \/ Bind(i) \/ Start(i) \/ NoticesInterrupt(i)
       \/ \E failed \in BOOLEAN : AdapterEnds(i, failed)
  \/ \E t \in Tools : Reregister(t) \/ CircuitCools(t)
  \/ \E n \in DOMAIN history : Fork(n)

Spec == Init /\ [][Next]_vars

-----------------------------------------------------------------------------
(* Properties. *)

(* Whatever is sent to the model announces no call without its result right   *)
(* behind it, in order, and no result without its call; however the turn      *)
(* before ended, calls were refused, failed, timed out or were interrupted.   *)
Paired(h) ==
  /\ \A i \in DOMAIN h : h[i].kind = "calls" =>
       /\ i + h[i].n <= Len(h)
       /\ \A k \in 1..h[i].n : h[i + k] = Item("result", k)
  /\ \A i \in DOMAIN h : h[i].kind = "result" =>
       \E j \in 1..(i - 1) : h[j].kind = "calls" /\ i <= j + h[j].n
RequestsArePaired == At("model") => Paired(history)

Running == {i \in DOMAIN work : work[i].pc = "running"}
MayOverlap(call) == call.tool \in Safe /\ call.adapter = 1

(* A call that is not safe has the tools for itself, also if what is          *)
(* registered under its name has changed since the batches were planned.     *)
UnsafeToolsRunAlone ==
  \A i \in Running : ~MayOverlap(work[i]) => Running = {i}

(* What begins is the adapter the model was shown in this step; and in the     *)
(* plan mode it is one of the plan tools, whichever call of the same answer   *)
(* switched the mode.                                                        *)
StartsAsAdvertised ==
  \A i \in Running' \ Running :
    /\ work'[i].adapter = advertised[work[i].tool]
    /\ Permitted(work[i].tool)
ToolsRunAsAdvertised == [][StartsAsAdvertised]_vars

-----------------------------------------------------------------------------
(* What the comments and tests say and the code does not do *)

(* "Cancellation reaches a running Bash process, not just the next turn."     *)
InterruptReachesTools == interrupted => \A i \in Running : CanNotice(i)

-----------------------------------------------------------------------------
(* The inductive invariant of MCStores_proofs, by its parts.                *)

Owners == [pc : {"idle", "step", "model", "batch", "tools", "finally"},
           step : Nat, turns : Nat, retried : BOOLEAN, parallel : BOOLEAN]
Calls == [tool : Tools \cup {""}, valid : BOOLEAN, safe : BOOLEAN, adapter : 0..2,
          pc : {"waiting", "ready", "refused", "dispatched", "bound", "running", "done"}]
Items == [kind : {"user", "text", "calls", "result"}, n : Nat]

TypeOK ==
  /\ registry \in [Tools -> 0..2] /\ advertised \in [Tools -> 0..2]
  /\ breaker \in [Tools -> [failures : Nat, open : BOOLEAN]]
  /\ planning \in BOOLEAN /\ interrupted \in BOOLEAN /\ hooks \in BOOLEAN
  /\ owner \in Owners /\ work \in Seq(Calls)
  /\ next \in Nat \ {0} /\ upto \in Nat /\ history \in Seq(Items)

(* Only calls of the batch are under way, and only while the tools run.       *)
Active == {"dispatched", "bound", "running"}
BatchStands ==
  /\ At("batch") => next <= Len(work) + 1
  /\ At("tools") => next <= upto /\ upto <= Len(work)
  /\ \A i \in DOMAIN work :
       (At("batch") /\ i >= next) \/ (At("tools") /\ i > upto) => work[i].pc = "waiting"
  /\ \A i \in DOMAIN work : /\ work[i].pc \notin {"waiting", "done"} => At("tools") /\ i \in Batch
                            /\ work[i].pc # "done" => work[i].tool \in Tools

(* They go one by one, or each is safe: by what is registered and, as nothing *)
(* comes back as it was, by what was advertised.                             *)
CallsAreApart ==
  At("tools") =>
    IF owner.parallel
      THEN \A i \in Batch : work[i].pc # "done" =>
             work[i].tool \in Safe /\ advertised[work[i].tool] \in {0, 1}
      ELSE \A i \in Batch : work[i].pc \in Active => \A j \in next..(i - 1) : work[j].pc = "done"

SafeOnesAreFirst == \A t \in Tools : registry[t] = 1 => advertised[t] \in {0, 1}

BoundAsAdvertised ==
  \A i \in DOMAIN work : work[i].pc \in {"bound", "running"} =>
    /\ work[i].adapter = advertised[work[i].tool] /\ work[i].adapter # 0
    /\ work[i].pc = "bound" => Permitted(work[i].tool)

(* The first m items of a history are paired; and while calls are answered,   *)
(* those behind them are the announcement and the results so far.            *)
PairedTo(h, m) ==
  /\ \A i \in 1..m : h[i].kind = "calls" =>
       i + h[i].n <= m /\ \A k \in 1..h[i].n : h[i + k] = Item("result", k)
  /\ \A i \in 1..m : h[i].kind = "result" =>
       \E j \in 1..(i - 1) : h[j].kind = "calls" /\ i <= j + h[j].n
HistoryStands ==
  IF At("batch") \/ At("tools")
    THEN LET m == Len(history) - next IN
         /\ m \in Nat /\ PairedTo(history, m)
         /\ history[m + 1] = Item("calls", Len(work))
         /\ \A k \in 1..(next - 1) : history[m + 1 + k] = Item("result", k)
    ELSE PairedTo(history, Len(history))

IInv ==
  /\ TypeOK /\ BatchStands /\ CallsAreApart /\ SafeOnesAreFirst /\ BoundAsAdvertised
  /\ HistoryStands
=============================================================================
