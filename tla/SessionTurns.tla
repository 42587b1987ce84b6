---------------------------- MODULE SessionTurns ----------------------------
(***************************************************************************)
(* Turns of the local runtime: core/runtime/session_controller.py with the *)
(* process-wide TurnAdmission it shares (admission.py) and the turn the    *)
(* agent thread runs (turn_lifecycle.py, agent_loop.py, goal_driver.py).   *)
(* Threads: the HTTP thread that sends a message, the agent thread of each *)
(* turn, threads that interrupt, clients that answer prompts, one that     *)
(* deletes a session and the one that shuts down.  One action is what a    *)
(* thread does under one lock, or between two reads of shared state.       *)
(***************************************************************************)
EXTENDS Naturals, FiniteSets

CONSTANTS
  Sessions, Clients,
  Stoppers,     \* threads that may call interrupt()
  Janitor,      \* the one of them that runs shutdown()
  MaxActive,    \* max_active of TurnAdmission
  MaxSteps,     \* max_steps of the agent loop
  MaxRounds,    \* automatic continuation rounds of a goal
  MaxTurns,     \* bound: turns of a session
  MaxPrompts    \* bound: prompts ever asked

ASSUME TurnsAssumption ==
  /\ Janitor \in Stoppers /\ Sessions # {}
  /\ {MaxActive, MaxSteps, MaxTurns} \subseteq Nat \ {0}
  /\ MaxRounds \in Nat /\ MaxPrompts \in Nat

Kinds   == {"permission", "ask"}
PromptIds == 1..MaxPrompts
Status  == {"completed", "failed", "cancelled"}

VARIABLES
  life,      \* "new", "open" (in _sessions) or "deleted"
  busy, closed,      \* _busy, _closed
  cancelled, \* _interaction_cancelled
  agent,     \* _agent: "none", "open" or "closed"
  flag,      \* the agent's _interrupt_requested
  active,    \* TurnAdmission._active
  sender,    \* where send_message stands
  worker,    \* where the agent thread stands
  prompt,    \* every prompt asked: its Event and its result
  asked,     \* how many there are
  pending,   \* _pending_permissions and _pending_ask_user
  client,    \* where resolve_permission / answer_ask_user stands
  stopper,   \* where interrupt stands
  closing,   \* [pc, todo] of shutdown
  history    \* per session: turns, those interrupted, terminal events

turnVars == <<sender, worker, prompt, asked, pending>>
vars == <<life, busy, closed, cancelled, agent, flag, active, turnVars,
          client, stopper, closing, history>>

Idle      == [pc |-> "none", step |-> 0, round |-> 0, how |-> "none",
              status |-> "none", prompt |-> 0]
NotCalled == [pc |-> "idle", session |-> CHOOSE s \in Sessions : TRUE, saw |-> FALSE]
NoAnswer  == [prompt |-> 0, decision |-> "none"]
NoPrompt  == [session |-> CHOOSE s \in Sessions : TRUE, kind |-> "ask",
              done |-> FALSE, decision |-> "none", verdict |-> "none"]
Decisions == {"none", "granted", "denied"}

TypeOK ==
  /\ life \in [Sessions -> {"new", "open", "deleted"}]
  /\ {busy, closed, cancelled, flag} \subseteq [Sessions -> BOOLEAN]
  /\ agent \in [Sessions -> {"none", "open", "closed"}]
  /\ active \in 0..MaxActive
  /\ sender \in [Sessions -> {"none", "init", "check", "start", "undo"}]
  /\ worker \in [Sessions ->
       [pc : {"none", "loop", "model", "tools", "register", "wait", "woken",
              "expired", "ending", "clearing", "decide", "outcome", "publish",
              "release"},
        step : 0..MaxSteps + 1, round : 0..MaxRounds,
        how : {"none", "returned", "raised", "limit"},
        status : Status \cup {"none"}, prompt : {0} \cup PromptIds]]
  /\ prompt \in [PromptIds ->
       [session : Sessions, kind : Kinds, done : BOOLEAN, decision : Decisions,
        verdict : Decisions]]
  /\ asked \in 0..MaxPrompts
  /\ pending \subseteq PromptIds
  /\ client \in [Clients -> [prompt : {0} \cup PromptIds, decision : Decisions]]
  /\ stopper \in [Stoppers -> [pc : {"idle", "hook", "permission", "ask"},
                               session : Sessions, saw : BOOLEAN]]
  /\ closing \in [pc : {"off", "quiesce", "interrupt", "drain", "done"},
                  todo : SUBSET Sessions]
  /\ history \in [Sessions ->
       [turns : 0..MaxTurns, interrupted : SUBSET (1..MaxTurns),
        finished : 0..MaxTurns, unstarted : 0..MaxTurns, last : Status \cup {"none"}]]

Init ==
  /\ life = [s \in Sessions |-> "new"]
  /\ busy = [s \in Sessions |-> FALSE] /\ closed = busy
  /\ cancelled = busy /\ flag = busy
  /\ agent = [s \in Sessions |-> "none"]
  /\ active = 0
  /\ sender = [s \in Sessions |-> "none"]
  /\ worker = [s \in Sessions |-> Idle]
  /\ prompt = [r \in PromptIds |-> NoPrompt] /\ asked = 0 /\ pending = {}
  /\ client = [c \in Clients |-> NoAnswer]
  /\ stopper = [i \in Stoppers |-> NotCalled]
  /\ closing = [pc |-> "off", todo |-> {}]
  /\ history = [s \in Sessions |-> [turns |-> 0, interrupted |-> {}, finished |-> 0,
                                    unstarted |-> 0, last |-> "none"]]

PendingOf(s, kind) == {r \in pending : prompt[r].session = s /\ prompt[r].kind = kind}

----------------------------------------------------------------------------
(* send_message *)

CreateSession(s) ==
  /\ life[s] = "new"
  /\ closing.pc = "off"
  /\ life' = [life EXCEPT ![s] = "open"]
  /\ UNCHANGED <<busy, closed, cancelled, agent, flag, active, turnVars,
                 client, stopper, closing, history>>

(* Mutant: a reference to a deleted session may still start a turn. *)
MaySendIfIdle(s) == ~busy[s]

MaySend(s) == ~busy[s] /\ ~closed[s]

(* The check, the permit and the reset happen under _busy_lock.  Any client  *)
(* that ever saw the session may call it, deleted or not.                   *)
Send(s) ==
  /\ life[s] # "new"
  /\ history[s].turns < MaxTurns                                   \* bound
  /\ MaySend(s)
  /\ active < MaxActive                         \* else TurnCapacityExceeded
  /\ active' = active + 1
  /\ cancelled' = [cancelled EXCEPT ![s] = FALSE]
  /\ busy' = [busy EXCEPT ![s] = TRUE]
  /\ sender' = [sender EXCEPT ![s] = "init"]
  /\ history' = [history EXCEPT ![s].turns = @ + 1]
  /\ UNCHANGED <<life, closed, agent, flag, worker, prompt, asked, pending,
                 client, stopper, closing>>

(* ensure_agent: slow, and it may fail. *)
InitAgent(s) ==
  /\ sender[s] = "init"
  /\ \/ /\ agent' = [agent EXCEPT ![s] = IF @ = "none" THEN "open" ELSE @]
        /\ sender' = [sender EXCEPT ![s] = "check"]
     \/ /\ agent[s] = "none"
        /\ sender' = [sender EXCEPT ![s] = "undo"]
        /\ UNCHANGED agent
  /\ UNCHANGED <<life, busy, closed, cancelled, flag, active, worker, prompt,
                 asked, pending, client, stopper, closing, history>>

(* An interrupt during slow initialization is passed on to the new agent. *)
PropagateInterrupt(s) ==
  /\ sender[s] = "check"
  /\ flag' = [flag EXCEPT ![s] = @ \/ cancelled[s]]
  /\ sender' = [sender EXCEPT ![s] = "start"]
  /\ UNCHANGED <<life, busy, closed, cancelled, agent, active, worker,
                 prompt, asked, pending, client, stopper, closing, history>>

StartThread(s) ==
  /\ sender[s] = "start"
  /\ \/ /\ sender' = [sender EXCEPT ![s] = "none"]
        /\ worker' = [worker EXCEPT ![s] = [Idle EXCEPT !.pc = "loop", !.step = 1]]
     \/ /\ sender' = [sender EXCEPT ![s] = "undo"]     \* no thread to be had
        /\ UNCHANGED worker
  /\ UNCHANGED <<life, busy, closed, cancelled, agent, flag, active,
                 prompt, asked, pending, client, stopper, closing, history>>

(* Mutant: a failed cold start keeps its permit. *)
UndoKeepingPermit(s) ==
  /\ sender[s] = "undo"
  /\ busy' = [busy EXCEPT ![s] = FALSE]
  /\ sender' = [sender EXCEPT ![s] = "none"]
  /\ history' = [history EXCEPT ![s].unstarted = @ + 1]
  /\ UNCHANGED <<life, closed, cancelled, agent, flag, active, worker, prompt,
                 asked, pending, client, stopper, closing>>

(* Every cold-start failure frees capacity and returns the session to idle. *)
Undo(s) ==
  /\ sender[s] = "undo"
  /\ active' = active - 1
  /\ busy' = [busy EXCEPT ![s] = FALSE]
  /\ sender' = [sender EXCEPT ![s] = "none"]
  /\ history' = [history EXCEPT ![s].unstarted = @ + 1]
  /\ UNCHANGED <<life, closed, cancelled, agent, flag, worker, prompt,
                 asked, pending, client, stopper, closing>>

----------------------------------------------------------------------------
(* The agent thread *)

At(s, pc) == worker[s].pc = pc

Move(s, pc) == worker' = [worker EXCEPT ![s].pc = pc]

EndRound(s, how) ==
  worker' = [worker EXCEPT ![s].pc = "ending", ![s].how = how]

OnlyWorker ==
  UNCHANGED <<life, busy, closed, cancelled, agent, flag, active, sender,
              client, stopper, closing, history>>
NoPrompts == UNCHANGED <<prompt, asked, pending>>

(* Preparing the input raises before the try: the flag stays as it is. *)
PrepareFails(s) ==
  /\ At(s, "loop") /\ worker[s].step = 1
  /\ worker' = [worker EXCEPT ![s].pc = "outcome", ![s].status = "failed"]
  /\ OnlyWorker /\ NoPrompts

(* The top of a ReAct step. *)
LoopTop(s) ==
  /\ At(s, "loop")
  /\ IF worker[s].step > MaxSteps THEN EndRound(s, "limit")
     ELSE IF flag[s] THEN EndRound(s, "returned") ELSE Move(s, "model")
  /\ OnlyWorker /\ NoPrompts

(* The model answers, asks for tools or fails. *)
ModelCall(s) ==
  /\ At(s, "model")
  /\ \/ EndRound(s, "raised")
     \/ EndRound(s, "returned")
     \/ ~flag[s] /\ Move(s, "tools")
  /\ OnlyWorker /\ NoPrompts

NextStep(s) ==
  worker' = [worker EXCEPT ![s].pc = "loop", ![s].step = @ + 1, ![s].prompt = 0]

(* Tools run, unless interrupted; one of them may have to ask the user. *)
RunTools(s) ==
  /\ At(s, "tools")
  /\ \/ NextStep(s)
     \/ ~flag[s] /\ Move(s, "register")
  /\ OnlyWorker /\ NoPrompts

Registered(s, kind) ==
  LET r == asked + 1
  IN /\ r \in PromptIds                                              \* bound
     /\ asked' = r
     /\ prompt' = [prompt EXCEPT ![r] = [NoPrompt EXCEPT !.session = s, !.kind = kind]]
     /\ pending' = pending \cup {r}
     /\ worker' = [worker EXCEPT ![s].pc = "wait", ![s].prompt = r]

(* Mutant: the broker does not look for an interrupt before it registers. *)
RegisterBlindly(s) ==
  /\ At(s, "register")
  /\ \/ \E kind \in Kinds : Registered(s, kind)
     \/ cancelled[s] /\ NextStep(s) /\ NoPrompts
  /\ OnlyWorker

(* The broker registers under the prompt lock, unless an interrupt came     *)
(* first: then the answer is the safe default.                              *)
Register(s) ==
  /\ At(s, "register")
  /\ IF cancelled[s] \/ asked = MaxPrompts
       THEN NextStep(s) /\ NoPrompts
       ELSE \E kind \in Kinds : Registered(s, kind)
  /\ OnlyWorker

Woken(s) ==
  /\ At(s, "wait")
  /\ prompt[worker[s].prompt].done
  /\ Move(s, "woken")
  /\ OnlyWorker /\ NoPrompts

(* done.wait gave up (120 s, 300 s); the entry is withdrawn under the lock. *)
WaitTimesOut(s) ==
  /\ At(s, "wait")
  /\ ~prompt[worker[s].prompt].done
  /\ Move(s, "expired")
  /\ OnlyWorker /\ NoPrompts

Expire(s) ==
  /\ At(s, "expired")
  /\ pending' = pending \ {worker[s].prompt}
  /\ prompt' = [prompt EXCEPT ![worker[s].prompt].verdict = "denied"]
  /\ NextStep(s)
  /\ OnlyWorker /\ UNCHANGED asked

(* Mutant: the broker trusts the answer without looking at the signal again. *)
ReadAnswerBlindly(s) ==
  /\ At(s, "woken")
  /\ LET r == worker[s].prompt
     IN prompt' = [prompt EXCEPT ![r].verdict = prompt[r].decision]
  /\ NextStep(s)
  /\ OnlyWorker /\ UNCHANGED <<asked, pending>>

ReadAnswer(s) ==
  /\ At(s, "woken")
  /\ LET r == worker[s].prompt
     IN prompt' = [prompt EXCEPT ![r].verdict =
                     IF cancelled[s] THEN "denied" ELSE prompt[r].decision]
  /\ NextStep(s)
  /\ OnlyWorker /\ UNCHANGED <<asked, pending>>

(* The finally block: the flag is read, then cleared. *)
SettleStatus(s) ==
  /\ At(s, "ending")
  /\ worker' = [worker EXCEPT ![s].pc = "clearing",
       ![s].status = IF flag[s] THEN "cancelled"
                     ELSE IF worker[s].how \in {"raised", "limit"} THEN "failed"
                     ELSE "completed"]
  /\ OnlyWorker /\ NoPrompts

ClearFlag(s) ==
  /\ At(s, "clearing")
  /\ flag' = [flag EXCEPT ![s] = FALSE]
  /\ IF worker[s].how = "raised"
       THEN worker' = [worker EXCEPT ![s].pc = "outcome", ![s].status = "failed"]
       ELSE Move(s, "decide")
  /\ UNCHANGED <<life, busy, closed, cancelled, agent, active, sender, client,
                 stopper, closing, history>>
  /\ NoPrompts

(* _drive_goal: another round of an active goal, if there is one. *)
DriveGoal(s) ==
  /\ At(s, "decide")
  /\ \/ Move(s, "outcome")
     \/ /\ ~flag[s]
        /\ worker[s].status = "completed"
        /\ worker[s].round < MaxRounds
        /\ worker' = [worker EXCEPT ![s] =
                        [Idle EXCEPT !.pc = "loop", !.step = 1, !.round = worker[s].round + 1]]
  /\ OnlyWorker /\ NoPrompts

(* last_turn is set and persisted, as far as that succeeds. *)
SetOutcome(s) ==
  /\ At(s, "outcome")
  /\ history' = [history EXCEPT ![s].last = worker[s].status]
  /\ Move(s, "publish")
  /\ UNCHANGED <<life, busy, closed, cancelled, agent, flag, active, sender,
                 client, stopper, closing>>
  /\ NoPrompts

Publish(s) ==
  /\ At(s, "publish")
  /\ history' = [history EXCEPT ![s].finished = @ + 1]
  /\ Move(s, "release")
  /\ UNCHANGED <<life, busy, closed, cancelled, agent, flag, active, sender,
                 client, stopper, closing>>
  /\ NoPrompts

(* Mutant: the session is idle before its terminal events are out. *)
BecomeIdleEarly(s) ==
  /\ worker[s].pc \in {"publish", "release"} /\ busy[s]
  /\ active' = active - 1
  /\ busy' = [busy EXCEPT ![s] = FALSE]
  /\ worker' = [worker EXCEPT ![s] = IF @.pc = "release" THEN Idle ELSE @]
  /\ UNCHANGED <<life, closed, cancelled, agent, flag, sender, client, stopper,
                 closing, history>>
  /\ NoPrompts

BecomeIdle(s) ==
  /\ At(s, "release")
  /\ active' = active - 1
  /\ busy' = [busy EXCEPT ![s] = FALSE]
  /\ worker' = [worker EXCEPT ![s] = Idle]
  /\ UNCHANGED <<life, closed, cancelled, agent, flag, sender, client, stopper,
                 closing, history>>
  /\ NoPrompts

----------------------------------------------------------------------------
(* Clients answer prompts: the entry is popped under the lock, the decision  *)
(* written and the Event set after it.                                      *)

PopPrompt(c, r, decision) ==
  /\ client[c] = NoAnswer
  /\ r \in pending
  /\ ~cancelled[prompt[r].session]
  /\ pending' = pending \ {r}
  /\ client' = [client EXCEPT ![c] = [prompt |-> r, decision |-> decision]]
  /\ UNCHANGED <<life, busy, closed, cancelled, agent, flag, active, sender,
                 worker, prompt, asked, stopper, closing, history>>

(* resolve_permission returns True. *)
Answer(c) ==
  /\ client[c] # NoAnswer
  /\ LET r == client[c].prompt
     IN prompt' = [prompt EXCEPT ![r].done = TRUE,
                                 ![r].decision = client[c].decision]
  /\ client' = [client EXCEPT ![c] = NoAnswer]
  /\ UNCHANGED <<life, busy, closed, cancelled, agent, flag, active, sender,
                 worker, asked, pending, stopper, closing, history>>

----------------------------------------------------------------------------
(* interrupt *)

Interrupted(i, s) ==
  /\ cancelled' = [cancelled EXCEPT ![s] = TRUE]
  /\ stopper' = [stopper EXCEPT ![i] = [pc |-> "hook", session |-> s,
                                        saw |-> agent[s] # "none"]]
  /\ history' = [history EXCEPT ![s].interrupted = @ \cup {history[s].turns}]

Interrupt(i, s) ==
  /\ stopper[i].pc = "idle"
  /\ i = Janitor => closing.pc = "off"
  /\ busy[s]
  /\ Interrupted(i, s)
  /\ UNCHANGED <<life, busy, closed, agent, flag, active, turnVars, client, closing>>

HookAgent(i) ==
  /\ stopper[i].pc = "hook"
  /\ flag' = IF stopper[i].saw THEN [flag EXCEPT ![stopper[i].session] = TRUE] ELSE flag
  /\ stopper' = [stopper EXCEPT ![i].pc = "permission"]
  /\ UNCHANGED <<life, busy, closed, cancelled, agent, active, turnVars, client,
                 closing, history>>

(* Mutant: the registry is emptied, the waiters are not woken. *)
ReleaseWithoutWaking(i) ==
  /\ stopper[i].pc \in Kinds
  /\ pending' = pending \ PendingOf(stopper[i].session, stopper[i].pc)
  /\ stopper' = [stopper EXCEPT ![i] = IF @.pc = "permission"
                                         THEN [@ EXCEPT !.pc = "ask"] ELSE NotCalled]
  /\ UNCHANGED <<life, busy, closed, cancelled, agent, flag, active, sender,
                 worker, prompt, asked, client, closing, history>>

(* _release_interaction_waiters, one lock after the other. *)
ReleaseWaiters(i) ==
  /\ stopper[i].pc \in Kinds
  /\ LET released == PendingOf(stopper[i].session, stopper[i].pc)
     IN /\ pending' = pending \ released
        /\ prompt' = [r \in PromptIds |->
             IF r \in released
               THEN [prompt[r] EXCEPT !.done = TRUE, !.decision = "denied"]
               ELSE prompt[r]]
  /\ stopper' = [stopper EXCEPT ![i] = IF @.pc = "permission"
                                         THEN [@ EXCEPT !.pc = "ask"] ELSE NotCalled]
  /\ UNCHANGED <<life, busy, closed, cancelled, agent, flag, active, sender,
                 worker, asked, client, closing, history>>

----------------------------------------------------------------------------
(* delete_session and shutdown *)

Deletable(s) == life[s] = "open" /\ ~busy[s]

Delete(s) ==
  /\ Deletable(s)
  /\ closed' = [closed EXCEPT ![s] = TRUE]
  /\ life' = [life EXCEPT ![s] = "deleted"]

DeleteSession(s) ==
  /\ Delete(s)
  /\ UNCHANGED <<busy, cancelled, agent, flag, active, turnVars, client,
                 stopper, closing, history>>

(* close(), after the locks are released. *)
CloseDeleted(s) ==
  /\ life[s] = "deleted" /\ agent[s] # "closed"
  /\ cancelled' = [cancelled EXCEPT ![s] = TRUE]
  /\ pending' = pending \ (PendingOf(s, "permission") \cup PendingOf(s, "ask"))
  /\ prompt' = [r \in PromptIds |->
       IF r \in pending /\ prompt[r].session = s
         THEN [prompt[r] EXCEPT !.done = TRUE, !.decision = "denied"] ELSE prompt[r]]
  /\ agent' = [agent EXCEPT ![s] = "closed"]
  /\ UNCHANGED <<life, busy, closed, flag, active, sender, worker, asked, client,
                 stopper, closing, history>>

ShutDown ==
  /\ closing.pc = "off" /\ stopper[Janitor].pc = "idle"
  /\ closing' = [pc |-> "quiesce", todo |-> {s \in Sessions : life[s] = "open"}]
  /\ UNCHANGED <<life, busy, closed, cancelled, agent, flag, active, turnVars,
                 client, stopper, history>>

NextPhase ==
  /\ closing.pc \in {"quiesce", "interrupt", "drain"} /\ closing.todo = {}
  /\ stopper[Janitor].pc = "idle"
  /\ closing' = CASE closing.pc = "quiesce" ->
                       [pc |-> "interrupt", todo |-> {s \in Sessions : life[s] = "open"}]
                  [] closing.pc = "interrupt" ->
                       [pc |-> "drain", todo |-> {s \in Sessions : life[s] = "open"}]
                  [] closing.pc = "drain" -> [pc |-> "done", todo |-> {}]
  /\ UNCHANGED <<life, busy, closed, cancelled, agent, flag, active, turnVars,
                 client, stopper, history>>

Visited(s) == closing' = [closing EXCEPT !.todo = @ \ {s}]

Quiesce(s) ==
  /\ closing.pc = "quiesce" /\ s \in closing.todo
  /\ closed' = [closed EXCEPT ![s] = TRUE]
  /\ Visited(s)
  /\ UNCHANGED <<life, busy, cancelled, agent, flag, active, turnVars, client,
                 stopper, history>>

ShutDownInterrupts(s) ==
  /\ closing.pc = "interrupt" /\ s \in closing.todo
  /\ stopper[Janitor].pc = "idle"
  /\ IF busy[s] THEN Interrupted(Janitor, s)
                ELSE UNCHANGED <<cancelled, stopper, history>>
  /\ Visited(s)
  /\ UNCHANGED <<life, busy, closed, agent, flag, active, turnVars, client>>

(* After the grace period a session that still runs is left alone. *)
Drain(s) ==
  /\ closing.pc = "drain" /\ s \in closing.todo
  /\ IF Deletable(s) THEN Delete(s) ELSE UNCHANGED <<closed, life>>
  /\ Visited(s)
  /\ UNCHANGED <<busy, cancelled, agent, flag, active, turnVars, client,
                 stopper, history>>

----------------------------------------------------------------------------

Sender(s) == InitAgent(s) \/ PropagateInterrupt(s) \/ StartThread(s) \/ Undo(s)

(* All of the agent thread but the time-out of a prompt. *)
Worker(s) ==
  \/ PrepareFails(s) \/ LoopTop(s) \/ ModelCall(s) \/ RunTools(s) \/ Register(s) \/ Woken(s)
  \/ Expire(s) \/ ReadAnswer(s) \/ SettleStatus(s) \/ ClearFlag(s)
  \/ DriveGoal(s) \/ SetOutcome(s) \/ Publish(s) \/ BecomeIdle(s)

Stopper(i) == HookAgent(i) \/ ReleaseWaiters(i)

Next ==
  \/ \E s \in Sessions :
       \/ CreateSession(s) \/ Send(s) \/ Sender(s) \/ Worker(s) \/ WaitTimesOut(s)
       \/ DeleteSession(s) \/ CloseDeleted(s)
       \/ Quiesce(s) \/ ShutDownInterrupts(s) \/ Drain(s)
  \/ \E c \in Clients :
       \/ \E r \in PromptIds, decision \in {"granted", "denied"} : PopPrompt(c, r, decision)
       \/ Answer(c)
  \/ \E i \in Stoppers : Stopper(i) \/ \E s \in Sessions : Interrupt(i, s)
  \/ ShutDown \/ NextPhase

Spec == Init /\ [][Next]_vars

(* Threads are scheduled and the provider answers or fails; nobody has to    *)
(* answer a prompt, and FairSpec does not rely on its time-out.             *)
FairSpec ==
  /\ Spec
  /\ \A s \in Sessions : WF_vars(Sender(s)) /\ WF_vars(Worker(s))
  /\ \A c \in Clients : WF_vars(Answer(c))
  /\ \A i \in Stoppers : WF_vars(Stopper(i))

----------------------------------------------------------------------------
(* Properties *)

(* A permit, the busy flag and a thread are one: capacity is neither leaked   *)
(* by a failed cold start nor given back while the turn still runs, a        *)
(* session never has two turns, and its agent is closed only when no thread  *)
(* can use it any more, whichever of send, delete and shutdown comes first.  *)
AdmissionMatchesTurns ==
  /\ active = Cardinality({s \in Sessions : busy[s]})
  /\ \A s \in Sessions :
       /\ busy[s] <=> (sender[s] # "none") # (worker[s].pc # "none")
       /\ life[s] = "deleted" => ~busy[s] /\ worker[s].pc = "none"

(* A worker that waits for the user can be woken: its prompt is listed, or a  *)
(* client is about to answer it, or it is answered.  (And the types.)        *)
NoPromptIsOrphaned ==
  /\ TypeOK
  /\ \A s \in Sessions : At(s, "wait") =>
       LET r == worker[s].prompt
       IN /\ prompt[r].session = s
          /\ r \in pending \/ prompt[r].done \/ \E c \in Clients : client[c].prompt = r

(* After shutdown has quiesced the sessions, no turn is admitted, by whatever *)
(* reference to a session a client still has.                               *)
AdmitsNoTurnOnceQuiet ==
  closing.pc \in {"interrupt", "drain", "done"} =>
    \A s \in Sessions : history'[s].turns = history[s].turns
NoTurnAfterQuiesce == [][AdmitsNoTurnOnceQuiet]_vars

(* An interrupt is heard wherever it finds the turn.  Once interrupt()        *)
(* returned, no prompt waits for an answer, even one that was about to be     *)
(* registered while the waiters were released; and if it reached             *)
(* send_message during the cold start, the first round of that turn does not *)
(* go past the top of its loop.                                             *)
InterruptLeavesNoPrompt ==
  \A s \in Sessions :
    cancelled[s] /\ (\A i \in Stoppers : stopper[i].pc # "idle" => stopper[i].session # s)
      => \A kind \in Kinds : PendingOf(s, kind) = {}
EarlyInterruptIsHeard ==
  \A s \in Sessions :
    /\ At(s, "model") /\ worker[s].step = 1 /\ worker[s].round = 0
    /\ cancelled[s] /\ \A i \in Stoppers : stopper[i].pc # "hook"
    => flag[s]

(* No UI approval takes effect after the cancellation was requested, not even *)
(* one whose client had already taken the prompt off the list.               *)
NoLateApproval ==
  [][\A s \in Sessions, r \in PromptIds :
       /\ prompt[r].session = s
       /\ prompt[r].verdict # "granted" /\ prompt'[r].verdict = "granted"
       => ~cancelled[s]]_vars

(* An interrupt takes effect: the three properties above.                    *)
InterruptsAreHeard ==
  [](InterruptLeavesNoPrompt /\ EarlyInterruptIsHeard) /\ NoLateApproval

(* A client that sees busy = False can rely on the terminal events of every   *)
(* turn that started being in the journal.                                   *)
TerminalEventsBeforeIdle ==
  \A s \in Sessions :
    ~busy[s] => history[s].finished + history[s].unstarted = history[s].turns

(* A turn that was interrupted while its session initialized, ran or waited   *)
(* for the user ends without anybody's answer and without a time-out.        *)
InterruptedTurnEnds ==
  \A s \in Sessions : cancelled[s] ~> ~busy[s]

(* Every turn ends if prompts time out; so shutdown can drain the sessions.   *)
EveryTurnEnds ==
  (\A s \in Sessions : WF_vars(WaitTimesOut(s)))
    => \A s \in Sessions : busy[s] ~> ~busy[s]

(* Both: interrupts alone let a turn end, and so do time-outs alone.         *)
TurnsEnd == InterruptedTurnEnds /\ EveryTurnEnds

----------------------------------------------------------------------------
(* What the documentation says and the code does not do *)

(* The signal is turn-scoped: a turn ends as cancelled only if an interrupt   *)
(* was requested during that turn.                                          *)
InterruptIsTurnScoped ==
  \A s \in Sessions :
    At(s, "publish") /\ worker[s].status = "cancelled" =>
      history[s].turns \in history[s].interrupted
=============================================================================
