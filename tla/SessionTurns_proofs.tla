------------------------ MODULE SessionTurns_proofs ------------------------
(***************************************************************************)
(* Proofs about the turns of the local runtime, for any number of sessions,*)
(* clients and interrupting threads: no permit leaks, no prompt is         *)
(* orphaned, an interrupt is heard, and a session that looks idle has      *)
(* published the end of its turn.                                          *)
(***************************************************************************)
EXTENDS SessionTurns, FiniteSetTheorems, TLAPS

----------------------------------------------------------------------------
(* The strengthening, in parts. *)

(* Steps count from 1, and only the top of the loop sees MaxSteps + 1. *)
Looping == {"loop", "model", "tools", "register", "wait", "woken", "expired"}

StepsCount(s) ==
  /\ worker[s].pc \in Looping => worker[s].step >= 1
  /\ worker[s].pc \in Looping \ {"loop"} => worker[s].step <= MaxSteps

(* A busy session has either somebody who sends or an agent thread. *)
OneTurn(s) ==
  /\ busy[s] => (sender[s] = "none" <=> worker[s].pc # "none")
  /\ ~busy[s] => sender[s] = "none" /\ worker[s].pc = "none"
  /\ life[s] = "deleted" => ~busy[s] /\ closed[s]
  /\ life[s] = "new" => ~busy[s]

(* The agent is there once a thread may use it. *)
AgentThere(s) ==
  sender[s] \in {"check", "start"} \/ worker[s].pc # "none" => agent[s] # "none"

(* Every turn but the one in progress has told its end. *)
EndsTold(s) ==
  LET h == history[s]
  IN /\ h.turns = h.finished + h.unstarted
                  + IF busy[s] /\ worker[s].pc # "release" THEN 1 ELSE 0
     /\ busy[s] => h.turns >= 1

(* A thread at a prompt asked it itself, and can be woken. *)
PromptIsOwn(s) ==
  LET r == worker[s].prompt
  IN /\ worker[s].pc \in {"wait", "woken", "expired"} =>
          r \in 1..asked /\ prompt[r].session = s
     /\ worker[s].pc = "wait" =>
          r \in pending \/ prompt[r].done \/ \E c \in Clients : client[c].prompt = r

(* Under cancellation, whoever is still listed is about to be released. *)
Before(kind) == IF kind = "permission" THEN {"hook", "permission"}
                                      ELSE {"hook", "permission", "ask"}

StopperComes(s) ==
  cancelled[s] =>
    \A kind \in Kinds : PendingOf(s, kind) # {} =>
      \E i \in Stoppers : stopper[i].session = s /\ stopper[i].pc \in Before(kind)

(* An interrupt is not lost before the first model call of a turn. *)
Early(s) ==
  \/ sender[s] = "start"
  \/ worker[s].pc \in {"loop", "model"} /\ worker[s].step = 1 /\ worker[s].round = 0

HookComes(s) ==
  Early(s) /\ cancelled[s] =>
    flag[s] \/ \E i \in Stoppers : /\ stopper[i].pc = "hook" /\ stopper[i].saw
                                   /\ stopper[i].session = s

(* What shutdown has passed is closed, and no session is created any more. *)
Quieted(s) ==
  /\ closing.pc = "quiesce" => life[s] = "new" \/ closed[s] \/ s \in closing.todo
  /\ closing.pc \in {"interrupt", "drain", "done"} => life[s] = "new" \/ closed[s]

PermitsCount ==
  LET running == {s \in Sessions : busy[s]}
  IN IsFiniteSet(running) /\ active = Cardinality(running)

PromptsCount == pending \subseteq 1..asked

SInv(s) ==
  /\ StepsCount(s) /\ OneTurn(s) /\ AgentThere(s) /\ EndsTold(s)
  /\ PromptIsOwn(s) /\ StopperComes(s) /\ HookComes(s) /\ Quieted(s)

TInv == TypeOK /\ PermitsCount /\ PromptsCount /\ \A s \in Sessions : SInv(s)

WorkerState ==
  [pc : {"none", "loop", "model", "tools", "register", "wait", "woken",
         "expired", "ending", "clearing", "decide", "outcome", "publish",
         "release"},
   step : 0..MaxSteps + 1, round : 0..MaxRounds,
   how : {"none", "returned", "raised", "limit"},
   status : Status \cup {"none"}, prompt : {0} \cup PromptIds]
PromptState ==
  [session : Sessions, kind : Kinds, done : BOOLEAN, decision : Decisions,
   verdict : Decisions]
StopperState ==
  [pc : {"idle", "hook", "permission", "ask"}, session : Sessions, saw : BOOLEAN]
HistoryState ==
  [turns : 0..MaxTurns, interrupted : SUBSET (1..MaxTurns),
   finished : 0..MaxTurns, unstarted : 0..MaxTurns, last : Status \cup {"none"}]

----------------------------------------------------------------------------
(* Types *)

LEMMA Types ==
  ASSUME TypeOK, NEW s \in Sessions
  PROVE  /\ life[s] \in {"new", "open", "deleted"}
         /\ busy[s] \in BOOLEAN /\ closed[s] \in BOOLEAN /\ cancelled[s] \in BOOLEAN
         /\ flag[s] \in BOOLEAN /\ agent[s] \in {"none", "open", "closed"}
         /\ sender[s] \in {"none", "init", "check", "start", "undo"}
         /\ worker \in [Sessions -> WorkerState] /\ worker[s] \in WorkerState
         /\ history \in [Sessions -> HistoryState] /\ history[s] \in HistoryState
         /\ prompt \in [PromptIds -> PromptState] /\ stopper \in [Stoppers -> StopperState]
         /\ asked \in Nat /\ active \in Nat
BY TurnsAssumption DEF TypeOK, WorkerState, HistoryState, PromptState, StopperState

LEMMA Bounds ==
  /\ MaxSteps \in Nat \ {0} /\ MaxTurns \in Nat \ {0} /\ MaxPrompts \in Nat
  /\ MaxActive \in Nat \ {0} /\ MaxRounds \in Nat
BY TurnsAssumption

LEMMA InitTInv == Init => TInv
<1> SUFFICES ASSUME Init PROVE TInv
  OBVIOUS
<1> DEFINE some == CHOOSE s \in Sessions : TRUE
<1>1. some \in Sessions
  BY TurnsAssumption
<1>2. Idle \in WorkerState /\ NoPrompt \in PromptState /\ NotCalled \in StopperState
  BY <1>1, Bounds DEF Idle, NoPrompt, NotCalled, WorkerState, PromptState, StopperState,
                      PromptIds, Kinds, Decisions
<1>3. TypeOK
  <2>1. [turns |-> 0, interrupted |-> {}, finished |-> 0, unstarted |-> 0,
         last |-> "none"] \in HistoryState
    BY Bounds DEF HistoryState
  <2>2. active \in 0..MaxActive /\ asked \in 0..MaxPrompts
    BY Bounds DEF Init
  <2>. QED  BY <1>2, <2>1, <2>2 DEF Init, TypeOK, WorkerState, PromptState, StopperState,
                                    HistoryState, NoAnswer, Decisions
<1>4. PermitsCount
  <2>1. {s \in Sessions : busy[s]} = {}
    BY DEF Init
  <2>2. IsFiniteSet({}) /\ Cardinality({}) = 0
    BY FS_EmptySet
  <2>. QED  BY <2>1, <2>2 DEF Init, PermitsCount
<1>5. PromptsCount
  BY DEF Init, PromptsCount
<1>6. \A s \in Sessions : SInv(s)
  BY DEF Init, SInv, StepsCount, OneTurn, AgentThere, EndsTold, PromptIsOwn, StopperComes,
         HookComes, Early, Quieted, Idle, Looping, PendingOf
<1>. QED  BY <1>3, <1>4, <1>5, <1>6 DEF TInv

----------------------------------------------------------------------------
(* A step that changes nothing but the variables of one session. *)

LocalKept(u) ==
  /\ life'[u] = life[u] /\ busy'[u] = busy[u] /\ closed'[u] = closed[u]
  /\ cancelled'[u] = cancelled[u] /\ agent'[u] = agent[u] /\ flag'[u] = flag[u]
  /\ sender'[u] = sender[u] /\ worker'[u] = worker[u] /\ history'[u] = history[u]

SharedKept == UNCHANGED <<prompt, asked, pending, client, stopper, closing>>

LEMMA KeptSInv ==
  ASSUME NEW u \in Sessions, SInv(u), LocalKept(u), SharedKept
  PROVE  SInv(u)'
<1> USE DEF LocalKept, SharedKept
<1>1. StepsCount(u)' /\ OneTurn(u)' /\ AgentThere(u)' /\ EndsTold(u)'
  BY DEF SInv, StepsCount, OneTurn, AgentThere, EndsTold
<1>2. PromptIsOwn(u)' /\ StopperComes(u)'
  BY DEF SInv, PromptIsOwn, StopperComes, PendingOf
<1>3. HookComes(u)' /\ Quieted(u)'
  BY DEF SInv, HookComes, Early, Quieted
<1>. QED  BY <1>1, <1>2, <1>3 DEF SInv

LEMMA LocalStep ==
  ASSUME TInv, NEW s \in Sessions, SharedKept, TypeOK', PermitsCount', SInv(s)',
         \A u \in Sessions : u # s => LocalKept(u)
  PROVE  TInv'
<1>1. \A u \in Sessions : SInv(u)'
  BY KeptSInv DEF TInv
<1>2. PromptsCount'
  BY DEF TInv, PromptsCount, SharedKept
<1>. QED  BY <1>1, <1>2 DEF TInv

(* The agent thread moves on, and nothing else happens. *)
MovesOn(v, w) ==
  /\ w \in WorkerState /\ w.pc \notin {"none", "release"} /\ v.pc \notin {"none", "release"}
  /\ w.pc \in Looping => w.step >= 1
  /\ w.pc \in Looping \ {"loop"} => w.step <= MaxSteps
  /\ w.pc # "wait"
  /\ w.pc \in {"woken", "expired"} => v.pc = "wait" /\ w.prompt = v.prompt
  /\ w.pc \in {"loop", "model"} /\ w.step = 1 /\ w.round = 0 =>
       v.pc \in {"loop", "model"} /\ v.step = 1 /\ v.round = 0

LEMMA WorkerMoves ==
  ASSUME TInv, NEW s \in Sessions, OnlyWorker, NoPrompts, NEW w,
         worker' = [worker EXCEPT ![s] = w], MovesOn(worker[s], w)
  PROVE  TInv'
<1>1. worker \in [Sessions -> WorkerState] /\ SInv(s) /\ TypeOK
  BY Types DEF TInv
<1>2. worker'[s] = w /\ \A u \in Sessions : u # s => worker'[u] = worker[u]
  BY <1>1
<1>3. SharedKept /\ \A u \in Sessions : u # s => LocalKept(u)
  BY <1>2 DEF SharedKept, OnlyWorker, NoPrompts, LocalKept
<1>4. TypeOK'
  BY <1>1 DEF TypeOK, OnlyWorker, NoPrompts, MovesOn, WorkerState
<1>5. PermitsCount'
  BY DEF TInv, PermitsCount, OnlyWorker
<1>6. SInv(s)'
  <2> USE <1>1, <1>2 DEF SInv, OnlyWorker, NoPrompts, MovesOn
  <2>1. StepsCount(s)'
    BY DEF StepsCount
  <2>2. OneTurn(s)' /\ AgentThere(s)'
    BY DEF OneTurn, AgentThere
  <2>3. EndsTold(s)'
    BY DEF EndsTold
  <2>4. PromptIsOwn(s)'
    BY DEF PromptIsOwn
  <2>5. StopperComes(s)'
    BY DEF StopperComes, PendingOf
  <2>6. HookComes(s)'
    BY DEF HookComes, Early
  <2>7. Quieted(s)'
    BY DEF Quieted
  <2>. QED  BY <2>1, <2>2, <2>3, <2>4, <2>5, <2>6, <2>7
<1>. QED  BY <1>3, <1>4, <1>5, <1>6, LocalStep

LEMMA WorkerMovesTInv ==
  ASSUME TInv, NEW s \in Sessions,
         \/ PrepareFails(s) \/ LoopTop(s) \/ ModelCall(s) \/ RunTools(s) \/ Woken(s)
         \/ WaitTimesOut(s) \/ SettleStatus(s) \/ DriveGoal(s)
  PROVE  TInv'
<1> DEFINE v == worker[s]
<1>1. /\ worker \in [Sessions -> WorkerState] /\ v \in WorkerState
      /\ StepsCount(s) /\ OnlyWorker /\ NoPrompts
  BY Types
  DEF TInv, SInv, PrepareFails, LoopTop, ModelCall, RunTools, Woken, WaitTimesOut,
      SettleStatus, DriveGoal
<1>2. ASSUME NEW w, worker' = [worker EXCEPT ![s] = w], MovesOn(v, w) PROVE TInv'
  BY <1>1, <1>2, WorkerMoves
<1> HIDE DEF v
<1>3. ASSUME NEW how \in {"returned", "raised", "limit"}, EndRound(s, how),
             v.pc \in {"loop", "model"}
      PROVE  TInv'
  <2>1. worker' = [worker EXCEPT ![s] = [v EXCEPT !.pc = "ending", !.how = how]]
    BY <1>1, <1>3 DEF EndRound, v
  <2>2. MovesOn(v, [v EXCEPT !.pc = "ending", !.how = how])
    BY <1>1, <1>3 DEF MovesOn, WorkerState, Looping
  <2>. QED  BY <1>2, <2>1, <2>2
<1>4. ASSUME NEW pc \in {"model", "tools", "register", "woken", "expired", "outcome"},
             Move(s, pc),
             pc = "model" => v.pc = "loop" /\ ~(v.step > MaxSteps),
             pc = "tools" => v.pc = "model", pc = "register" => v.pc = "tools",
             pc \in {"woken", "expired"} => v.pc = "wait",
             pc = "outcome" => v.pc = "decide"
      PROVE  TInv'
  <2>1. worker' = [worker EXCEPT ![s] = [v EXCEPT !.pc = pc]]
    BY <1>1, <1>4 DEF Move, v
  <2>2. v.pc \in Looping => v.step \in Nat /\ v.step >= 1
    BY <1>1, Bounds DEF StepsCount, v, WorkerState
  <2>3. v.pc \in Looping \ {"loop"} => v.step <= MaxSteps
    BY <1>1 DEF StepsCount, v
  <2>4. [v EXCEPT !.pc = pc] \in WorkerState
    BY <1>1, <1>4 DEF WorkerState
  <2>5. /\ [v EXCEPT !.pc = pc].pc = pc /\ [v EXCEPT !.pc = pc].step = v.step
        /\ [v EXCEPT !.pc = pc].round = v.round /\ [v EXCEPT !.pc = pc].prompt = v.prompt
    BY <1>1 DEF WorkerState
  <2>6. MovesOn(v, [v EXCEPT !.pc = pc])
    BY <1>4, <2>2, <2>3, <2>4, <2>5, Bounds DEF MovesOn, Looping
  <2>. QED  BY <1>2, <2>1, <2>6
<1>5. CASE PrepareFails(s)
  <2>1. worker' = [worker EXCEPT ![s] = [v EXCEPT !.pc = "outcome", !.status = "failed"]]
    BY <1>1, <1>5 DEF PrepareFails, v
  <2>2. MovesOn(v, [v EXCEPT !.pc = "outcome", !.status = "failed"])
    BY <1>1, <1>5 DEF MovesOn, WorkerState, Looping, PrepareFails, At, v, Status
  <2>. QED  BY <1>2, <2>1, <2>2
<1>6. CASE LoopTop(s)
  BY <1>3, <1>4, <1>6 DEF LoopTop, At, v
<1>7. CASE ModelCall(s)
  BY <1>3, <1>4, <1>7 DEF ModelCall, At, v
<1>8. CASE RunTools(s)
  <2>1. CASE NextStep(s)
    <3>1. worker' = [worker EXCEPT ![s] = [v EXCEPT !.pc = "loop", !.step = v.step + 1,
                                                    !.prompt = 0]]
      BY <1>1, <2>1 DEF NextStep, v
    <3>2. v.step \in Nat /\ v.step >= 1 /\ v.step <= MaxSteps /\ v.pc = "tools"
      BY <1>1, <1>8, Bounds DEF RunTools, At, StepsCount, Looping, v, WorkerState
    <3> DEFINE next == [v EXCEPT !.pc = "loop", !.step = v.step + 1, !.prompt = 0]
    <3>3. v.step + 1 \in 0..MaxSteps + 1 /\ v.step + 1 >= 1 /\ v.step + 1 # 1
      BY <3>2, Bounds
    <3>4. next \in WorkerState /\ next.pc = "loop" /\ next.step = v.step + 1
      BY <1>1, <3>3 DEF WorkerState
    <3> HIDE DEF next
    <3>5. MovesOn(v, next)
      BY <3>2, <3>3, <3>4 DEF MovesOn, Looping
    <3>. QED  BY <1>2, <3>1, <3>5 DEF next
  <2>2. CASE Move(s, "register")
    BY <1>4, <1>8, <2>2 DEF RunTools, At, v
  <2>. QED  BY <1>8, <2>1, <2>2 DEF RunTools
<1>9. CASE Woken(s) \/ WaitTimesOut(s)
  BY <1>4, <1>9 DEF Woken, WaitTimesOut, At, v
<1>10. CASE SettleStatus(s)
  <2>1. PICK status \in Status :
          worker' = [worker EXCEPT ![s] = [v EXCEPT !.pc = "clearing", !.status = status]]
    BY <1>1, <1>10 DEF SettleStatus, v, Status
  <2>2. MovesOn(v, [v EXCEPT !.pc = "clearing", !.status = status])
    BY <1>1, <1>10 DEF MovesOn, WorkerState, Looping, SettleStatus, At, v
  <2>. QED  BY <1>2, <2>1, <2>2
<1>11. CASE DriveGoal(s)
  <2>1. CASE Move(s, "outcome")
    BY <1>4, <1>11, <2>1 DEF DriveGoal, At, v
  <2>2. CASE /\ v.round < MaxRounds
             /\ worker' = [worker EXCEPT ![s] =
                  [Idle EXCEPT !.pc = "loop", !.step = 1, !.round = v.round + 1]]
    <3>1. v.round \in Nat /\ v.round + 1 \in 0..MaxRounds /\ v.pc = "decide"
      BY <1>1, <1>11, <2>2, Bounds DEF WorkerState, DriveGoal, At, v
    <3> DEFINE next == [Idle EXCEPT !.pc = "loop", !.step = 1, !.round = v.round + 1]
    <3>2. next.pc = "loop" /\ next.step = 1 /\ next.round = v.round + 1
      BY DEF Idle
    <3>3. next \in WorkerState
      <4>1. Idle \in WorkerState /\ 1 \in 0..MaxSteps + 1
        BY Bounds DEF Idle, WorkerState
      <4>. QED  BY <3>1, <4>1 DEF WorkerState
    <3> HIDE DEF next
    <3>4. MovesOn(v, next)
      BY <3>1, <3>2, <3>3, Bounds DEF MovesOn, Looping
    <3>. QED  BY <1>2, <2>2, <3>4 DEF next
  <2>. QED  BY <1>11, <2>1, <2>2 DEF DriveGoal, v
<1>. QED  BY <1>5, <1>6, <1>7, <1>8, <1>9, <1>10, <1>11

(* The end of a turn. *)
LEMMA ClearFlagTInv ==
  ASSUME TInv, NEW s \in Sessions, ClearFlag(s)
  PROVE  TInv'
<1>1. /\ worker \in [Sessions -> WorkerState] /\ worker[s] \in WorkerState /\ SInv(s)
      /\ TypeOK /\ worker[s].pc = "clearing"
  BY Types DEF TInv, ClearFlag, At
<1>2. /\ worker' \in [Sessions -> WorkerState]
      /\ worker'[s].pc \in {"outcome", "decide"} /\ flag' \in [Sessions -> BOOLEAN]
      /\ \A u \in Sessions : u # s => worker'[u] = worker[u] /\ flag'[u] = flag[u]
  <2>1. flag' = [flag EXCEPT ![s] = FALSE] /\ flag \in [Sessions -> BOOLEAN]
    BY <1>1 DEF ClearFlag, TypeOK
  <2>2. \/ worker' = [worker EXCEPT ![s].pc = "outcome", ![s].status = "failed"]
        \/ worker' = [worker EXCEPT ![s].pc = "decide"]
    BY DEF ClearFlag, Move
  <2>3. worker' \in [Sessions -> WorkerState] /\ worker'[s].pc \in {"outcome", "decide"}
    BY <1>1, <2>2 DEF WorkerState, Status
  <2>. QED  BY <1>1, <2>1, <2>2, <2>3
<1>3. SharedKept /\ \A u \in Sessions : u # s => LocalKept(u)
  BY <1>2 DEF ClearFlag, NoPrompts, SharedKept, LocalKept
<1>4. TypeOK' /\ PermitsCount'
  BY <1>1, <1>2 DEF ClearFlag, NoPrompts, TypeOK, WorkerState, TInv, PermitsCount
<1>5. SInv(s)'
  <2> USE <1>1, <1>2 DEF SInv, ClearFlag, NoPrompts
  <2>1. StepsCount(s)' /\ OneTurn(s)' /\ AgentThere(s)' /\ EndsTold(s)'
    BY DEF StepsCount, OneTurn, AgentThere, EndsTold, Looping
  <2>2. PromptIsOwn(s)' /\ StopperComes(s)'
    BY DEF PromptIsOwn, StopperComes, PendingOf
  <2>3. HookComes(s)' /\ Quieted(s)'
    BY DEF HookComes, Early, Quieted, OneTurn
  <2>. QED  BY <2>1, <2>2, <2>3
<1>. QED  BY <1>3, <1>4, <1>5, LocalStep

LEMMA OutcomeTInv ==
  ASSUME TInv, NEW s \in Sessions, SetOutcome(s) \/ Publish(s)
  PROVE  TInv'
<1> DEFINE h == history[s]
<1>1. /\ worker \in [Sessions -> WorkerState] /\ worker[s] \in WorkerState /\ SInv(s)
      /\ history \in [Sessions -> HistoryState] /\ h \in HistoryState
      /\ TypeOK /\ worker[s].pc \in {"outcome", "publish"}
      /\ worker[s].status \in Status \cup {"none"}
  BY Types DEF TInv, SetOutcome, Publish, At, WorkerState
<1>2. /\ worker' = [worker EXCEPT ![s].pc = IF worker[s].pc = "outcome" THEN "publish"
                                            ELSE "release"]
      /\ UNCHANGED <<life, busy, closed, cancelled, agent, flag, active, sender,
                     client, stopper, closing, prompt, asked, pending>>
  BY DEF SetOutcome, Publish, Move, NoPrompts, At
<1>3. /\ worker' \in [Sessions -> WorkerState]
      /\ worker'[s].pc = IF worker[s].pc = "outcome" THEN "publish" ELSE "release"
      /\ \A u \in Sessions : u # s => worker'[u] = worker[u]
  BY <1>1, <1>2 DEF WorkerState
<1>4. /\ busy[s] /\ h.turns = h.finished + h.unstarted + 1
      /\ {h.turns, h.finished, h.unstarted} \subseteq Nat /\ h.turns <= MaxTurns
  BY <1>1, Bounds DEF SInv, OneTurn, EndsTold, HistoryState
<1>5. \/ /\ history' = [history EXCEPT ![s].last = worker[s].status]
         /\ worker[s].pc = "outcome"
      \/ /\ history' = [history EXCEPT ![s].finished = h.finished + 1]
         /\ worker[s].pc = "publish"
  BY DEF SetOutcome, Publish, At
<1>6. /\ history' \in [Sessions -> HistoryState]
      /\ \A u \in Sessions : u # s => history'[u] = history[u]
      /\ history'[s].turns = h.turns /\ history'[s].unstarted = h.unstarted
      /\ history'[s].finished = IF worker[s].pc = "outcome" THEN h.finished
                                ELSE h.finished + 1
  <2>1. h.finished + 1 \in 0..MaxTurns
    BY <1>4, Bounds
  <2>. QED  BY <1>1, <1>5, <2>1 DEF HistoryState
<1>7. SharedKept /\ \A u \in Sessions : u # s => LocalKept(u)
  BY <1>2, <1>3, <1>6 DEF SharedKept, LocalKept
<1>8. TypeOK' /\ PermitsCount'
  BY <1>1, <1>2, <1>3, <1>6
  DEF TypeOK, WorkerState, HistoryState, TInv, PermitsCount
<1>9. SInv(s)'
  <2> HIDE DEF h
  <2> USE <1>1, <1>2, <1>3 DEF SInv
  <2>1. StepsCount(s)' /\ OneTurn(s)' /\ AgentThere(s)'
    BY DEF StepsCount, OneTurn, AgentThere, Looping
  <2>2. EndsTold(s)'
    BY <1>4, <1>6 DEF EndsTold
  <2>3. PromptIsOwn(s)' /\ StopperComes(s)'
    BY DEF PromptIsOwn, StopperComes, PendingOf
  <2>4. HookComes(s)' /\ Quieted(s)'
    BY DEF HookComes, Early, Quieted, OneTurn
  <2>. QED  BY <2>1, <2>2, <2>3, <2>4
<1>. QED  BY <1>7, <1>8, <1>9, LocalStep

(* A session whose turn ends gives back one permit. *)
LEMMA OneLess ==
  ASSUME TInv, NEW s \in Sessions, busy[s], busy' = [busy EXCEPT ![s] = FALSE],
         active' = active - 1
  PROVE  PermitsCount' /\ active' \in 0..MaxActive /\ busy' \in [Sessions -> BOOLEAN]
<1> DEFINE running == {u \in Sessions : busy[u]}
<1>1. busy \in [Sessions -> BOOLEAN] /\ active \in 0..MaxActive
  BY DEF TInv, TypeOK
<1>2. {u \in Sessions : busy'[u]} = running \ {s}
  BY <1>1
<1>3. /\ IsFiniteSet(running \ {s})
      /\ Cardinality(running \ {s}) = Cardinality(running) - 1
      /\ Cardinality(running \ {s}) \in Nat
  BY FS_RemoveElement, FS_CardinalityType DEF TInv, PermitsCount
<1>4. PermitsCount' /\ active' \in Nat
  BY <1>2, <1>3 DEF TInv, PermitsCount
<1>. QED  BY <1>1, <1>4, Bounds

LEMMA BecomeIdleTInv ==
  ASSUME TInv, NEW s \in Sessions, BecomeIdle(s)
  PROVE  TInv'
<1>1. /\ worker \in [Sessions -> WorkerState] /\ worker[s].pc = "release" /\ SInv(s)
      /\ TypeOK /\ Idle \in WorkerState
  BY Types, Bounds DEF TInv, BecomeIdle, At, Idle, WorkerState
<1>2. /\ worker' = [worker EXCEPT ![s] = Idle] /\ busy' = [busy EXCEPT ![s] = FALSE]
      /\ active' = active - 1 /\ busy \in [Sessions -> BOOLEAN]
  BY <1>1 DEF BecomeIdle, TypeOK
<1>3. busy[s]
  BY <1>1 DEF SInv, OneTurn
<1>4. PermitsCount' /\ active' \in 0..MaxActive /\ busy' \in [Sessions -> BOOLEAN]
  BY <1>2, <1>3, OneLess
<1>5. /\ worker'[s].pc = "none" /\ ~busy'[s] /\ worker' \in [Sessions -> WorkerState]
      /\ \A u \in Sessions : u # s => worker'[u] = worker[u] /\ busy'[u] = busy[u]
  BY <1>1, <1>2 DEF Idle
<1>6. SharedKept /\ \A u \in Sessions : u # s => LocalKept(u)
  BY <1>5 DEF BecomeIdle, NoPrompts, SharedKept, LocalKept
<1>7. TypeOK'
  BY <1>1, <1>4, <1>5 DEF BecomeIdle, NoPrompts, TypeOK, WorkerState
<1>8. SInv(s)'
  <2> USE <1>1, <1>3, <1>5 DEF SInv, BecomeIdle, NoPrompts
  <2>1. StepsCount(s)' /\ OneTurn(s)' /\ AgentThere(s)'
    BY DEF StepsCount, OneTurn, AgentThere, Looping
  <2>2. EndsTold(s)'
    BY DEF EndsTold
  <2>3. PromptIsOwn(s)' /\ StopperComes(s)'
    BY DEF PromptIsOwn, StopperComes, PendingOf
  <2>4. HookComes(s)' /\ Quieted(s)'
    BY DEF HookComes, Early, Quieted, OneTurn
  <2>. QED  BY <2>1, <2>2, <2>3, <2>4
<1>. QED  BY <1>4, <1>6, <1>7, <1>8, LocalStep

----------------------------------------------------------------------------
(* send_message *)

LEMMA CreateTInv ==
  ASSUME TInv, NEW s \in Sessions, CreateSession(s)
  PROVE  TInv'
<1>1. TypeOK /\ SInv(s) /\ life[s] = "new" /\ life' = [life EXCEPT ![s] = "open"]
  BY DEF TInv, CreateSession
<1>2. /\ life' \in [Sessions -> {"new", "open", "deleted"}] /\ life'[s] = "open"
      /\ \A u \in Sessions : u # s => life'[u] = life[u]
  BY <1>1 DEF TypeOK
<1>3. SharedKept /\ \A u \in Sessions : u # s => LocalKept(u)
  BY <1>2 DEF CreateSession, turnVars, SharedKept, LocalKept
<1>4. TypeOK' /\ PermitsCount'
  BY <1>1, <1>2 DEF CreateSession, turnVars, TypeOK, TInv, PermitsCount
<1>5. SInv(s)'
  <2> USE <1>1, <1>2 DEF SInv, CreateSession, turnVars
  <2>1. StepsCount(s)' /\ OneTurn(s)' /\ AgentThere(s)' /\ EndsTold(s)'
    BY DEF StepsCount, OneTurn, AgentThere, EndsTold
  <2>2. PromptIsOwn(s)' /\ StopperComes(s)' /\ HookComes(s)' /\ Quieted(s)'
    BY DEF PromptIsOwn, StopperComes, PendingOf, HookComes, Early, Quieted
  <2>. QED  BY <2>1, <2>2
<1>. QED  BY <1>3, <1>4, <1>5, LocalStep

LEMMA SendTInv ==
  ASSUME TInv, NEW s \in Sessions, Send(s)
  PROVE  TInv'
<1> DEFINE h       == history[s]
           running == {u \in Sessions : busy[u]}
<1>1. /\ TypeOK /\ SInv(s) /\ ~busy[s] /\ ~closed[s] /\ life[s] # "new"
      /\ busy \in [Sessions -> BOOLEAN] /\ cancelled \in [Sessions -> BOOLEAN]
      /\ history \in [Sessions -> HistoryState] /\ h \in HistoryState
      /\ active \in Nat /\ active < MaxActive
  BY Types DEF TInv, TypeOK, Send, MaySend
<1>2. life[s] = "open" /\ sender[s] = "none" /\ worker[s].pc = "none"
  BY <1>1, Types DEF SInv, OneTurn
<1>3. /\ busy' \in [Sessions -> BOOLEAN] /\ busy'[s]
      /\ cancelled' \in [Sessions -> BOOLEAN] /\ ~cancelled'[s]
      /\ sender' \in [Sessions -> {"none", "init", "check", "start", "undo"}]
      /\ sender'[s] = "init"
      /\ \A u \in Sessions : u # s =>
           busy'[u] = busy[u] /\ cancelled'[u] = cancelled[u] /\ sender'[u] = sender[u]
  BY <1>1 DEF Send, TypeOK
<1>4. /\ history' \in [Sessions -> HistoryState] /\ history'[s].turns = h.turns + 1
      /\ history'[s].finished = h.finished /\ history'[s].unstarted = h.unstarted
      /\ \A u \in Sessions : u # s => history'[u] = history[u]
      /\ {h.turns, h.finished, h.unstarted} \subseteq Nat
  <2>1. {h.turns, h.finished, h.unstarted} \subseteq Nat /\ h.turns + 1 \in 0..MaxTurns
    BY <1>1, Bounds DEF Send, HistoryState
  <2>. QED  BY <1>1, <2>1 DEF Send, HistoryState
<1>5. PermitsCount' /\ active' \in 0..MaxActive
  <2>1. {u \in Sessions : busy'[u]} = running \cup {s} /\ s \notin running
    BY <1>1, <1>3
  <2>2. /\ IsFiniteSet(running \cup {s})
        /\ Cardinality(running \cup {s}) = Cardinality(running) + 1
    BY <2>1, FS_AddElement DEF TInv, PermitsCount
  <2>3. active' = active + 1 /\ active = Cardinality(running)
    BY DEF TInv, PermitsCount, Send
  <2>4. active' \in 0..MaxActive
    BY <1>1, <2>3, Bounds
  <2>. QED  BY <2>1, <2>2, <2>3, <2>4 DEF PermitsCount
<1>6. SharedKept /\ \A u \in Sessions : u # s => LocalKept(u)
  BY <1>3, <1>4 DEF Send, SharedKept, LocalKept
<1>7. TypeOK'
  <2>1. UNCHANGED <<life, closed, agent, flag, worker, prompt, asked, pending, client,
                    stopper, closing>>
    BY DEF Send
  <2>. QED  BY <1>1, <1>3, <1>4, <1>5, <2>1 DEF TypeOK, HistoryState
<1>8. SInv(s)'
  <2> HIDE DEF h
  <2> USE <1>1, <1>2, <1>3 DEF SInv, Send
  <2>1. StepsCount(s)' /\ OneTurn(s)' /\ AgentThere(s)'
    BY DEF StepsCount, OneTurn, AgentThere
  <2>2. EndsTold(s)'
    BY <1>4 DEF EndsTold, h
  <2>3. PromptIsOwn(s)' /\ StopperComes(s)'
    BY DEF PromptIsOwn, StopperComes
  <2>4. HookComes(s)' /\ Quieted(s)'
    BY DEF HookComes, Quieted
  <2>. QED  BY <2>1, <2>2, <2>3, <2>4
<1>. QED  BY <1>5, <1>6, <1>7, <1>8, LocalStep

LEMMA SenderTInv ==
  ASSUME TInv, NEW s \in Sessions, InitAgent(s) \/ PropagateInterrupt(s) \/ StartThread(s)
  PROVE  TInv'
<1>1. /\ TypeOK /\ SInv(s) /\ worker \in [Sessions -> WorkerState]
      /\ sender[s] \in {"init", "check", "start"}
      /\ Idle \in WorkerState
  BY Types, Bounds DEF TInv, InitAgent, PropagateInterrupt, StartThread, Idle, WorkerState
<1>2. busy[s] /\ worker[s].pc = "none"
  BY <1>1, Types DEF SInv, OneTurn
<1>3. UNCHANGED <<life, busy, closed, cancelled, active, history>> /\ SharedKept
  BY DEF InitAgent, PropagateInterrupt, StartThread, SharedKept
<1>4. ASSUME TypeOK', SInv(s)', \A u \in Sessions : u # s => LocalKept(u) PROVE TInv'
  BY <1>3, <1>4, LocalStep DEF TInv, PermitsCount
<1>5. CASE InitAgent(s)
  <2>1. /\ agent' \in [Sessions -> {"none", "open", "closed"}]
        /\ sender' \in [Sessions -> {"none", "init", "check", "start", "undo"}]
        /\ \A u \in Sessions : u # s => agent'[u] = agent[u] /\ sender'[u] = sender[u]
        /\ (sender'[s] = "check" /\ agent'[s] # "none") \/ sender'[s] = "undo"
        /\ worker' = worker /\ flag' = flag
    <3> DEFINE begun == IF agent[s] = "none" THEN "open" ELSE agent[s]
    <3>1. /\ agent \in [Sessions -> {"none", "open", "closed"}]
          /\ sender \in [Sessions -> {"none", "init", "check", "start", "undo"}]
      BY <1>1 DEF TypeOK
    <3>2. begun \in {"open", "closed"}
      BY <3>1
    <3>3. /\ \/ /\ agent' = [agent EXCEPT ![s] = begun]
                /\ sender' = [sender EXCEPT ![s] = "check"]
             \/ agent' = agent /\ sender' = [sender EXCEPT ![s] = "undo"]
          /\ worker' = worker /\ flag' = flag
      BY <1>5 DEF InitAgent
    <3> HIDE DEF begun
    <3>4. CASE agent' = agent /\ sender' = [sender EXCEPT ![s] = "undo"]
      BY <3>1, <3>3, <3>4
    <3>5. CASE /\ agent' = [agent EXCEPT ![s] = begun]
               /\ sender' = [sender EXCEPT ![s] = "check"]
      BY <3>1, <3>2, <3>3, <3>5
    <3>. QED  BY <3>3, <3>4, <3>5
  <2>2. TypeOK' /\ \A u \in Sessions : u # s => LocalKept(u)
    BY <1>1, <1>3, <2>1 DEF TypeOK, LocalKept, SharedKept
  <2>3. SInv(s)'
    <3> USE <1>1, <1>2, <1>3, <2>1 DEF SInv, SharedKept
    <3>1. StepsCount(s)' /\ OneTurn(s)' /\ AgentThere(s)' /\ EndsTold(s)'
      BY DEF StepsCount, OneTurn, AgentThere, EndsTold
    <3>2. PromptIsOwn(s)' /\ StopperComes(s)' /\ HookComes(s)' /\ Quieted(s)'
      BY DEF PromptIsOwn, StopperComes, PendingOf, HookComes, Early, Quieted
    <3>. QED  BY <3>1, <3>2
  <2>. QED  BY <1>4, <2>2, <2>3
<1>6. CASE PropagateInterrupt(s)
  <2>1. /\ flag' \in [Sessions -> BOOLEAN]
        /\ cancelled[s] => flag'[s]
        /\ sender' \in [Sessions -> {"none", "init", "check", "start", "undo"}]
        /\ \A u \in Sessions : u # s => flag'[u] = flag[u] /\ sender'[u] = sender[u]
        /\ sender[s] = "check" /\ sender'[s] = "start"
        /\ worker' = worker /\ agent' = agent
    BY <1>1, <1>6 DEF PropagateInterrupt, TypeOK
  <2>2. TypeOK' /\ \A u \in Sessions : u # s => LocalKept(u)
    BY <1>1, <1>3, <2>1 DEF TypeOK, LocalKept, SharedKept
  <2>3. SInv(s)'
    <3> USE <1>1, <1>2, <1>3, <2>1 DEF SInv, SharedKept
    <3>1. StepsCount(s)' /\ OneTurn(s)' /\ AgentThere(s)' /\ EndsTold(s)'
      BY DEF StepsCount, OneTurn, AgentThere, EndsTold
    <3>2. PromptIsOwn(s)' /\ StopperComes(s)' /\ HookComes(s)' /\ Quieted(s)'
      BY DEF PromptIsOwn, StopperComes, PendingOf, HookComes, Early, Quieted
    <3>. QED  BY <3>1, <3>2
  <2>. QED  BY <1>4, <2>2, <2>3
<1>7. CASE StartThread(s)
  <2> DEFINE first == [Idle EXCEPT !.pc = "loop", !.step = 1]
  <2>1. /\ first \in WorkerState /\ first.pc = "loop" /\ first.step = 1 /\ first.round = 0
    <3>1. 1 \in 0..MaxSteps + 1
      BY Bounds
    <3>2. first \in WorkerState
      BY <1>1, <3>1 DEF WorkerState
    <3>. QED  BY <3>2 DEF Idle
  <2> HIDE DEF first
  <2>2. /\ \/ worker' = [worker EXCEPT ![s] = first] /\ sender' = [sender EXCEPT ![s] = "none"]
           \/ worker' = worker /\ sender' = [sender EXCEPT ![s] = "undo"]
        /\ sender[s] = "start" /\ flag' = flag /\ agent' = agent
    BY <1>7 DEF StartThread, first
  <2>3. /\ worker' \in [Sessions -> WorkerState]
        /\ sender' \in [Sessions -> {"none", "init", "check", "start", "undo"}]
        /\ \A u \in Sessions : u # s => worker'[u] = worker[u] /\ sender'[u] = sender[u]
        /\ \/ worker'[s] = first /\ sender'[s] = "none"
           \/ worker'[s] = worker[s] /\ sender'[s] = "undo"
    <3>1. sender \in [Sessions -> {"none", "init", "check", "start", "undo"}]
      BY <1>1 DEF TypeOK
    <3>2. CASE worker' = worker
      BY <1>1, <2>1, <2>2, <3>1, <3>2
    <3>3. CASE worker' = [worker EXCEPT ![s] = first] /\ sender' = [sender EXCEPT ![s] = "none"]
      BY <1>1, <2>1, <3>1, <3>3
    <3>. QED  BY <2>2, <3>2, <3>3
  <2>4. TypeOK' /\ \A u \in Sessions : u # s => LocalKept(u)
    BY <1>1, <1>3, <2>2, <2>3 DEF TypeOK, LocalKept, SharedKept, WorkerState
  <2>5. SInv(s)'
    <3> USE <1>1, <1>2, <1>3, <2>1, <2>2, <2>3 DEF SInv, SharedKept
    <3>1. StepsCount(s)' /\ OneTurn(s)' /\ AgentThere(s)' /\ EndsTold(s)'
      BY Bounds DEF StepsCount, OneTurn, AgentThere, EndsTold, Looping
    <3>2. PromptIsOwn(s)' /\ StopperComes(s)' /\ HookComes(s)' /\ Quieted(s)'
      BY DEF PromptIsOwn, StopperComes, PendingOf, HookComes, Early, Quieted
    <3>. QED  BY <3>1, <3>2
  <2>. QED  BY <1>4, <2>4, <2>5
<1>. QED  BY <1>5, <1>6, <1>7

LEMMA UndoTInv ==
  ASSUME TInv, NEW s \in Sessions, Undo(s)
  PROVE  TInv'
<1> DEFINE h == history[s]
<1>1. /\ TypeOK /\ SInv(s) /\ sender[s] = "undo"
      /\ history \in [Sessions -> HistoryState] /\ h \in HistoryState
      /\ worker[s] \in WorkerState
  BY Types DEF TInv, Undo
<1>2. busy[s] /\ worker[s].pc = "none"
  BY <1>1, Types DEF SInv, OneTurn
<1>3. h.turns = h.finished + h.unstarted + 1 /\ {h.turns, h.finished, h.unstarted} \subseteq Nat
  BY <1>1, <1>2, Bounds DEF SInv, EndsTold, HistoryState
<1>4. PermitsCount' /\ active' \in 0..MaxActive /\ busy' \in [Sessions -> BOOLEAN]
  BY <1>2, OneLess DEF Undo
<1>5. /\ ~busy'[s] /\ sender'[s] = "none"
      /\ sender' \in [Sessions -> {"none", "init", "check", "start", "undo"}]
      /\ \A u \in Sessions : u # s => busy'[u] = busy[u] /\ sender'[u] = sender[u]
  BY <1>1 DEF Undo, TypeOK
<1>6. /\ history' \in [Sessions -> HistoryState]
      /\ history'[s].turns = h.turns /\ history'[s].finished = h.finished
      /\ history'[s].unstarted = h.unstarted + 1
      /\ \A u \in Sessions : u # s => history'[u] = history[u]
  <2>1. h.unstarted + 1 \in 0..MaxTurns
    BY <1>1, <1>3, Bounds DEF HistoryState
  <2>. QED  BY <1>1, <2>1 DEF Undo, HistoryState
<1>7. SharedKept /\ \A u \in Sessions : u # s => LocalKept(u)
  BY <1>5, <1>6 DEF Undo, SharedKept, LocalKept
<1>8. TypeOK'
  <2>1. UNCHANGED <<life, closed, cancelled, agent, flag, worker, prompt, asked, pending,
                    client, stopper, closing>>
    BY DEF Undo
  <2>. QED  BY <1>1, <1>4, <1>5, <1>6, <2>1 DEF TypeOK, HistoryState
<1>9. SInv(s)'
  <2> HIDE DEF h
  <2> USE <1>1, <1>2, <1>5 DEF SInv, Undo
  <2>1. StepsCount(s)' /\ OneTurn(s)' /\ AgentThere(s)'
    BY DEF StepsCount, OneTurn, AgentThere
  <2>2. EndsTold(s)'
    BY <1>3, <1>6 DEF EndsTold
  <2>3. PromptIsOwn(s)' /\ StopperComes(s)'
    BY DEF PromptIsOwn, StopperComes, PendingOf
  <2>4. HookComes(s)' /\ Quieted(s)'
    BY DEF HookComes, Early, Quieted
  <2>. QED  BY <2>1, <2>2, <2>3, <2>4
<1>. QED  BY <1>4, <1>7, <1>8, <1>9, LocalStep

----------------------------------------------------------------------------
(* Prompts *)

(* A step of the agent thread of s to the top of its loop. *)
LEMMA NextStepMoves ==
  ASSUME TInv, NEW s \in Sessions, worker[s].pc \in Looping \ {"loop"}, NextStep(s)
  PROVE  \E w : /\ worker' = [worker EXCEPT ![s] = w] /\ MovesOn(worker[s], w)
                /\ w.pc = "loop" /\ w.step > 1
<1> DEFINE v    == worker[s]
           next == [v EXCEPT !.pc = "loop", !.step = v.step + 1, !.prompt = 0]
<1>1. /\ worker \in [Sessions -> WorkerState] /\ v \in WorkerState
      /\ v.step \in Nat /\ v.step >= 1 /\ v.step <= MaxSteps
  BY Types, Bounds DEF TInv, SInv, StepsCount, WorkerState
<1>2. worker' = [worker EXCEPT ![s] = next]
  BY <1>1 DEF NextStep
<1>3. v.step + 1 \in 0..MaxSteps + 1 /\ v.step + 1 > 1
  BY <1>1, Bounds
<1>4. next \in WorkerState /\ next.pc = "loop" /\ next.step = v.step + 1
  BY <1>1, <1>3 DEF WorkerState
<1> HIDE DEF next
<1>5. v.pc \in Looping \ {"loop"}
  OBVIOUS
<1> HIDE DEF v
<1>6. MovesOn(v, next)
  BY <1>3, <1>4, <1>5 DEF MovesOn, Looping
<1>. QED  BY <1>2, <1>3, <1>4, <1>6 DEF v

(* The parts of the invariant that speak of no prompt and no stopper. *)
LEMMA OtherParts ==
  ASSUME NEW u \in Sessions, SInv(u),
         UNCHANGED <<life, busy, closed, agent, sender, closing>>,
         worker'[u] = worker[u], history'[u].turns = history[u].turns,
         history'[u].finished = history[u].finished,
         history'[u].unstarted = history[u].unstarted
  PROVE  /\ StepsCount(u)' /\ OneTurn(u)' /\ AgentThere(u)' /\ EndsTold(u)' /\ Quieted(u)'
BY DEF SInv, StepsCount, OneTurn, AgentThere, EndsTold, Quieted

(* What a step may do to the prompts without leaving a thread asleep: the    *)
(* sessions stay, and one that leaves the list is answered or about to be.   *)
Handled(r) == r \in pending' \/ prompt'[r].done \/ \E c \in Clients : client'[c].prompt = r

LEMMA PromptsGoOn ==
  ASSUME TInv, asked' = asked, pending' \subseteq pending,
         prompt' \in [PromptIds -> PromptState],
         \A r \in PromptIds : prompt'[r].session = prompt[r].session /\ prompt'[r].kind = prompt[r].kind
  PROVE  /\ PromptsCount'
         /\ \A u \in Sessions, kind \in Kinds : PendingOf(u, kind)' \subseteq PendingOf(u, kind)
         /\ \A u \in Sessions :
              /\ worker'[u] = worker[u]
              /\ \A r \in PromptIds :
                   /\ worker[u].pc = "wait" /\ worker[u].prompt = r
                   /\ r \in pending \/ prompt[r].done \/ \E c \in Clients : client[c].prompt = r
                   => Handled(r)
              => PromptIsOwn(u)'
<1>1. TypeOK /\ pending \subseteq 1..asked /\ asked \in Nat /\ asked <= MaxPrompts
  BY Bounds DEF TInv, PromptsCount, TypeOK
<1>2. pending \subseteq PromptIds /\ 1..asked \subseteq PromptIds
  BY <1>1, Bounds DEF PromptIds
<1>3. PromptsCount'
  BY <1>1 DEF PromptsCount
<1>4. \A u \in Sessions, kind \in Kinds : PendingOf(u, kind)' \subseteq PendingOf(u, kind)
  BY <1>2 DEF PendingOf
<1>5. ASSUME NEW u \in Sessions, worker'[u] = worker[u],
             \A r \in PromptIds :
               /\ worker[u].pc = "wait" /\ worker[u].prompt = r
               /\ r \in pending \/ prompt[r].done \/ \E c \in Clients : client[c].prompt = r
               => Handled(r)
      PROVE  PromptIsOwn(u)'
  <2>1. PromptIsOwn(u)
    BY DEF TInv, SInv
  <2>2. worker[u].pc \in {"wait", "woken", "expired"} => worker[u].prompt \in PromptIds
    BY <1>2, <2>1 DEF PromptIsOwn
  <2>. QED  BY <1>5, <2>1, <2>2 DEF PromptIsOwn, Handled
<1>. QED  BY <1>3, <1>4, <1>5

(* The agent thread reads the answer, or gives up and takes the prompt off.  *)
LEMMA VerdictTInv ==
  ASSUME TInv, NEW s \in Sessions, Expire(s) \/ ReadAnswer(s)
  PROVE  TInv'
<1> DEFINE r == worker[s].prompt
<1>1. /\ TypeOK /\ SInv(s) /\ worker[s].pc \in {"woken", "expired"}
      /\ worker \in [Sessions -> WorkerState] /\ prompt \in [PromptIds -> PromptState]
      /\ OnlyWorker /\ NextStep(s) /\ asked' = asked
      /\ asked \in Nat /\ asked <= MaxPrompts
  BY Types, Bounds DEF TInv, Expire, ReadAnswer, At, TypeOK
<1>2. r \in 1..asked /\ prompt[r].session = s /\ r \in PromptIds
  BY <1>1, Bounds DEF SInv, PromptIsOwn, PromptIds
<1>3. PICK w : /\ worker' = [worker EXCEPT ![s] = w] /\ MovesOn(worker[s], w)
               /\ w.pc = "loop" /\ w.step > 1
  BY <1>1, NextStepMoves DEF Looping
<1>4. /\ worker' \in [Sessions -> WorkerState] /\ worker'[s] = w
      /\ \A u \in Sessions : u # s => worker'[u] = worker[u]
  BY <1>1, <1>3 DEF MovesOn
<1>5. PICK d \in Decisions : prompt' = [prompt EXCEPT ![r].verdict = d]
  <2>1. "denied" \in Decisions /\ prompt[r].decision \in Decisions
    BY <1>1, <1>2 DEF Decisions, PromptState
  <2>. QED  BY <2>1 DEF Expire, ReadAnswer
<1>6. /\ prompt' \in [PromptIds -> PromptState]
      /\ \A q \in PromptIds : /\ prompt'[q].session = prompt[q].session
                            /\ prompt'[q].kind = prompt[q].kind
                            /\ prompt'[q].done = prompt[q].done
  BY <1>1, <1>2, <1>5 DEF PromptState
<1>7. pending' \subseteq pending /\ pending \subseteq pending' \cup {r}
  BY DEF Expire, ReadAnswer
<1>8. TypeOK'
  BY <1>1, <1>4, <1>6, <1>7 DEF TypeOK, OnlyWorker, WorkerState, PromptState
<1>9. PermitsCount'
  BY <1>1 DEF TInv, PermitsCount, OnlyWorker
<1>10. ASSUME NEW u \in Sessions, u # s PROVE SInv(u)'
  <2>1. SInv(u) /\ worker'[u] = worker[u]
    BY <1>4, <1>10 DEF TInv
  <2>2. StepsCount(u)' /\ OneTurn(u)' /\ AgentThere(u)' /\ EndsTold(u)' /\ Quieted(u)'
    BY <1>1, <2>1, OtherParts DEF OnlyWorker
  <2>3. worker[u].pc = "wait" => worker[u].prompt # r
    BY <1>2, <1>10, <2>1 DEF SInv, PromptIsOwn
  <2>4. PromptIsOwn(u)'
    <3>1. \A q \in PromptIds :
            /\ worker[u].pc = "wait" /\ worker[u].prompt = q
            /\ q \in pending \/ prompt[q].done \/ \E c \in Clients : client[c].prompt = q
            => Handled(q)
      BY <1>1, <1>6, <1>7, <2>3 DEF Handled, OnlyWorker
    <3>. QED  BY <1>1, <1>6, <1>7, <2>1, <3>1, PromptsGoOn
  <2>5. StopperComes(u)'
    <3>1. \A kind \in Kinds : PendingOf(u, kind)' \subseteq PendingOf(u, kind)
      BY <1>1, <1>6, <1>7, PromptsGoOn
    <3>. QED  BY <1>1, <2>1, <3>1 DEF SInv, StopperComes, OnlyWorker
  <2>6. HookComes(u)'
    BY <1>1, <2>1 DEF SInv, HookComes, Early, OnlyWorker
  <2>. QED  BY <2>2, <2>4, <2>5, <2>6 DEF SInv
<1>11. SInv(s)'
  <2> USE <1>1, <1>3, <1>4 DEF SInv, OnlyWorker
  <2>1. StepsCount(s)' /\ OneTurn(s)' /\ AgentThere(s)' /\ EndsTold(s)' /\ Quieted(s)'
    BY DEF StepsCount, OneTurn, AgentThere, EndsTold, Quieted, Looping, MovesOn
  <2>2. PromptIsOwn(s)'
    BY DEF PromptIsOwn
  <2>3. StopperComes(s)'
    <3>1. \A kind \in Kinds : PendingOf(s, kind)' \subseteq PendingOf(s, kind)
      BY <1>6, <1>7, PromptsGoOn
    <3>. QED  BY <3>1 DEF StopperComes
  <2>4. HookComes(s)'
    <3>1. ~Early(s)'
      BY DEF Early, OneTurn
    <3>. QED  BY <3>1 DEF HookComes
  <2>. QED  BY <2>1, <2>2, <2>3, <2>4
<1>12. PromptsCount'
  BY <1>1, <1>6, <1>7, PromptsGoOn
<1>. QED  BY <1>8, <1>9, <1>10, <1>11, <1>12 DEF TInv

(* A thread at the broker asks, or is told to go on. *)
LEMMA RegisterTInv ==
  ASSUME TInv, NEW s \in Sessions, Register(s)
  PROVE  TInv'
<1> DEFINE r == asked + 1
           v == worker[s]
<1>1. /\ TypeOK /\ SInv(s) /\ v.pc = "register" /\ OnlyWorker
      /\ worker \in [Sessions -> WorkerState] /\ v \in WorkerState
      /\ prompt \in [PromptIds -> PromptState] /\ PromptsCount /\ asked \in Nat
  BY Types DEF TInv, Register, At
<1>2. CASE NextStep(s) /\ NoPrompts
  BY <1>1, <1>2, NextStepMoves, WorkerMoves DEF Looping
<1>3. CASE ~cancelled[s] /\ \E kind \in Kinds : Registered(s, kind)
  <2>1. PICK kind \in Kinds : Registered(s, kind)
    BY <1>3
  <2>2. r \in PromptIds /\ r \notin pending /\ r \notin 1..asked /\ 1..asked \subseteq 1..r
    BY <1>1, <2>1 DEF Registered, PromptsCount
  <2>3. asked' = r /\ pending' = pending \cup {r} /\ r \in 1..MaxPrompts
    BY <2>1, <2>2 DEF Registered, PromptIds
  <2>4. /\ prompt' \in [PromptIds -> PromptState]
        /\ prompt'[r].session = s
        /\ \A q \in PromptIds : q # r => prompt'[q] = prompt[q]
    <3>1. NoPrompt \in PromptState
      BY TurnsAssumption DEF NoPrompt, PromptState, Kinds, Decisions
    <3>2. /\ [NoPrompt EXCEPT !.session = s, !.kind = kind] \in PromptState
          /\ [NoPrompt EXCEPT !.session = s, !.kind = kind].session = s
      BY <3>1 DEF PromptState, Kinds
    <3>. QED  BY <1>1, <2>1, <2>2, <3>2 DEF Registered
  <2>5. /\ worker' = [worker EXCEPT ![s] = [v EXCEPT !.pc = "wait", !.prompt = r]]
    BY <1>1, <2>1 DEF Registered
  <2>6. /\ [v EXCEPT !.pc = "wait", !.prompt = r] \in WorkerState
        /\ [v EXCEPT !.pc = "wait", !.prompt = r].pc = "wait"
        /\ [v EXCEPT !.pc = "wait", !.prompt = r].step = v.step
        /\ [v EXCEPT !.pc = "wait", !.prompt = r].prompt = r
    BY <1>1, <2>2 DEF WorkerState
  <2>7. /\ worker' \in [Sessions -> WorkerState]
        /\ worker'[s].pc = "wait" /\ worker'[s].prompt = r /\ worker'[s].step = v.step
        /\ \A u \in Sessions : u # s => worker'[u] = worker[u]
    BY <1>1, <2>5, <2>6
  <2>8. TypeOK'
    <3>1. pending' \subseteq PromptIds /\ asked' \in 0..MaxPrompts
      BY <1>1, <2>2, <2>3 DEF TypeOK
    <3>. QED  BY <1>1, <2>4, <2>7, <3>1 DEF TypeOK, OnlyWorker, WorkerState, PromptState
  <2>9. PermitsCount' /\ PromptsCount'
    BY <1>1, <2>2, <2>3 DEF TInv, PermitsCount, OnlyWorker, PromptsCount
  <2>10. \A u \in Sessions, k \in Kinds : u # s => PendingOf(u, k)' = PendingOf(u, k)
    <3>1. pending \subseteq PromptIds
      BY <1>1 DEF TypeOK
    <3>. QED  BY <2>2, <2>3, <2>4, <3>1 DEF PendingOf
  <2>11. ASSUME NEW u \in Sessions, u # s PROVE SInv(u)'
    <3>1. SInv(u) /\ worker'[u] = worker[u]
      BY <2>7, <2>11 DEF TInv
    <3>2. StepsCount(u)' /\ OneTurn(u)' /\ AgentThere(u)' /\ EndsTold(u)' /\ Quieted(u)'
      BY <1>1, <3>1, OtherParts DEF OnlyWorker
    <3>3. worker[u].pc \in {"wait", "woken", "expired"} =>
            /\ worker[u].prompt \in 1..asked' /\ worker[u].prompt # r
            /\ worker[u].prompt \in PromptIds
      <4>1. 1..asked \subseteq PromptIds
        BY <1>1, Bounds DEF TypeOK, PromptIds
      <4>. QED  BY <2>2, <2>3, <3>1, <4>1 DEF SInv, PromptIsOwn
    <3>4. PromptIsOwn(u)'
      BY <1>1, <2>3, <2>4, <3>1, <3>3 DEF SInv, PromptIsOwn, OnlyWorker
    <3>5. StopperComes(u)'
      BY <1>1, <2>10, <2>11, <3>1 DEF SInv, StopperComes, OnlyWorker
    <3>6. HookComes(u)'
      BY <1>1, <3>1 DEF SInv, HookComes, Early, OnlyWorker
    <3>. QED  BY <3>2, <3>4, <3>5, <3>6 DEF SInv
  <2>12. SInv(s)'
    <3> USE <1>1, <2>7 DEF SInv, OnlyWorker
    <3>1. StepsCount(s)' /\ OneTurn(s)' /\ AgentThere(s)' /\ EndsTold(s)' /\ Quieted(s)'
      BY DEF StepsCount, OneTurn, AgentThere, EndsTold, Quieted, Looping
    <3>2. PromptIsOwn(s)'
      BY <2>2, <2>3, <2>4 DEF PromptIsOwn
    <3>3. StopperComes(s)' /\ HookComes(s)'
      BY <1>3 DEF StopperComes, HookComes
    <3>. QED  BY <3>1, <3>2, <3>3
  <2>. QED  BY <2>8, <2>9, <2>11, <2>12 DEF TInv
<1>. QED  BY <1>2, <1>3 DEF Register

(* A client takes a prompt off the list, and answers it. *)
LEMMA ClientTInv ==
  ASSUME TInv, NEW c \in Clients,
         (\E r \in PromptIds, d \in {"granted", "denied"} : PopPrompt(c, r, d)) \/ Answer(c)
  PROVE  TInv'
<1>1. /\ TypeOK /\ prompt \in [PromptIds -> PromptState]
      /\ client \in [Clients -> [prompt : {0} \cup PromptIds, decision : Decisions]]
      /\ UNCHANGED <<life, busy, closed, cancelled, agent, flag, active, sender, worker,
                     asked, stopper, closing, history>>
      /\ pending \subseteq PromptIds /\ 0 \notin PromptIds
  <2>1. UNCHANGED <<life, busy, closed, cancelled, agent, flag, active, sender, worker,
                    asked, stopper, closing, history>>
    BY DEF PopPrompt, Answer
  <2>2. TypeOK /\ prompt \in [PromptIds -> PromptState]
    BY DEF TInv, TypeOK, PromptState
  <2>3. client \in [Clients -> [prompt : {0} \cup PromptIds, decision : Decisions]]
    BY <2>2 DEF TypeOK
  <2>4. pending \subseteq PromptIds
    BY <2>2 DEF TypeOK
  <2>5. 0 \notin PromptIds
    BY Bounds DEF PromptIds
  <2>. QED  BY <2>1, <2>2, <2>3, <2>4, <2>5
<1>2. ASSUME prompt' \in [PromptIds -> PromptState], pending' \subseteq pending,
             client' \in [Clients -> [prompt : {0} \cup PromptIds, decision : Decisions]],
             \A r \in PromptIds :
               /\ prompt'[r].session = prompt[r].session /\ prompt'[r].kind = prompt[r].kind
               /\ r \in pending \/ prompt[r].done \/ (\E b \in Clients : client[b].prompt = r)
                    => Handled(r)
      PROVE  TInv'
  <2>1. TypeOK'
    BY <1>1, <1>2 DEF TypeOK, PromptState
  <2>2. PermitsCount'
    BY <1>1 DEF TInv, PermitsCount
  <2>3. /\ PromptsCount'
        /\ \A u \in Sessions, kind \in Kinds : PendingOf(u, kind)' \subseteq PendingOf(u, kind)
        /\ \A u \in Sessions : PromptIsOwn(u)'
    BY <1>1, <1>2, PromptsGoOn
  <2>4. ASSUME NEW u \in Sessions PROVE SInv(u)'
    <3>1. SInv(u)
      BY DEF TInv
    <3>2. StepsCount(u)' /\ OneTurn(u)' /\ AgentThere(u)' /\ EndsTold(u)' /\ Quieted(u)'
      BY <1>1, <3>1, OtherParts
    <3>3. StopperComes(u)'
      BY <1>1, <2>3, <3>1 DEF SInv, StopperComes
    <3>4. HookComes(u)'
      BY <1>1, <3>1 DEF SInv, HookComes, Early
    <3>. QED  BY <2>3, <3>2, <3>3, <3>4 DEF SInv
  <2>. QED  BY <2>1, <2>2, <2>3, <2>4 DEF TInv
<1>3. ASSUME NEW r \in PromptIds, NEW d \in {"granted", "denied"}, PopPrompt(c, r, d)
      PROVE  TInv'
  <2>1. /\ pending' = pending \ {r} /\ prompt' = prompt /\ client[c].prompt = 0
        /\ client' = [client EXCEPT ![c] = [prompt |-> r, decision |-> d]]
    BY <1>3 DEF PopPrompt, NoAnswer
  <2>2. /\ client' \in [Clients -> [prompt : {0} \cup PromptIds, decision : Decisions]]
        /\ client'[c].prompt = r
        /\ \A b \in Clients : b # c => client'[b] = client[b]
    BY <1>1, <2>1 DEF Decisions
  <2>3. ASSUME NEW q \in PromptIds,
               q \in pending \/ prompt[q].done \/ \E b \in Clients : client[b].prompt = q
        PROVE  Handled(q)
    BY <1>1, <2>1, <2>2, <2>3 DEF Handled
  <2>. QED  BY <1>1, <1>2, <2>1, <2>2, <2>3
<1>4. ASSUME Answer(c) PROVE TInv'
  <2> DEFINE r == client[c].prompt
             d == client[c].decision
  <2>1. /\ prompt' = [prompt EXCEPT ![r].done = TRUE, ![r].decision = d]
        /\ client' = [client EXCEPT ![c] = NoAnswer] /\ pending' = pending
        /\ d \in Decisions /\ r \in {0} \cup PromptIds
    BY <1>1, <1>4 DEF Answer
  <2> HIDE DEF d
  <2>2. /\ prompt' \in [PromptIds -> PromptState]
        /\ \A q \in PromptIds : /\ prompt'[q].session = prompt[q].session
                              /\ prompt'[q].kind = prompt[q].kind
                              /\ prompt'[q].done = (prompt[q].done \/ q = r)
    <3>1. CASE r = 0
      <4>1. prompt' = prompt
        BY <1>1, <2>1, <3>1
      <4>2. \A q \in PromptIds : prompt[q].done \in BOOLEAN /\ q # r
        BY <1>1, <3>1 DEF PromptState
      <4>. QED  BY <1>1, <4>1, <4>2
    <3>2. CASE r \in PromptIds
      <4>1. prompt' = [prompt EXCEPT ![r] = [prompt[r] EXCEPT !.done = TRUE, !.decision = d]]
        BY <1>1, <2>1, <3>2
      <4>2. /\ [prompt[r] EXCEPT !.done = TRUE, !.decision = d] \in PromptState
            /\ [prompt[r] EXCEPT !.done = TRUE, !.decision = d].session = prompt[r].session
            /\ [prompt[r] EXCEPT !.done = TRUE, !.decision = d].kind = prompt[r].kind
            /\ [prompt[r] EXCEPT !.done = TRUE, !.decision = d].done = TRUE
        BY <1>1, <2>1, <3>2 DEF PromptState
      <4>3. \A q \in PromptIds : prompt[q].done \in BOOLEAN
        BY <1>1 DEF PromptState
      <4>. QED  BY <1>1, <3>2, <4>1, <4>2, <4>3
    <3>. QED  BY <2>1, <3>1, <3>2
  <2>3. /\ client' \in [Clients -> [prompt : {0} \cup PromptIds, decision : Decisions]]
        /\ \A b \in Clients : b # c => client'[b] = client[b]
    BY <1>1, <2>1 DEF NoAnswer, Decisions
  <2>4. ASSUME NEW q \in PromptIds,
               q \in pending \/ prompt[q].done \/ \E b \in Clients : client[b].prompt = q
        PROVE  Handled(q)
    <3>1. CASE q \in pending \/ prompt[q].done
      BY <2>1, <2>2, <3>1 DEF Handled
    <3>2. CASE \E b \in Clients : client[b].prompt = q
      BY <2>2, <2>3, <3>2 DEF Handled
    <3>. QED  BY <2>4, <3>1, <3>2
  <2>. QED  BY <1>2, <2>1, <2>2, <2>3, <2>4
<1>. QED  BY <1>3, <1>4

----------------------------------------------------------------------------
(* interrupt *)

(* The signal is set, and its thread is on its way to the agent. *)
LEMMA InterruptedTInv ==
  ASSUME TInv, NEW s \in Sessions, NEW i \in Stoppers, Interrupted(i, s),
         stopper[i].pc = "idle", busy[s],
         UNCHANGED <<life, busy, closed, agent, flag, active, turnVars, client>>,
         closing' \in [pc : {"off", "quiesce", "interrupt", "drain", "done"},
                       todo : SUBSET Sessions],
         \A u \in Sessions : Quieted(u)'
  PROVE  TInv'
<1> DEFINE saw == agent[s] # "none"
           h   == history[s]
<1>1. /\ TypeOK /\ SInv(s) /\ stopper \in [Stoppers -> StopperState]
      /\ history \in [Sessions -> HistoryState] /\ h \in HistoryState
      /\ cancelled \in [Sessions -> BOOLEAN]
      /\ UNCHANGED <<sender, worker, prompt, asked, pending>>
  BY Types DEF TInv, TypeOK, turnVars
<1>2. /\ stopper' \in [Stoppers -> StopperState]
      /\ stopper'[i].pc = "hook" /\ stopper'[i].session = s /\ stopper'[i].saw = saw
      /\ \A j \in Stoppers : j # i => stopper'[j] = stopper[j]
  <2>1. stopper' = [stopper EXCEPT ![i] = [pc |-> "hook", session |-> s, saw |-> saw]]
    BY DEF Interrupted
  <2>. QED  BY <1>1, <2>1 DEF StopperState
<1>3. /\ cancelled' \in [Sessions -> BOOLEAN] /\ cancelled'[s]
      /\ \A u \in Sessions : u # s => cancelled'[u] = cancelled[u]
  BY <1>1 DEF Interrupted
<1>4. /\ history' \in [Sessions -> HistoryState]
      /\ \A u \in Sessions : /\ history'[u].turns = history[u].turns
                             /\ history'[u].finished = history[u].finished
                             /\ history'[u].unstarted = history[u].unstarted
  <2>1. h.turns \in 1..MaxTurns
    BY <1>1, Bounds DEF SInv, EndsTold, HistoryState
  <2>2. history' = [history EXCEPT ![s] = [h EXCEPT !.interrupted = @ \cup {h.turns}]]
    BY <1>1 DEF Interrupted
  <2>3. /\ [h EXCEPT !.interrupted = @ \cup {h.turns}] \in HistoryState
        /\ [h EXCEPT !.interrupted = @ \cup {h.turns}].turns = h.turns
        /\ [h EXCEPT !.interrupted = @ \cup {h.turns}].finished = h.finished
        /\ [h EXCEPT !.interrupted = @ \cup {h.turns}].unstarted = h.unstarted
    BY <1>1, <2>1 DEF HistoryState
  <2>. QED  BY <1>1, <2>2, <2>3
<1>5. TypeOK'
  BY <1>1, <1>2, <1>3, <1>4 DEF TypeOK, StopperState, HistoryState
<1>6. PermitsCount' /\ PromptsCount'
  BY <1>1 DEF TInv, PermitsCount, PromptsCount
<1>7. ASSUME NEW u \in Sessions PROVE SInv(u)'
  <2>1. SInv(u)
    BY DEF TInv
  <2>2. StepsCount(u)' /\ OneTurn(u)' /\ AgentThere(u)' /\ PromptIsOwn(u)'
    BY <1>1, <2>1 DEF SInv, StepsCount, OneTurn, AgentThere, PromptIsOwn
  <2>3. EndsTold(u)'
    BY <1>1, <1>4, <2>1 DEF SInv, EndsTold
  <2>4. StopperComes(u)'
    <3>1. CASE u = s
      BY <1>2, <3>1 DEF StopperComes, Before
    <3>2. CASE u # s
      <4>1. ASSUME NEW kind \in Kinds, cancelled[u], PendingOf(u, kind) # {}
            PROVE  \E j \in Stoppers : /\ stopper'[j].session = u
                                       /\ stopper'[j].pc \in Before(kind)
        <5>1. PICK j \in Stoppers : stopper[j].session = u /\ stopper[j].pc \in Before(kind)
          BY <2>1, <4>1 DEF SInv, StopperComes
        <5>2. j # i
          BY <5>1 DEF Before
        <5>. QED  BY <1>2, <5>1, <5>2
      <4>. QED  BY <1>1, <1>3, <3>2, <4>1 DEF StopperComes, PendingOf
    <3>. QED  BY <3>1, <3>2
  <2>5. HookComes(u)'
    <3>1. CASE u = s
      <4>1. Early(s) => saw
        BY <2>1, <3>1 DEF SInv, AgentThere, Early
      <4>. QED  BY <1>1, <1>2, <3>1, <4>1 DEF HookComes, Early
    <3>2. CASE u # s
      <4>1. ASSUME Early(u), cancelled[u], ~flag[u]
            PROVE  \E j \in Stoppers : /\ stopper'[j].pc = "hook" /\ stopper'[j].saw
                                       /\ stopper'[j].session = u
        <5>1. PICK j \in Stoppers : stopper[j].pc = "hook" /\ stopper[j].saw
                                    /\ stopper[j].session = u
          BY <2>1, <4>1 DEF SInv, HookComes
        <5>. QED  BY <1>2, <5>1
      <4>. QED  BY <1>1, <1>3, <3>2, <4>1 DEF HookComes, Early
    <3>. QED  BY <3>1, <3>2
  <2>. QED  BY <2>2, <2>3, <2>4, <2>5 DEF SInv
<1>. QED  BY <1>5, <1>6, <1>7 DEF TInv

LEMMA HookAgentTInv ==
  ASSUME TInv, NEW i \in Stoppers, HookAgent(i)
  PROVE  TInv'
<1> DEFINE v == stopper[i]
<1>1. /\ TypeOK /\ stopper \in [Stoppers -> StopperState] /\ v \in StopperState
      /\ v.pc = "hook" /\ flag \in [Sessions -> BOOLEAN]
      /\ UNCHANGED <<life, busy, closed, cancelled, agent, active, sender, worker, prompt,
                     asked, pending, client, closing, history>>
  BY DEF TInv, TypeOK, HookAgent, turnVars, StopperState
<1>2. /\ stopper' \in [Stoppers -> StopperState]
      /\ stopper'[i].pc = "permission" /\ stopper'[i].session = v.session
      /\ \A j \in Stoppers : j # i => stopper'[j] = stopper[j]
  BY <1>1 DEF HookAgent, StopperState
<1>3. v.session \in Sessions /\ v.saw \in BOOLEAN
  BY <1>1 DEF StopperState
<1>4. /\ flag' \in [Sessions -> BOOLEAN]
      /\ \A u \in Sessions : flag[u] => flag'[u]
      /\ v.saw => flag'[v.session]
  <2>1. CASE v.saw
    BY <1>1, <1>3, <2>1 DEF HookAgent
  <2>2. CASE ~v.saw
    BY <1>1, <1>3, <2>2 DEF HookAgent
  <2>. QED  BY <2>1, <2>2
<1>5. TypeOK' /\ PermitsCount' /\ PromptsCount'
  BY <1>1, <1>2, <1>4 DEF TypeOK, StopperState, TInv, PermitsCount, PromptsCount
<1>6. ASSUME NEW u \in Sessions PROVE SInv(u)'
  <2>1. SInv(u)
    BY DEF TInv
  <2>2. StepsCount(u)' /\ OneTurn(u)' /\ AgentThere(u)' /\ EndsTold(u)' /\ Quieted(u)'
    BY <1>1, <2>1, OtherParts
  <2>3. PromptIsOwn(u)'
    BY <1>1, <2>1 DEF SInv, PromptIsOwn
  <2>4. StopperComes(u)'
    <3>1. ASSUME NEW kind \in Kinds, cancelled[u], PendingOf(u, kind) # {}
          PROVE  \E j \in Stoppers : /\ stopper'[j].session = u
                                     /\ stopper'[j].pc \in Before(kind)
      <4>1. PICK j \in Stoppers : stopper[j].session = u /\ stopper[j].pc \in Before(kind)
        BY <2>1, <3>1 DEF SInv, StopperComes
      <4>. QED  BY <1>2, <4>1 DEF Before
    <3>. QED  BY <1>1, <3>1 DEF StopperComes, PendingOf
  <2>5. HookComes(u)'
    <3>1. ASSUME Early(u), cancelled[u], ~flag'[u]
          PROVE  \E j \in Stoppers : /\ stopper'[j].pc = "hook" /\ stopper'[j].saw
                                     /\ stopper'[j].session = u
      <4>1. PICK j \in Stoppers : stopper[j].pc = "hook" /\ stopper[j].saw
                                  /\ stopper[j].session = u
        BY <1>4, <2>1, <3>1 DEF SInv, HookComes
      <4>2. j # i
        BY <1>4, <3>1, <4>1
      <4>. QED  BY <1>2, <4>1, <4>2
    <3>. QED  BY <1>1, <3>1 DEF HookComes, Early
  <2>. QED  BY <2>2, <2>3, <2>4, <2>5 DEF SInv
<1>. QED  BY <1>5, <1>6 DEF TInv

(* A kind of prompt of one session is released. *)
LEMMA ReleaseTInv ==
  ASSUME TInv, NEW i \in Stoppers, ReleaseWaiters(i)
  PROVE  TInv'
<1> DEFINE v        == stopper[i]
           released == PendingOf(v.session, v.pc)
<1>1. /\ TypeOK /\ stopper \in [Stoppers -> StopperState] /\ v \in StopperState
      /\ v.pc \in Kinds /\ prompt \in [PromptIds -> PromptState] /\ pending \subseteq PromptIds
      /\ UNCHANGED <<life, busy, closed, cancelled, agent, flag, active, sender, worker,
                     asked, client, closing, history>>
  BY DEF TInv, TypeOK, ReleaseWaiters, StopperState, PromptState
<1>2. /\ stopper' \in [Stoppers -> StopperState]
      /\ v.pc = "permission" => stopper'[i].pc = "ask" /\ stopper'[i].session = v.session
      /\ \A j \in Stoppers : j # i => stopper'[j] = stopper[j]
  <2>1. NotCalled \in StopperState
    BY TurnsAssumption DEF NotCalled, StopperState
  <2>. QED  BY <1>1, <2>1 DEF ReleaseWaiters, StopperState
<1>3. /\ prompt' \in [PromptIds -> PromptState] /\ pending' = pending \ released
      /\ \A r \in PromptIds : /\ prompt'[r].session = prompt[r].session
                            /\ prompt'[r].kind = prompt[r].kind
                            /\ prompt'[r].done = (prompt[r].done \/ r \in released)
  <2>1. /\ pending' = pending \ released
        /\ prompt' = [r \in PromptIds |->
             IF r \in released
               THEN [prompt[r] EXCEPT !.done = TRUE, !.decision = "denied"] ELSE prompt[r]]
    BY DEF ReleaseWaiters
  <2> HIDE DEF released
  <2>2. ASSUME NEW r \in PromptIds
        PROVE  /\ prompt'[r] \in PromptState
               /\ prompt'[r].session = prompt[r].session /\ prompt'[r].kind = prompt[r].kind
               /\ prompt'[r].done = (prompt[r].done \/ r \in released)
    <3>1. prompt[r] \in PromptState /\ prompt[r].done \in BOOLEAN
      BY <1>1 DEF PromptState
    <3>2. CASE r \in released
      BY <2>1, <3>1, <3>2 DEF PromptState, Decisions
    <3>3. CASE r \notin released
      BY <2>1, <3>1, <3>3
    <3>. QED  BY <3>2, <3>3
  <2>. QED  BY <2>1, <2>2
<1>4. TypeOK' /\ PermitsCount'
  BY <1>1, <1>2, <1>3 DEF TypeOK, StopperState, PromptState, TInv, PermitsCount
<1>5. /\ PromptsCount'
      /\ \A u \in Sessions, kind \in Kinds : PendingOf(u, kind)' \subseteq PendingOf(u, kind)
      /\ \A u \in Sessions : PromptIsOwn(u)'
  <2>1. \A r \in PromptIds :
          r \in pending \/ prompt[r].done \/ (\E c \in Clients : client[c].prompt = r)
            => Handled(r)
    BY <1>1, <1>3 DEF Handled
  <2>. QED  BY <1>1, <1>3, <2>1, PromptsGoOn
<1>6. \A u \in Sessions, kind \in Kinds :
        u = v.session /\ kind = v.pc => PendingOf(u, kind)' = {}
  BY <1>1, <1>3 DEF PendingOf
<1>7. ASSUME NEW u \in Sessions PROVE SInv(u)'
  <2>1. SInv(u)
    BY DEF TInv
  <2>2. StepsCount(u)' /\ OneTurn(u)' /\ AgentThere(u)' /\ EndsTold(u)' /\ Quieted(u)'
    BY <1>1, <2>1, OtherParts
  <2>3. StopperComes(u)'
    <3>1. ASSUME NEW kind \in Kinds, cancelled[u], PendingOf(u, kind)' # {}
          PROVE  \E j \in Stoppers : /\ stopper'[j].session = u
                                     /\ stopper'[j].pc \in Before(kind)
      <4>1. PICK j \in Stoppers : stopper[j].session = u /\ stopper[j].pc \in Before(kind)
        BY <1>5, <2>1, <3>1 DEF SInv, StopperComes
      <4>2. CASE j # i
        BY <1>2, <4>1, <4>2
      <4>3. CASE j = i
        <5>1. u = v.session /\ v.pc \in Before(kind) /\ kind # v.pc
          BY <1>6, <3>1, <4>1, <4>3
        <5>2. v.pc = "permission" /\ kind = "ask"
          BY <1>1, <5>1 DEF Before, Kinds
        <5>. QED  BY <1>2, <5>1, <5>2 DEF Before
      <4>. QED  BY <4>2, <4>3
    <3>. QED  BY <1>1, <3>1 DEF StopperComes
  <2>4. HookComes(u)'
    <3>1. ASSUME Early(u), cancelled[u], ~flag[u]
          PROVE  \E j \in Stoppers : /\ stopper'[j].pc = "hook" /\ stopper'[j].saw
                                     /\ stopper'[j].session = u
      <4>1. PICK j \in Stoppers : stopper[j].pc = "hook" /\ stopper[j].saw
                                  /\ stopper[j].session = u
        BY <2>1, <3>1 DEF SInv, HookComes
      <4>2. j # i
        BY <1>1, <4>1 DEF Kinds
      <4>. QED  BY <1>2, <4>1, <4>2
    <3>. QED  BY <1>1, <3>1 DEF HookComes, Early
  <2>. QED  BY <1>5, <2>2, <2>3, <2>4 DEF SInv
<1>. QED  BY <1>4, <1>5, <1>7 DEF TInv

----------------------------------------------------------------------------
(* delete_session and shutdown *)

ClosingState ==
  [pc : {"off", "quiesce", "interrupt", "drain", "done"}, todo : SUBSET Sessions]

(* Sessions are closed and deleted, and only idle ones are deleted. *)
LEMMA ClosesTInv ==
  ASSUME TInv, UNCHANGED <<busy, cancelled, agent, flag, active, turnVars, client, stopper,
                           history>>,
         life' \in [Sessions -> {"new", "open", "deleted"}],
         closed' \in [Sessions -> BOOLEAN], closing' \in ClosingState,
         \A u \in Sessions :
           /\ life'[u] = life[u] \/ (life'[u] = "deleted" /\ ~busy[u] /\ closed'[u])
           /\ closed[u] => closed'[u]
           /\ Quieted(u)'
  PROVE  TInv'
<1>1. TypeOK /\ UNCHANGED <<sender, worker, prompt, asked, pending>>
  BY DEF TInv, turnVars
<1>2. TypeOK' /\ PermitsCount' /\ PromptsCount'
  BY <1>1 DEF TypeOK, ClosingState, TInv, PermitsCount, PromptsCount
<1>3. ASSUME NEW u \in Sessions PROVE SInv(u)'
  <2>1. SInv(u)
    BY DEF TInv
  <2>2. StepsCount(u)' /\ OneTurn(u)' /\ AgentThere(u)' /\ EndsTold(u)'
    BY <1>1, <2>1 DEF SInv, StepsCount, OneTurn, AgentThere, EndsTold
  <2>3. PromptIsOwn(u)' /\ StopperComes(u)' /\ HookComes(u)'
    BY <1>1, <2>1 DEF SInv, PromptIsOwn, StopperComes, PendingOf, HookComes, Early
  <2>. QED  BY <2>2, <2>3 DEF SInv
<1>. QED  BY <1>2, <1>3 DEF TInv

LEMMA DeleteTInv ==
  ASSUME TInv, NEW s \in Sessions, Delete(s),
         UNCHANGED <<busy, cancelled, agent, flag, active, turnVars, client, stopper, history>>,
         closing' = closing \/ (closing.pc = "drain" /\ Visited(s))
  PROVE  TInv'
<1>1. /\ life \in [Sessions -> {"new", "open", "deleted"}] /\ closed \in [Sessions -> BOOLEAN]
      /\ closing \in ClosingState
  BY DEF TInv, TypeOK, ClosingState
<1>2. /\ life' \in [Sessions -> {"new", "open", "deleted"}] /\ closed' \in [Sessions -> BOOLEAN]
      /\ life'[s] = "deleted" /\ closed'[s] /\ ~busy[s]
      /\ \A u \in Sessions : u # s => life'[u] = life[u] /\ closed'[u] = closed[u]
  BY <1>1 DEF Delete, Deletable
<1>3. /\ closing' \in ClosingState /\ closing'.pc = closing.pc
      /\ closing.pc = "quiesce" => closing'.todo = closing.todo
  BY <1>1 DEF ClosingState, Visited
<1>4. \A u \in Sessions : Quieted(u)'
  BY <1>2, <1>3 DEF TInv, SInv, Quieted
<1>. QED  BY <1>2, <1>3, <1>4, ClosesTInv

LEMMA ShutdownTInv ==
  ASSUME TInv,
         \/ ShutDown \/ NextPhase
         \/ \E s \in Sessions : DeleteSession(s) \/ Quiesce(s) \/ Drain(s)
  PROVE  TInv'
<1> DEFINE open == {u \in Sessions : life[u] = "open"}
<1>1. /\ life \in [Sessions -> {"new", "open", "deleted"}] /\ closed \in [Sessions -> BOOLEAN]
      /\ closing \in ClosingState /\ open \subseteq Sessions
      /\ \A u \in Sessions : Quieted(u) /\ OneTurn(u)
  BY DEF TInv, TypeOK, SInv, ClosingState
<1>2. ASSUME ShutDown PROVE TInv'
  <2>1. closing' = [pc |-> "quiesce", todo |-> open] /\ life' = life /\ closed' = closed
    BY <1>2 DEF ShutDown
  <2>2. closing' \in ClosingState /\ closing'.pc = "quiesce" /\ closing'.todo = open
    BY <1>1, <2>1 DEF ClosingState
  <2>3. \A u \in Sessions : Quieted(u)'
    BY <1>1, <2>1, <2>2 DEF Quieted, OneTurn
  <2>. QED  BY <1>1, <1>2, <2>1, <2>2, <2>3, ClosesTInv DEF ShutDown
<1>3. ASSUME NextPhase PROVE TInv'
  <2>1. /\ closing.pc \in {"quiesce", "interrupt", "drain"} /\ closing.todo = {}
        /\ life' = life /\ closed' = closed
    BY <1>3 DEF NextPhase
  <2>2. closing' \in ClosingState /\ closing'.pc \in {"interrupt", "drain", "done"}
    <3>1. CASE closing.pc = "quiesce"
      BY <1>1, <1>3, <3>1 DEF NextPhase, ClosingState
    <3>2. CASE closing.pc = "interrupt"
      BY <1>1, <1>3, <3>2 DEF NextPhase, ClosingState
    <3>3. CASE closing.pc = "drain"
      BY <1>1, <1>3, <3>3 DEF NextPhase, ClosingState
    <3>. QED  BY <2>1, <3>1, <3>2, <3>3
  <2>3. \A u \in Sessions : Quieted(u)'
    BY <1>1, <2>1, <2>2 DEF Quieted
  <2>. QED  BY <1>1, <1>3, <2>1, <2>2, <2>3, ClosesTInv DEF NextPhase
<1>4. ASSUME NEW s \in Sessions, DeleteSession(s) PROVE TInv'
  BY <1>4, DeleteTInv DEF DeleteSession
<1>5. ASSUME NEW s \in Sessions, Quiesce(s) PROVE TInv'
  <2>1. /\ closed' \in [Sessions -> BOOLEAN] /\ closed'[s] /\ life' = life
        /\ \A u \in Sessions : u # s => closed'[u] = closed[u]
    BY <1>1, <1>5 DEF Quiesce
  <2>2. /\ closing' \in ClosingState /\ closing'.pc = "quiesce"
        /\ closing'.todo = closing.todo \ {s} /\ closing.pc = "quiesce"
    BY <1>1, <1>5 DEF Quiesce, Visited, ClosingState
  <2>3. \A u \in Sessions : Quieted(u)'
    BY <1>1, <2>1, <2>2 DEF Quieted
  <2>. QED  BY <1>1, <1>5, <2>1, <2>2, <2>3, ClosesTInv DEF Quiesce
<1>6. ASSUME NEW s \in Sessions, Drain(s) PROVE TInv'
  <2>1. CASE Deletable(s)
    BY <1>6, <2>1, DeleteTInv DEF Drain
  <2>2. CASE ~Deletable(s)
    <3>1. closed' = closed /\ life' = life /\ closing.pc = "drain"
      BY <1>6, <2>2 DEF Drain
    <3>2. closing' \in ClosingState /\ closing'.pc = "drain"
      BY <1>1, <1>6, <3>1 DEF Drain, Visited, ClosingState
    <3>3. \A u \in Sessions : Quieted(u)'
      BY <1>1, <3>1, <3>2 DEF Quieted
    <3>. QED  BY <1>1, <1>6, <3>1, <3>2, <3>3, ClosesTInv DEF Drain
  <2>. QED  BY <2>1, <2>2
<1>. QED  BY <1>2, <1>3, <1>4, <1>5, <1>6

(* shutdown interrupts the sessions that still run. *)
LEMMA ShutdownInterruptTInv ==
  ASSUME TInv, NEW s \in Sessions, ShutDownInterrupts(s)
  PROVE  TInv'
<1>1. closing \in ClosingState /\ \A u \in Sessions : Quieted(u)
  BY DEF TInv, TypeOK, SInv, ClosingState
<1>2. closing' \in ClosingState /\ closing'.pc = "interrupt" /\ closing.pc = "interrupt"
  BY <1>1 DEF ShutDownInterrupts, Visited, ClosingState
<1>3. \A u \in Sessions : Quieted(u)'
  BY <1>1, <1>2 DEF ShutDownInterrupts, Quieted
<1>4. CASE busy[s]
  BY <1>2, <1>3, <1>4, InterruptedTInv, TurnsAssumption DEF ShutDownInterrupts, ClosingState
<1>5. CASE ~busy[s]
  <2>1. UNCHANGED <<busy, cancelled, agent, flag, active, turnVars, client, stopper, history,
                    life, closed>>
    BY <1>5 DEF ShutDownInterrupts
  <2>2. life' \in [Sessions -> {"new", "open", "deleted"}] /\ closed' \in [Sessions -> BOOLEAN]
    BY <2>1 DEF TInv, TypeOK
  <2>. QED  BY <1>2, <1>3, <2>1, <2>2, ClosesTInv
<1>. QED  BY <1>4, <1>5

LEMMA CloseTInv ==
  ASSUME TInv, NEW s \in Sessions, CloseDeleted(s)
  PROVE  TInv'
<1>1. /\ TypeOK /\ SInv(s) /\ prompt \in [PromptIds -> PromptState] /\ pending \subseteq PromptIds
      /\ UNCHANGED <<life, busy, closed, flag, active, sender, worker, asked, client,
                     stopper, closing, history>>
  BY Types DEF TInv, TypeOK, CloseDeleted, turnVars
<1>2. sender[s] = "none" /\ worker[s].pc = "none"
  BY <1>1 DEF SInv, OneTurn, CloseDeleted
<1>3. /\ cancelled' \in [Sessions -> BOOLEAN] /\ agent' \in [Sessions -> {"none", "open", "closed"}]
      /\ \A u \in Sessions : u # s => cancelled'[u] = cancelled[u] /\ agent'[u] = agent[u]
  BY <1>1 DEF CloseDeleted, TypeOK
<1> DEFINE mine == {r \in pending : prompt[r].session = s}
<1>4. /\ prompt' \in [PromptIds -> PromptState] /\ pending' = pending \ mine
      /\ \A r \in PromptIds : /\ prompt'[r].session = prompt[r].session
                            /\ prompt'[r].kind = prompt[r].kind
                            /\ prompt'[r].done = (prompt[r].done \/ r \in mine)
  <2>1. PendingOf(s, "permission") \cup PendingOf(s, "ask") = mine
    BY <1>1 DEF PendingOf, PromptState, Kinds
  <2>2. /\ pending' = pending \ mine
        /\ prompt' = [r \in PromptIds |->
             IF r \in mine
               THEN [prompt[r] EXCEPT !.done = TRUE, !.decision = "denied"] ELSE prompt[r]]
    BY <2>1 DEF CloseDeleted
  <2> HIDE DEF mine
  <2>3. ASSUME NEW r \in PromptIds
        PROVE  /\ prompt'[r] \in PromptState
               /\ prompt'[r].session = prompt[r].session /\ prompt'[r].kind = prompt[r].kind
               /\ prompt'[r].done = (prompt[r].done \/ r \in mine)
    <3>1. prompt[r] \in PromptState /\ prompt[r].done \in BOOLEAN
      BY <1>1 DEF PromptState
    <3>2. CASE r \in mine
      BY <2>2, <3>1, <3>2 DEF PromptState, Decisions
    <3>3. CASE r \notin mine
      BY <2>2, <3>1, <3>3
    <3>. QED  BY <3>2, <3>3
  <2>. QED  BY <2>2, <2>3
<1>5. TypeOK' /\ PermitsCount'
  BY <1>1, <1>3, <1>4 DEF TypeOK, PromptState, TInv, PermitsCount
<1>6. /\ PromptsCount'
      /\ \A u \in Sessions, kind \in Kinds : PendingOf(u, kind)' \subseteq PendingOf(u, kind)
      /\ \A u \in Sessions : PromptIsOwn(u)'
  <2>1. \A r \in PromptIds :
          r \in pending \/ prompt[r].done \/ (\E c \in Clients : client[c].prompt = r)
            => Handled(r)
    BY <1>1, <1>4 DEF Handled
  <2>. QED  BY <1>1, <1>4, <2>1, PromptsGoOn
<1>7. ASSUME NEW u \in Sessions PROVE SInv(u)'
  <2>1. SInv(u)
    BY DEF TInv
  <2>2. StepsCount(u)' /\ OneTurn(u)' /\ EndsTold(u)' /\ Quieted(u)'
    BY <1>1, <2>1 DEF SInv, StepsCount, OneTurn, EndsTold, Quieted
  <2>3. AgentThere(u)'
    BY <1>1, <1>2, <1>3, <2>1 DEF SInv, AgentThere
  <2>4. StopperComes(u)'
    <3>1. CASE u = s
      BY <1>1, <1>4, <3>1 DEF StopperComes, PendingOf
    <3>2. CASE u # s
      BY <1>1, <1>3, <1>6, <2>1, <3>2 DEF SInv, StopperComes
    <3>. QED  BY <3>1, <3>2
  <2>5. HookComes(u)'
    <3>1. CASE u = s
      BY <1>1, <1>2, <3>1 DEF HookComes, Early
    <3>2. CASE u # s
      BY <1>1, <1>3, <2>1, <3>2 DEF SInv, HookComes, Early
    <3>. QED  BY <3>1, <3>2
  <2>. QED  BY <1>6, <2>2, <2>3, <2>4, <2>5 DEF SInv
<1>. QED  BY <1>5, <1>6, <1>7 DEF TInv

----------------------------------------------------------------------------
(* Every step, and what follows. *)

LEMMA NextTInv == TInv /\ [Next]_vars => TInv'
<1> SUFFICES ASSUME TInv, [Next]_vars PROVE TInv'
  OBVIOUS
<1>1. ASSUME NEW s \in Sessions,
             \/ CreateSession(s) \/ Send(s) \/ Sender(s) \/ Worker(s) \/ WaitTimesOut(s)
             \/ DeleteSession(s) \/ CloseDeleted(s)
             \/ Quiesce(s) \/ ShutDownInterrupts(s) \/ Drain(s)
      PROVE  TInv'
  <2>1. CASE CreateSession(s) \/ Send(s)
    BY <2>1, CreateTInv, SendTInv
  <2>2. CASE Sender(s)
    BY <2>2, SenderTInv, UndoTInv DEF Sender
  <2>3. CASE Worker(s) \/ WaitTimesOut(s)
    BY <2>3, WorkerMovesTInv, RegisterTInv, VerdictTInv, ClearFlagTInv, OutcomeTInv,
       BecomeIdleTInv
    DEF Worker
  <2>4. CASE DeleteSession(s) \/ Quiesce(s) \/ Drain(s)
    BY <2>4, ShutdownTInv
  <2>5. CASE CloseDeleted(s) \/ ShutDownInterrupts(s)
    BY <2>5, CloseTInv, ShutdownInterruptTInv
  <2>. QED  BY <1>1, <2>1, <2>2, <2>3, <2>4, <2>5
<1>2. ASSUME NEW c \in Clients,
             \/ \E r \in PromptIds, d \in {"granted", "denied"} : PopPrompt(c, r, d)
             \/ Answer(c)
      PROVE  TInv'
  BY <1>2, ClientTInv
<1>3. ASSUME NEW i \in Stoppers, Stopper(i) PROVE TInv'
  BY <1>3, HookAgentTInv, ReleaseTInv DEF Stopper
<1>4. ASSUME NEW i \in Stoppers, NEW s \in Sessions, Interrupt(i, s) PROVE TInv'
  <2>1. /\ closing' = closing /\ life' = life /\ closed' = closed
        /\ closing \in ClosingState /\ \A u \in Sessions : Quieted(u)
    BY <1>4 DEF Interrupt, TInv, TypeOK, SInv, ClosingState
  <2>2. \A u \in Sessions : Quieted(u)'
    BY <2>1 DEF Quieted
  <2>. QED  BY <1>4, <2>1, <2>2, InterruptedTInv DEF Interrupt, ClosingState
<1>5. CASE ShutDown \/ NextPhase
  BY <1>5, ShutdownTInv
<1>6. CASE UNCHANGED vars
  <2>1. UNCHANGED <<life, busy, closed, cancelled, agent, flag, active, sender, worker,
                    prompt, asked, pending, client, stopper, closing, history>>
    BY <1>6 DEF vars, turnVars
  <2>2. TypeOK' /\ PermitsCount' /\ PromptsCount'
    BY <2>1 DEF TInv, TypeOK, PermitsCount, PromptsCount
  <2>3. SharedKept /\ \A u \in Sessions : LocalKept(u) /\ SInv(u)
    BY <2>1 DEF SharedKept, LocalKept, TInv
  <2>4. \A u \in Sessions : SInv(u)'
    BY <2>3, KeptSInv
  <2>. QED  BY <2>2, <2>4 DEF TInv
<1>. QED  BY <1>1, <1>2, <1>3, <1>4, <1>5, <1>6 DEF Next

(* The types, and what each thread may rely on of the others, hold in every  *)
(* state: admission, the cold start, the agent thread, the prompt registry,  *)
(* interrupt and shutdown.                                                  *)
THEOREM TurnsInvariant == Spec => []TInv
<1>1. Init => TInv
  BY InitTInv
<1>2. TInv /\ [Next]_vars => TInv'
  BY NextTInv
<1>. QED  BY <1>1, <1>2, PTL DEF Spec

(* A thread that waits for the user can always be woken: its prompt is        *)
(* listed, answered or about to be (session_controller.py, the two brokers). *)
THEOREM WaitersCanBeWoken == Spec => []NoPromptIsOrphaned
<1>1. TInv => NoPromptIsOrphaned
  BY DEF TInv, SInv, PromptIsOwn, NoPromptIsOrphaned, At
<1>. QED  BY <1>1, TurnsInvariant, PTL

(* A session that is not busy has the end of every turn it started in its    *)
(* journal (the finally block of the agent thread, in this order).           *)
THEOREM EndsAreTold == Spec => []TerminalEventsBeforeIdle
<1>1. TInv => TerminalEventsBeforeIdle
  <2> SUFFICES ASSUME TInv, NEW s \in Sessions, ~busy[s]
               PROVE  history[s].finished + history[s].unstarted = history[s].turns
    BY DEF TerminalEventsBeforeIdle
  <2>1. history[s] \in HistoryState /\ EndsTold(s)
    BY Types DEF TInv, SInv
  <2>. QED  BY <2>1, Bounds DEF EndsTold, HistoryState
<1>. QED  BY <1>1, TurnsInvariant, PTL

(* The permits are counted, and a busy session is one of one turn.           *)
LEMMA PermitsFollow == TInv => AdmissionMatchesTurns
<1> SUFFICES ASSUME TInv PROVE AdmissionMatchesTurns
  OBVIOUS
<1>1. active = Cardinality({s \in Sessions : busy[s]})
  BY DEF TInv, PermitsCount
<1>2. ASSUME NEW s \in Sessions
      PROVE  /\ busy[s] <=> (sender[s] # "none") # (worker[s].pc # "none")
             /\ life[s] = "deleted" => ~busy[s] /\ worker[s].pc = "none"
  <2>1. OneTurn(s) /\ busy[s] \in BOOLEAN
    BY <1>2, Types DEF TInv, SInv
  <2>. QED  BY <2>1 DEF OneTurn
<1>. QED  BY <1>1, <1>2 DEF AdmissionMatchesTurns

(* As many permits are out as sessions are busy, a busy session has exactly   *)
(* one of a sender and an agent thread, a deleted one none.                  *)
THEOREM PermitsAreTurns == Spec => []AdmissionMatchesTurns
BY PermitsFollow, TurnsInvariant, PTL

(* Only send_message counts a turn, and it finds the session closed.         *)
LEMMA QuietStep == TInv /\ [Next]_vars => [AdmitsNoTurnOnceQuiet]_vars
<1> SUFFICES ASSUME TInv, Next, closing.pc \in {"interrupt", "drain", "done"},
                    NEW s \in Sessions
             PROVE  history'[s].turns = history[s].turns
  BY DEF AdmitsNoTurnOnceQuiet
<1> DEFINE Keeps == history'[s].turns = history[s].turns
<1>1. /\ history \in [Sessions -> HistoryState]
      /\ \A u \in Sessions : /\ life[u] = "new" \/ closed[u]
  BY DEF TInv, TypeOK, HistoryState, SInv, Quieted
<1>2. ASSUME NEW u \in Sessions, Send(u) PROVE FALSE
  BY <1>1, <1>2 DEF Send, MaySend
<1>3. ASSUME NEW u \in Sessions, Sender(u) PROVE Keeps
  BY <1>1, <1>3 DEF Sender, InitAgent, PropagateInterrupt, StartThread, Undo, HistoryState
<1>4. ASSUME NEW u \in Sessions, Worker(u) \/ WaitTimesOut(u) PROVE Keeps
  BY <1>1, <1>4
  DEF Worker, WaitTimesOut, PrepareFails, LoopTop, ModelCall, RunTools, Register, Woken,
      Expire, ReadAnswer, SettleStatus, ClearFlag, DriveGoal, SetOutcome, Publish,
      BecomeIdle, OnlyWorker, HistoryState
<1>5. ASSUME NEW u \in Sessions, NEW i \in Stoppers, Interrupted(i, u) PROVE Keeps
  BY <1>1, <1>5 DEF Interrupted, HistoryState
<1>6. ASSUME NEW u \in Sessions,
             \/ CreateSession(u) \/ DeleteSession(u) \/ CloseDeleted(u) \/ Quiesce(u)
             \/ Drain(u) \/ ShutDownInterrupts(u)
      PROVE  Keeps
  BY <1>5, <1>6, TurnsAssumption
  DEF CreateSession, DeleteSession, CloseDeleted, Quiesce, Drain, ShutDownInterrupts
<1>7. ASSUME NEW c \in Clients,
             \/ \E r \in PromptIds, d \in {"granted", "denied"} : PopPrompt(c, r, d)
             \/ Answer(c)
      PROVE  Keeps
  BY <1>7 DEF PopPrompt, Answer
<1>8. ASSUME NEW i \in Stoppers,
             Stopper(i) \/ \E u \in Sessions : Interrupt(i, u)
      PROVE  Keeps
  BY <1>5, <1>8 DEF Stopper, HookAgent, ReleaseWaiters, Interrupt
<1>9. CASE ShutDown \/ NextPhase
  BY <1>9 DEF ShutDown, NextPhase
<1>. QED  BY <1>2, <1>3, <1>4, <1>6, <1>7, <1>8, <1>9 DEF Next

(* Once shutdown has quiesced the sessions no turn is admitted any more, even *)
(* for a client that still holds a session.                                  *)
THEOREM QuietMeansQuiet == Spec => NoTurnAfterQuiesce
BY QuietStep, TurnsInvariant, PTL DEF Spec, NoTurnAfterQuiesce

(* Only the thread that asked turns an answer into a verdict, and it looks at *)
(* the signal of its own session first.                                      *)
LEMMA VerdictIsLast ==
  ASSUME TInv, Next, NEW s \in Sessions, NEW r \in PromptIds, prompt[r].session = s,
         prompt[r].verdict # "granted", prompt'[r].verdict = "granted"
  PROVE  ~cancelled[s]
<1> DEFINE Same == prompt'[r].verdict = prompt[r].verdict
<1>1. prompt \in [PromptIds -> PromptState] /\ prompt[r] \in PromptState /\ ~Same
  BY DEF TInv, TypeOK, PromptState
<1>2. ASSUME NEW u \in Sessions, ReadAnswer(u) PROVE ~cancelled[s]
  <2> DEFINE q == worker[u].prompt
             d == IF cancelled[u] THEN "denied" ELSE prompt[q].decision
  <2>1. q \in 1..asked /\ prompt[q].session = u
    BY <1>2 DEF ReadAnswer, At, TInv, SInv, PromptIsOwn
  <2>2. prompt' = [prompt EXCEPT ![q].verdict = d]
    BY <1>2 DEF ReadAnswer
  <2> HIDE DEF q, d
  <2>3. r = q
    BY <1>1, <2>2
  <2>4. prompt'[r].verdict = d
    BY <1>1, <2>2, <2>3 DEF PromptState
  <2>. QED  BY <2>1, <2>3, <2>4 DEF d
<1>3. ASSUME NEW u \in Sessions, Register(u) PROVE FALSE
  <2>1. CASE NoPrompts
    BY <1>1, <2>1 DEF NoPrompts
  <2>2. ASSUME NEW kind \in Kinds, Registered(u, kind) PROVE FALSE
    <3> DEFINE new == [NoPrompt EXCEPT !.session = u, !.kind = kind]
    <3>1. new.verdict = "none"
      BY DEF NoPrompt
    <3>2. prompt' = [prompt EXCEPT ![asked + 1] = new]
      BY <2>2 DEF Registered
    <3> HIDE DEF new
    <3>. QED  BY <1>1, <3>1, <3>2
  <2>. QED  BY <1>3, <2>1, <2>2 DEF Register
<1>4. ASSUME NEW u \in Sessions, Expire(u) PROVE FALSE
  <2> DEFINE q == worker[u].prompt
  <2>1. prompt' = [prompt EXCEPT ![q].verdict = "denied"]
    BY <1>4 DEF Expire
  <2> HIDE DEF q
  <2>. QED  BY <1>1, <2>1 DEF PromptState
<1>5. ASSUME NEW u \in Sessions,
             \/ CreateSession(u) \/ Send(u) \/ Sender(u) \/ WaitTimesOut(u) \/ DeleteSession(u)
             \/ Quiesce(u) \/ ShutDownInterrupts(u) \/ Drain(u)
      PROVE  prompt' = prompt
  BY <1>5 DEF CreateSession, Send, Sender, InitAgent, PropagateInterrupt, StartThread, Undo,
              WaitTimesOut, DeleteSession, Quiesce, ShutDownInterrupts, Drain, NoPrompts,
              turnVars
<1>6. ASSUME NEW u \in Sessions,
             \/ PrepareFails(u) \/ LoopTop(u) \/ ModelCall(u) \/ RunTools(u) \/ Woken(u)
             \/ SettleStatus(u) \/ ClearFlag(u) \/ DriveGoal(u) \/ SetOutcome(u)
             \/ Publish(u) \/ BecomeIdle(u)
      PROVE  prompt' = prompt
  BY <1>6 DEF PrepareFails, LoopTop, ModelCall, RunTools, Woken, SettleStatus, ClearFlag,
              DriveGoal, SetOutcome, Publish, BecomeIdle, NoPrompts
<1>7. ASSUME NEW u \in Sessions, CloseDeleted(u) PROVE FALSE
  <2>1. \/ prompt'[r] = prompt[r]
        \/ prompt'[r] = [prompt[r] EXCEPT !.done = TRUE, !.decision = "denied"]
    BY <1>7 DEF CloseDeleted
  <2>. QED  BY <1>1, <2>1 DEF PromptState
<1>8. ASSUME NEW c \in Clients, Answer(c) PROVE FALSE
  <2> DEFINE q == client[c].prompt
             d == client[c].decision
  <2>1. prompt' = [prompt EXCEPT ![q].done = TRUE, ![q].decision = d]
    BY <1>8 DEF Answer
  <2> HIDE DEF q, d
  <2>. QED  BY <1>1, <2>1 DEF PromptState
<1>9. ASSUME NEW i \in Stoppers, Stopper(i) PROVE FALSE
  <2>1. \/ prompt'[r] = prompt[r]
        \/ prompt'[r] = [prompt[r] EXCEPT !.done = TRUE, !.decision = "denied"]
    BY <1>9 DEF Stopper, HookAgent, ReleaseWaiters, turnVars
  <2>. QED  BY <1>1, <2>1 DEF PromptState
<1>10. ASSUME NEW c \in Clients, NEW q \in PromptIds, NEW d \in {"granted", "denied"},
              PopPrompt(c, q, d)
       PROVE  prompt' = prompt
  BY <1>10 DEF PopPrompt
<1>11. ASSUME NEW i \in Stoppers, NEW u \in Sessions, Interrupt(i, u) PROVE prompt' = prompt
  BY <1>11 DEF Interrupt, turnVars
<1>12. CASE ShutDown \/ NextPhase
  BY <1>1, <1>12 DEF ShutDown, NextPhase, turnVars
<1>. QED
  BY <1>1, <1>2, <1>3, <1>4, <1>5, <1>6, <1>7, <1>8, <1>9, <1>10, <1>11, <1>12
  DEF Next, Worker

(* An interrupt is heard wherever it finds the turn: no prompt waits once it  *)
(* returned, the first round of a turn that was being set up does not go past *)
(* the top of its loop, and no approval counts after it.                     *)
THEOREM InterruptIsHeard == Spec => InterruptsAreHeard
<1>1. TInv => InterruptLeavesNoPrompt /\ EarlyInterruptIsHeard
  <2> SUFFICES ASSUME TInv PROVE InterruptLeavesNoPrompt /\ EarlyInterruptIsHeard
    OBVIOUS
  <2>1. InterruptLeavesNoPrompt
    BY DEF TInv, SInv, StopperComes, InterruptLeavesNoPrompt, Before
  <2>2. EarlyInterruptIsHeard
    BY DEF TInv, SInv, HookComes, Early, EarlyInterruptIsHeard, At
  <2>. QED  BY <2>1, <2>2
<1>2. TInv /\ [Next]_vars =>
        [\A s \in Sessions, r \in PromptIds :
           /\ prompt[r].session = s
           /\ prompt[r].verdict # "granted" /\ prompt'[r].verdict = "granted"
           => ~cancelled[s]]_vars
  BY VerdictIsLast
<1>. QED  BY <1>1, <1>2, TurnsInvariant, PTL DEF Spec, InterruptsAreHeard, NoLateApproval
=============================================================================
