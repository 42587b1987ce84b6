------------------------------ MODULE AcpServer ------------------------------
(***************************************************************************)
(* The server an editor drives over stdio: one thread reads the lines of the *)
(* editor in order and handles them, a prompt gets a thread of its own, and  *)
(* a turn may ask the editor back and wait.  Each prompt asks at most once;  *)
(* what a question is about, and the text of the updates, is left out.       *)
(***************************************************************************)
EXTENDS Naturals, Sequences, FiniteSets

CONSTANTS
  None,
  Sessions, Prompts,
  MaxLines, MaxInbox                                                \* bounds

VARIABLES
  inbox,     \* lines the editor wrote that were not read yet
  reader,    \* the thread that reads: where it is, and lines written so far
  session,   \* AcpSession and its agent: the lock, the two flags of a cancel
  thread,    \* the thread of each prompt
  pending,   \* entries of _pending: what the editor answered, or None
  reply,     \* what the server wrote as the answer to each prompt
  history    \* per prompt: cancels read in its turn, was it overtaken, its answer, was
             \* the turn stopped

vars == <<inbox, reader, session, thread, pending, reply, history>>

Replies == {"yes", "no", "error"}

ASSUME AcpAssumption ==
  /\ MaxLines \in Nat /\ MaxInbox \in Nat
  /\ None \notin Sessions /\ None \notin Prompts /\ None \notin Replies
  /\ None \notin BOOLEAN

Fresh == [cancels |-> 0, overtaken |-> FALSE, said |-> None, took |-> None, stopped |-> FALSE]

Lines == [kind : {"prompt", "open", "cancel", "response"}, session : Sessions \cup {None},
          prompt : Prompts \cup {None}, says : Replies \cup {None}]

TypeOK ==
  /\ inbox \in Seq(Lines)
  /\ reader \in [pc : {"read", "interrupt", "closed"}, session : Sessions \cup {None},
                 lines : 0..MaxLines]
  /\ session \in [Sessions -> [open : BOOLEAN, holder : Prompts \cup {None},
                               cancelled : BOOLEAN, interrupted : BOOLEAN]]
  /\ thread \in [Prompts ->
       [pc : {"unsent", "sent", "begin", "clear", "run", "wait", "release", "failing",
              "answer", "fail", "over"},
        session : Sessions \cup {None}, asked : BOOLEAN]]
  /\ DOMAIN pending \subseteq Prompts
  /\ pending \in [DOMAIN pending -> Replies \cup {None}]
  /\ reply \in [Prompts -> Seq({"error", "cancelled", "end_turn"})]
  /\ history \in [Prompts ->
       [cancels : {0, 1}, overtaken : BOOLEAN, said : Replies \cup {None},
        took : BOOLEAN \cup {None}, stopped : BOOLEAN]]

Init ==
  /\ inbox = <<>>
  /\ reader = [pc |-> "read", session |-> None, lines |-> 0]
  /\ session = [s \in Sessions |->
       [open |-> FALSE, holder |-> None, cancelled |-> FALSE, interrupted |-> FALSE]]
  /\ thread = [p \in Prompts |-> [pc |-> "unsent", session |-> None, asked |-> FALSE]]
  /\ pending = [p \in {} |-> None]
  /\ reply = [p \in Prompts |-> <<>>]
  /\ history = [p \in Prompts |-> Fresh]

-----------------------------------------------------------------------------
(* The editor.  It may send a prompt while another runs, cancel at any time, *)
(* and answer a question late, or twice.                                    *)

Write(line) ==
  /\ reader.lines < MaxLines /\ Len(inbox) < MaxInbox
  /\ inbox' = Append(inbox, line)
  /\ reader' = [reader EXCEPT !.lines = @ + 1]

EditorPrompts(p, s) ==
  /\ thread[p].pc = "unsent"
  /\ Write([kind |-> "prompt", session |-> s, prompt |-> p, says |-> None])
  /\ thread' = [thread EXCEPT ![p] = [@ EXCEPT !.pc = "sent", !.session = s]]
  /\ UNCHANGED <<session, pending, reply, history>>

EditorWrites(kind, s) ==
  /\ Write([kind |-> kind, session |-> s, prompt |-> None, says |-> None])
  /\ UNCHANGED <<session, thread, pending, reply, history>>

EditorAnswers(p, r) ==
  /\ thread[p].asked
  /\ Write([kind |-> "response", session |-> None, prompt |-> p, says |-> r])
  /\ UNCHANGED <<session, thread, pending, reply, history>>

-----------------------------------------------------------------------------
(* The thread that reads.                                                  *)

Line == Head(inbox)
Reads(kind) == reader.pc = "read" /\ inbox # <<>> /\ Line.kind = kind /\ inbox' = Tail(inbox)

StartPrompt ==
  /\ Reads("prompt")
  /\ thread' = [thread EXCEPT ![Line.prompt].pc = "begin"]
  /\ UNCHANGED <<reader, session, pending, reply, history>>

(* session/new, or session/load of one that is not live: the agent is built  *)
(* here, or an error is answered.                                           *)
Open ==
  /\ Reads("open")
  /\ \/ session' = [session EXCEPT ![Line.session].open = TRUE]
     \/ UNCHANGED session
  /\ UNCHANGED <<reader, thread, pending, reply, history>>

(* A cancel sets the flag of the session, then that of its agent.          *)
Cancel ==
  /\ Reads("cancel")
  /\ LET s == Line.session IN
     IF session[s].open
     THEN /\ session' = [session EXCEPT ![s].cancelled = TRUE]
          /\ reader' = [reader EXCEPT !.pc = "interrupt", !.session = s]
          /\ history' = [p \in Prompts |->
               IF thread[p].session = s /\ thread[p].pc \in {"run", "wait", "release", "answer"}
               THEN [history[p] EXCEPT !.cancels = 1] ELSE history[p]]
     ELSE UNCHANGED <<session, reader, history>>
  /\ UNCHANGED <<thread, pending, reply>>

Interrupt ==
  /\ reader.pc = "interrupt"
  /\ session' = [session EXCEPT ![reader.session].interrupted = TRUE]
  /\ reader' = [reader EXCEPT !.pc = "read", !.session = None]
  /\ UNCHANGED <<inbox, thread, pending, reply, history>>

(* An answer to a question nobody waits for any more is dropped.           *)
ResolvePending ==
  /\ Reads("response")
  /\ LET p == Line.prompt IN
     IF p \in DOMAIN pending
     THEN /\ pending' = [pending EXCEPT ![p] = Line.says]
          /\ history' = [history EXCEPT ![p].said = Line.says]
     ELSE UNCHANGED <<pending, history>>
  /\ UNCHANGED <<reader, session, thread, reply>>

(* At the end of the input the agents are closed, whoever runs on them.    *)
Close ==
  /\ reader.pc = "read"
  /\ reader' = [reader EXCEPT !.pc = "closed"]
  /\ session' = [s \in Sessions |-> [session[s] EXCEPT !.open = FALSE]]
  /\ UNCHANGED <<inbox, thread, pending, reply, history>>

-----------------------------------------------------------------------------
(* The thread of a prompt.                                                 *)

At(p, pc) == thread[p].pc = pc
Goto(p, pc) == thread' = [thread EXCEPT ![p].pc = pc]
Respond(p, r) == reply' = [reply EXCEPT ![p] = Append(@, r)]
Of(p) == session[thread[p].session]
SetSession(p, s) == session' = [session EXCEPT ![thread[p].session] = s]

(* An unknown session, or one whose lock is taken, is an error.            *)
Refused(p) ==
  /\ At(p, "begin")
  /\ ~Of(p).open \/ Of(p).holder # None
  /\ Respond(p, "error") /\ Goto(p, "over")
  /\ UNCHANGED <<inbox, reader, session, pending, history>>

(* Mutant: the lock is waited for, but not held. *)
BeginUnlocked(p) ==
  /\ At(p, "begin") /\ Of(p).open /\ Of(p).holder = None
  /\ Goto(p, "clear")
  /\ UNCHANGED <<inbox, reader, session, pending, reply, history>>

BeginPrompt(p) ==
  /\ At(p, "begin") /\ Of(p).open /\ Of(p).holder = None
  /\ SetSession(p, [Of(p) EXCEPT !.holder = p])
  /\ Goto(p, "clear")
  /\ UNCHANGED <<inbox, reader, pending, reply, history>>

(* Mutant: a cancel of the turn before stays. *)
ClearNothing(p) ==
  /\ At(p, "clear")
  /\ Goto(p, "run")
  /\ UNCHANGED <<inbox, reader, session, pending, reply, history>>

ClearCancelled(p) ==
  /\ At(p, "clear")
  /\ SetSession(p, [Of(p) EXCEPT !.cancelled = FALSE])
  /\ Goto(p, "run")
  /\ history' = [q \in Prompts |->
       IF q # p /\ thread[q].session = thread[p].session /\ At(q, "answer")
       THEN [history[q] EXCEPT !.overtaken = TRUE] ELSE history[q]]
  /\ UNCHANGED <<inbox, reader, pending, reply>>

(* _request_client: the entry is there before the question is written.     *)
AskEditor(p) ==
  /\ At(p, "run") /\ ~thread[p].asked
  /\ thread' = [thread EXCEPT ![p] = [@ EXCEPT !.pc = "wait", !.asked = TRUE]]
  /\ pending' = [q \in DOMAIN pending \cup {p} |-> IF q = p THEN None ELSE pending[q]]
  /\ UNCHANGED <<inbox, reader, session, reply, history>>

Without(p) == [q \in DOMAIN pending \ {p} |-> pending[q]]

(* Anything but an answer that says so is a refusal.                       *)
(* Mutant: whatever is not a refusal counts. *)
GrantedUnlessRefused(answer) == answer # "no"

Granted(answer) == answer = "yes"

HearEditor(p) ==
  /\ At(p, "wait") /\ pending[p] # None
  /\ history' = [history EXCEPT ![p].took = Granted(pending[p])]
  /\ pending' = Without(p)
  /\ Goto(p, "run")
  /\ UNCHANGED <<inbox, reader, session, reply>>

(* The wait ends after its time, though an answer may just have come.      *)
WaitTimesOut(p) ==
  /\ At(p, "wait")
  /\ history' = [history EXCEPT ![p].took = FALSE]
  /\ pending' = Without(p)
  /\ Goto(p, "run")
  /\ UNCHANGED <<inbox, reader, session, reply>>

(* The agent sees its flag at the next step and forgets it; or it ends.    *)
TurnEnds(p) ==
  /\ At(p, "run")
  /\ SetSession(p, [Of(p) EXCEPT !.interrupted = FALSE])
  /\ Goto(p, "release")
  /\ history' = [history EXCEPT ![p].stopped = Of(p).interrupted]
  /\ UNCHANGED <<inbox, reader, pending, reply>>

TurnRaises(p) ==
  /\ At(p, "run")
  /\ Goto(p, "failing")
  /\ UNCHANGED <<inbox, reader, session, pending, reply, history>>

Release(p) ==
  /\ At(p, "release") \/ At(p, "failing")
  /\ SetSession(p, [Of(p) EXCEPT !.holder = None])
  /\ Goto(p, IF At(p, "release") THEN "answer" ELSE "fail")
  /\ UNCHANGED <<inbox, reader, pending, reply, history>>

(* The flag is read when the lock was given back.                          *)
StopReason(p) == IF Of(p).cancelled THEN "cancelled" ELSE "end_turn"

Answer(p) ==
  /\ At(p, "answer") \/ At(p, "fail")
  /\ Respond(p, IF At(p, "answer") THEN StopReason(p) ELSE "error")
  /\ Goto(p, "over")
  /\ UNCHANGED <<inbox, reader, session, pending, history>>

-----------------------------------------------------------------------------
PromptStep(p) ==
  \/ Refused(p) \/ BeginPrompt(p) \/ ClearCancelled(p)
  \/ AskEditor(p) \/ HearEditor(p) \/ WaitTimesOut(p)
  \/ TurnEnds(p) \/ TurnRaises(p) \/ Release(p) \/ Answer(p)

Next ==
  \/ \E p \in Prompts, s \in Sessions : EditorPrompts(p, s)
  \/ \E s \in Sessions, kind \in {"open", "cancel"} : EditorWrites(kind, s)
  \/ \E p \in Prompts, r \in Replies : EditorAnswers(p, r)
  \/ StartPrompt \/ Open \/ Cancel \/ Interrupt \/ ResolvePending \/ Close
  \/ \E p \in Prompts : PromptStep(p)

Spec == Init /\ [][Next]_vars

-----------------------------------------------------------------------------
Runs(s) == {p \in Prompts : thread[p].session = s
              /\ thread[p].pc \in {"clear", "run", "wait", "release", "failing"}}

(* acp.py:101-110, 9-11, 197-200: a session runs one prompt at a time; a     *)
(* prompt is answered once, "cancelled" only if a cancel of its own turn was  *)
(* read, and "end_turn" only if none was or the next prompt of an impatient  *)
(* editor cleared it; a question is granted only by the editor's own word,    *)
(* and is forgotten when nobody waits for it.  (And the types.)              *)
PromptsAreAnsweredTruly ==
  /\ TypeOK
  /\ \A s \in Sessions : Cardinality(Runs(s)) <= 1
  /\ \A p \in Prompts :
       /\ Len(reply[p]) <= 1 /\ (thread[p].pc = "over" <=> reply[p] # <<>>)
       /\ reply[p] = <<"cancelled">> => history[p].cancels > 0
       /\ reply[p] = <<"end_turn">> => history[p].cancels = 0 \/ history[p].overtaken
       /\ history[p].took = TRUE => history[p].said = "yes"
       /\ p \in DOMAIN pending <=> At(p, "wait")

(* acp.py:106, "A cancel delivered while idle must not poison this turn": a   *)
(* turn is stopped only if a cancel was read in it.  It does not hold, for   *)
(* the flag of the agent stays set; no run checks it.                        *)
IdleCancelsPoisonNoTurn == \A p \in Prompts : history[p].stopped => history[p].cancels > 0

=============================================================================
