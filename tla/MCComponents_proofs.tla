------------------------- MODULE MCComponents_proofs -------------------------
(***************************************************************************)
(* Proofs about components of MCComponents, one after the other: the ACP    *)
(* server, the shell command, the subagent, the client of an MCP server and  *)
(* its registration, the sessions that share the admission, the tool catalog, *)
(* the plugins, and the pool of micro-VMs.                                 *)
(* A component has lemmas about its steps, each of which keeps its          *)
(* inductive invariant, and then the theorem about the property that the    *)
(* run checks.                                                              *)
(***************************************************************************)
EXTENDS MCComponents, FiniteSetTheorems, SequenceTheorems, TLAPS

-----------------------------------------------------------------------------
(* AcpServer: whatever the editor writes, and however the reading thread and  *)
(* the threads of the prompts interleave, a session runs one prompt at a      *)
(* time and each prompt is answered once, and truly.                        *)

(* The strengthening, in parts. *)

Holding == {"clear", "run", "wait", "release", "failing"}
Unstarted == {"unsent", "sent", "begin"}

(* A line names what its kind is about, and a prompt is in one line until    *)
(* its thread starts.                                                       *)
IsWhole(line, threads) ==
  /\ line.kind # "response" => line.session \in Sessions
  /\ line.kind = "prompt" => line.prompt \in Prompts /\ threads[line.prompt].pc = "sent"
  /\ line.kind = "response" => line.prompt \in Prompts /\ line.says \in Replies

LinesAreWhole ==
  /\ \A i \in DOMAIN inbox : IsWhole(inbox[i], thread)
  /\ \A i, j \in DOMAIN inbox :
       inbox[i].kind = "prompt" /\ inbox[j].kind = "prompt" /\ i # j =>
         inbox[i].prompt # inbox[j].prompt

ReaderStands == reader.pc = "interrupt" => reader.session \in Sessions

(* A thread knows its session, and holds its lock where it says so.          *)
HoldsLock(p) ==
  /\ thread[p].pc # "unsent" => thread[p].session \in Sessions
  /\ thread[p].pc \in Holding => session[thread[p].session].holder = p

(* A prompt has its one answer when its thread is over.                      *)
AnsweredOnce(p) ==
  /\ thread[p].pc # "over" => reply[p] = <<>>
  /\ thread[p].pc = "over" => \E r \in {"error", "cancelled", "end_turn"} : reply[p] = <<r>>

(* The flag of the session is that of the turn, until another turn clears it. *)
FlagIsOfTurn(p) ==
  /\ thread[p].pc \in Unstarted \cup {"clear"} => history[p].cancels = 0
  /\ thread[p].pc \in {"run", "wait", "release"} =>
       (session[thread[p].session].cancelled <=> history[p].cancels > 0)
  /\ thread[p].pc = "answer" =>
       /\ session[thread[p].session].cancelled => history[p].cancels > 0
       /\ history[p].cancels > 0 =>
            session[thread[p].session].cancelled \/ history[p].overtaken
  /\ reply[p] = <<"cancelled">> => history[p].cancels > 0
  /\ reply[p] = <<"end_turn">> => history[p].cancels = 0 \/ history[p].overtaken

(* A question is open while its thread waits, and asked once.                *)
AsksOnce(p) ==
  /\ p \in DOMAIN pending <=> thread[p].pc = "wait"
  /\ thread[p].pc = "wait" => thread[p].asked /\ history[p].took = None
  /\ ~thread[p].asked => history[p].took = None
  /\ p \in DOMAIN pending /\ pending[p] # None => history[p].said = pending[p]
  /\ history[p].took = TRUE => history[p].said = "yes"

PInv(p) == HoldsLock(p) /\ AnsweredOnce(p) /\ FlagIsOfTurn(p) /\ AsksOnce(p)

AInv == TypeOK /\ LinesAreWhole /\ ReaderStands /\ \A p \in Prompts : PInv(p)

-----------------------------------------------------------------------------
(* Types and frames. *)

ReaderState == [pc : {"read", "interrupt", "closed"}, session : Sessions \cup {None},
                lines : 0..MaxLines]
SessionState == [open : BOOLEAN, holder : Prompts \cup {None},
                 cancelled : BOOLEAN, interrupted : BOOLEAN]
ThreadState ==
  [pc : {"unsent", "sent", "begin", "clear", "run", "wait", "release", "failing",
         "answer", "fail", "over"},
   session : Sessions \cup {None}, asked : BOOLEAN]
HistoryState ==
  [cancels : {0, 1}, overtaken : BOOLEAN, said : Replies \cup {None},
   took : BOOLEAN \cup {None}, stopped : BOOLEAN]
Answers == {"error", "cancelled", "end_turn"}

LEMMA AcpTypes ==
  TypeOK <=>
    /\ inbox \in Seq(Lines) /\ reader \in ReaderState
    /\ session \in [Sessions -> SessionState] /\ thread \in [Prompts -> ThreadState]
    /\ DOMAIN pending \subseteq Prompts
    /\ pending \in [DOMAIN pending -> Replies \cup {None}]
    /\ reply \in [Prompts -> Seq(Answers)] /\ history \in [Prompts -> HistoryState]
BY DEF TypeOK, ReaderState, SessionState, ThreadState, HistoryState, Answers

LEMMA AcpTypesNext ==
  TypeOK' <=>
    /\ inbox' \in Seq(Lines) /\ reader' \in ReaderState
    /\ session' \in [Sessions -> SessionState] /\ thread' \in [Prompts -> ThreadState]
    /\ DOMAIN pending' \subseteq Prompts
    /\ pending' \in [DOMAIN pending' -> Replies \cup {None}]
    /\ reply' \in [Prompts -> Seq(Answers)] /\ history' \in [Prompts -> HistoryState]
BY DEF TypeOK, ReaderState, SessionState, ThreadState, HistoryState, Answers

(* Whom a step leaves alone keeps its invariant. *)
SameTo(p) ==
  /\ thread'[p] = thread[p] /\ reply'[p] = reply[p] /\ history'[p] = history[p]
  /\ p \in DOMAIN pending' <=> p \in DOMAIN pending
  /\ p \in DOMAIN pending => pending'[p] = pending[p]

LEMMA LeftAlone ==
  ASSUME NEW p, PInv(p), SameTo(p),
         thread[p].pc # "unsent" =>
           /\ thread[p].pc \in Holding =>
                session'[thread[p].session].holder = session[thread[p].session].holder
           /\ session'[thread[p].session].cancelled = session[thread[p].session].cancelled
  PROVE  PInv(p)'
<1>1. HoldsLock(p)'
  BY DEF PInv, HoldsLock, SameTo, Holding
<1>2. AnsweredOnce(p)'
  BY DEF PInv, AnsweredOnce, SameTo
<1>3. FlagIsOfTurn(p)'
  BY DEF PInv, FlagIsOfTurn, SameTo, Unstarted
<1>4. AsksOnce(p)'
  BY DEF PInv, AsksOnce, SameTo
<1>. QED  BY <1>1, <1>2, <1>3, <1>4 DEF PInv

(* Lines are read in order and written at the end. *)
LEMMA TailOfLines ==
  ASSUME NEW S, NEW s \in Seq(S), s # <<>>
  PROVE  /\ Tail(s) \in Seq(S) /\ Head(s) = s[1] /\ 1 \in DOMAIN s
         /\ \A i \in DOMAIN Tail(s) : i + 1 \in DOMAIN s /\ Tail(s)[i] = s[i + 1] /\ i + 1 # 1
         /\ \A i, j \in DOMAIN Tail(s) : i # j => i + 1 # j + 1
OBVIOUS

LEMMA AppendToLines ==
  ASSUME NEW S, NEW s \in Seq(S), NEW x \in S
  PROVE  /\ Append(s, x) \in Seq(S)
         /\ \A i \in DOMAIN Append(s, x) :
              (i \in DOMAIN s /\ Append(s, x)[i] = s[i]) \/ (i \notin DOMAIN s /\ Append(s, x)[i] = x)
         /\ \A i, j \in DOMAIN Append(s, x) : i \notin DOMAIN s /\ j \notin DOMAIN s => i = j
OBVIOUS

LEMMA ReadLine ==
  ASSUME AInv, NEW kind, Reads(kind)
  PROVE  /\ Line \in Lines /\ Line.kind = kind /\ IsWhole(Line, thread)
         /\ inbox' \in Seq(Lines) /\ reader.pc = "read"
         /\ \A i \in DOMAIN inbox' : IsWhole(inbox'[i], thread)
         /\ \A i \in DOMAIN inbox' :
              kind = "prompt" /\ inbox'[i].kind = "prompt" => inbox'[i].prompt # Line.prompt
         /\ \A i, j \in DOMAIN inbox' :
              inbox'[i].kind = "prompt" /\ inbox'[j].kind = "prompt" /\ i # j =>
                inbox'[i].prompt # inbox'[j].prompt
<1>1. /\ inbox \in Seq(Lines) /\ inbox # <<>> /\ inbox' = Tail(inbox)
      /\ Line = Head(inbox) /\ Line.kind = kind /\ reader.pc = "read"
  BY DEF AInv, TypeOK, Reads, Line
<1>2. /\ Tail(inbox) \in Seq(Lines) /\ Head(inbox) = inbox[1] /\ 1 \in DOMAIN inbox
      /\ \A i \in DOMAIN Tail(inbox) :
           i + 1 \in DOMAIN inbox /\ Tail(inbox)[i] = inbox[i + 1] /\ i + 1 # 1
      /\ \A i, j \in DOMAIN Tail(inbox) : i # j => i + 1 # j + 1
  BY <1>1, TailOfLines
<1>3. Line = inbox[1] /\ Line \in Lines
  BY <1>1, <1>2
<1>. QED  BY <1>1, <1>2, <1>3 DEF AInv, LinesAreWhole

(* Lines stay whole while the prompts they carry are not started. *)
LEMMA LinesStay ==
  ASSUME AInv, inbox' = inbox,
         \A q \in Prompts : thread[q].pc = "sent" => thread'[q].pc = "sent"
  PROVE  LinesAreWhole'
BY DEF AInv, LinesAreWhole, IsWhole

LEMMA LinesStayRead ==
  ASSUME AInv, NEW kind, Reads(kind),
         \A q \in Prompts :
           thread[q].pc = "sent" /\ (kind = "prompt" => q # Line.prompt) => thread'[q].pc = "sent"
  PROVE  LinesAreWhole'
<1>1. \A i \in DOMAIN inbox' : IsWhole(inbox'[i], thread')
  <2> SUFFICES ASSUME NEW i \in DOMAIN inbox' PROVE IsWhole(inbox'[i], thread')
    OBVIOUS
  <2>1. /\ IsWhole(inbox'[i], thread)
        /\ kind = "prompt" /\ inbox'[i].kind = "prompt" => inbox'[i].prompt # Line.prompt
    BY ReadLine
  <2>. QED  BY <2>1 DEF IsWhole
<1>. QED  BY <1>1, ReadLine DEF LinesAreWhole

LEMMA InitAInv == ASSUME Init PROVE AInv
<1>1. /\ inbox = <<>> /\ inbox \in Seq(Lines) /\ DOMAIN inbox = {}
      /\ reader.pc = "read" /\ reader \in ReaderState
  <2>1. 0 \in 0..MaxLines
    BY AcpAssumption
  <2>2. inbox = <<>> /\ reader = [pc |-> "read", session |-> None, lines |-> 0]
    BY DEF Init
  <2>. QED  BY <2>1, <2>2 DEF ReaderState
<1>2. session \in [Sessions -> SessionState]
  BY DEF Init, SessionState
<1>3. thread \in [Prompts -> ThreadState]
  BY DEF Init, ThreadState
<1>4. DOMAIN pending = {} /\ pending \in [DOMAIN pending -> Replies \cup {None}]
  BY DEF Init
<1>5. reply \in [Prompts -> Seq(Answers)]
  BY DEF Init
<1>6. Fresh \in HistoryState /\ Fresh.cancels = 0 /\ Fresh.took = None
  BY DEF Fresh, HistoryState
<1>7. history \in [Prompts -> HistoryState]
  BY <1>6 DEF Init
<1>8. TypeOK
  BY <1>1, <1>2, <1>3, <1>4, <1>5, <1>7, AcpTypes
<1>9. ASSUME NEW p \in Prompts PROVE PInv(p)
  <2>1. thread[p].pc = "unsent" /\ ~thread[p].asked /\ reply[p] = <<>> /\ history[p] = Fresh
    BY DEF Init
  <2>2. \A r : <<>> # <<r>>
    OBVIOUS
  <2>3. None # TRUE
    BY AcpAssumption
  <2>. QED
    BY <1>4, <1>6, <2>1, <2>2, <2>3
       DEF PInv, HoldsLock, AnsweredOnce, FlagIsOfTurn, AsksOnce, Holding, Unstarted
<1>. QED  BY <1>1, <1>8, <1>9 DEF AInv, LinesAreWhole, ReaderStands

-----------------------------------------------------------------------------
(* The thread of one prompt takes a step. *)

Typed ==
  /\ inbox \in Seq(Lines) /\ reader \in ReaderState
  /\ session \in [Sessions -> SessionState] /\ thread \in [Prompts -> ThreadState]
  /\ DOMAIN pending \subseteq Prompts
  /\ pending \in [DOMAIN pending -> Replies \cup {None}]
  /\ reply \in [Prompts -> Seq(Answers)] /\ history \in [Prompts -> HistoryState]

LEMMA ThreadStep ==
  ASSUME AInv, NEW p \in Prompts, thread[p].pc \notin {"unsent", "sent"}, Typed',
         inbox' = inbox, reader' = reader, PInv(p)',
         \A q \in Prompts \ {p} : SameTo(q),
         \A s \in Sessions \ {thread[p].session} : session'[s] = session[s],
         session'[thread[p].session].cancelled = session[thread[p].session].cancelled,
         session'[thread[p].session].holder # session[thread[p].session].holder =>
           session[thread[p].session].holder \in {p, None}
  PROVE  AInv'
<1>1. TypeOK'
  BY AcpTypesNext DEF Typed
<1>2. thread \in [Prompts -> ThreadState]
  BY AcpTypes DEF AInv
<1>3. LinesAreWhole' /\ ReaderStands'
  <2>1. \A q \in Prompts : thread[q].pc = "sent" => thread'[q].pc = "sent"
    BY DEF SameTo
  <2>. QED  BY <2>1, LinesStay DEF AInv, ReaderStands
<1>5. ASSUME NEW q \in Prompts \ {p} PROVE PInv(q)'
  <2>1. PInv(q) /\ SameTo(q)
    BY DEF AInv
  <2>2. ASSUME thread[q].pc # "unsent"
        PROVE  /\ thread[q].pc \in Holding =>
                    session'[thread[q].session].holder = session[thread[q].session].holder
               /\ session'[thread[q].session].cancelled = session[thread[q].session].cancelled
    <3>1. thread[q].session \in Sessions
      BY <2>1, <2>2 DEF PInv, HoldsLock
    <3>2. CASE thread[q].session # thread[p].session
      BY <3>1, <3>2
    <3>3. CASE thread[q].session = thread[p].session
      <4>2. thread[q].pc \in Holding => session[thread[p].session].holder = q
        BY <2>1, <3>3 DEF PInv, HoldsLock
      <4>3. q # None
        BY AcpAssumption
      <4>. QED  BY <3>3, <4>2, <4>3
    <3>. QED  BY <3>2, <3>3
  <2>. QED  BY <2>1, <2>2, LeftAlone
<1>. QED  BY <1>1, <1>3, <1>5 DEF AInv

(* What a step of a thread that is past its start can rely on. *)
LEMMA ThreadFacts ==
  ASSUME AInv, NEW p \in Prompts, thread[p].pc \notin {"unsent", "sent"}
  PROVE  /\ Typed /\ thread[p] \in ThreadState /\ thread[p].session \in Sessions
         /\ Of(p) \in SessionState /\ history[p] \in HistoryState /\ reply[p] \in Seq(Answers)
         /\ DOMAIN pending \subseteq Prompts /\ PInv(p)
         /\ pending \in [DOMAIN pending -> Replies \cup {None}]
         /\ thread \in [Prompts -> ThreadState] /\ session \in [Sessions -> SessionState]
         /\ p # None /\ None # TRUE /\ None # FALSE
<1>1. /\ session \in [Sessions -> SessionState] /\ thread \in [Prompts -> ThreadState]
      /\ reply \in [Prompts -> Seq(Answers)] /\ history \in [Prompts -> HistoryState]
      /\ DOMAIN pending \subseteq Prompts /\ pending \in [DOMAIN pending -> Replies \cup {None}]
  BY AcpTypes DEF AInv
<1>2. PInv(p) /\ thread[p].session \in Sessions
  BY DEF AInv, PInv, HoldsLock
<1>3. p # None /\ None # TRUE /\ None # FALSE
  BY AcpAssumption
<1>4. Typed /\ inbox \in Seq(Lines) /\ reader \in ReaderState
  BY AcpTypes DEF AInv, Typed
<1>. QED  BY <1>1, <1>2, <1>3, <1>4 DEF Of

LEMMA Going ==
  ASSUME AInv, NEW p \in Prompts, thread[p].pc \notin {"unsent", "sent"}, NEW pc,
         pc \in {"clear", "run", "wait", "release", "failing", "answer", "fail", "over"},
         Goto(p, pc)
  PROVE  \E t \in ThreadState :
           /\ thread' = [thread EXCEPT ![p] = t]
           /\ t.pc = pc /\ t.session = thread[p].session /\ t.asked = thread[p].asked
<1> DEFINE t == [thread[p] EXCEPT !.pc = pc]
<1>1. thread[p] \in ThreadState /\ thread \in [Prompts -> ThreadState]
  BY ThreadFacts
<1>2. t \in ThreadState /\ t.pc = pc /\ t.session = thread[p].session /\ t.asked = thread[p].asked
  BY <1>1 DEF ThreadState
<1>3. thread' = [thread EXCEPT ![p] = t]
  BY DEF Goto
<1>. QED  BY <1>2, <1>3

(* An answer is the first. *)
LEMMA Responding ==
  ASSUME AInv, NEW p \in Prompts, thread[p].pc \notin {"unsent", "sent", "over"},
         NEW r \in Answers, Respond(p, r)
  PROVE  <<r>> \in Seq(Answers) /\ reply' = [reply EXCEPT ![p] = <<r>>]
<1>1. reply[p] = <<>>
  BY ThreadFacts DEF PInv, AnsweredOnce
<1>. QED  BY <1>1 DEF Respond

LEMMA RefusedAInv ==
  ASSUME AInv, NEW p \in Prompts, Refused(p) PROVE AInv'
<1>1. /\ thread[p].pc = "begin" /\ Respond(p, "error") /\ Goto(p, "over")
      /\ UNCHANGED <<inbox, reader, session, pending, history>>
  BY DEF Refused, At
<1>2. PICK t \in ThreadState :
        /\ thread' = [thread EXCEPT ![p] = t]
        /\ t.pc = "over" /\ t.session = thread[p].session /\ t.asked = thread[p].asked
  BY <1>1, Going
<1>3. <<"error">> \in Seq(Answers) /\ reply' = [reply EXCEPT ![p] = <<"error">>]
  BY <1>1, Responding DEF Answers
<1>4. ASSUME thread'[p] = t, reply'[p] = <<"error">> PROVE PInv(p)'
  <2>1. PInv(p)
    BY DEF AInv
  <2>. QED
    BY <1>1, <1>2, <1>4, <2>1
       DEF PInv, HoldsLock, AnsweredOnce, FlagIsOfTurn, AsksOnce, Holding, Unstarted
<1>20. thread[p].pc \notin {"unsent", "sent"} /\ thread[p].session \in Sessions /\ Typed
  BY <1>1, <1>2, ThreadFacts
<1>21. Typed'
  BY <1>1, <1>2, <1>3, <1>4, <1>20 DEF Typed
<1>22. /\ \A q \in Prompts \ {p} : SameTo(q)
       /\ \A s \in Sessions \ {thread[p].session} : session'[s] = session[s]
       /\ session'[thread[p].session].cancelled = session[thread[p].session].cancelled
       /\ session'[thread[p].session].holder # session[thread[p].session].holder =>
            session[thread[p].session].holder \in {p, None}
  BY <1>1, <1>2, <1>3, <1>4, <1>20 DEF Typed, SameTo, Of
<1>23. PInv(p)'
  BY <1>1, <1>2, <1>3, <1>4, <1>20 DEF Typed
<1>. QED  BY <1>1, <1>2, <1>20, <1>21, <1>22, <1>23, ThreadStep

LEMMA BeginPromptAInv ==
  ASSUME AInv, NEW p \in Prompts, BeginPrompt(p) PROVE AInv'
<1> DEFINE z == [Of(p) EXCEPT !.holder = p]
<1>1. /\ thread[p].pc = "begin" /\ Goto(p, "clear") /\ Of(p).holder = None
      /\ session' = [session EXCEPT ![thread[p].session] = z]
      /\ UNCHANGED <<inbox, reader, pending, reply, history>>
  BY DEF BeginPrompt, At, SetSession
<1>2. PICK t \in ThreadState :
        /\ thread' = [thread EXCEPT ![p] = t]
        /\ t.pc = "clear" /\ t.session = thread[p].session /\ t.asked = thread[p].asked
  BY <1>1, Going
<1>3. z \in SessionState /\ z.holder = p /\ z.cancelled = Of(p).cancelled
  BY <1>1, ThreadFacts DEF SessionState
<1>. HIDE DEF z
<1>4. ASSUME thread'[p] = t, session'[thread[p].session] = z PROVE PInv(p)'
  <2>1. PInv(p)
    BY DEF AInv
  <2>. QED
    BY <1>1, <1>2, <1>3, <1>4, <2>1, ThreadFacts
       DEF PInv, HoldsLock, AnsweredOnce, FlagIsOfTurn, AsksOnce, Holding, Unstarted
<1>20. thread[p].pc \notin {"unsent", "sent"} /\ thread[p].session \in Sessions /\ Typed
  BY <1>1, <1>2, ThreadFacts
<1>21. Typed'
  BY <1>1, <1>2, <1>3, <1>4, <1>20 DEF Typed
<1>22. /\ \A q \in Prompts \ {p} : SameTo(q)
       /\ \A s \in Sessions \ {thread[p].session} : session'[s] = session[s]
       /\ session'[thread[p].session].cancelled = session[thread[p].session].cancelled
       /\ session'[thread[p].session].holder # session[thread[p].session].holder =>
            session[thread[p].session].holder \in {p, None}
  BY <1>1, <1>2, <1>3, <1>4, <1>20 DEF Typed, SameTo, Of
<1>23. PInv(p)'
  BY <1>1, <1>2, <1>3, <1>4, <1>20 DEF Typed
<1>. QED  BY <1>1, <1>2, <1>20, <1>21, <1>22, <1>23, ThreadStep

LEMMA AskEditorAInv ==
  ASSUME AInv, NEW p \in Prompts, AskEditor(p) PROVE AInv'
<1> DEFINE t == [thread[p] EXCEPT !.pc = "wait", !.asked = TRUE]
<1>1. /\ thread[p].pc = "run" /\ ~thread[p].asked
      /\ thread' = [thread EXCEPT ![p] = t]
      /\ pending' = [q \in DOMAIN pending \cup {p} |-> IF q = p THEN None ELSE pending[q]]
      /\ UNCHANGED <<inbox, reader, session, reply, history>>
  BY DEF AskEditor, At
<1>2. /\ t \in ThreadState /\ t.pc = "wait" /\ t.asked /\ t.session = thread[p].session
  BY <1>1, ThreadFacts DEF ThreadState
<1>3. /\ DOMAIN pending' = DOMAIN pending \cup {p} /\ DOMAIN pending' \subseteq Prompts
      /\ pending' \in [DOMAIN pending' -> Replies \cup {None}]
      /\ pending'[p] = None
      /\ \A q \in Prompts \ {p} :
           /\ q \in DOMAIN pending' <=> q \in DOMAIN pending
           /\ q \in DOMAIN pending => pending'[q] = pending[q]
  BY <1>1, ThreadFacts
<1>. HIDE DEF t
<1>4. ASSUME thread'[p] = t PROVE PInv(p)'
  <2>1. PInv(p)
    BY DEF AInv
  <2>. QED
    BY <1>1, <1>2, <1>3, <1>4, <2>1, ThreadFacts
       DEF PInv, HoldsLock, AnsweredOnce, FlagIsOfTurn, AsksOnce, Holding, Unstarted
<1>20. thread[p].pc \notin {"unsent", "sent"} /\ thread[p].session \in Sessions /\ Typed
  BY <1>1, <1>2, ThreadFacts
<1>21. Typed'
  BY <1>1, <1>2, <1>3, <1>4, <1>20 DEF Typed
<1>22. /\ \A q \in Prompts \ {p} : SameTo(q)
       /\ \A s \in Sessions \ {thread[p].session} : session'[s] = session[s]
       /\ session'[thread[p].session].cancelled = session[thread[p].session].cancelled
       /\ session'[thread[p].session].holder # session[thread[p].session].holder =>
            session[thread[p].session].holder \in {p, None}
  BY <1>1, <1>2, <1>3, <1>4, <1>20 DEF Typed, SameTo, Of
<1>23. PInv(p)'
  BY <1>1, <1>2, <1>3, <1>4, <1>20 DEF Typed
<1>. QED  BY <1>1, <1>2, <1>20, <1>21, <1>22, <1>23, ThreadStep

LEMMA WithoutFacts ==
  ASSUME AInv, NEW p \in Prompts, pending' = Without(p)
  PROVE  /\ DOMAIN pending' = DOMAIN pending \ {p} /\ DOMAIN pending' \subseteq Prompts
         /\ pending' \in [DOMAIN pending' -> Replies \cup {None}]
         /\ \A q \in Prompts \ {p} :
              /\ q \in DOMAIN pending' <=> q \in DOMAIN pending
              /\ q \in DOMAIN pending => pending'[q] = pending[q]
BY AcpTypes DEF AInv, Without

(* Both ways to end a wait. *)
LEMMA WaitEndsAInv ==
  ASSUME AInv, NEW p \in Prompts, HearEditor(p) \/ WaitTimesOut(p) PROVE AInv'
<1>1. PICK took \in BOOLEAN :
        /\ history' = [history EXCEPT ![p].took = took]
        /\ took => pending[p] = "yes"
  BY DEF HearEditor, WaitTimesOut, Granted
<1>2. /\ thread[p].pc = "wait" /\ pending' = Without(p) /\ Goto(p, "run")
      /\ UNCHANGED <<inbox, reader, session, reply>>
  BY DEF HearEditor, WaitTimesOut, At
<1> DEFINE h == [history[p] EXCEPT !.took = took]
<1>3. PICK t \in ThreadState :
        /\ thread' = [thread EXCEPT ![p] = t]
        /\ t.pc = "run" /\ t.session = thread[p].session /\ t.asked = thread[p].asked
  BY <1>2, Going
<1>4. /\ h \in HistoryState /\ h.took = took /\ h.said = history[p].said
      /\ h.cancels = history[p].cancels /\ h.overtaken = history[p].overtaken
  BY <1>2, ThreadFacts DEF HistoryState
<1>5. history' = [history EXCEPT ![p] = h]
  BY <1>1
<1>. HIDE DEF h
<1>6. ASSUME thread'[p] = t, history'[p] = h PROVE PInv(p)'
  <2>1. PInv(p) /\ p \in DOMAIN pending /\ thread[p].asked
    BY <1>2 DEF AInv, PInv, AsksOnce
  <2>2. p \notin DOMAIN pending'
    BY <1>2, WithoutFacts
  <2>3. took => history[p].said = "yes"
    BY <1>1, <2>1, AcpAssumption DEF PInv, AsksOnce, Replies
  <2>. QED
    BY <1>2, <1>3, <1>4, <1>6, <2>1, <2>2, <2>3, ThreadFacts
       DEF PInv, HoldsLock, AnsweredOnce, FlagIsOfTurn, AsksOnce, Holding, Unstarted
<1>7. thread[p].pc \notin {"unsent", "sent"}
  BY <1>2
<1>20. thread[p].pc \notin {"unsent", "sent"} /\ thread[p].session \in Sessions /\ Typed
  BY <1>1, <1>2, ThreadFacts
<1>21. Typed'
  BY <1>2, <1>3, <1>4, <1>5, <1>6, <1>7, WithoutFacts, <1>20 DEF Typed
<1>22. /\ \A q \in Prompts \ {p} : SameTo(q)
       /\ \A s \in Sessions \ {thread[p].session} : session'[s] = session[s]
       /\ session'[thread[p].session].cancelled = session[thread[p].session].cancelled
       /\ session'[thread[p].session].holder # session[thread[p].session].holder =>
            session[thread[p].session].holder \in {p, None}
  <2>1. /\ \A q \in Prompts \ {p} : thread'[q] = thread[q] /\ history'[q] = history[q]
        /\ reply' = reply /\ session' = session
    BY <1>2, <1>3, <1>5, <1>20 DEF Typed
  <2>2. \A q \in Prompts \ {p} : SameTo(q)
    BY <1>2, <2>1, WithoutFacts DEF SameTo
  <2>. QED  BY <2>1, <2>2
<1>23. PInv(p)'
  BY <1>2, <1>3, <1>4, <1>5, <1>6, <1>7, WithoutFacts, <1>20 DEF Typed
<1>. QED  BY <1>1, <1>2, <1>20, <1>21, <1>22, <1>23, ThreadStep

LEMMA TurnEndsAInv ==
  ASSUME AInv, NEW p \in Prompts, TurnEnds(p) PROVE AInv'
<1> DEFINE z == [Of(p) EXCEPT !.interrupted = FALSE]
           h == [history[p] EXCEPT !.stopped = Of(p).interrupted]
<1>1. /\ thread[p].pc = "run" /\ Goto(p, "release")
      /\ session' = [session EXCEPT ![thread[p].session] = z]
      /\ history' = [history EXCEPT ![p] = h]
      /\ UNCHANGED <<inbox, reader, pending, reply>>
  BY DEF TurnEnds, At, SetSession
<1>2. PICK t \in ThreadState :
        /\ thread' = [thread EXCEPT ![p] = t]
        /\ t.pc = "release" /\ t.session = thread[p].session /\ t.asked = thread[p].asked
  BY <1>1, Going
<1>3. z \in SessionState /\ z.holder = Of(p).holder /\ z.cancelled = Of(p).cancelled
  BY <1>1, ThreadFacts DEF SessionState
<1>4. /\ h \in HistoryState /\ h.took = history[p].took /\ h.said = history[p].said
      /\ h.cancels = history[p].cancels /\ h.overtaken = history[p].overtaken
  BY <1>1, ThreadFacts DEF HistoryState, SessionState
<1>. HIDE DEF z, h
<1>5. ASSUME thread'[p] = t, session'[thread[p].session] = z, history'[p] = h PROVE PInv(p)'
  <2>1. PInv(p)
    BY DEF AInv
  <2> USE <1>1, <1>2, <1>3, <1>4, <1>5, <2>1, ThreadFacts
  <2>3. HoldsLock(p)' /\ AnsweredOnce(p)'
    BY DEF PInv, HoldsLock, AnsweredOnce, Holding, Of
  <2>4. FlagIsOfTurn(p)'
    BY DEF PInv, FlagIsOfTurn, HoldsLock, AnsweredOnce, Holding, Unstarted, Of
  <2>5. AsksOnce(p)'
    BY DEF PInv, AsksOnce
  <2>. QED  BY <2>3, <2>4, <2>5 DEF PInv
<1>20. thread[p].pc \notin {"unsent", "sent"} /\ thread[p].session \in Sessions /\ Typed
  BY <1>1, <1>2, ThreadFacts
<1>21. Typed'
  BY <1>1, <1>2, <1>3, <1>4, <1>5, <1>20 DEF Typed
<1>22. /\ \A q \in Prompts \ {p} : SameTo(q)
       /\ \A s \in Sessions \ {thread[p].session} : session'[s] = session[s]
       /\ session'[thread[p].session].cancelled = session[thread[p].session].cancelled
       /\ session'[thread[p].session].holder # session[thread[p].session].holder =>
            session[thread[p].session].holder \in {p, None}
  BY <1>1, <1>2, <1>3, <1>4, <1>5, <1>20 DEF Typed, SameTo, Of
<1>23. PInv(p)'
  BY <1>1, <1>2, <1>3, <1>4, <1>5, <1>20 DEF Typed
<1>. QED  BY <1>1, <1>2, <1>20, <1>21, <1>22, <1>23, ThreadStep

LEMMA TurnRaisesAInv ==
  ASSUME AInv, NEW p \in Prompts, TurnRaises(p) PROVE AInv'
<1>1. /\ thread[p].pc = "run" /\ Goto(p, "failing")
      /\ UNCHANGED <<inbox, reader, session, pending, reply, history>>
  BY DEF TurnRaises, At
<1>2. PICK t \in ThreadState :
        /\ thread' = [thread EXCEPT ![p] = t]
        /\ t.pc = "failing" /\ t.session = thread[p].session /\ t.asked = thread[p].asked
  BY <1>1, Going
<1>3. ASSUME thread'[p] = t PROVE PInv(p)'
  <2>1. PInv(p)
    BY DEF AInv
  <2>. QED
    BY <1>1, <1>2, <1>3, <2>1
       DEF PInv, HoldsLock, AnsweredOnce, FlagIsOfTurn, AsksOnce, Holding, Unstarted
<1>20. thread[p].pc \notin {"unsent", "sent"} /\ thread[p].session \in Sessions /\ Typed
  BY <1>1, <1>2, ThreadFacts
<1>21. Typed'
  BY <1>1, <1>2, <1>3, <1>20 DEF Typed
<1>22. /\ \A q \in Prompts \ {p} : SameTo(q)
       /\ \A s \in Sessions \ {thread[p].session} : session'[s] = session[s]
       /\ session'[thread[p].session].cancelled = session[thread[p].session].cancelled
       /\ session'[thread[p].session].holder # session[thread[p].session].holder =>
            session[thread[p].session].holder \in {p, None}
  BY <1>1, <1>2, <1>3, <1>20 DEF Typed, SameTo, Of
<1>23. PInv(p)'
  BY <1>1, <1>2, <1>3, <1>20 DEF Typed
<1>. QED  BY <1>1, <1>2, <1>20, <1>21, <1>22, <1>23, ThreadStep

LEMMA ReleaseAInv ==
  ASSUME AInv, NEW p \in Prompts, Release(p) PROVE AInv'
<1> DEFINE z == [Of(p) EXCEPT !.holder = None]
           pc == IF thread[p].pc = "release" THEN "answer" ELSE "fail"
<1>1. /\ thread[p].pc \in {"release", "failing"} /\ Goto(p, pc)
      /\ session' = [session EXCEPT ![thread[p].session] = z]
      /\ UNCHANGED <<inbox, reader, pending, reply, history>>
  BY DEF Release, At, SetSession
<1>2. PICK t \in ThreadState :
        /\ thread' = [thread EXCEPT ![p] = t]
        /\ t.pc = pc /\ t.session = thread[p].session /\ t.asked = thread[p].asked
  BY <1>1, Going
<1>3. z \in SessionState /\ z.holder = None /\ z.cancelled = Of(p).cancelled
  BY <1>1, ThreadFacts DEF SessionState
<1>4. Of(p).holder = p
  BY <1>1, ThreadFacts DEF PInv, HoldsLock, Holding, Of
<1>. HIDE DEF z
<1>5. ASSUME thread'[p] = t, session'[thread[p].session] = z PROVE PInv(p)'
  <2>1. PInv(p)
    BY DEF AInv
  <2> USE <1>1, <1>2, <1>3, <1>5, <2>1, ThreadFacts
  <2>3. HoldsLock(p)' /\ AnsweredOnce(p)'
    BY DEF PInv, HoldsLock, AnsweredOnce, Holding, Of
  <2>4. FlagIsOfTurn(p)'
    BY DEF PInv, FlagIsOfTurn, HoldsLock, AnsweredOnce, Holding, Unstarted, Of
  <2>5. AsksOnce(p)'
    BY DEF PInv, AsksOnce
  <2>. QED  BY <2>3, <2>4, <2>5 DEF PInv
<1>20. thread[p].pc \notin {"unsent", "sent"} /\ thread[p].session \in Sessions /\ Typed
  BY <1>1, <1>2, ThreadFacts
<1>21. Typed'
  BY <1>1, <1>2, <1>3, <1>4, <1>5, <1>20 DEF Typed
<1>22. /\ \A q \in Prompts \ {p} : SameTo(q)
       /\ \A s \in Sessions \ {thread[p].session} : session'[s] = session[s]
       /\ session'[thread[p].session].cancelled = session[thread[p].session].cancelled
       /\ session'[thread[p].session].holder # session[thread[p].session].holder =>
            session[thread[p].session].holder \in {p, None}
  BY <1>1, <1>2, <1>3, <1>4, <1>5, <1>20 DEF Typed, SameTo, Of
<1>23. PInv(p)'
  BY <1>1, <1>2, <1>3, <1>4, <1>5, <1>20 DEF Typed
<1>. QED  BY <1>1, <1>2, <1>20, <1>21, <1>22, <1>23, ThreadStep

LEMMA AnswerAInv ==
  ASSUME AInv, NEW p \in Prompts, Answer(p) PROVE AInv'
<1> DEFINE r == IF thread[p].pc = "answer" THEN StopReason(p) ELSE "error"
<1>1. /\ thread[p].pc \in {"answer", "fail"} /\ Respond(p, r) /\ Goto(p, "over")
      /\ UNCHANGED <<inbox, reader, session, pending, history>>
  BY DEF Answer, At
<1>2. PICK t \in ThreadState :
        /\ thread' = [thread EXCEPT ![p] = t]
        /\ t.pc = "over" /\ t.session = thread[p].session /\ t.asked = thread[p].asked
  BY <1>1, Going
<1>3. /\ r \in Answers
      /\ r = "cancelled" => thread[p].pc = "answer" /\ Of(p).cancelled
      /\ r = "end_turn" => thread[p].pc = "answer" /\ ~Of(p).cancelled
  BY DEF StopReason, Answers
<1>. HIDE DEF r
<1>4. <<r>> \in Seq(Answers) /\ reply' = [reply EXCEPT ![p] = <<r>>]
  BY <1>1, <1>3, Responding
<1>5. ASSUME thread'[p] = t, reply'[p] = <<r>> PROVE PInv(p)'
  <2>1. PInv(p) /\ history[p].cancels \in {0, 1}
    BY AcpTypes DEF AInv, HistoryState
  <2>2. HoldsLock(p)' /\ AsksOnce(p)'
    BY <1>1, <1>2, <1>5, <2>1 DEF PInv, HoldsLock, AsksOnce, Holding
  <2>3. AnsweredOnce(p)'
    BY <1>2, <1>3, <1>5 DEF AnsweredOnce, Answers
  <2>4. \A x, y : <<x>> = <<y>> => x = y
    OBVIOUS
  <2>5. FlagIsOfTurn(p)'
    BY <1>1, <1>2, <1>3, <1>5, <2>1, <2>4 DEF PInv, FlagIsOfTurn, Unstarted, Of
  <2>. QED  BY <2>2, <2>3, <2>5 DEF PInv
<1>20. thread[p].pc \notin {"unsent", "sent"} /\ thread[p].session \in Sessions /\ Typed
  BY <1>1, <1>2, ThreadFacts
<1>21. Typed'
  BY <1>1, <1>2, <1>4, <1>5, <1>20 DEF Typed
<1>22. /\ \A q \in Prompts \ {p} : SameTo(q)
       /\ \A s \in Sessions \ {thread[p].session} : session'[s] = session[s]
       /\ session'[thread[p].session].cancelled = session[thread[p].session].cancelled
       /\ session'[thread[p].session].holder # session[thread[p].session].holder =>
            session[thread[p].session].holder \in {p, None}
  BY <1>1, <1>2, <1>4, <1>5, <1>20 DEF Typed, SameTo, Of
<1>23. PInv(p)'
  BY <1>1, <1>2, <1>4, <1>5, <1>20 DEF Typed
<1>. QED  BY <1>1, <1>2, <1>20, <1>21, <1>22, <1>23, ThreadStep

(* A turn begins without the cancels of the one before, which may be about   *)
(* to say why it stopped.                                                   *)
LEMMA ClearCancelledAInv ==
  ASSUME AInv, NEW p \in Prompts, ClearCancelled(p) PROVE AInv'
<1> DEFINE z == [Of(p) EXCEPT !.cancelled = FALSE]
<1>1. /\ thread[p].pc = "clear" /\ Goto(p, "run")
      /\ session' = [session EXCEPT ![thread[p].session] = z]
      /\ history' = [q \in Prompts |->
           IF q # p /\ thread[q].session = thread[p].session /\ thread[q].pc = "answer"
           THEN [history[q] EXCEPT !.overtaken = TRUE] ELSE history[q]]
      /\ UNCHANGED <<inbox, reader, pending, reply>>
  BY DEF ClearCancelled, At, SetSession
<1>2. PICK t \in ThreadState :
        /\ thread' = [thread EXCEPT ![p] = t]
        /\ t.pc = "run" /\ t.session = thread[p].session /\ t.asked = thread[p].asked
  BY <1>1, Going
<1>3. z \in SessionState /\ z.holder = Of(p).holder /\ z.cancelled = FALSE
  BY <1>1, ThreadFacts DEF SessionState
<1>. HIDE DEF z
<1>4. thread[p].pc \notin {"unsent", "sent"} /\ thread[p].session \in Sessions /\ Typed
  BY <1>1, ThreadFacts
<1>5. ASSUME NEW q \in Prompts
      PROVE  /\ history'[q] \in HistoryState
             /\ history'[q].cancels = history[q].cancels /\ history'[q].took = history[q].took
             /\ history'[q].said = history[q].said
             /\ history[q].overtaken => history'[q].overtaken
             /\ q # p /\ thread[q].session = thread[p].session /\ thread[q].pc = "answer"
                  => history'[q].overtaken
             /\ history'[q].overtaken \in BOOLEAN
  <2>1. history[q] \in HistoryState
    BY <1>4 DEF Typed
  <2>. QED  BY <1>1, <2>1 DEF HistoryState
<1>6. history' \in [Prompts -> HistoryState]
  BY <1>1, <1>5
<1>7. Typed'
  BY <1>1, <1>2, <1>3, <1>4, <1>6 DEF Typed
<1>8. LinesAreWhole' /\ ReaderStands'
  <2>1. \A q \in Prompts : thread[q].pc = "sent" => thread'[q].pc = "sent"
    BY <1>1, <1>2, <1>4 DEF Typed
  <2>. QED  BY <1>1, <2>1, LinesStay DEF AInv, ReaderStands
<1>9. ASSUME NEW q \in Prompts PROVE PInv(q)'
  <2>1. PInv(q) /\ PInv(p) /\ p # None
    BY AcpAssumption DEF AInv
  <2>2. session'[thread[p].session] = z /\ thread[q] \in ThreadState
    BY <1>1, <1>3, <1>4 DEF Typed
  <2>3. CASE q = p
    <3>1. thread'[p] = t
      BY <1>2, <1>4 DEF Typed
    <3>. QED
      BY <1>1, <1>2, <1>3, <1>5, <2>1, <2>2, <2>3, <3>1
         DEF PInv, HoldsLock, AnsweredOnce, FlagIsOfTurn, AsksOnce, Holding, Unstarted, Of
  <2>4. CASE q # p /\ thread[q].session = thread[p].session
    <3>1. thread'[q] = thread[q]
      BY <1>2, <1>4, <2>4 DEF Typed
    <3>2. session[thread[p].session].holder = p
      BY <1>1, <2>1 DEF PInv, HoldsLock, Holding
    <3>3. thread[q].pc \notin Holding
      BY <2>1, <2>4, <3>2 DEF PInv, HoldsLock
    <3>4. HoldsLock(q)' /\ AnsweredOnce(q)' /\ AsksOnce(q)'
      BY <1>1, <1>5, <2>1, <3>1, <3>3 DEF PInv, HoldsLock, AnsweredOnce, AsksOnce
    <3>5. FlagIsOfTurn(q)'
      BY <1>1, <1>3, <1>5, <2>1, <2>2, <2>4, <3>1, <3>3
         DEF PInv, FlagIsOfTurn, Holding, Unstarted
    <3>. QED  BY <3>4, <3>5 DEF PInv
  <2>5. CASE q # p /\ thread[q].session # thread[p].session
    <3>1. SameTo(q)
      BY <1>1, <1>2, <1>4, <2>5 DEF SameTo, Typed
    <3>2. thread[q].pc # "unsent" => session'[thread[q].session] = session[thread[q].session]
      BY <1>1, <1>4, <2>1, <2>5 DEF Typed, PInv, HoldsLock
    <3>. QED  BY <2>1, <3>1, <3>2, LeftAlone
  <2>. QED  BY <2>3, <2>4, <2>5
<1>. QED  BY <1>7, <1>8, <1>9, AcpTypesNext DEF AInv, Typed

LEMMA PromptStepAInv ==
  ASSUME AInv, NEW p \in Prompts, PromptStep(p) PROVE AInv'
BY RefusedAInv, BeginPromptAInv, ClearCancelledAInv, AskEditorAInv, WaitEndsAInv, TurnEndsAInv,
   TurnRaisesAInv, ReleaseAInv, AnswerAInv DEF PromptStep

-----------------------------------------------------------------------------
(* The thread that reads. *)

LEMMA AllLeftAlone ==
  ASSUME AInv, UNCHANGED <<thread, reply, history, pending>>,
         \A s \in Sessions : /\ session'[s].holder = session[s].holder
                             /\ session'[s].cancelled = session[s].cancelled
  PROVE  \A p \in Prompts : PInv(p)'
<1> SUFFICES ASSUME NEW p \in Prompts PROVE PInv(p)'
  OBVIOUS
<1>1. PInv(p) /\ SameTo(p)
  BY DEF AInv, SameTo
<1>2. thread[p].pc # "unsent" => thread[p].session \in Sessions
  BY <1>1 DEF PInv, HoldsLock
<1>. QED  BY <1>1, <1>2, LeftAlone

LEMMA StartPromptAInv == ASSUME AInv, StartPrompt PROVE AInv'
<1> DEFINE p == Line.prompt
           t == [thread[p] EXCEPT !.pc = "begin"]
<1>1. /\ Reads("prompt") /\ thread' = [thread EXCEPT ![p] = t]
      /\ UNCHANGED <<reader, session, pending, reply, history>>
  BY DEF StartPrompt
<1>2. p \in Prompts /\ thread[p].pc = "sent" /\ inbox' \in Seq(Lines)
  BY <1>1, ReadLine DEF IsWhole
<1>3. Typed
  BY AcpTypes DEF AInv, Typed
<1>. HIDE DEF p
<1>4. /\ t \in ThreadState /\ t.pc = "begin" /\ t.session = thread[p].session
      /\ t.asked = thread[p].asked
  BY <1>2, <1>3 DEF ThreadState, Typed
<1>. HIDE DEF t
<1>5. Typed'
  BY <1>1, <1>2, <1>3, <1>4 DEF Typed
<1>6. LinesAreWhole'
  <2>1. \A q \in Prompts : q # p => thread'[q] = thread[q]
    BY <1>1, <1>3 DEF Typed
  <2>. QED  BY <1>1, <2>1, LinesStayRead DEF p
<1>7. ASSUME NEW q \in Prompts PROVE PInv(q)'
  <2>1. PInv(q)
    BY DEF AInv
  <2>2. CASE q = p
    <3>1. thread'[q] = t
      BY <1>1, <1>2, <1>3, <2>2 DEF Typed
    <3>. QED
      BY <1>1, <1>2, <1>4, <2>1, <2>2, <3>1
         DEF PInv, HoldsLock, AnsweredOnce, FlagIsOfTurn, AsksOnce, Holding, Unstarted
  <2>3. CASE q # p
    <3>1. SameTo(q)
      BY <1>1, <1>3, <2>3 DEF SameTo, Typed
    <3>. QED  BY <1>1, <2>1, <3>1, LeftAlone
  <2>. QED  BY <2>2, <2>3
<1>. QED  BY <1>1, <1>5, <1>6, <1>7, AcpTypesNext DEF AInv, Typed, ReaderStands

(* session/new, the flag of the agent, and the end of the input touch        *)
(* nothing the turns depend on.                                             *)
LEMMA OpenAInv == ASSUME AInv, Open PROVE AInv'
<1>1. Typed
  BY AcpTypes DEF AInv, Typed
<1>2. /\ Reads("open") /\ UNCHANGED <<reader, thread, pending, reply, history>>
      /\ session' = session \/ session' = [session EXCEPT ![Line.session].open = TRUE]
  BY DEF Open
<1>3. Line.session \in Sessions /\ inbox' \in Seq(Lines)
  BY <1>2, ReadLine DEF IsWhole
<1>4. /\ session' \in [Sessions -> SessionState]
      /\ \A s \in Sessions : /\ session'[s].holder = session[s].holder
                             /\ session'[s].cancelled = session[s].cancelled
  <2>1. CASE session' = session
    BY <1>1, <2>1 DEF Typed
  <2>2. CASE session' = [session EXCEPT ![Line.session].open = TRUE]
    <3>1. session[Line.session] \in SessionState /\ session \in [Sessions -> SessionState]
      BY <1>1, <1>3 DEF Typed
    <3>2. session' = [session EXCEPT ![Line.session] = [session[Line.session] EXCEPT !.open = TRUE]]
      BY <2>2
    <3> DEFINE z == [session[Line.session] EXCEPT !.open = TRUE]
    <3>3. /\ z \in SessionState /\ z.holder = session[Line.session].holder
          /\ z.cancelled = session[Line.session].cancelled
      BY <3>1 DEF SessionState
    <3>4. session' = [session EXCEPT ![Line.session] = z]
      BY <3>2
    <3>. HIDE DEF z
    <3>. QED  BY <1>3, <3>1, <3>3, <3>4
  <2>. QED  BY <1>2, <2>1, <2>2
<1>5. Typed'
  BY <1>1, <1>2, <1>3, <1>4 DEF Typed
<1>6. LinesAreWhole'
  BY <1>2, LinesStayRead
<1>. QED  BY <1>2, <1>4, <1>5, <1>6, AllLeftAlone, AcpTypesNext DEF AInv, Typed, ReaderStands

LEMMA InterruptAInv == ASSUME AInv, Interrupt PROVE AInv'
<1>1. Typed /\ ReaderStands
  BY AcpTypes DEF AInv, Typed
<1>2. /\ reader.pc = "interrupt" /\ UNCHANGED <<inbox, thread, pending, reply, history>>
      /\ session' = [session EXCEPT ![reader.session].interrupted = TRUE]
      /\ reader' = [reader EXCEPT !.pc = "read", !.session = None]
  BY DEF Interrupt
<1>3. reader.session \in Sessions
  BY <1>1, <1>2 DEF ReaderStands
<1>4. /\ session' \in [Sessions -> SessionState]
      /\ \A s \in Sessions : /\ session'[s].holder = session[s].holder
                             /\ session'[s].cancelled = session[s].cancelled
  <2> DEFINE z == [session[reader.session] EXCEPT !.interrupted = TRUE]
  <2>1. session \in [Sessions -> SessionState] /\ session[reader.session] \in SessionState
    BY <1>1, <1>3 DEF Typed
  <2>2. /\ z \in SessionState /\ z.holder = session[reader.session].holder
        /\ z.cancelled = session[reader.session].cancelled
    BY <2>1 DEF SessionState
  <2>3. session' = [session EXCEPT ![reader.session] = z]
    BY <1>2
  <2> HIDE DEF z
  <2>. QED  BY <1>3, <2>1, <2>2, <2>3
<1>5. reader' \in ReaderState /\ reader'.pc = "read"
  BY <1>1, <1>2 DEF Typed, ReaderState
<1>6. Typed'
  BY <1>1, <1>2, <1>4, <1>5 DEF Typed
<1>7. LinesAreWhole'
  BY <1>2, LinesStay
<1>. QED  BY <1>2, <1>4, <1>5, <1>6, <1>7, AllLeftAlone, AcpTypesNext DEF AInv, Typed, ReaderStands

LEMMA CloseAInv == ASSUME AInv, Close PROVE AInv'
<1>1. Typed
  BY AcpTypes DEF AInv, Typed
<1>2. /\ UNCHANGED <<inbox, thread, pending, reply, history>>
      /\ session' = [s \in Sessions |-> [session[s] EXCEPT !.open = FALSE]]
      /\ reader' = [reader EXCEPT !.pc = "closed"]
  BY DEF Close
<1>4. /\ session' \in [Sessions -> SessionState]
      /\ \A s \in Sessions : /\ session'[s].holder = session[s].holder
                             /\ session'[s].cancelled = session[s].cancelled
  BY <1>1, <1>2 DEF Typed, SessionState
<1>5. reader' \in ReaderState /\ reader'.pc = "closed"
  BY <1>1, <1>2 DEF Typed, ReaderState
<1>6. Typed'
  BY <1>1, <1>2, <1>4, <1>5 DEF Typed
<1>7. LinesAreWhole'
  BY <1>2, LinesStay
<1>. QED  BY <1>2, <1>4, <1>5, <1>6, <1>7, AllLeftAlone, AcpTypesNext DEF AInv, Typed, ReaderStands

(* A cancel is of every turn of its session that is under way. *)
LEMMA CancelAInv == ASSUME AInv, Cancel PROVE AInv'
<1> DEFINE s == Line.session
           Heard(p) == thread[p].session = s /\ thread[p].pc \in {"run", "wait", "release", "answer"}
<1>1. Typed
  BY AcpTypes DEF AInv, Typed
<1>2. Reads("cancel") /\ UNCHANGED <<thread, pending, reply>>
  BY DEF Cancel
<1>3. s \in Sessions /\ inbox' \in Seq(Lines)
  BY <1>2, ReadLine DEF IsWhole
<1>4. LinesAreWhole'
  BY <1>2, LinesStayRead
<1>5. CASE session[s].open
  <2>1. /\ session' = [session EXCEPT ![s].cancelled = TRUE]
        /\ reader' = [reader EXCEPT !.pc = "interrupt", !.session = s]
        /\ history' = [p \in Prompts |->
             IF Heard(p) THEN [history[p] EXCEPT !.cancels = 1] ELSE history[p]]
    BY <1>5 DEF Cancel
  <2>2. reader' \in ReaderState /\ reader'.session \in Sessions
    BY <1>1, <1>3, <2>1 DEF Typed, ReaderState
  <2>. HIDE DEF s
  <2>3. /\ session' \in [Sessions -> SessionState] /\ session'[s].cancelled = TRUE
        /\ \A u \in Sessions :
             /\ session'[u].holder = session[u].holder
             /\ u # s => session'[u].cancelled = session[u].cancelled
    BY <1>1, <1>3, <2>1 DEF Typed, SessionState
  <2>4. ASSUME NEW p \in Prompts
        PROVE  /\ history'[p] \in HistoryState
               /\ history'[p].overtaken = history[p].overtaken
               /\ history'[p].took = history[p].took /\ history'[p].said = history[p].said
               /\ history'[p].cancels = IF Heard(p) THEN 1 ELSE history[p].cancels
    <3>1. history[p] \in HistoryState
      BY <1>1 DEF Typed
    <3>. QED  BY <2>1, <3>1 DEF HistoryState
  <2>5. history' \in [Prompts -> HistoryState]
    BY <2>1, <2>4
  <2>6. Typed'
    BY <1>1, <1>2, <1>3, <2>2, <2>3, <2>5 DEF Typed
  <2>7. ASSUME NEW p \in Prompts PROVE PInv(p)'
    <3>1. PInv(p) /\ thread[p] \in ThreadState
      BY <1>1 DEF AInv, Typed
    <3>2. thread[p].pc # "unsent" => thread[p].session \in Sessions
      BY <3>1 DEF PInv, HoldsLock
    <3>3. CASE Heard(p)
      <4>1. history'[p].cancels = 1
        BY <2>4, <3>3
      <4>2. HoldsLock(p)' /\ AnsweredOnce(p)' /\ AsksOnce(p)'
        BY <1>2, <2>3, <2>4, <3>1, <3>2 DEF PInv, HoldsLock, AnsweredOnce, AsksOnce, Holding
      <4>3. reply[p] = <<>> /\ \A r : <<>> # <<r>>
        BY <3>1, <3>3 DEF PInv, AnsweredOnce
      <4>4. FlagIsOfTurn(p)'
        BY <1>2, <2>3, <3>3, <4>1, <4>3 DEF FlagIsOfTurn, Unstarted
      <4>. QED  BY <4>2, <4>4 DEF PInv
    <3>4. CASE ~Heard(p)
      <4>1. history'[p] = history[p]
        BY <2>1, <3>4
      <4>2. HoldsLock(p)' /\ AnsweredOnce(p)' /\ AsksOnce(p)'
        BY <1>2, <2>3, <3>1, <3>2, <4>1 DEF PInv, HoldsLock, AnsweredOnce, AsksOnce, Holding
      <4>3. FlagIsOfTurn(p)'
        BY <1>2, <2>3, <3>1, <3>2, <3>4, <4>1 DEF PInv, FlagIsOfTurn, Unstarted
      <4>. QED  BY <4>2, <4>3 DEF PInv
    <3>. QED  BY <3>3, <3>4
  <2>. QED  BY <1>4, <2>2, <2>6, <2>7, AcpTypesNext DEF AInv, Typed, ReaderStands
<1>6. CASE ~session[s].open
  <2>1. UNCHANGED <<session, reader, history>>
    BY <1>6 DEF Cancel
  <2>2. Typed'
    BY <1>1, <1>2, <1>3, <2>1 DEF Typed
  <2>3. \A p \in Prompts : PInv(p)'
    BY <1>2, <2>1, AllLeftAlone
  <2>. QED  BY <1>4, <2>1, <2>2, <2>3, AcpTypesNext DEF AInv, Typed, ReaderStands
<1>. QED  BY <1>5, <1>6

LEMMA ResolvePendingAInv == ASSUME AInv, ResolvePending PROVE AInv'
<1> DEFINE p == Line.prompt
<1>1. Typed
  BY AcpTypes DEF AInv, Typed
<1>2. Reads("response") /\ UNCHANGED <<reader, session, thread, reply>>
  BY DEF ResolvePending
<1>3. p \in Prompts /\ Line.says \in Replies /\ inbox' \in Seq(Lines)
  BY <1>2, ReadLine DEF IsWhole
<1>4. LinesAreWhole'
  BY <1>2, LinesStayRead
<1>5. CASE p \in DOMAIN pending
  <2> DEFINE h == [history[p] EXCEPT !.said = Line.says]
  <2>1. pending' = [pending EXCEPT ![p] = Line.says] /\ history' = [history EXCEPT ![p] = h]
    BY <1>5 DEF ResolvePending
  <2>. HIDE DEF p
  <2>2. /\ h \in HistoryState /\ h.said = Line.says /\ h.took = history[p].took
        /\ h.cancels = history[p].cancels /\ h.overtaken = history[p].overtaken
    BY <1>1, <1>3 DEF Typed, HistoryState
  <2>. HIDE DEF h
  <2>3. /\ DOMAIN pending' = DOMAIN pending /\ pending' \in [DOMAIN pending' -> Replies \cup {None}]
        /\ pending'[p] = Line.says
        /\ \A q \in DOMAIN pending \ {p} : pending'[q] = pending[q]
    BY <1>1, <1>3, <1>5, <2>1 DEF Typed
  <2>4. Typed'
    BY <1>1, <1>2, <1>3, <2>1, <2>2, <2>3 DEF Typed
  <2>5. ASSUME NEW q \in Prompts PROVE PInv(q)'
    <3>1. PInv(q)
      BY DEF AInv
    <3>2. CASE q = p
      <4>1. history'[q] = h
        BY <1>1, <1>3, <2>1, <3>2 DEF Typed
      <4>2. thread[p].pc = "wait" /\ history[p].took = None
        BY <1>5, <3>1, <3>2 DEF PInv, AsksOnce
      <4>3. HoldsLock(q)' /\ AnsweredOnce(q)' /\ FlagIsOfTurn(q)'
        BY <1>2, <2>2, <3>1, <3>2, <4>1 DEF PInv, HoldsLock, AnsweredOnce, FlagIsOfTurn
      <4>4. AsksOnce(q)'
        BY <1>2, <1>5, <2>2, <2>3, <3>1, <3>2, <4>1, <4>2, AcpAssumption DEF PInv, AsksOnce
      <4>. QED  BY <4>3, <4>4 DEF PInv
    <3>3. CASE q # p
      <4>1. SameTo(q)
        BY <1>1, <1>2, <2>1, <2>3, <3>3 DEF SameTo, Typed
      <4>. QED  BY <1>2, <3>1, <4>1, LeftAlone
    <3>. QED  BY <3>2, <3>3
  <2>. QED  BY <1>2, <1>4, <2>4, <2>5, AcpTypesNext DEF AInv, Typed, ReaderStands
<1>6. CASE p \notin DOMAIN pending
  <2>1. UNCHANGED <<pending, history>>
    BY <1>6 DEF ResolvePending
  <2>2. Typed'
    BY <1>1, <1>2, <1>3, <2>1 DEF Typed
  <2>3. \A q \in Prompts : PInv(q)'
    BY <1>2, <2>1, AllLeftAlone
  <2>. QED  BY <1>2, <1>4, <2>2, <2>3, AcpTypesNext DEF AInv, Typed, ReaderStands
<1>. QED  BY <1>5, <1>6

-----------------------------------------------------------------------------
(* The editor. *)

LEMMA WriteFacts ==
  ASSUME AInv, NEW line \in Lines, Write(line), IsWhole(line, thread'),
         \A i \in DOMAIN inbox :
           /\ inbox[i].kind = "prompt" => thread'[inbox[i].prompt].pc = "sent"
           /\ inbox[i].kind = "prompt" /\ line.kind = "prompt" => inbox[i].prompt # line.prompt
  PROVE  /\ inbox' \in Seq(Lines) /\ reader' \in ReaderState /\ LinesAreWhole' /\ ReaderStands'
<1>1. /\ inbox \in Seq(Lines) /\ reader \in ReaderState /\ reader.lines < MaxLines
      /\ inbox' = Append(inbox, line) /\ reader' = [reader EXCEPT !.lines = @ + 1]
  BY AcpTypes DEF AInv, Write
<1>2. /\ inbox' \in Seq(Lines)
      /\ \A i \in DOMAIN inbox' :
           (i \in DOMAIN inbox /\ inbox'[i] = inbox[i]) \/ (i \notin DOMAIN inbox /\ inbox'[i] = line)
      /\ \A i, j \in DOMAIN inbox' : i \notin DOMAIN inbox /\ j \notin DOMAIN inbox => i = j
  BY <1>1, AppendToLines
<1>3. reader' \in ReaderState /\ reader'.pc = reader.pc /\ reader'.session = reader.session
  <2>1. reader.lines \in 0..MaxLines
    BY <1>1 DEF ReaderState
  <2>2. reader.lines + 1 \in 0..MaxLines
    BY <1>1, <2>1, AcpAssumption
  <2>. QED  BY <1>1, <2>2 DEF ReaderState
<1>4. ASSUME NEW i \in DOMAIN inbox' PROVE IsWhole(inbox'[i], thread')
  <2>1. CASE i \in DOMAIN inbox /\ inbox'[i] = inbox[i]
    BY <2>1 DEF AInv, LinesAreWhole, IsWhole
  <2>2. CASE inbox'[i] = line
    BY <2>2
  <2>. QED  BY <1>2, <2>1, <2>2
<1>5. ASSUME NEW i \in DOMAIN inbox', NEW j \in DOMAIN inbox',
             inbox'[i].kind = "prompt", inbox'[j].kind = "prompt", i # j
      PROVE  inbox'[i].prompt # inbox'[j].prompt
  BY <1>2, <1>5 DEF AInv, LinesAreWhole
<1>. QED  BY <1>2, <1>3, <1>4, <1>5 DEF LinesAreWhole, ReaderStands, AInv

LEMMA EditorPromptsAInv ==
  ASSUME AInv, NEW p \in Prompts, NEW s \in Sessions, EditorPrompts(p, s) PROVE AInv'
<1> DEFINE line == [kind |-> "prompt", session |-> s, prompt |-> p, says |-> None]
           t == [thread[p] EXCEPT !.pc = "sent", !.session = s]
<1>1. Typed
  BY AcpTypes DEF AInv, Typed
<1>2. /\ thread[p].pc = "unsent" /\ Write(line) /\ thread' = [thread EXCEPT ![p] = t]
      /\ UNCHANGED <<session, pending, reply, history>>
  BY DEF EditorPrompts
<1>3. /\ line \in Lines /\ line.kind = "prompt" /\ line.session = s /\ line.prompt = p
  BY DEF Lines
<1>4. t \in ThreadState /\ t.pc = "sent" /\ t.session = s /\ t.asked = thread[p].asked
  BY <1>1 DEF Typed, ThreadState
<1>. HIDE DEF t, line
<1>5. /\ thread' \in [Prompts -> ThreadState] /\ thread'[p] = t
      /\ \A q \in Prompts : q # p => thread'[q] = thread[q]
  BY <1>1, <1>2, <1>4 DEF Typed
<1>6. IsWhole(line, thread')
  BY <1>3, <1>4, <1>5 DEF IsWhole
<1>7. ASSUME NEW i \in DOMAIN inbox, inbox[i].kind = "prompt"
      PROVE  thread'[inbox[i].prompt].pc = "sent" /\ inbox[i].prompt # line.prompt
  BY <1>2, <1>3, <1>5, <1>7 DEF AInv, LinesAreWhole, IsWhole
<1>8. inbox' \in Seq(Lines) /\ reader' \in ReaderState /\ LinesAreWhole' /\ ReaderStands'
  BY <1>2, <1>3, <1>6, <1>7, WriteFacts
<1>9. ASSUME NEW q \in Prompts PROVE PInv(q)'
  <2>1. PInv(q)
    BY DEF AInv
  <2>2. CASE q = p
    BY <1>2, <1>4, <1>5, <2>1, <2>2
       DEF PInv, HoldsLock, AnsweredOnce, FlagIsOfTurn, AsksOnce, Holding, Unstarted
  <2>3. CASE q # p
    <3>1. SameTo(q)
      BY <1>2, <1>5, <2>3 DEF SameTo
    <3>. QED  BY <1>2, <2>1, <3>1, LeftAlone
  <2>. QED  BY <2>2, <2>3
<1>10. Typed'
  BY <1>1, <1>2, <1>5, <1>8 DEF Typed
<1>. QED  BY <1>8, <1>9, <1>10, AcpTypesNext DEF AInv, Typed

LEMMA EditorWritesAInv ==
  ASSUME AInv, NEW line \in Lines, Write(line), line.kind # "prompt", IsWhole(line, thread),
         UNCHANGED <<session, thread, pending, reply, history>>
  PROVE  AInv'
<1>1. Typed
  BY AcpTypes DEF AInv, Typed
<1>2. ASSUME NEW i \in DOMAIN inbox, inbox[i].kind = "prompt"
      PROVE  thread'[inbox[i].prompt].pc = "sent"
  BY <1>2 DEF AInv, LinesAreWhole, IsWhole
<1>3. inbox' \in Seq(Lines) /\ reader' \in ReaderState /\ LinesAreWhole' /\ ReaderStands'
  BY <1>2, WriteFacts
<1>4. \A p \in Prompts : PInv(p)'
  BY AllLeftAlone
<1>5. Typed'
  BY <1>1, <1>3 DEF Typed
<1>. QED  BY <1>3, <1>4, <1>5, AcpTypesNext DEF AInv, Typed

LEMMA NextAInv == ASSUME AInv, [Next]_vars PROVE AInv'
<1>1. ASSUME NEW p \in Prompts, NEW s \in Sessions, EditorPrompts(p, s) PROVE AInv'
  BY <1>1, EditorPromptsAInv
<1>2. ASSUME NEW s \in Sessions, NEW kind \in {"open", "cancel"}, EditorWrites(kind, s) PROVE AInv'
  <2> DEFINE line == [kind |-> kind, session |-> s, prompt |-> None, says |-> None]
  <2>1. line \in Lines /\ line.kind = kind /\ line.session = s
    BY DEF Lines
  <2>2. Write(line) /\ UNCHANGED <<session, thread, pending, reply, history>>
    BY <1>2 DEF EditorWrites
  <2>. HIDE DEF line
  <2>3. IsWhole(line, thread) /\ line.kind # "prompt"
    BY <2>1 DEF IsWhole
  <2>. QED  BY <2>1, <2>2, <2>3, EditorWritesAInv
<1>3. ASSUME NEW p \in Prompts, NEW r \in Replies, EditorAnswers(p, r) PROVE AInv'
  <2> DEFINE line == [kind |-> "response", session |-> None, prompt |-> p, says |-> r]
  <2>1. line \in Lines /\ line.kind = "response" /\ line.prompt = p /\ line.says = r
    BY DEF Lines
  <2>2. Write(line) /\ UNCHANGED <<session, thread, pending, reply, history>>
    BY <1>3 DEF EditorAnswers
  <2>. HIDE DEF line
  <2>3. IsWhole(line, thread) /\ line.kind # "prompt"
    BY <2>1 DEF IsWhole
  <2>. QED  BY <2>1, <2>2, <2>3, EditorWritesAInv
<1>4. CASE StartPrompt \/ Open \/ Cancel \/ Interrupt \/ ResolvePending \/ Close
  BY <1>4, StartPromptAInv, OpenAInv, CancelAInv, InterruptAInv, ResolvePendingAInv, CloseAInv
<1>5. ASSUME NEW p \in Prompts, PromptStep(p) PROVE AInv'
  BY <1>5, PromptStepAInv
<1>6. CASE UNCHANGED vars
  <2>1. UNCHANGED <<inbox, reader, session, thread, pending, reply, history>>
    BY <1>6 DEF vars
  <2>2. TypeOK'
    BY <2>1 DEF AInv, TypeOK
  <2>3. LinesAreWhole' /\ ReaderStands'
    BY <2>1, LinesStay DEF AInv, ReaderStands
  <2>. QED  BY <2>1, <2>2, <2>3, AllLeftAlone DEF AInv
<1>. QED  BY <1>1, <1>2, <1>3, <1>4, <1>5, <1>6 DEF Next

-----------------------------------------------------------------------------

(* The inductive invariant: who holds a session's lock, whose cancel its     *)
(* flag is, which prompts lines still carry, and that a question is open     *)
(* exactly while its thread waits and never asked again.                    *)
THEOREM AcpInvariant == Spec => []AInv
<1>1. Init => AInv
  BY InitAInv
<1>2. AInv /\ [Next]_vars => AInv'
  BY NextAInv
<1>. QED  BY <1>1, <1>2, PTL DEF Spec

(* However many prompts, cancels and late answers the editor sends: one      *)
(* prompt of a session runs at a time, each has one answer, that is           *)
(* "cancelled" only after a cancel of its turn, and "end_turn" only without   *)
(* one or when the next prompt cleared it; and no question is granted but by  *)
(* the editor's own word.                                                   *)
THEOREM PromptsAreAnswered == Spec => []PromptsAreAnsweredTruly
<1>1. AInv => PromptsAreAnsweredTruly
  <2> SUFFICES ASSUME AInv PROVE PromptsAreAnsweredTruly
    OBVIOUS
  <2>1. ASSUME NEW s \in Sessions PROVE Cardinality(Runs(s)) <= 1
    <3> DEFINE p == session[s].holder
    <3>1. Runs(s) \subseteq {p}
      BY DEF Runs, AInv, PInv, HoldsLock, Holding
    <3>2. IsFiniteSet({p}) /\ Cardinality({p}) = 1
      BY FS_Singleton
    <3>3. Cardinality(Runs(s)) \in Nat /\ Cardinality(Runs(s)) <= Cardinality({p})
      BY <3>1, <3>2, FS_Subset, FS_CardinalityType
    <3>. QED  BY <3>2, <3>3
  <2>2. ASSUME NEW p \in Prompts
        PROVE  Len(reply[p]) <= 1 /\ (thread[p].pc = "over" <=> reply[p] # <<>>)
    <3>1. PInv(p)
      BY DEF AInv
    <3>2. CASE thread[p].pc = "over"
      <4>1. PICK r : reply[p] = <<r>>
        BY <3>1, <3>2 DEF PInv, AnsweredOnce
      <4>2. Len(<<r>>) = 1 /\ <<r>> # <<>>
        OBVIOUS
      <4>. QED  BY <3>2, <4>1, <4>2
    <3>3. CASE thread[p].pc # "over"
      <4>1. reply[p] = <<>>
        BY <3>1, <3>3 DEF PInv, AnsweredOnce
      <4>2. Len(reply[p]) = 0
        BY <4>1
      <4>. QED  BY <3>3, <4>1, <4>2
    <3>. QED  BY <3>2, <3>3
  <2>. QED
    BY <2>1, <2>2 DEF PromptsAreAnsweredTruly, AInv, PInv, FlagIsOfTurn, AsksOnce, At
<1>. QED  BY <1>1, AcpInvariant, PTL

-----------------------------------------------------------------------------
(* ShellCommands.  The cells are setup (x1), call (x2), child (x3), group    *)
(* (x4), stray (x5), queued (x6), written (x7), kept (x8), overflow (x9),     *)
(* reader (x10) and cancelled (x11).                                        *)

(* A call that is answered is over, with that reply. *)
LEMMA ShellAnswers ==
  ASSUME NEW answer \in Shell!Replies, x2 \in Shell!Calls, Shell!Answers(answer)
  PROVE  x2' \in Shell!Calls /\ x2'.pc = "over" /\ x2'.reply = answer /\ x2'.ended = x2.ended
BY DEF Shell!Answers, Shell!Calls, Shell!Places

(* A call that goes on changes its place only. *)
LEMMA ShellGoes ==
  ASSUME NEW pc \in Shell!Places, x2 \in Shell!Calls, Shell!Goes(pc)
  PROVE  x2' \in Shell!Calls /\ x2'.pc = pc /\ x2'.reply = x2.reply /\ x2'.ended = x2.ended
BY DEF Shell!Goes, Shell!Calls

(* Pipes that nobody touches stay as they are, unless a child is started. *)
LEMMA ShellPipesStay ==
  ASSUME Shell!PipesOK, Shell!PipesAreRead, UNCHANGED Shell!pipes,
         x3'.state = "alive" => x3.state = "alive"
  PROVE  Shell!PipesOK' /\ Shell!PipesAreRead'
<1>1. UNCHANGED <<x6, x7, x8, x9, x10>>
  BY DEF Shell!pipes
<1>. QED  BY <1>1 DEF Shell!PipesOK, Shell!PipesAreRead

(* Before the launch: an answer, or the next question. *)
LEMMA ShellBeforeLaunch ==
  ASSUME Shell!IInv, Shell!Check \/ Shell!AskForCd \/ Shell!Approve \/ Shell!LaunchNothing
  PROVE  Shell!IInv'
<1>1. UNCHANGED <<x1, x3, x4, x5, x11>> /\ UNCHANGED Shell!pipes
  BY DEF Shell!Check, Shell!AskForCd, Shell!Approve, Shell!LaunchNothing, Shell!world
<1>2. x2.pc \in Shell!Before /\ x2 \in Shell!Calls /\ x2.reply = None
  BY DEF Shell!Check, Shell!AskForCd, Shell!Approve, Shell!LaunchNothing, Shell!Before,
         Shell!IInv, Shell!TypeOK, Shell!RepliesAtTheEnd
<1>3. ~Shell!Ran
  BY <1>2 DEF Shell!IInv, Shell!ChildIsWatched
<1>4. Shell!PipesOK' /\ Shell!PipesAreRead'
  BY <1>1, ShellPipesStay DEF Shell!IInv
<1>5. CASE \E answer \in {"refused", "failed", "interrupted"} :
             Shell!Answers(answer) /\ (answer = "interrupted" => x11)
  <2>1. PICK answer \in {"refused", "failed", "interrupted"} :
          Shell!Answers(answer) /\ (answer = "interrupted" => x11)
    BY <1>5
  <2>2. x2' \in Shell!Calls /\ x2'.pc = "over" /\ x2'.reply = answer /\ x2'.ended = x2.ended
    BY <1>2, <2>1, ShellAnswers DEF Shell!Replies
  <2>3. Shell!TypeOK'
    BY <1>1, <2>2 DEF Shell!IInv, Shell!TypeOK
  <2>4. Shell!Passed'
    BY <1>1, <1>3, <2>2 DEF Shell!Passed, Shell!Ran
  <2>5. Shell!ChildIsWatched'
    BY <1>1, <1>3, <2>2 DEF Shell!IInv, Shell!ChildIsWatched, Shell!Ran, Shell!Before, Shell!During
  <2>6. Shell!RepliesAtTheEnd'
    BY <1>1, <1>3, <2>1, <2>2 DEF Shell!RepliesAtTheEnd, Shell!Ran
  <2>. QED  BY <1>4, <2>3, <2>4, <2>5, <2>6 DEF Shell!IInv
<1>6. CASE \E pc \in {"cd", "approve", "launch"} :
             Shell!Goes(pc) /\ ~Shell!Unsafe /\ (pc = "launch" => x1.approval # "deny")
  <2>1. PICK pc \in {"cd", "approve", "launch"} :
          Shell!Goes(pc) /\ ~Shell!Unsafe /\ (pc = "launch" => x1.approval # "deny")
    BY <1>6
  <2>2. x2' \in Shell!Calls /\ x2'.pc = pc /\ x2'.reply = None /\ x2'.ended = x2.ended
    BY <1>2, <2>1, ShellGoes DEF Shell!Places
  <2>3. Shell!TypeOK'
    BY <1>1, <2>2 DEF Shell!IInv, Shell!TypeOK
  <2>4. Shell!Passed'
    BY <1>1, <1>3, <2>1, <2>2 DEF Shell!Passed, Shell!Ran, Shell!Unsafe
  <2>5. Shell!ChildIsWatched'
    BY <1>1, <1>3, <2>2 DEF Shell!IInv, Shell!ChildIsWatched, Shell!Ran, Shell!Before, Shell!During
  <2>6. Shell!RepliesAtTheEnd'
    BY <1>1, <1>3, <2>1, <2>2, ShellAssumption DEF Shell!RepliesAtTheEnd, Shell!Ran, Shell!Replies
  <2>. QED  BY <1>4, <2>3, <2>4, <2>5, <2>6 DEF Shell!IInv
<1>7. CASE Shell!Check
  BY <1>5, <1>6, <1>7 DEF Shell!Check
<1>8. CASE Shell!AskForCd
  BY <1>5, <1>6, <1>8 DEF Shell!AskForCd, Shell!IInv, Shell!Passed
<1>9. CASE Shell!Approve
  BY <1>5, <1>6, <1>9 DEF Shell!Approve, Shell!IInv, Shell!Passed
<1>10. CASE Shell!LaunchNothing
  BY <1>5, <1>10 DEF Shell!LaunchNothing
<1>. QED  BY <1>7, <1>8, <1>9, <1>10

(* The process starts, or is killed before it gets into its job. *)
LEMMA ShellLaunch == ASSUME Shell!IInv, Shell!Launch PROVE Shell!IInv'
<1>1. UNCHANGED <<x1, x4, x6, x7, x8, x9, x11>> /\ ~x11 /\ x2.pc = "launch" /\ x2 \in Shell!Calls
  BY DEF Shell!Launch, Shell!IInv, Shell!TypeOK
<1>2. ~Shell!Ran /\ ~Shell!Unsafe /\ x1.approval # "deny" /\ ~x4 /\ x2.reply = None /\ x2.ended # "exit"
  BY <1>1 DEF Shell!IInv, Shell!Passed, Shell!ChildIsWatched, Shell!RepliesAtTheEnd, Shell!Ran,
     Shell!Before
<1>3. x5' \in BOOLEAN
  BY DEF Shell!Launch, Shell!IInv, Shell!TypeOK, Shell!Setups
<1>4. CASE x3' = [state |-> "alive", code |-> None] /\ x10' = [s \in Shell!Streams |-> "on"] /\ Shell!Goes("wait")
  <2>1. x2' \in Shell!Calls /\ x2'.pc = "wait" /\ x2'.reply = None /\ x2'.ended = x2.ended
    BY <1>1, <1>2, <1>4, ShellGoes DEF Shell!Places
  <2>2. x3' \in Shell!Children /\ x3'.state = "alive"
    BY <1>4 DEF Shell!Children
  <2>3. Shell!TypeOK'
    BY <1>1, <1>3, <2>1, <2>2 DEF Shell!IInv, Shell!TypeOK
  <2>4. Shell!PipesOK' /\ Shell!PipesAreRead'
    BY <1>1, <1>4 DEF Shell!IInv, Shell!PipesOK, Shell!PipesAreRead
  <2>5. Shell!Passed'
    BY <1>1, <1>2 DEF Shell!Passed, Shell!Unsafe
  <2>6. Shell!ChildIsWatched'
    BY <1>1, <1>2, <2>1, <2>2 DEF Shell!IInv, Shell!ChildIsWatched, Shell!Ran, Shell!Before,
       Shell!During
  <2>7. Shell!RepliesAtTheEnd'
    BY <2>1, ShellAssumption DEF Shell!RepliesAtTheEnd, Shell!Replies
  <2>. QED  BY <2>3, <2>4, <2>5, <2>6, <2>7 DEF Shell!IInv
<1>5. CASE x1.windows /\ x3' = [state |-> "killed", code |-> None] /\ Shell!Answers("failed") /\ x10' = x10
  <2>1. x2' \in Shell!Calls /\ x2'.pc = "over" /\ x2'.reply = "failed" /\ x2'.ended = x2.ended
    BY <1>1, <1>5, ShellAnswers DEF Shell!Replies
  <2>2. x3' \in Shell!Children /\ x3'.state = "killed"
    BY <1>5 DEF Shell!Children
  <2>3. Shell!TypeOK'
    BY <1>1, <1>3, <2>1, <2>2 DEF Shell!IInv, Shell!TypeOK
  <2>4. Shell!PipesOK' /\ Shell!PipesAreRead'
    BY <1>1, <1>5, <2>2, ShellPipesStay DEF Shell!IInv, Shell!pipes
  <2>5. Shell!Passed'
    BY <1>1, <1>2 DEF Shell!Passed, Shell!Unsafe
  <2>6. Shell!ChildIsWatched'
    BY <1>1, <1>2, <2>1, <2>2 DEF Shell!IInv, Shell!ChildIsWatched, Shell!Ran, Shell!Before,
       Shell!During
  <2>7. Shell!RepliesAtTheEnd'
    BY <2>1 DEF Shell!RepliesAtTheEnd
  <2>. QED  BY <2>3, <2>4, <2>5, <2>6, <2>7 DEF Shell!IInv
<1>. QED  BY <1>4, <1>5 DEF Shell!Launch

(* The child, its descendants and the interrupt move by themselves: none of  *)
(* them comes back, and a child that ends is neither refused nor a success.  *)
LEMMA ShellWorld ==
  ASSUME Shell!IInv, Shell!Interrupt \/ Shell!Spawn \/ Shell!Exit \/ Shell!DescendantsEnd
  PROVE  Shell!IInv'
<1>1. UNCHANGED <<x1, x2>> /\ UNCHANGED Shell!pipes
  BY DEF Shell!Interrupt, Shell!Spawn, Shell!Exit, Shell!DescendantsEnd
<1>2. x4' \in BOOLEAN /\ x5' \in BOOLEAN /\ x11' \in BOOLEAN /\ (x11 => x11')
  BY DEF Shell!Interrupt, Shell!Spawn, Shell!Exit, Shell!DescendantsEnd, Shell!world,
         Shell!IInv, Shell!TypeOK
<1>3. \/ x3' = x3
      \/ x3.state = "alive" /\ x3' \in Shell!Children /\ x3'.state = "exited"
  BY DEF Shell!Interrupt, Shell!Spawn, Shell!Exit, Shell!DescendantsEnd, Shell!world, Shell!Children
<1>4. x4' => x4 \/ x3'.state = "alive"
  BY DEF Shell!Interrupt, Shell!Spawn, Shell!Exit, Shell!DescendantsEnd, Shell!world
<1>5. Shell!TypeOK'
  BY <1>1, <1>2, <1>3 DEF Shell!IInv, Shell!TypeOK
<1>6. Shell!PipesOK' /\ Shell!PipesAreRead'
  BY <1>1, <1>3, ShellPipesStay DEF Shell!IInv
<1>7. Shell!Passed'
  BY <1>1, <1>3 DEF Shell!IInv, Shell!Passed, Shell!Ran, Shell!Unsafe
<1>8. Shell!ChildIsWatched'
  BY <1>1, <1>2, <1>3, <1>4 DEF Shell!IInv, Shell!ChildIsWatched, Shell!Ran, Shell!During
<1>9. Shell!RepliesAtTheEnd'
  BY <1>1, <1>2, <1>3 DEF Shell!IInv, Shell!RepliesAtTheEnd, Shell!Ran, Shell!pipes
<1>. QED  BY <1>5, <1>6, <1>7, <1>8, <1>9 DEF Shell!IInv

(* What the child writes and its readers read leaves the rest alone. *)
LEMMA ShellPipes ==
  ASSUME Shell!IInv, NEW s \in Shell!Streams,
         Shell!Write(s) \/ Shell!Read(s) \/ Shell!EndOfFile(s)
  PROVE  Shell!IInv'
<1>1. UNCHANGED <<x1, x2, x3, x4, x5, x11>>
  BY DEF Shell!Write, Shell!Read, Shell!EndOfFile, Shell!world
<1>2. Shell!TypeOK' /\ Shell!Passed' /\ Shell!ChildIsWatched'
  BY <1>1 DEF Shell!IInv, Shell!TypeOK, Shell!Passed, Shell!ChildIsWatched, Shell!Ran, Shell!Unsafe
<1>3. Shell!RepliesAtTheEnd'
  <2>1. \A t \in Shell!Streams : x10[t] = "done" => x10'[t] = "done"
    BY DEF Shell!Write, Shell!Read, Shell!EndOfFile, Shell!IInv, Shell!PipesOK
  <2>. QED  BY <1>1, <2>1 DEF Shell!IInv, Shell!RepliesAtTheEnd, Shell!Ran
<1>4. PipeSize \in Nat /\ MaxOutput \in Nat
  BY ShellAssumption
<1>5. \A t \in Shell!Streams :
        /\ x6[t] \in Nat /\ x7[t] \in Nat /\ x8[t] \in Nat /\ x9[t] \in BOOLEAN
        /\ x10[t] \in {"off", "on", "done"}
  BY DEF Shell!IInv, Shell!PipesOK
<1>6. CASE Shell!Write(s)
  <2>1. x6' = [x6 EXCEPT ![s] = @ + 1] /\ x7' = [x7 EXCEPT ![s] = @ + 1] /\ UNCHANGED <<x8, x9, x10>>
        /\ x3.state = "alive" /\ x6[s] < PipeSize
    BY <1>6 DEF Shell!Write
  <2>2. Shell!PipesOK'
    BY <1>5, <2>1 DEF Shell!IInv, Shell!PipesOK
  <2>3. Shell!PipesAreRead'
    <3> SUFFICES ASSUME NEW t \in Shell!Streams
                 PROVE  /\ x6'[t] <= x7'[t] /\ x6'[t] <= PipeSize
                        /\ x8'[t] = Shell!Lesser(x7'[t] - x6'[t], MaxOutput)
                        /\ x9'[t] <=> x7'[t] - x6'[t] > MaxOutput
                        /\ x3'.state = "alive" => x10'[t] = "on"
                        /\ x10'[t] = "done" => x6'[t] = 0
      BY DEF Shell!PipesAreRead
    <3>1. /\ x6[t] <= x7[t] /\ x6[t] <= PipeSize
          /\ x8[t] = Shell!Lesser(x7[t] - x6[t], MaxOutput)
          /\ x9[t] <=> x7[t] - x6[t] > MaxOutput
          /\ x3.state = "alive" => x10[t] = "on"
          /\ x10[t] = "done" => x6[t] = 0
      BY DEF Shell!IInv, Shell!PipesAreRead
    <3>2. CASE t # s
      <4>1. x6'[t] = x6[t] /\ x7'[t] = x7[t] /\ x8' = x8 /\ x9' = x9 /\ x10' = x10
        BY <2>1, <3>2 DEF Shell!IInv, Shell!PipesOK
      <4>. QED  BY <1>1, <3>1, <4>1
    <3>3. CASE t = s
      <4>1. x6'[t] = x6[t] + 1 /\ x7'[t] = x7[t] + 1 /\ x8' = x8 /\ x9' = x9 /\ x10' = x10
        BY <2>1, <3>3 DEF Shell!IInv, Shell!PipesOK
      <4>2. x7'[t] - x6'[t] = x7[t] - x6[t] /\ x6'[t] <= x7'[t] /\ x6'[t] <= PipeSize
        BY <1>4, <1>5, <2>1, <3>1, <3>3, <4>1
      <4>. QED  BY <1>1, <2>1, <3>1, <4>1, <4>2
    <3>. QED  BY <3>2, <3>3
  <2>. QED  BY <1>2, <1>3, <2>2, <2>3 DEF Shell!IInv
<1>7. CASE Shell!Read(s)
  <2>1. /\ x6' = [x6 EXCEPT ![s] = @ - 1]
        /\ x8' = [x8 EXCEPT ![s] = Shell!Lesser(@ + 1, MaxOutput)]
        /\ x9' = [x9 EXCEPT ![s] = @ \/ x8[s] = MaxOutput]
        /\ UNCHANGED <<x7, x10>> /\ x10[s] = "on" /\ x6[s] > 0
    BY <1>7 DEF Shell!Read, Shell!Readable
  <2>2. x6[s] - 1 \in Nat /\ Shell!Lesser(x8[s] + 1, MaxOutput) \in Nat /\ (x9[s] \/ x8[s] = MaxOutput) \in BOOLEAN
    BY <1>4, <1>5, <2>1 DEF Shell!Lesser
  <2>3. Shell!PipesOK'
    BY <2>1, <2>2 DEF Shell!IInv, Shell!PipesOK
  <2>4. Shell!PipesAreRead'
    <3> SUFFICES ASSUME NEW t \in Shell!Streams
                 PROVE  /\ x6'[t] <= x7'[t] /\ x6'[t] <= PipeSize
                        /\ x8'[t] = Shell!Lesser(x7'[t] - x6'[t], MaxOutput)
                        /\ x9'[t] <=> x7'[t] - x6'[t] > MaxOutput
                        /\ x3'.state = "alive" => x10'[t] = "on"
                        /\ x10'[t] = "done" => x6'[t] = 0
      BY DEF Shell!PipesAreRead
    <3>1. /\ x6[t] <= x7[t] /\ x6[t] <= PipeSize
          /\ x8[t] = Shell!Lesser(x7[t] - x6[t], MaxOutput)
          /\ x9[t] <=> x7[t] - x6[t] > MaxOutput
          /\ x3.state = "alive" => x10[t] = "on"
          /\ x10[t] = "done" => x6[t] = 0
      BY DEF Shell!IInv, Shell!PipesAreRead
    <3>2. CASE t # s
      <4>1. x6'[t] = x6[t] /\ x7' = x7 /\ x8'[t] = x8[t] /\ x9'[t] = x9[t] /\ x10' = x10
        BY <2>1, <3>2 DEF Shell!IInv, Shell!PipesOK
      <4>. QED  BY <1>1, <3>1, <4>1
    <3>3. CASE t = s
      <4>1. /\ x6'[t] = x6[t] - 1 /\ x7' = x7 /\ x10' = x10
            /\ x8'[t] = Shell!Lesser(x8[t] + 1, MaxOutput)
            /\ x9'[t] = (x9[t] \/ x8[t] = MaxOutput)
        BY <2>1, <3>3 DEF Shell!IInv, Shell!PipesOK
      <4>2. x6'[t] <= x7'[t] /\ x6'[t] <= PipeSize
        BY <1>4, <1>5, <3>1, <4>1
      <4>3. x8'[t] = Shell!Lesser(x7'[t] - x6'[t], MaxOutput)
        BY <1>4, <1>5, <3>1, <4>1 DEF Shell!Lesser
      <4>4. x8[t] = MaxOutput <=> x7[t] - x6[t] >= MaxOutput
        BY <1>4, <1>5, <3>1 DEF Shell!Lesser
      <4>5. x9'[t] <=> x7'[t] - x6'[t] > MaxOutput
        <5>1. x9'[t] <=> x7[t] - x6[t] > MaxOutput \/ x7[t] - x6[t] >= MaxOutput
          BY <3>1, <4>1, <4>4
        <5>2. x7'[t] - x6'[t] = x7[t] - x6[t] + 1
          BY <1>5, <4>1
        <5>. QED  BY <1>4, <1>5, <5>1, <5>2
      <4>. QED  BY <2>1, <3>3, <4>1, <4>2, <4>3, <4>5
    <3>. QED  BY <3>2, <3>3
  <2>. QED  BY <1>2, <1>3, <2>3, <2>4 DEF Shell!IInv
<1>8. CASE Shell!EndOfFile(s)
  <2>1. /\ UNCHANGED <<x6, x7, x8, x9>> /\ x10' = [x10 EXCEPT ![s] = "done"]
        /\ x6[s] = 0 /\ x3.state # "alive"
    BY <1>8 DEF Shell!EndOfFile
  <2>2. Shell!PipesOK'
    BY <2>1 DEF Shell!IInv, Shell!PipesOK
  <2>3. Shell!PipesAreRead'
    BY <1>1, <2>1 DEF Shell!IInv, Shell!PipesOK, Shell!PipesAreRead
  <2>. QED  BY <1>2, <1>3, <2>2, <2>3 DEF Shell!IInv
<1>. QED  BY <1>6, <1>7, <1>8

(* The wait ends, the tree is killed, the job is closed. *)
LEMMA ShellWindsUp ==
  ASSUME Shell!IInv, Shell!WaitEnds \/ Shell!Kill \/ Shell!Close
  PROVE  Shell!IInv'
<1>1. UNCHANGED <<x1, x5, x11>> /\ UNCHANGED Shell!pipes
  BY DEF Shell!WaitEnds, Shell!Kill, Shell!Close, Shell!world
<1>2. x2 \in Shell!Calls /\ x3 \in Shell!Children /\ Shell!Ran /\ x2.reply = None
  BY DEF Shell!WaitEnds, Shell!Kill, Shell!Close, Shell!IInv, Shell!TypeOK, Shell!ChildIsWatched,
         Shell!RepliesAtTheEnd, Shell!During
<1>3. ~Shell!Unsafe /\ x1.approval # "deny"
  BY <1>2 DEF Shell!IInv, Shell!Passed
<1>4. ASSUME x2' \in Shell!Calls, x2'.reply = None, x2'.pc \in Shell!During,
             x3' \in Shell!Children, x4' \in BOOLEAN, x3'.state # "none",
             x3'.state = "alive" => x3.state = "alive", Shell!ChildIsWatched'
      PROVE  Shell!IInv'
  <2>1. Shell!TypeOK'
    BY <1>1, <1>4 DEF Shell!IInv, Shell!TypeOK
  <2>2. Shell!PipesOK' /\ Shell!PipesAreRead'
    BY <1>1, <1>4, ShellPipesStay DEF Shell!IInv
  <2>3. Shell!Passed'
    BY <1>1, <1>3 DEF Shell!Passed, Shell!Unsafe
  <2>4. Shell!RepliesAtTheEnd'
    BY <1>4, ShellAssumption DEF Shell!RepliesAtTheEnd, Shell!Replies, Shell!During
  <2>. QED  BY <1>4, <2>1, <2>2, <2>3, <2>4 DEF Shell!IInv
<1>5. CASE Shell!WaitEnds
  <2>1. PICK how \in Shell!Ends :
          /\ how = "interrupt" => x11
          /\ how = "exit" => x3.state # "alive"
          /\ x2' = [x2 EXCEPT !.pc = IF how = "exit" THEN "close" ELSE "kill", !.ended = how]
    BY <1>5 DEF Shell!WaitEnds, Shell!Ends
  <2>2. x2' \in Shell!Calls /\ x2'.reply = None /\ x2'.ended = how
        /\ x2'.pc = IF how = "exit" THEN "close" ELSE "kill"
    BY <1>2, <2>1 DEF Shell!Calls, Shell!Places
  <2>3. x2.pc = "wait" /\ UNCHANGED <<x3, x4>>
    BY <1>5 DEF Shell!WaitEnds, Shell!world
  <2>4. how = "exit" => x3.state = "exited"
    BY <1>2, <2>1, <2>3 DEF Shell!IInv, Shell!ChildIsWatched, Shell!Children, Shell!Ran
  <2>5. Shell!ChildIsWatched'
    BY <1>1, <1>2, <2>1, <2>2, <2>3, <2>4
       DEF Shell!IInv, Shell!ChildIsWatched, Shell!Ran, Shell!Before, Shell!During, Shell!Ends
  <2>. QED  BY <1>2, <1>4, <2>2, <2>3, <2>5 DEF Shell!Ran, Shell!During, Shell!IInv, Shell!TypeOK
<1>6. CASE Shell!Kill
  <2>1. x2.pc = "kill" /\ Shell!KillTree
    BY <1>6 DEF Shell!Kill
  <2>2. x2' \in Shell!Calls /\ x2'.pc = "close" /\ x2'.reply = None /\ x2'.ended = x2.ended
    BY <1>2, <1>6, ShellGoes DEF Shell!Kill, Shell!Places
  <2>3. x2.ended \in Shell!Ends /\ (x2.ended = "exit" => x3.state = "exited")
    BY <2>1 DEF Shell!IInv, Shell!ChildIsWatched
  <2>4. /\ x3' \in Shell!Children /\ x4' \in BOOLEAN /\ (x4' => x4)
        /\ x3'.state = IF x3.state = "alive" THEN "killed" ELSE x3.state
        /\ x3.state = "alive" => ~x4'
    BY <1>2, <2>1 DEF Shell!KillTree, Shell!Children, Shell!IInv, Shell!TypeOK
  <2>5. Shell!ChildIsWatched'
    BY <1>1, <1>2, <2>2, <2>3, <2>4
       DEF Shell!IInv, Shell!ChildIsWatched, Shell!Ran, Shell!Before, Shell!During, Shell!Ends
  <2>. QED  BY <1>2, <1>4, <2>2, <2>4, <2>5 DEF Shell!Ran, Shell!During
<1>7. CASE Shell!Close
  <2>1. x2.pc = "close" /\ x4' = (x4 /\ ~x1.windows) /\ x3' = x3
    BY <1>7 DEF Shell!Close
  <2>2. x2' \in Shell!Calls /\ x2'.pc = "join" /\ x2'.reply = None /\ x2'.ended = x2.ended
    BY <1>2, <1>7, ShellGoes DEF Shell!Close, Shell!Places
  <2>3. Shell!ChildIsWatched'
    BY <1>1, <1>2, <2>1, <2>2
       DEF Shell!IInv, Shell!ChildIsWatched, Shell!Ran, Shell!Before, Shell!During
  <2>. QED  BY <1>2, <1>4, <2>1, <2>2, <2>3 DEF Shell!Ran, Shell!During
<1>. QED  BY <1>5, <1>6, <1>7

(* The readers have drained what is there, and the tool answers. *)
LEMMA ShellJoin == ASSUME Shell!IInv, Shell!Join PROVE Shell!IInv'
<1>1. /\ UNCHANGED <<x1, x3, x4, x5, x6, x7, x8, x9, x11>> /\ x2.pc = "join"
      /\ x10' = [s \in Shell!Streams |-> "done"] /\ Shell!Answers(Shell!Reply)
      /\ \A s \in Shell!Streams : x10[s] = "done" \/ ~(x6[s] > 0)
  BY DEF Shell!Join, Shell!world, Shell!Readable
<1>2. x2 \in Shell!Calls /\ Shell!Ran /\ x3.state # "alive" /\ x2.ended \in Shell!Ends
  BY <1>1 DEF Shell!IInv, Shell!TypeOK, Shell!ChildIsWatched, Shell!During
<1>3. \A s \in Shell!Streams : x6[s] = 0
  BY <1>1 DEF Shell!IInv, Shell!PipesOK, Shell!PipesAreRead
<1>4. /\ Shell!Reply \in {"interrupted", "success", "partial", "timeout"}
      /\ Shell!Reply = "interrupted" => x2.ended = "interrupt"
      /\ Shell!Reply = "success" => x2.ended = "exit" /\ x3.code = 0
  BY <1>2 DEF Shell!Reply, Shell!Ends
<1>5. Shell!Reply \in Shell!Replies
  BY <1>4 DEF Shell!Replies
<1>6. x2' \in Shell!Calls /\ x2'.pc = "over" /\ x2'.reply = Shell!Reply /\ x2'.ended = x2.ended
  BY <1>1, <1>2, <1>5, ShellAnswers
<1>7. Shell!TypeOK'
  BY <1>1, <1>6 DEF Shell!IInv, Shell!TypeOK
<1>8. Shell!PipesOK' /\ Shell!PipesAreRead'
  BY <1>1, <1>2, <1>3 DEF Shell!IInv, Shell!PipesOK, Shell!PipesAreRead
<1>9. Shell!Passed'
  BY <1>1, <1>2 DEF Shell!IInv, Shell!Passed, Shell!Ran, Shell!Unsafe
<1>10. Shell!ChildIsWatched'
  BY <1>1, <1>2, <1>6 DEF Shell!IInv, Shell!ChildIsWatched, Shell!Ran, Shell!Before, Shell!During
<1>11. Shell!RepliesAtTheEnd'
  <2>1. Shell!Reply = "success" => x3 = [state |-> "exited", code |-> 0]
    BY <1>2, <1>4 DEF Shell!IInv, Shell!ChildIsWatched, Shell!TypeOK, Shell!Children
  <2>2. Shell!Reply = "interrupted" => x11
    BY <1>4 DEF Shell!IInv, Shell!ChildIsWatched
  <2>. QED  BY <1>1, <1>4, <1>6, <2>1, <2>2 DEF Shell!RepliesAtTheEnd
<1>. QED  BY <1>7, <1>8, <1>9, <1>10, <1>11 DEF Shell!IInv

LEMMA ShellNext == ASSUME Shell!IInv, Shell!Next PROVE Shell!IInv'
BY ShellBeforeLaunch, ShellLaunch, ShellWorld, ShellPipes, ShellWindsUp, ShellJoin DEF Shell!Next

LEMMA ShellStutters ==
  ASSUME Shell!IInv, UNCHANGED <<x1, x2, x3, x4, x5, x6, x7, x8, x9, x10, x11>>
  PROVE  Shell!IInv'
<1>1. Shell!TypeOK' /\ Shell!PipesOK'
  BY DEF Shell!IInv, Shell!TypeOK, Shell!PipesOK
<1>2. Shell!Passed' /\ Shell!ChildIsWatched'
  BY DEF Shell!IInv, Shell!Passed, Shell!ChildIsWatched, Shell!Ran, Shell!Unsafe
<1>3. Shell!PipesAreRead' /\ Shell!RepliesAtTheEnd'
  BY DEF Shell!IInv, Shell!PipesAreRead, Shell!RepliesAtTheEnd, Shell!Ran
<1>. QED  BY <1>1, <1>2, <1>3 DEF Shell!IInv

LEMMA ShellInit == ASSUME Shell!Init PROVE Shell!IInv
<1>1. Shell!TypeOK
  BY DEF Shell!Init, Shell!TypeOK, Shell!Calls, Shell!Places, Shell!Children
<1>2. Shell!PipesOK
  BY DEF Shell!Init, Shell!PipesOK
<1>3. Shell!PipesAreRead
  BY ShellAssumption DEF Shell!Init, Shell!PipesAreRead, Shell!Lesser
<1>4. Shell!Passed
  BY DEF Shell!Init, Shell!Passed, Shell!Ran
<1>5. Shell!ChildIsWatched
  BY ShellAssumption DEF Shell!Init, Shell!ChildIsWatched, Shell!Ran, Shell!During, Shell!Ends
<1>6. Shell!RepliesAtTheEnd
  BY ShellAssumption DEF Shell!Init, Shell!RepliesAtTheEnd, Shell!Replies
<1>. QED  BY <1>1, <1>2, <1>3, <1>4, <1>5, <1>6 DEF Shell!IInv

(* What the tool answers for is true when it answers. *)
LEMMA ShellAccounts == ASSUME Shell!IInv PROVE Shell!CommandsAreAccountedFor
<1>1. Shell!NothingIsLeftRunning
  BY DEF Shell!IInv, Shell!ChildIsWatched, Shell!NothingIsLeftRunning, Shell!Ran
<1>2. Shell!OutputIsAccountedFor
  <2> SUFFICES ASSUME NEW s \in Shell!Streams
               PROVE  /\ x2.reply \in {"success", "partial", "timeout"} =>
                           /\ x8[s] = Shell!Lesser(x7[s], MaxOutput)
                           /\ x9[s] <=> x7[s] > MaxOutput
                      /\ x3.state = "alive" /\ x6[s] = PipeSize => x10[s] = "on" /\ x6[s] > 0
    BY DEF Shell!OutputIsAccountedFor, Shell!Readable
  <2>1. x6[s] \in Nat /\ x7[s] \in Nat /\ PipeSize \in Nat \ {0}
    BY ShellAssumption DEF Shell!IInv, Shell!PipesOK
  <2>2. ASSUME x2.reply \in {"success", "partial", "timeout"}
        PROVE  x8[s] = Shell!Lesser(x7[s], MaxOutput) /\ (x9[s] <=> x7[s] > MaxOutput)
    <3>1. x7[s] - x6[s] = x7[s]
      BY <2>1, <2>2 DEF Shell!IInv, Shell!RepliesAtTheEnd, Shell!PipesAreRead
    <3>. QED  BY <3>1 DEF Shell!IInv, Shell!PipesAreRead
  <2>3. ASSUME x3.state = "alive", x6[s] = PipeSize PROVE x10[s] = "on" /\ x6[s] > 0
    BY <2>1, <2>3 DEF Shell!IInv, Shell!PipesAreRead
  <2>. QED  BY <2>2, <2>3
<1>3. Shell!RepliesAreTrue
  BY DEF Shell!IInv, Shell!Passed, Shell!RepliesAtTheEnd, Shell!RepliesAreTrue
<1>. QED  BY <1>1, <1>2, <1>3 DEF Shell!CommandsAreAccountedFor

(* However a command ends, by itself, by the deadline or by an interrupt: its *)
(* answer comes after the child, with the first bytes of all it wrote and    *)
(* the truth about the rest; nothing unsafe or denied has run.              *)
THEOREM CommandsAreAccounted == ComponentsSpec => []CommandsAreAccountedFor
<1> DEFINE Inv == focus = "shell" => Shell!IInv
<1>1. ComponentsInit => Inv
  BY ShellInit DEF ComponentsInit
<1>2. Inv /\ [ComponentsNext]_componentsVars => Inv'
  <2> SUFFICES ASSUME Shell!IInv, focus = "shell", [ComponentsNext]_componentsVars
               PROVE  Shell!IInv'
    BY DEF ComponentsNext, componentsVars
  <2>1. CASE ComponentsNext
    BY <2>1, ShellNext DEF ComponentsNext
  <2>2. CASE UNCHANGED componentsVars
    BY <2>2, ShellStutters DEF componentsVars, cells
  <2>. QED  BY <2>1, <2>2
<1>3. Inv => CommandsAreAccountedFor
  BY ShellAccounts DEF CommandsAreAccountedFor
<1>. HIDE DEF Inv
<1>. QED  BY <1>1, <1>2, <1>3, PTL DEF ComponentsSpec

-----------------------------------------------------------------------------
(* Subagents.  The cells are task (x1), events (x2), memory (x3), file (x4),  *)
(* reader (x5), restarts (x6) and handed (x7).                              *)

Unfinished == {"run", "ask", "again", "judge", "call", "tool", "progress", "failing", "done", "finish"}

(* What has been told stays, and the last event is the new one. *)
LEMMA SubagentEmits ==
  ASSUME x2 \in Seq(Subagent!Kinds), NEW kind \in Subagent!Kinds, Subagent!Emit(<<kind>>)
  PROVE  /\ x2' \in Seq(Subagent!Kinds) /\ x2' # <<>>
         /\ Len(x2') = Len(x2) + 1 /\ x2'[Len(x2')] = kind
         /\ DOMAIN x2' = 1..(Len(x2) + 1)
         /\ \A i \in 1..Len(x2) : x2'[i] = x2[i]
<1>1. <<kind>> \in Seq(Subagent!Kinds) /\ Len(<<kind>>) = 1 /\ <<kind>>[1] = kind
  OBVIOUS
<1>2. x2' = x2 \o <<kind>>
  BY DEF Subagent!Emit
<1>3. Len(x2) \in Nat
  BY LenProperties
<1>4. x2' \in Seq(Subagent!Kinds) /\ Len(x2') = Len(x2) + 1
  BY <1>1, <1>2, ConcatProperties
<1>5. \A i \in 1..(Len(x2) + 1) : x2'[i] = IF i <= Len(x2) THEN x2[i] ELSE <<kind>>[i - Len(x2)]
  BY <1>1, <1>2, ConcatProperties
<1>6. DOMAIN x2' = 1..(Len(x2) + 1)
  BY <1>4, LenProperties
<1>. QED  BY <1>1, <1>3, <1>4, <1>5, <1>6

(* One more event is in order if it is the first one or a start is not, a     *)
(* completion answers the start before it, and nothing was finished.        *)
LEMMA SubagentTells ==
  ASSUME Subagent!IInv, x1.pc \notin Subagent!Late \cup {"save"}, NEW kind \in Subagent!Kinds, Subagent!Emit(<<kind>>),
         kind = "started" <=> x2 = <<>>,
         kind = "tool_completed" <=> x1.pc = "tool"
  PROVE  Subagent!EventsAreInOrder'
<1>1. /\ x2 \in Seq(Subagent!Kinds) /\ Subagent!EventsAreInOrder
      /\ \A i \in DOMAIN x2 : x2[i] \notin Subagent!Finished
      /\ x2 # <<>> => (x1.pc = "tool" <=> x2[Len(x2)] = "tool_started")
      /\ x1.pc = "tool" => x2 # <<>>
  BY DEF Subagent!IInv, Subagent!TypeOK, Subagent!EventsFollow, Subagent!Late,
         Subagent!SubagentsTellTheTruth, Subagent!EventsTellTheRun
<1>2. /\ Len(x2') = Len(x2) + 1 /\ x2'[Len(x2')] = kind
      /\ DOMAIN x2' = 1..(Len(x2) + 1)
      /\ \A i \in 1..Len(x2) : x2'[i] = x2[i]
  BY <1>1, SubagentEmits
<1>3. Len(x2) \in Nat /\ DOMAIN x2 = 1..Len(x2) /\ (x2 = <<>> <=> Len(x2) = 0)
  BY <1>1, LenProperties, EmptySeq
<1> SUFFICES ASSUME NEW i \in DOMAIN x2'
             PROVE  /\ x2'[i] = "started" <=> i = 1
                    /\ x2'[i] = "tool_completed" <=> i > 1 /\ x2'[i - 1] = "tool_started"
                    /\ x2'[i] \in Subagent!Finished => i = Len(x2')
  BY DEF Subagent!EventsAreInOrder
<1>4. CASE i <= Len(x2)
  <2>1. i \in DOMAIN x2 /\ x2'[i] = x2[i] /\ (i > 1 => x2'[i - 1] = x2[i - 1])
    BY <1>2, <1>3, <1>4
  <2>. QED  BY <1>1, <2>1 DEF Subagent!EventsAreInOrder
<1>5. CASE i = Len(x2) + 1
  <2>1. x2'[i] = kind /\ (i = 1 <=> x2 = <<>>) /\ (i > 1 => x2'[i - 1] = x2[Len(x2)])
    BY <1>2, <1>3, <1>5
  <2>2. kind = "tool_completed" <=> i > 1 /\ x2'[i - 1] = "tool_started"
    BY <1>1, <1>3, <1>5, <2>1
  <2>. QED  BY <1>2, <1>5, <2>1, <2>2
<1>. QED  BY <1>2, <1>3, <1>4, <1>5

(* While the run goes on, no end is known to anybody. *)
LEMMA SubagentRuns ==
  ASSUME Subagent!IInv, x1.pc \in Unfinished,
         x1' \in Subagent!Tasks, x1'.mode = x1.mode, x1'.saved = x1.saved,
         x1'.pc \in Unfinished \/ x1'.pc = IF Subagent!InBackground THEN "save" ELSE "over",
         \/ x3' = x3
         \/ x3 \in Subagent!Records /\ x3' \in Subagent!Records /\ x3'.status = x3.status,
         UNCHANGED <<x4, x5>>
  PROVE  /\ Subagent!EndsAreKept' /\ Subagent!OutputTellsTheEnd'
         /\ x3' \in {None} \cup Subagent!Records
         /\ x4' \in {None} \cup Subagent!Ends /\ x5' \in Subagent!Readers
<1>1. /\ x3 \in {None} \cup Subagent!Records
      /\ x4 \in {None} \cup Subagent!Ends /\ x5 \in Subagent!Readers
      /\ x4 = None /\ ~x5.missing /\ x5.pc # "result" /\ ~x1.saved /\ x5.told = None
  BY DEF Subagent!IInv, Subagent!TypeOK, Subagent!EndsAreKept, Subagent!Late, Unfinished,
         Subagent!SubagentsTellTheTruth, Subagent!OutputTellsTheEnd
<1>2. x3 \in Subagent!Records => x3.status = "running"
  BY DEF Subagent!IInv, Subagent!EndsAreKept, Unfinished
<1>3. x1'.pc \notin {"record", "dead"} /\ (x1'.pc = "save" => Subagent!InBackground)
  BY DEF Unfinished
<1>4. Subagent!EndsAreKept'
  BY <1>1, <1>2, <1>3 DEF Subagent!IInv, Subagent!EndsAreKept, Subagent!InBackground, Unfinished
<1>5. Subagent!OutputTellsTheEnd'
  BY <1>1 DEF Subagent!OutputTellsTheEnd
<1>. QED  BY <1>1, <1>4, <1>5

(* A step of the run that tells nothing. *)
LEMMA SubagentSteps ==
  ASSUME Subagent!IInv, x1.pc \in Unfinished \ {"run", "tool"}, x2' = x2,
         x1' \in Subagent!Tasks, x1'.mode = x1.mode, x1'.saved = x1.saved,
         x1'.pc \in Unfinished \ {"run", "tool"},
         x1'.pc = "call" => x1'.calls > 0,
         \/ x3' = x3
         \/ x3 \in Subagent!Records /\ x3' \in Subagent!Records /\ x3'.status = x3.status,
         UNCHANGED <<x4, x5>>
  PROVE  Subagent!IInv'
<1>1. /\ Subagent!EndsAreKept' /\ Subagent!OutputTellsTheEnd'
      /\ x3' \in {None} \cup Subagent!Records
      /\ x4' \in {None} \cup Subagent!Ends /\ x5' \in Subagent!Readers
  BY SubagentRuns
<1>2. Subagent!TypeOK'
  BY <1>1 DEF Subagent!IInv, Subagent!TypeOK
<1>3. Subagent!EventsFollow'
  BY DEF Subagent!IInv, Subagent!EventsFollow, Unfinished
<1>4. Subagent!EventsTellTheRun'
  BY DEF Subagent!IInv, Subagent!SubagentsTellTheTruth, Subagent!EventsTellTheRun,
         Subagent!EventsAreInOrder, Unfinished
<1>. QED  BY <1>1, <1>2, <1>3, <1>4 DEF Subagent!IInv, Subagent!SubagentsTellTheTruth

(* A step of the run that tells one thing. *)
LEMMA SubagentTellsAndSteps ==
  ASSUME Subagent!IInv, x1.pc \in Unfinished,
         NEW kind \in Subagent!Kinds, Subagent!Emit(<<kind>>),
         x1' \in Subagent!Tasks, x1'.mode = x1.mode, x1'.saved = x1.saved,
         x1'.pc \in Unfinished \/ x1'.pc = IF Subagent!InBackground THEN "save" ELSE "over",
         x1'.pc # "run", x1'.pc \in {"call", "tool"} => x1'.calls > 0,
         \/ x3' = x3
         \/ x3 \in Subagent!Records /\ x3' \in Subagent!Records /\ x3'.status = x3.status,
         UNCHANGED <<x4, x5>>,
         kind = "started" <=> x1.pc = "run",
         kind = "tool_started" <=> x1'.pc = "tool",
         kind = "tool_completed" <=> x1.pc = "tool",
         kind \in Subagent!Finished <=> x1'.pc \notin Unfinished,
         x1'.pc \notin Unfinished => kind = Subagent!FinishTold'
  PROVE  Subagent!IInv'
<1>1. /\ Subagent!EndsAreKept' /\ Subagent!OutputTellsTheEnd'
      /\ x3' \in {None} \cup Subagent!Records
      /\ x4' \in {None} \cup Subagent!Ends /\ x5' \in Subagent!Readers
  BY SubagentRuns
<1>2. x1.pc = "run" <=> x2 = <<>>
  BY DEF Subagent!IInv, Subagent!EventsFollow, Unfinished
<1>3. Subagent!EventsAreInOrder'
  BY <1>2, SubagentTells DEF Unfinished, Subagent!Late
<1>4. /\ x2' \in Seq(Subagent!Kinds) /\ x2' # <<>>
      /\ x2'[Len(x2')] = kind
  BY SubagentEmits DEF Subagent!IInv, Subagent!TypeOK
<1>5. Subagent!TypeOK'
  BY <1>1, <1>4 DEF Subagent!IInv, Subagent!TypeOK
<1>6. x1'.pc \notin {"save", "record", "over", "dead"} => \A i \in DOMAIN x2' : x2'[i] \notin Subagent!Finished
  <2> SUFFICES ASSUME x1'.pc \in Unfinished, NEW i \in DOMAIN x2' PROVE x2'[i] \notin Subagent!Finished
    OBVIOUS
  <2>1. i = Len(x2') => x2'[i] = kind
    BY <1>4
  <2>. QED  BY <1>3, <2>1 DEF Subagent!EventsAreInOrder
<1>7. Subagent!EventsFollow'
  BY <1>4, <1>6 DEF Subagent!EventsFollow, Unfinished
<1>8. Subagent!EventsTellTheRun'
  BY <1>3, <1>4 DEF Subagent!EventsTellTheRun, Unfinished
<1>. QED  BY <1>1, <1>5, <1>7, <1>8 DEF Subagent!IInv, Subagent!SubagentsTellTheTruth

LEMMA SubagentRunNext ==
  ASSUME Subagent!IInv,
         \/ Subagent!BeginRun \/ Subagent!Stream \/ Subagent!InvokeRaw \/ Subagent!Judge
         \/ Subagent!RefuseArguments \/ Subagent!StartTool \/ Subagent!EndTool
         \/ Subagent!Progress \/ Subagent!ReportError \/ Subagent!ReportAnswer
         \/ Subagent!EmitFinished
  PROVE  Subagent!IInv'
<1>1. /\ x1 \in Subagent!Tasks /\ x3 \in {None} \cup Subagent!Records
      /\ x1.pc \in {"call", "tool"} => x1.calls > 0
      /\ x1.step \in Nat /\ x1.calls \in Nat
  <2>1. x1 \in Subagent!Tasks /\ x3 \in {None} \cup Subagent!Records
        /\ (x1.pc \in {"call", "tool"} => x1.calls > 0)
    BY DEF Subagent!IInv, Subagent!TypeOK
  <2>. QED  BY <2>1 DEF Subagent!Tasks
<1>2. UNCHANGED <<x4, x5>>
  BY DEF Subagent!BeginRun, Subagent!Stream, Subagent!InvokeRaw, Subagent!Judge,
         Subagent!RefuseArguments, Subagent!StartTool, Subagent!EndTool,
         Subagent!Progress, Subagent!ReportError, Subagent!ReportAnswer, Subagent!EmitFinished
<1>3. CASE Subagent!BeginRun
  <2>1. /\ x1.pc = "run" /\ x3' = x3 /\ Subagent!Emit(<<"started">>)
        /\ x1' = [x1 EXCEPT !.pc = "ask", !.step = 1]
    BY <1>3 DEF Subagent!BeginRun
  <2>2. /\ x1' \in Subagent!Tasks /\ x1'.pc = "ask" /\ x1'.mode = x1.mode /\ x1'.saved = x1.saved
    BY <1>1, <2>1 DEF Subagent!Tasks, Subagent!Places
  <2>. QED  BY <1>2, <2>1, <2>2, SubagentTellsAndSteps DEF Unfinished, Subagent!Kinds, Subagent!Finished
<1>4. CASE Subagent!Stream
  <2>1. x1.pc = "ask" /\ x3' = x3
    BY <1>4 DEF Subagent!Stream
  <2>2. PICK whole \in BOOLEAN : x1' = Subagent!At(IF whole THEN "judge" ELSE "again")
    BY <1>4 DEF Subagent!Stream
  <2>3. /\ x1' \in Subagent!Tasks /\ x1'.pc \in {"judge", "again"}
        /\ x1'.mode = x1.mode /\ x1'.saved = x1.saved
    BY <1>1, <2>2 DEF Subagent!Tasks, Subagent!Places, Subagent!At
  <2>4. CASE Subagent!Emit(<<>>)
    <3>1. x2' = x2
      BY <2>4, ConcatEmptySeq DEF Subagent!Emit, Subagent!IInv, Subagent!TypeOK
    <3>. QED  BY <1>2, <2>1, <2>3, <3>1, SubagentSteps DEF Unfinished
  <2>5. CASE Subagent!Emit(<<"delta">>)
    BY <1>2, <2>1, <2>3, <2>5, SubagentTellsAndSteps DEF Unfinished, Subagent!Kinds,
       Subagent!Finished
  <2>. QED  BY <1>4, <2>4, <2>5 DEF Subagent!Stream
<1>5. CASE Subagent!InvokeRaw
  <2>1. x1.pc = "again" /\ UNCHANGED <<x2, x3>>
        /\ (x1' = Subagent!At("judge") \/ x1' = [x1 EXCEPT !.pc = "failing", !.outcome = "raised"])
    BY <1>5 DEF Subagent!InvokeRaw
  <2>2. /\ x1' \in Subagent!Tasks /\ x1'.pc \in {"judge", "failing"}
        /\ x1'.mode = x1.mode /\ x1'.saved = x1.saved
    BY <1>1, <2>1 DEF Subagent!Tasks, Subagent!Places, Subagent!At, Subagent!Outcomes
  <2>. QED  BY <1>2, <2>1, <2>2, SubagentSteps DEF Unfinished
<1>6. CASE Subagent!Judge
  <2>1. x1.pc = "judge" /\ UNCHANGED <<x2, x3>>
    BY <1>6 DEF Subagent!Judge
  <2>2. CASE \E n \in 1..MaxCalls : x1' = [x1 EXCEPT !.pc = "call", !.calls = n]
    <3>1. PICK n \in 1..MaxCalls : x1' = [x1 EXCEPT !.pc = "call", !.calls = n]
      BY <2>2
    <3>2. n \in Nat /\ n > 0
      BY SubagentAssumption
    <3>3. /\ x1' \in Subagent!Tasks /\ x1'.pc = "call" /\ x1'.calls > 0
          /\ x1'.mode = x1.mode /\ x1'.saved = x1.saved
      BY <1>1, <3>1, <3>2 DEF Subagent!Tasks, Subagent!Places
    <3>. QED  BY <1>2, <2>1, <3>3, SubagentSteps DEF Unfinished
  <2>3. CASE \E pc \in {"failing", "done"}, outcome \in Subagent!Outcomes :
               x1' = [x1 EXCEPT !.pc = pc, !.outcome = outcome]
    <3>1. /\ x1' \in Subagent!Tasks /\ x1'.pc \in {"failing", "done"}
          /\ x1'.mode = x1.mode /\ x1'.saved = x1.saved
      BY <1>1, <2>3 DEF Subagent!Tasks, Subagent!Places
    <3>. QED  BY <1>2, <2>1, <3>1, SubagentSteps DEF Unfinished
  <2>. QED  BY <1>6, <2>2, <2>3 DEF Subagent!Judge, Subagent!Outcomes
<1>7. ASSUME x1.pc \in {"call", "tool"}, x1' = Subagent!AfterCall
      PROVE  /\ x1' \in Subagent!Tasks /\ x1'.pc \in {"progress", "call"}
             /\ x1'.mode = x1.mode /\ x1'.saved = x1.saved
             /\ x1'.pc = "call" => x1'.calls > 0
  <2>1. x1.calls - 1 \in Nat /\ (x1.calls # 1 => x1.calls - 1 > 0)
    BY <1>1, <1>7
  <2>. QED  BY <1>1, <1>7, <2>1 DEF Subagent!Tasks, Subagent!Places, Subagent!AfterCall
<1>8. CASE Subagent!RefuseArguments
  <2>1. x1.pc = "call" /\ UNCHANGED <<x2, x3>> /\ x1' = Subagent!AfterCall
    BY <1>8 DEF Subagent!RefuseArguments
  <2>. QED  BY <1>2, <1>7, <2>1, SubagentSteps DEF Unfinished
<1>9. CASE Subagent!StartTool
  <2>1. x1.pc = "call" /\ x3' = x3 /\ x1' = Subagent!At("tool") /\ Subagent!Emit(<<"tool_started">>)
    BY <1>9 DEF Subagent!StartTool
  <2>2. /\ x1' \in Subagent!Tasks /\ x1'.pc = "tool" /\ x1'.calls > 0
        /\ x1'.mode = x1.mode /\ x1'.saved = x1.saved
    BY <1>1, <2>1 DEF Subagent!Tasks, Subagent!Places, Subagent!At
  <2>. QED  BY <1>2, <2>1, <2>2, SubagentTellsAndSteps DEF Unfinished, Subagent!Kinds, Subagent!Finished
<1>10. CASE Subagent!EndTool
  <2>1. x1.pc = "tool" /\ x3' = x3 /\ x1' = Subagent!AfterCall /\ Subagent!Emit(<<"tool_completed">>)
    BY <1>10 DEF Subagent!EndTool
  <2>. QED  BY <1>2, <1>7, <2>1, SubagentTellsAndSteps DEF Unfinished, Subagent!Kinds, Subagent!Finished
<1>11. ASSUME NEW kind \in {"action", "error", "thought"}, Subagent!Report(kind),
              x1.pc \in Unfinished \ {"run", "tool"},
              x1' \in Subagent!Tasks, x1'.mode = x1.mode, x1'.saved = x1.saved,
              x1'.pc \in Unfinished \ {"run", "tool", "call"}
       PROVE  Subagent!IInv'
  <2>1. \/ x3' = x3
        \/ x3 \in Subagent!Records /\ x3' \in Subagent!Records /\ x3'.status = x3.status
    BY <1>1, <1>11 DEF Subagent!Report, Subagent!Records
  <2>2. CASE Subagent!InBackground
    <3>1. Subagent!Emit(<<kind>>)
      BY <1>11, <2>2 DEF Subagent!Report
    <3>. QED  BY <1>2, <1>11, <2>1, <3>1, SubagentTellsAndSteps DEF Unfinished, Subagent!Kinds, Subagent!Finished
  <2>3. CASE ~Subagent!InBackground
    <3>1. x2' = x2
      BY <1>11, <2>3 DEF Subagent!Report
    <3>. QED  BY <1>2, <1>11, <2>1, <3>1, SubagentSteps DEF Unfinished
  <2>. QED  BY <2>2, <2>3
<1>12. CASE Subagent!Progress
  <2>1. x1.pc = "progress" /\ Subagent!Report("action")
    BY <1>12 DEF Subagent!Progress
  <2>2. /\ x1' \in Subagent!Tasks /\ x1'.pc \in {"ask", "finish"}
        /\ x1'.mode = x1.mode /\ x1'.saved = x1.saved
    <3>1. CASE x1' = [x1 EXCEPT !.pc = "ask", !.step = @ + 1]
      <4>1. x1.step + 1 \in Nat
        BY <1>1
      <4>. QED  BY <1>1, <3>1, <4>1 DEF Subagent!Tasks, Subagent!Places
    <3>2. CASE x1' = [x1 EXCEPT !.pc = "finish", !.outcome = "steps"]
      BY <1>1, <3>2 DEF Subagent!Tasks, Subagent!Places, Subagent!Outcomes
    <3>. QED  BY <1>12, <3>1, <3>2 DEF Subagent!Progress
  <2>. QED  BY <1>11, <2>1, <2>2 DEF Unfinished
<1>13. CASE Subagent!ReportError \/ Subagent!ReportAnswer
  <2>1. /\ x1.pc \in {"failing", "done"} /\ x1' = Subagent!At("finish")
        /\ \E kind \in {"error", "thought"} : Subagent!Report(kind)
    BY <1>13 DEF Subagent!ReportError, Subagent!ReportAnswer
  <2>2. /\ x1' \in Subagent!Tasks /\ x1'.pc = "finish"
        /\ x1'.mode = x1.mode /\ x1'.saved = x1.saved
    BY <1>1, <2>1 DEF Subagent!Tasks, Subagent!Places, Subagent!At
  <2>. QED  BY <1>11, <2>1, <2>2 DEF Unfinished
<1>14. CASE Subagent!EmitFinished
  <2>1. /\ x1.pc = "finish" /\ x3' = x3 /\ Subagent!Emit(<<Subagent!FinishTold>>)
        /\ x1' = Subagent!At(IF Subagent!InBackground THEN "save" ELSE "over")
    BY <1>14 DEF Subagent!EmitFinished, Subagent!FinishTold
  <2>2. /\ x1' \in Subagent!Tasks /\ x1'.pc = IF Subagent!InBackground THEN "save" ELSE "over"
        /\ x1'.mode = x1.mode /\ x1'.saved = x1.saved /\ x1'.outcome = x1.outcome
    BY <1>1, <2>1 DEF Subagent!Tasks, Subagent!Places, Subagent!At, Subagent!Late
  <2>3. Subagent!FinishTold \in Subagent!Finished /\ Subagent!FinishTold' = Subagent!FinishTold
    BY <2>2 DEF Subagent!FinishTold, Subagent!Finished
  <2>4. x1'.pc \in {"save", "over"}
    BY <2>2
  <2>. QED  BY <1>2, <2>1, <2>2, <2>3, <2>4, SubagentTellsAndSteps DEF Unfinished, Subagent!Kinds, Subagent!Finished
<1>. QED  BY <1>3, <1>4, <1>5, <1>6, <1>8, <1>9, <1>10, <1>12, <1>13, <1>14

(* What happens around the run: nothing is told, and the outcome stays.      *)
LEMMA SubagentQuiet ==
  ASSUME Subagent!IInv, x2' = x2, x1'.outcome = x1.outcome,
         \/ x1'.pc = x1.pc \/ x1'.pc = "dead"
         \/ x1.pc = "save" /\ x1'.pc = "record"
         \/ x1.pc = "record" /\ x1'.pc = "over"
  PROVE  Subagent!EventsFollow' /\ Subagent!EventsTellTheRun'
<1>1. Subagent!FinishTold' = Subagent!FinishTold
  BY DEF Subagent!FinishTold
<1>2. Subagent!EventsFollow'
  BY DEF Subagent!IInv, Subagent!EventsFollow
<1>3. Subagent!EventsTellTheRun'
  BY <1>1 DEF Subagent!IInv, Subagent!EventsFollow, Subagent!SubagentsTellTheTruth,
              Subagent!EventsTellTheRun, Subagent!EventsAreInOrder
<1>. QED  BY <1>2, <1>3

LEMMA SubagentAround ==
  ASSUME Subagent!IInv,
         \/ \E mode \in {"persistent", "parallel", "oneshot", "background"} :
              Subagent!HandToTeam(mode) \/ Subagent!Launch(mode)
         \/ Subagent!SaveFile \/ Subagent!SetRecord
         \/ Subagent!ReadStatus \/ Subagent!ReadResult \/ Subagent!Restart
         \/ UNCHANGED <<x1, x2, x3, x4, x5, x6, x7>>
  PROVE  Subagent!IInv'
<1>1. /\ x1 \in Subagent!Tasks /\ x3 \in {None} \cup Subagent!Records
      /\ x4 \in {None} \cup Subagent!Ends /\ x5 \in Subagent!Readers
      /\ x1.pc \in {"call", "tool"} => x1.calls > 0
      /\ x2 \in Seq(Subagent!Kinds)
      /\ Subagent!EndsAreKept /\ Subagent!OutputTellsTheEnd
  BY DEF Subagent!IInv, Subagent!TypeOK, Subagent!SubagentsTellTheTruth
<1>2. /\ None \notin Subagent!Ends /\ None \notin {"background", "running"}
      /\ None \notin Subagent!Records
  BY SubagentAssumption
<1>3. ASSUME UNCHANGED <<x1, x2, x3, x4, x5>> PROVE Subagent!IInv'
  <2>1. Subagent!TypeOK'
    BY <1>3 DEF Subagent!IInv, Subagent!TypeOK
  <2>2. Subagent!EventsFollow' /\ Subagent!EventsTellTheRun'
    BY <1>3, SubagentQuiet
  <2>3. Subagent!EndsAreKept' /\ Subagent!OutputTellsTheEnd'
    BY <1>1, <1>3 DEF Subagent!EndsAreKept, Subagent!OutputTellsTheEnd, Subagent!InBackground,
       Subagent!Status
  <2>. QED  BY <2>1, <2>2, <2>3 DEF Subagent!IInv, Subagent!SubagentsTellTheTruth
<1>4. ASSUME NEW mode \in {"oneshot", "background"}, Subagent!Launch(mode) PROVE Subagent!IInv'
  <2>1. /\ x1.pc = "idle" /\ UNCHANGED <<x2, x4, x5>>
        /\ x1' = [Subagent!NoTask EXCEPT !.pc = "run", !.mode = mode]
        /\ x3' = IF mode = "background" THEN [status |-> "running", step |-> 0] ELSE None
    BY <1>4 DEF Subagent!Launch
  <2>2. /\ x1' \in Subagent!Tasks /\ x1'.pc = "run" /\ x1'.mode = mode /\ x1'.saved = FALSE
    BY <2>1 DEF Subagent!Tasks, Subagent!NoTask, Subagent!Places
  <2>3. IF mode = "background" THEN x3' \in Subagent!Records /\ x3'.status = "running" ELSE x3' = None
    BY <2>1 DEF Subagent!Records
  <2>4. x4 = None /\ ~x5.missing /\ x5.pc # "result" /\ x5.told = None
    BY <1>1, <2>1 DEF Subagent!EndsAreKept, Subagent!OutputTellsTheEnd, Subagent!Late
  <2>5. Subagent!TypeOK'
    BY <1>1, <2>1, <2>2, <2>3 DEF Subagent!TypeOK
  <2>6. Subagent!EventsFollow' /\ Subagent!EventsTellTheRun'
    BY <2>1, <2>2 DEF Subagent!IInv, Subagent!EventsFollow, Subagent!SubagentsTellTheTruth,
              Subagent!EventsTellTheRun, Subagent!EventsAreInOrder
  <2>7. Subagent!EndsAreKept'
    BY <2>1, <2>2, <2>3, <2>4, <1>2 DEF Subagent!EndsAreKept, Subagent!InBackground
  <2>8. Subagent!OutputTellsTheEnd'
    BY <2>1, <2>4 DEF Subagent!OutputTellsTheEnd
  <2>. QED  BY <2>5, <2>6, <2>7, <2>8 DEF Subagent!IInv, Subagent!SubagentsTellTheTruth
<1>5. CASE Subagent!SaveFile
  <2>1. /\ x1.pc = "save" /\ UNCHANGED <<x2, x3, x5>>
        /\ \/ x4' = Subagent!Status /\ x1' = [x1 EXCEPT !.pc = "record", !.saved = TRUE]
           \/ x4' = x4 /\ x1' = [x1 EXCEPT !.pc = "record"]
    BY <1>5 DEF Subagent!SaveFile, Subagent!At
  <2>2. /\ x1' \in Subagent!Tasks /\ x1'.pc = "record" /\ x1'.mode = x1.mode /\ x1'.outcome = x1.outcome
        /\ \/ x4' = Subagent!Status /\ x1'.saved
           \/ x4' = x4 /\ x1'.saved = x1.saved
    BY <1>1, <2>1 DEF Subagent!Tasks, Subagent!Places, Subagent!Late
  <2>3. Subagent!Status \in Subagent!Ends /\ Subagent!Status' = Subagent!Status
    BY <2>2 DEF Subagent!Status, Subagent!Ends
  <2>4. x4 = None /\ ~x1.saved /\ ~x5.missing /\ x5.pc # "result" /\ x5.told = None
        /\ (x3 \in Subagent!Records => x3.status = "running")
    BY <1>1, <2>1 DEF Subagent!EndsAreKept, Subagent!OutputTellsTheEnd, Subagent!Late
  <2>5. Subagent!TypeOK'
    BY <1>1, <2>1, <2>2, <2>3 DEF Subagent!TypeOK
  <2>6. Subagent!EventsFollow' /\ Subagent!EventsTellTheRun'
    BY <2>1, <2>2, SubagentQuiet
  <2>7. Subagent!EndsAreKept'
    BY <1>1, <1>2, <2>1, <2>2, <2>3, <2>4 DEF Subagent!EndsAreKept, Subagent!InBackground,
       Subagent!Late
  <2>8. Subagent!OutputTellsTheEnd'
    BY <1>1, <2>1, <2>2, <2>3, <2>4 DEF Subagent!OutputTellsTheEnd
  <2>. QED  BY <2>5, <2>6, <2>7, <2>8 DEF Subagent!IInv, Subagent!SubagentsTellTheTruth
<1>6. CASE Subagent!SetRecord
  <2>1. /\ x1.pc = "record" /\ UNCHANGED <<x2, x4, x5>>
        /\ x1' = [x1 EXCEPT !.pc = "over"]
        /\ x3' = [x3 EXCEPT !.status = Subagent!Status]
    BY <1>6 DEF Subagent!SetRecord, Subagent!At
  <2>2. /\ x1' \in Subagent!Tasks /\ x1'.pc = "over" /\ x1'.mode = x1.mode /\ x1'.outcome = x1.outcome
        /\ x1'.saved = x1.saved
    BY <1>1, <2>1 DEF Subagent!Tasks, Subagent!Places, Subagent!Late
  <2>3. Subagent!Status \in Subagent!Ends /\ Subagent!Status' = Subagent!Status
    BY <2>2 DEF Subagent!Status, Subagent!Ends
  <2>4. x3 \in Subagent!Records /\ x3' \in Subagent!Records /\ x3'.status = Subagent!Status
    BY <1>1, <2>1, <2>3 DEF Subagent!EndsAreKept, Subagent!Records
  <2>5. Subagent!TypeOK'
    BY <1>1, <2>1, <2>2, <2>4 DEF Subagent!TypeOK
  <2>6. Subagent!EventsFollow' /\ Subagent!EventsTellTheRun'
    BY <2>1, <2>2, SubagentQuiet
  <2>7. Subagent!EndsAreKept'
    BY <1>1, <2>1, <2>2, <2>3, <2>4 DEF Subagent!EndsAreKept, Subagent!InBackground, Subagent!Late
  <2>8. Subagent!OutputTellsTheEnd'
    BY <1>1, <2>1, <2>2, <2>3, <2>4 DEF Subagent!OutputTellsTheEnd
  <2>. QED  BY <2>5, <2>6, <2>7, <2>8 DEF Subagent!IInv, Subagent!SubagentsTellTheTruth
<1>7. ASSUME UNCHANGED <<x1, x2, x3, x4>>, x5' \in Subagent!Readers,
             x5'.pc = "result" => x1.pc \in Subagent!Late /\ x5'.status = Subagent!Status,
             x5'.missing => x1.pc \in Subagent!Late /\ ~x1.saved,
             x5'.told # None => x5'.told = Subagent!Status /\ x1.saved
      PROVE  Subagent!IInv'
  <2>1. Subagent!TypeOK'
    BY <1>7 DEF Subagent!IInv, Subagent!TypeOK
  <2>2. Subagent!EventsFollow' /\ Subagent!EventsTellTheRun'
    BY <1>7, SubagentQuiet
  <2>3. Subagent!Status' = Subagent!Status
    BY <1>7 DEF Subagent!Status
  <2>4. Subagent!EndsAreKept'
    BY <1>1, <1>7, <2>3 DEF Subagent!EndsAreKept, Subagent!InBackground
  <2>5. Subagent!OutputTellsTheEnd'
    BY <1>1, <1>7, <2>3 DEF Subagent!OutputTellsTheEnd, Subagent!Late
  <2>. QED  BY <2>1, <2>2, <2>4, <2>5 DEF Subagent!IInv, Subagent!SubagentsTellTheTruth
<1>8. /\ x5.missing => x1.pc \in Subagent!Late /\ ~x1.saved
      /\ x5.told # None => x5.told = Subagent!Status /\ x1.saved
  BY <1>1 DEF Subagent!EndsAreKept, Subagent!OutputTellsTheEnd
<1>9. ASSUME NEW answer \in {None} \cup Subagent!Ends
      PROVE  /\ Subagent!Told(answer) \in Subagent!Readers
             /\ Subagent!Told(answer).pc = "idle" /\ Subagent!Told(answer).told = answer
             /\ Subagent!Told(answer).missing = x5.missing
  <2>1. x5.reads \in Nat
    BY <1>1 DEF Subagent!Readers
  <2>2. x5.reads + 1 \in Nat
    BY <2>1
  <2>. QED  BY <1>1, <2>2 DEF Subagent!Told, Subagent!Readers
<1>10. CASE Subagent!ReadStatus
  <2>1. /\ UNCHANGED <<x1, x2, x3, x4>>
        /\ x5' = IF Subagent!StatusRead \in {"running", "not_found"}
                   THEN Subagent!Told(x5.told)
                   ELSE [x5 EXCEPT !.pc = "result", !.status = Subagent!StatusRead]
    BY <1>10 DEF Subagent!ReadStatus
  <2>2. CASE Subagent!StatusRead \in {"running", "not_found"}
    <3>1. x5.told \in {None} \cup Subagent!Ends
      BY <1>1 DEF Subagent!Readers
    <3>2. x5' \in Subagent!Readers /\ x5'.pc = "idle" /\ x5'.told = x5.told /\ x5'.missing = x5.missing
      BY <1>9, <2>1, <2>2, <3>1
    <3>. QED  BY <1>7, <1>8, <2>1, <3>2
  <2>3. CASE Subagent!StatusRead \notin {"running", "not_found"}
    <3>1. Subagent!StatusRead = Subagent!Status /\ x1.pc \in Subagent!Late
      BY <1>1, <2>3 DEF Subagent!StatusRead, Subagent!EndsAreKept, Subagent!OutputTellsTheEnd,
         Subagent!Late
    <3>2. Subagent!Status \in Subagent!Ends
      BY DEF Subagent!Status, Subagent!Ends
    <3>3. /\ x5' \in Subagent!Readers /\ x5'.status = Subagent!Status
          /\ x5'.told = x5.told /\ x5'.missing = x5.missing
      BY <1>1, <2>1, <2>3, <3>1, <3>2 DEF Subagent!Readers
    <3>. QED  BY <1>7, <1>8, <2>1, <3>1, <3>3
  <2>. QED  BY <2>2, <2>3
<1>11. CASE Subagent!ReadResult
  <2>1. /\ UNCHANGED <<x1, x2, x3, x4>> /\ x5.pc = "result"
        /\ x5' = IF x4 = None THEN [Subagent!Told(x5.told) EXCEPT !.missing = TRUE] ELSE Subagent!Told(x4)
    BY <1>11 DEF Subagent!ReadResult
  <2>2. x1.pc \in Subagent!Late /\ (x1.saved <=> x4 # None) /\ (x4 # None => x4 = Subagent!Status)
    BY <1>1, <2>1 DEF Subagent!EndsAreKept, Subagent!OutputTellsTheEnd
  <2>3. CASE x4 = None
    <3>1. x5.told \in {None} \cup Subagent!Ends
      BY <1>1 DEF Subagent!Readers
    <3>2. x5' \in Subagent!Readers /\ x5'.pc = "idle" /\ x5'.told = x5.told
      <4> DEFINE told == Subagent!Told(x5.told)
      <4>1. told \in Subagent!Readers /\ told.pc = "idle" /\ told.told = x5.told
        BY <1>9, <3>1
      <4>2. x5' = [told EXCEPT !.missing = TRUE]
        BY <2>1, <2>3
      <4>. HIDE DEF told
      <4>. QED  BY <4>1, <4>2 DEF Subagent!Readers
    <3>. QED  BY <1>7, <1>8, <2>1, <2>2, <2>3, <3>2
  <2>4. CASE x4 # None
    <3>1. x5' \in Subagent!Readers /\ x5'.pc = "idle" /\ x5'.told = x4 /\ x5'.missing = x5.missing
      BY <1>1, <1>9, <2>1, <2>4
    <3>. QED  BY <1>7, <1>8, <2>1, <2>2, <2>4, <3>1
  <2>. QED  BY <2>3, <2>4
<1>12. CASE Subagent!Restart
  <2>1. /\ UNCHANGED <<x2, x4>> /\ x3' = None /\ x5' = [x5 EXCEPT !.pc = "idle"]
        /\ x1' = IF x1.pc = "idle" THEN x1 ELSE [x1 EXCEPT !.pc = "dead"]
    BY <1>12 DEF Subagent!Restart, Subagent!At
  <2>2. /\ x1' \in Subagent!Tasks /\ x1'.mode = x1.mode /\ x1'.outcome = x1.outcome
        /\ x1'.saved = x1.saved
        /\ x1'.pc = IF x1.pc = "idle" THEN "idle" ELSE "dead"
    BY <1>1, <2>1 DEF Subagent!Tasks, Subagent!Places, Subagent!Late
  <2>3. x5' \in Subagent!Readers /\ x5'.pc = "idle" /\ x5'.told = x5.told /\ x5'.missing = x5.missing
    BY <1>1, <2>1 DEF Subagent!Readers
  <2>4. Subagent!Status' = Subagent!Status
    BY <2>2 DEF Subagent!Status
  <2>5. Subagent!TypeOK'
    BY <1>1, <2>1, <2>2, <2>3 DEF Subagent!TypeOK
  <2>6. Subagent!EventsFollow' /\ Subagent!EventsTellTheRun'
    BY <2>1, <2>2, SubagentQuiet
  <2>7. Subagent!EndsAreKept'
    BY <1>1, <1>2, <2>1, <2>2, <2>3, <2>4
       DEF Subagent!EndsAreKept, Subagent!InBackground, Subagent!Late
  <2>8. Subagent!OutputTellsTheEnd'
    BY <1>1, <2>1, <2>2, <2>3, <2>4 DEF Subagent!OutputTellsTheEnd, Subagent!EndsAreKept,
       Subagent!Late
  <2>. QED  BY <2>5, <2>6, <2>7, <2>8 DEF Subagent!IInv, Subagent!SubagentsTellTheTruth
<1>13. ASSUME NEW mode \in {"persistent", "parallel", "oneshot", "background"}, Subagent!HandToTeam(mode)
       PROVE  Subagent!IInv'
  BY <1>3, <1>13 DEF Subagent!HandToTeam
<1>14. ASSUME NEW mode, Subagent!Launch(mode) PROVE Subagent!IInv'
  BY <1>4, <1>14 DEF Subagent!Launch
<1>. QED  BY <1>3, <1>5, <1>6, <1>10, <1>11, <1>12, <1>13, <1>14

LEMMA SubagentNext ==
  ASSUME Subagent!IInv, Subagent!Next \/ UNCHANGED <<x1, x2, x3, x4, x5, x6, x7>>
  PROVE  Subagent!IInv'
BY SubagentRunNext, SubagentAround DEF Subagent!Next

LEMMA SubagentInit == ASSUME Subagent!Init PROVE Subagent!IInv
<1>1. x1 = Subagent!NoTask /\ x2 = <<>> /\ x3 = None /\ x4 = None
      /\ x5 = [pc |-> "idle", status |-> None, told |-> None, missing |-> FALSE, reads |-> 0]
  BY DEF Subagent!Init
<1>2. x1 \in Subagent!Tasks /\ x1.pc = "idle" /\ x1.mode = None /\ ~x1.saved
  BY <1>1 DEF Subagent!NoTask, Subagent!Tasks, Subagent!Places
<1>3. x5 \in Subagent!Readers /\ x5.pc = "idle" /\ x5.told = None /\ ~x5.missing
  BY <1>1 DEF Subagent!Readers
<1>4. None \notin {"background", "running"} /\ None \notin Subagent!Records
  BY SubagentAssumption
<1>5. Subagent!TypeOK
  BY <1>1, <1>2, <1>3 DEF Subagent!TypeOK
<1>6. Subagent!EventsFollow /\ Subagent!EventsTellTheRun
  BY <1>1, <1>2 DEF Subagent!EventsFollow, Subagent!EventsTellTheRun, Subagent!EventsAreInOrder
<1>7. Subagent!EndsAreKept
  BY <1>1, <1>2, <1>3, <1>4 DEF Subagent!EndsAreKept, Subagent!InBackground
<1>8. Subagent!OutputTellsTheEnd
  BY <1>1, <1>3 DEF Subagent!OutputTellsTheEnd
<1>. QED  BY <1>5, <1>6, <1>7, <1>8 DEF Subagent!IInv, Subagent!SubagentsTellTheTruth

(* Whatever a subagent's model answers, however its tools, its stream, its    *)
(* output file and the process fail: its events tell one run with its       *)
(* outcome, and what TaskOutput says of the end is that outcome.             *)
THEOREM SubagentsAreTruthful == ComponentsSpec => []SubagentsTellTheTruth
<1> DEFINE Inv == focus = "subagent" => Subagent!IInv
<1>1. ComponentsInit => Inv
  BY SubagentInit DEF ComponentsInit
<1>2. Inv /\ [ComponentsNext]_componentsVars => Inv'
  <2> SUFFICES ASSUME Subagent!IInv, focus = "subagent", [ComponentsNext]_componentsVars
               PROVE  Subagent!IInv'
    BY DEF ComponentsNext, componentsVars
  <2>1. CASE ComponentsNext
    BY <2>1, SubagentNext DEF ComponentsNext
  <2>2. CASE UNCHANGED componentsVars
    BY <2>2, SubagentNext DEF componentsVars, cells
  <2>. QED  BY <2>1, <2>2
<1>3. Inv => SubagentsTellTheTruth
  BY DEF SubagentsTellTheTruth, Subagent!IInv
<1>. HIDE DEF Inv
<1>. QED  BY <1>1, <1>2, <1>3, PTL DEF ComponentsSpec

-----------------------------------------------------------------------------
(* McpSessions.  The cells are client (x1), live (x2), owner (x3), call (x4)  *)
(* and late (x5); threads are Actors.                                       *)

(* What a coroutine does to the record of its call, or an owner to the       *)
(* client, leaves loops and the one close as they are.                       *)
LEMMA CallsStay ==
  ASSUME McpCalls!IInv, x2' = x2, x5' = x5,
         x1'.loop = x1.loop, x1'.pending = x1.pending, x1'.stopping = x1.stopping,
         x1'.loops = x1.loops,
         \A t \in Actors : /\ x4'[t].kind = x4[t].kind /\ x4'[t].loop = x4[t].loop
                           /\ \/ x4'[t].pc = x4[t].pc
                              \/ x4'[t].pc \notin McpCalls!Out /\ x4[t].pc \notin McpCalls!Out
  PROVE  McpCalls!LoopRuns' /\ McpCalls!CloseIsOnce'
<1>1. McpCalls!Pending' = McpCalls!Pending
  BY DEF McpCalls!Pending, McpCalls!Out
<1>2. McpCalls!LoopRuns'
  <2>1. \A t \in McpCalls!Pending : t \in Actors
    BY DEF McpCalls!Pending
  <2>. QED  BY <1>1, <2>1 DEF McpCalls!IInv, McpCalls!LoopRuns
<1>3. \A t \in Actors : /\ x4'[t].pc = "final" <=> x4[t].pc = "final"
                        /\ x4'[t].pc = "done" <=> x4[t].pc = "done"
                        /\ x4'[t].pc = "idle" <=> x4[t].pc = "idle"
  BY DEF McpCalls!Out
<1>4. McpCalls!CloseIsOnce'
  BY <1>3 DEF McpCalls!IInv, McpCalls!CloseIsOnce, McpCalls!At
<1>. QED  BY <1>2, <1>4

(* The coroutine of a call takes a step.  Unless it changes neither who holds *)
(* the guard nor which owner is in charge, nor any owner, the guard is free    *)
(* or its own.                                                              *)
LEMMA CallsMove ==
  ASSUME McpCalls!IInv, NEW t \in Actors, NEW r \in McpCalls!CallStates,
         x4' = [x4 EXCEPT ![t] = r], r.kind = x4[t].kind, r.loop = x4[t].loop,
         x4[t].pc \notin McpCalls!Out, r.pc \notin McpCalls!Out, McpCalls!SentRight(r),
         x1' \in McpCalls!Clients, x1'.loop = x1.loop, x1'.pending = x1.pending,
         x1'.stopping = x1.stopping, x1'.loops = x1.loops, x2' = x2, x5' = x5,
         x3' \in [McpCalls!Owners -> McpCalls!OwnerStates],
         r.pc \in {"ready", "unwind", "closing"} => x1'.guard = t /\ x1'.owner # None,
         r.pc \in {"ready", "unwind"} => x1'.owner = r.session,
         r.pc = "closing" => x3'[x1'.owner].shutdown,
         \/ x1'.guard = x1.guard /\ x1'.owner = x1.owner /\ x3' = x3
         \/ x1.guard \in {None, t},
         \A o \in McpCalls!Owners :
           /\ x3'[o].loop # None => x3'[o].loop <= x1.loops
           /\ McpCalls!InCharge(o)' => x1'.owner = o
  PROVE  McpCalls!IInv'
<1>1. /\ x4'[t] = r /\ \A u \in Actors : u # t => x4'[u] = x4[u]
      /\ x4' \in [Actors -> McpCalls!CallStates]
  BY DEF McpCalls!IInv, McpCalls!TypeOK
<1>2. McpCalls!TypeOK'
  BY <1>1 DEF McpCalls!IInv, McpCalls!TypeOK
<1>3. McpCalls!LoopRuns' /\ McpCalls!CloseIsOnce'
  <2>1. \A u \in Actors : /\ x4'[u].kind = x4[u].kind /\ x4'[u].loop = x4[u].loop
                          /\ \/ x4'[u].pc = x4[u].pc
                             \/ x4'[u].pc \notin McpCalls!Out /\ x4[u].pc \notin McpCalls!Out
    BY <1>1
  <2>. QED  BY <2>1, CallsStay
<1>4. McpCalls!GuardIsHeld'
  <2>1. ASSUME NEW u \in Actors, u # t, x4[u].pc \in {"ready", "unwind", "closing"}
        PROVE  x1'.guard = x1.guard /\ x1'.owner = x1.owner /\ x3' = x3
    BY <2>1, CallsAssumption DEF McpCalls!IInv, McpCalls!GuardIsHeld
  <2>2. ASSUME NEW u \in Actors, u # t
        PROVE  /\ x4[u].pc \in {"ready", "unwind", "closing"} => x1'.guard = u /\ x1'.owner # None
               /\ x4[u].pc \in {"ready", "unwind"} => x1'.owner = x4[u].session
               /\ x4[u].pc = "closing" => x3'[x1'.owner].shutdown
    BY <2>1, <2>2 DEF McpCalls!IInv, McpCalls!GuardIsHeld, McpCalls!At
  <2>. QED  BY <1>1, <2>2 DEF McpCalls!GuardIsHeld, McpCalls!At
<1>5. McpCalls!OwnerIsKnown'
  BY DEF McpCalls!OwnerIsKnown
<1>6. \A u \in Actors : McpCalls!SentRight(x4'[u])
  BY <1>1 DEF McpCalls!IInv
<1>. QED  BY <1>2, <1>3, <1>4, <1>5, <1>6 DEF McpCalls!IInv

(* An owner takes a step, or is told to: it never comes back into charge. *)
LEMMA CallsOwnerMoves ==
  ASSUME McpCalls!IInv, NEW o \in McpCalls!Owners, NEW w \in McpCalls!OwnerStates,
         x3' = [x3 EXCEPT ![o] = w], w.loop = x3[o].loop,
         x3[o].shutdown => w.shutdown,
         w.pc \in {"opening", "serving"} => x3[o].pc \in {"opening", "serving"},
         x2' = x2, x4' = x4, x5' = x5,
         \/ x1' = x1
         \/ \E s \in {None} \cup McpCalls!Owners : x1' = [x1 EXCEPT !.session = s]
  PROVE  McpCalls!IInv'
<1>1. /\ x3'[o] = w /\ \A p \in McpCalls!Owners : p # o => x3'[p] = x3[p]
      /\ x3' \in [McpCalls!Owners -> McpCalls!OwnerStates]
  BY DEF McpCalls!IInv, McpCalls!TypeOK
<1>2. /\ x1' \in McpCalls!Clients
      /\ x1'.loop = x1.loop /\ x1'.pending = x1.pending /\ x1'.stopping = x1.stopping
      /\ x1'.loops = x1.loops /\ x1'.guard = x1.guard /\ x1'.owner = x1.owner
  BY DEF McpCalls!IInv, McpCalls!TypeOK, McpCalls!Clients
<1>3. McpCalls!TypeOK'
  BY <1>1, <1>2 DEF McpCalls!IInv, McpCalls!TypeOK
<1>4. McpCalls!LoopRuns' /\ McpCalls!CloseIsOnce'
  BY <1>2, CallsStay
<1>5. \A p \in McpCalls!Owners : /\ x3[p].shutdown => x3'[p].shutdown
                                 /\ x3'[p].loop = x3[p].loop
                                 /\ McpCalls!InCharge(p)' => McpCalls!InCharge(p)
  BY <1>1 DEF McpCalls!InCharge
<1>6. McpCalls!GuardIsHeld'
  <2>1. x1.owner # None => x1.owner \in McpCalls!Owners
    BY DEF McpCalls!IInv, McpCalls!TypeOK, McpCalls!Clients
  <2>. QED  BY <1>2, <1>5, <2>1 DEF McpCalls!IInv, McpCalls!GuardIsHeld, McpCalls!At
<1>7. McpCalls!OwnerIsKnown'
  BY <1>2, <1>5 DEF McpCalls!IInv, McpCalls!OwnerIsKnown
<1>8. \A t \in Actors : McpCalls!SentRight(x4'[t])
  BY DEF McpCalls!IInv
<1>. QED  BY <1>3, <1>4, <1>6, <1>7, <1>8 DEF McpCalls!IInv

(* A call goes to another place, and keeps the rest of its record. *)
LEMMA CallsGoes ==
  ASSUME McpCalls!IInv, NEW t \in Actors, NEW p \in McpCalls!Places, McpCalls!Goes(t, p)
  PROVE  \E r \in McpCalls!CallStates :
           /\ x4' = [x4 EXCEPT ![t] = r] /\ r.pc = p
           /\ r.kind = x4[t].kind /\ r.loop = x4[t].loop /\ r.session = x4[t].session
           /\ r.tries = x4[t].tries /\ r.sent = x4[t].sent /\ r.after = x4[t].after
<1> DEFINE r == [x4[t] EXCEPT !.pc = p]
<1>1. x4 \in [Actors -> McpCalls!CallStates] /\ x4[t] \in McpCalls!CallStates
  BY DEF McpCalls!IInv, McpCalls!TypeOK
<1>2. /\ r \in McpCalls!CallStates /\ r.pc = p
      /\ r.kind = x4[t].kind /\ r.loop = x4[t].loop /\ r.session = x4[t].session
      /\ r.tries = x4[t].tries /\ r.sent = x4[t].sent /\ r.after = x4[t].after
  BY <1>1 DEF McpCalls!CallStates
<1>3. x4' = [x4 EXCEPT ![t] = r]
  BY <1>1 DEF McpCalls!Goes
<1>. HIDE DEF r
<1>. QED  BY <1>2, <1>3

(* A step that leaves the guard and the owners alone. *)
LEMMA CallsQuiet ==
  ASSUME McpCalls!IInv, NEW t \in Actors, NEW r \in McpCalls!CallStates,
         x4' = [x4 EXCEPT ![t] = r], r.kind = x4[t].kind, r.loop = x4[t].loop,
         x4[t].pc \notin McpCalls!Out, r.pc \notin McpCalls!Out, McpCalls!SentRight(r),
         r.pc \notin {"ready", "closing"},
         r.pc = "unwind" => x4[t].pc = "ready" /\ r.session = x4[t].session,
         x1' = x1 \/ x1' = [x1 EXCEPT !.bound = x4[t].loop], x2' = x2, x3' = x3, x5' = x5
  PROVE  McpCalls!IInv'
<1>1. x1 \in McpCalls!Clients /\ x4[t].loop \in {None} \cup McpCalls!Loops
  BY DEF McpCalls!IInv, McpCalls!TypeOK, McpCalls!CallStates
<1>2. /\ x1' \in McpCalls!Clients
      /\ x1'.loop = x1.loop /\ x1'.pending = x1.pending /\ x1'.stopping = x1.stopping
      /\ x1'.loops = x1.loops /\ x1'.guard = x1.guard /\ x1'.owner = x1.owner
  BY <1>1 DEF McpCalls!Clients
<1>3. x3' \in [McpCalls!Owners -> McpCalls!OwnerStates]
  BY DEF McpCalls!IInv, McpCalls!TypeOK
<1>4. r.pc = "unwind" => x1'.guard = t /\ x1'.owner # None /\ x1'.owner = r.session
  BY <1>2 DEF McpCalls!IInv, McpCalls!GuardIsHeld
<1>5. \A o \in McpCalls!Owners :
        /\ x3'[o].loop # None => x3'[o].loop <= x1.loops
        /\ McpCalls!InCharge(o)' => x1'.owner = o
  BY <1>2 DEF McpCalls!IInv, McpCalls!OwnerIsKnown, McpCalls!InCharge
<1>6. /\ r.pc \in {"ready", "unwind", "closing"} => x1'.guard = t /\ x1'.owner # None
      /\ r.pc \in {"ready", "unwind"} => x1'.owner = r.session
      /\ r.pc = "closing" => x3'[x1'.owner].shutdown
  BY <1>4
<1>. QED  BY <1>2, <1>3, <1>5, <1>6, CallsMove

(* The guard is let go; the owner that was in charge is not any more when the *)
(* client forgets it.                                                       *)
LEMMA CallsLetGo ==
  ASSUME McpCalls!IInv, NEW t \in Actors, NEW r \in McpCalls!CallStates,
         x4' = [x4 EXCEPT ![t] = r], r.kind = x4[t].kind, r.loop = x4[t].loop,
         x4[t].pc \in {"ready", "unwind", "closing"}, r.pc \notin McpCalls!Out,
         McpCalls!SentRight(r), r.pc \notin {"ready", "unwind", "closing"},
         x1' \in McpCalls!Clients, x1'.loop = x1.loop, x1'.pending = x1.pending,
         x1'.stopping = x1.stopping, x1'.loops = x1.loops, x2' = x2, x5' = x5,
         x1'.owner = x1.owner \/ ~McpCalls!InCharge(x1.owner),
         x3' \in [McpCalls!Owners -> McpCalls!OwnerStates],
         \A o \in McpCalls!Owners : x3'[o].loop = x3[o].loop
                                    /\ (McpCalls!InCharge(o)' => McpCalls!InCharge(o))
  PROVE  McpCalls!IInv'
<1>1. x1.guard = t /\ x4[t].pc \notin McpCalls!Out
  BY DEF McpCalls!IInv, McpCalls!GuardIsHeld, McpCalls!Out
<1>2. \A o \in McpCalls!Owners :
        /\ x3'[o].loop # None => x3'[o].loop <= x1.loops
        /\ McpCalls!InCharge(o)' => x1'.owner = o
  BY DEF McpCalls!IInv, McpCalls!OwnerIsKnown
<1>3. /\ r.pc \in {"ready", "unwind", "closing"} => x1'.guard = t /\ x1'.owner # None
      /\ r.pc \in {"ready", "unwind"} => x1'.owner = r.session
      /\ r.pc = "closing" => x3'[x1'.owner].shutdown
  OBVIOUS
<1>4. x1.guard \in {None, t}
  BY <1>1
<1>. QED  BY <1>1, <1>2, <1>3, <1>4, CallsMove

(* connect, up to the guard. *)
LEMMA CallsConnect ==
  ASSUME McpCalls!IInv, NEW t \in Actors, McpCalls!Connect(t) \/ McpCalls!Queue(t)
  PROVE  McpCalls!IInv'
<1>1. McpCalls!SentRight(x4[t]) /\ x4[t] \in McpCalls!CallStates /\ x4 \in [Actors -> McpCalls!CallStates]
  BY DEF McpCalls!IInv, McpCalls!TypeOK
<1>2. UNCHANGED <<x2, x3, x5>>
  BY DEF McpCalls!Connect, McpCalls!Queue, McpCalls!Enters
<1>3. ASSUME NEW p \in {"enter", "queued", "shutQueued", "leave"}, McpCalls!Goes(t, p),
             \/ p = "enter" /\ x4[t].pc = "connect"
             \/ p = "queued" /\ x4[t].pc = "enter"
             \/ p = "shutQueued" /\ x4[t].pc = "shut"
             \/ p = "leave" /\ x4[t].pc \in {"connect", "enter", "shut"},
             x1' = x1 \/ x1' = [x1 EXCEPT !.bound = x4[t].loop]
      PROVE  McpCalls!IInv'
  <2>1. p \in McpCalls!Places
    BY DEF McpCalls!Places, McpCalls!BeforeIt, McpCalls!Shutting
  <2>. PICK r \in McpCalls!CallStates :
           /\ x4' = [x4 EXCEPT ![t] = r] /\ r.pc = p
           /\ r.kind = x4[t].kind /\ r.loop = x4[t].loop /\ r.session = x4[t].session
           /\ r.tries = x4[t].tries /\ r.sent = x4[t].sent /\ r.after = x4[t].after
    BY <1>3, <2>1, CallsGoes
  <2>2. McpCalls!SentRight(r)
    BY <1>1, <1>3 DEF McpCalls!SentRight, McpCalls!BeforeIt, McpCalls!Shutting
  <2>3. x4[t].pc \notin McpCalls!Out /\ r.pc \notin McpCalls!Out
        /\ r.pc \notin {"ready", "closing", "unwind"}
    BY <1>3 DEF McpCalls!Out
  <2>. QED  BY <1>2, <1>3, <2>2, <2>3, CallsQuiet
<1>4. ASSUME x4[t].pc = "connect", x1.session # None, x1' = x1,
             x4' = [x4 EXCEPT ![t].pc = "call", ![t].session = x1.session]
      PROVE  McpCalls!IInv'
  <2> DEFINE r == [x4[t] EXCEPT !.pc = "call", !.session = x1.session]
  <2>1. x1.session \in McpCalls!Owners /\ "call" \in McpCalls!Places
    BY <1>4 DEF McpCalls!IInv, McpCalls!TypeOK, McpCalls!Clients, McpCalls!Places, McpCalls!BeforeIt
  <2>2. /\ r \in McpCalls!CallStates /\ r.pc = "call" /\ r.kind = x4[t].kind /\ r.loop = x4[t].loop
        /\ r.tries = x4[t].tries /\ r.sent = x4[t].sent
    BY <1>1, <2>1 DEF McpCalls!CallStates
  <2>3. x4' = [x4 EXCEPT ![t] = r]
    BY <1>1, <1>4
  <2>. HIDE DEF r
  <2>4. McpCalls!SentRight(r)
    BY <1>1, <1>4, <2>2 DEF McpCalls!SentRight, McpCalls!BeforeIt, McpCalls!Shutting
  <2>5. x4[t].pc \notin McpCalls!Out /\ r.pc \notin McpCalls!Out
        /\ r.pc \notin {"ready", "closing", "unwind"}
    BY <1>4, <2>2 DEF McpCalls!Out
  <2>. QED  BY <1>2, <1>4, <2>2, <2>3, <2>4, <2>5, CallsQuiet
<1>5. CASE McpCalls!Connect(t)
  BY <1>3, <1>4, <1>5 DEF McpCalls!Connect, McpCalls!At, McpCalls!Ends
<1>6. CASE McpCalls!Queue(t)
  BY <1>3, <1>6 DEF McpCalls!Queue, McpCalls!Enters, McpCalls!At, McpCalls!Ends
<1>. QED  BY <1>5, <1>6

(* The request goes out, is answered, or is given up. *)
LEMMA CallsAsk ==
  ASSUME McpCalls!IInv, NEW t \in Actors,
         \/ McpCalls!Send(t) \/ McpCalls!Answer(t) \/ McpCalls!TimesOut(t) \/ McpCalls!Disconnected(t)
  PROVE  McpCalls!IInv'
<1>1. McpCalls!SentRight(x4[t]) /\ x4[t] \in McpCalls!CallStates /\ x4 \in [Actors -> McpCalls!CallStates]
  BY DEF McpCalls!IInv, McpCalls!TypeOK
<1>2. UNCHANGED <<x1, x2, x3, x5>> /\ x4[t].pc \in {"call", "sent"} /\ x4[t].pc \notin McpCalls!Out
  BY DEF McpCalls!Send, McpCalls!Answer, McpCalls!TimesOut, McpCalls!Disconnected, McpCalls!At,
     McpCalls!Out
<1>3. {"sent", "leave", "shut"} \subseteq McpCalls!Places
  BY DEF McpCalls!Places, McpCalls!Shutting
<1>4. ASSUME NEW r \in McpCalls!CallStates, x4' = [x4 EXCEPT ![t] = r],
             r.kind = x4[t].kind, r.loop = x4[t].loop,
             r.pc \in {"sent", "leave", "shut"}, McpCalls!SentRight(r)
      PROVE  McpCalls!IInv'
  <2>1. r.pc \notin McpCalls!Out /\ r.pc \notin {"ready", "closing", "unwind"}
    BY <1>4 DEF McpCalls!Out
  <2>. QED  BY <1>2, <1>4, <2>1, CallsQuiet
<1>5. CASE McpCalls!Send(t)
  <2> DEFINE r == [x4[t] EXCEPT !.pc = "sent", !.sent = @ + 1]
  <2>1. x4[t].sent + 1 \in Nat /\ x4[t].sent \in Nat /\ x4[t].tries \in Nat
    BY <1>1 DEF McpCalls!CallStates
  <2>2. /\ r \in McpCalls!CallStates /\ r.pc = "sent" /\ r.kind = x4[t].kind /\ r.loop = x4[t].loop
        /\ r.tries = x4[t].tries /\ r.sent = x4[t].sent + 1
    BY <1>1, <1>3, <2>1 DEF McpCalls!CallStates
  <2>3. x4' = [x4 EXCEPT ![t] = r] /\ x4[t].pc = "call"
    BY <1>1, <1>5 DEF McpCalls!Send, McpCalls!At
  <2>. HIDE DEF r
  <2>4. McpCalls!SentRight(r)
    <3>1. x4[t].sent = x4[t].tries /\ x4[t].tries <= 1 /\ (x4[t].tries = 1 => x4[t].kind = "read")
      BY <1>1, <2>3 DEF McpCalls!SentRight, McpCalls!BeforeIt
    <3>2. r.sent = r.tries + 1 /\ r.tries <= 1 /\ (r.tries = 1 => r.kind = "read")
          /\ r.sent <= IF r.kind = "tool" THEN 1 ELSE 2
      BY <2>1, <2>2, <3>1
    <3>. QED  BY <2>2, <3>2 DEF McpCalls!SentRight, McpCalls!BeforeIt, McpCalls!Shutting
  <2>. QED  BY <1>4, <2>2, <2>3, <2>4
<1>6. CASE McpCalls!Answer(t)
  <2>. PICK r \in McpCalls!CallStates :
           /\ x4' = [x4 EXCEPT ![t] = r] /\ r.pc = "leave"
           /\ r.kind = x4[t].kind /\ r.loop = x4[t].loop /\ r.session = x4[t].session
           /\ r.tries = x4[t].tries /\ r.sent = x4[t].sent /\ r.after = x4[t].after
    BY <1>3, <1>6, CallsGoes DEF McpCalls!Answer, McpCalls!Ends
  <2>1. McpCalls!SentRight(r)
    BY <1>1 DEF McpCalls!SentRight, McpCalls!BeforeIt, McpCalls!Shutting
  <2>. QED  BY <1>4, <2>1
<1>7. CASE McpCalls!TimesOut(t)
  <2> DEFINE r == [x4[t] EXCEPT !.pc = "shut", !.after = "raise"]
  <2>1. /\ r \in McpCalls!CallStates /\ r.pc = "shut" /\ r.kind = x4[t].kind /\ r.loop = x4[t].loop
        /\ r.sent = x4[t].sent /\ r.after = "raise"
    BY <1>1, <1>3 DEF McpCalls!CallStates
  <2>2. x4' = [x4 EXCEPT ![t] = r]
    BY <1>1, <1>7 DEF McpCalls!TimesOut
  <2>. HIDE DEF r
  <2>3. McpCalls!SentRight(r)
    BY <1>1, <2>1 DEF McpCalls!SentRight, McpCalls!BeforeIt, McpCalls!Shutting
  <2>. QED  BY <1>4, <2>1, <2>2, <2>3
<1>8. CASE McpCalls!Disconnected(t)
  <2> DEFINE d == [x4[t] EXCEPT !.pc = "shut", !.tries = @ + 1]
             after == IF McpCalls!Repeats(t) THEN "again" ELSE "raise"
             r == [d EXCEPT !.after = after]
  <2>1. x4[t].tries + 1 \in Nat /\ after \in {None, "raise", "again"}
    BY <1>1 DEF McpCalls!CallStates
  <2>2. x4' = [x4 EXCEPT ![t] = r] /\ x4[t].pc = "sent"
    BY <1>1, <1>8 DEF McpCalls!Disconnected, McpCalls!At
  <2>3. after = "again" => x4[t].kind = "read" /\ x4[t].tries = 0
    BY DEF McpCalls!Repeats
  <2>. HIDE DEF after
  <2>4. /\ d \in McpCalls!CallStates /\ d.pc = "shut" /\ d.kind = x4[t].kind /\ d.loop = x4[t].loop
        /\ d.tries = x4[t].tries + 1 /\ d.sent = x4[t].sent
    BY <1>1, <1>3, <2>1 DEF McpCalls!CallStates
  <2>. HIDE DEF d
  <2>5. /\ r \in McpCalls!CallStates /\ r.pc = "shut" /\ r.kind = x4[t].kind /\ r.loop = x4[t].loop
        /\ r.tries = x4[t].tries + 1 /\ r.sent = x4[t].sent /\ r.after = after
    BY <2>1, <2>4 DEF McpCalls!CallStates
  <2>. HIDE DEF r
  <2>6. /\ x4[t].sent = x4[t].tries + 1
        /\ x4[t].sent <= IF x4[t].kind = "tool" THEN 1 ELSE 2
    BY <1>1, <2>2 DEF McpCalls!SentRight
  <2>7. r.after = "again" => r.kind = "read" /\ r.sent = 1 /\ r.tries = 1
    BY <2>3, <2>5, <2>6
  <2>8. McpCalls!SentRight(r)
    BY <2>5, <2>6, <2>7 DEF McpCalls!SentRight, McpCalls!BeforeIt, McpCalls!Shutting
  <2>. QED  BY <1>4, <2>2, <2>5, <2>8
<1>. QED  BY <1>5, <1>6, <1>7, <1>8

(* Under the guard: the owner in charge, or a new one, which is in charge     *)
(* from now on, as the one before has ended.                                *)
LEMMA CallsAwaitOwner ==
  ASSUME McpCalls!IInv, NEW t \in Actors, McpCalls!AwaitOwner(t)
  PROVE  McpCalls!IInv'
<1>1. /\ McpCalls!SentRight(x4[t]) /\ x4[t] \in McpCalls!CallStates
      /\ x4 \in [Actors -> McpCalls!CallStates] /\ x3 \in [McpCalls!Owners -> McpCalls!OwnerStates]
      /\ x1 \in McpCalls!Clients
  BY DEF McpCalls!IInv, McpCalls!TypeOK
<1>2. /\ UNCHANGED <<x2, x5>> /\ x4[t].pc \in {"enter", "queued"} /\ x4[t].pc \notin McpCalls!Out
      /\ x1.guard = None
  BY DEF McpCalls!AwaitOwner, McpCalls!Out
<1>3. ASSUME NEW p \in {"call", "ready"}, NEW o \in McpCalls!Owners,
             x4' = [x4 EXCEPT ![t].pc = p, ![t].session = o]
      PROVE  \E r \in McpCalls!CallStates :
               /\ x4' = [x4 EXCEPT ![t] = r] /\ r.pc = p /\ r.kind = x4[t].kind
               /\ r.loop = x4[t].loop /\ r.session = o /\ McpCalls!SentRight(r)
  <2> DEFINE r == [x4[t] EXCEPT !.pc = p, !.session = o]
  <2>1. p \in McpCalls!Places /\ p \in McpCalls!BeforeIt
    BY <1>3 DEF McpCalls!Places, McpCalls!BeforeIt
  <2>2. /\ r \in McpCalls!CallStates /\ r.pc = p /\ r.kind = x4[t].kind /\ r.loop = x4[t].loop
        /\ r.tries = x4[t].tries /\ r.sent = x4[t].sent /\ r.session = o
    BY <1>1, <2>1 DEF McpCalls!CallStates
  <2>3. x4' = [x4 EXCEPT ![t] = r]
    BY <1>1, <1>3
  <2>. HIDE DEF r
  <2>4. McpCalls!SentRight(r)
    BY <1>1, <1>2, <2>1, <2>2 DEF McpCalls!SentRight, McpCalls!BeforeIt, McpCalls!Shutting
  <2>. QED  BY <2>2, <2>3, <2>4
<1>4. ASSUME x1.session # None, x4' = [x4 EXCEPT ![t].pc = "call", ![t].session = x1.session],
             UNCHANGED <<x1, x3>>
      PROVE  McpCalls!IInv'
  <2>1. x1.session \in McpCalls!Owners
    BY <1>1, <1>4 DEF McpCalls!Clients
  <2>. PICK r \in McpCalls!CallStates :
               /\ x4' = [x4 EXCEPT ![t] = r] /\ r.pc = "call" /\ r.kind = x4[t].kind
               /\ r.loop = x4[t].loop /\ McpCalls!SentRight(r)
    BY <1>3, <1>4, <2>1
  <2>2. r.pc \notin McpCalls!Out /\ r.pc \notin {"ready", "closing", "unwind"}
    BY DEF McpCalls!Out
  <2>. QED  BY <1>2, <1>4, <2>2, CallsQuiet
<1>5. ASSUME x1.owner # None, x1' = [x1 EXCEPT !.guard = t], UNCHANGED x3,
             x4' = [x4 EXCEPT ![t].pc = "ready", ![t].session = x1.owner]
      PROVE  McpCalls!IInv'
  <2>1. x1.owner \in McpCalls!Owners
    BY <1>1, <1>5 DEF McpCalls!Clients
  <2>. PICK r \in McpCalls!CallStates :
               /\ x4' = [x4 EXCEPT ![t] = r] /\ r.pc = "ready" /\ r.kind = x4[t].kind
               /\ r.loop = x4[t].loop /\ r.session = x1.owner /\ McpCalls!SentRight(r)
    BY <1>3, <1>5, <2>1
  <2>2. /\ x1' \in McpCalls!Clients /\ x1'.guard = t /\ x1'.owner = x1.owner
        /\ x1'.loop = x1.loop /\ x1'.pending = x1.pending /\ x1'.stopping = x1.stopping
        /\ x1'.loops = x1.loops
    BY <1>1, <1>5 DEF McpCalls!Clients
  <2>3. r.pc \notin McpCalls!Out /\ x1.guard \in {None, t} /\ r.pc # "closing"
    BY <1>2 DEF McpCalls!Out
  <2>4. \A o \in McpCalls!Owners :
          /\ x3'[o].loop # None => x3'[o].loop <= x1.loops
          /\ McpCalls!InCharge(o)' => x1'.owner = o
    BY <1>2, <1>5, <2>2 DEF McpCalls!IInv, McpCalls!OwnerIsKnown, McpCalls!InCharge
  <2>5. x3' \in [McpCalls!Owners -> McpCalls!OwnerStates]
    BY <1>1, <1>5
  <2>. QED  BY <1>2, <1>5, <2>2, <2>3, <2>4, <2>5, CallsMove
<1>6. ASSUME NEW o \in McpCalls!Owners, o = x1.owners + 1,
             x1.owner = None \/ x3[x1.owner].pc = "done",
             x1' = [x1 EXCEPT !.guard = t, !.owner = o, !.owners = o],
             x3' = [x3 EXCEPT ![o] = [McpCalls!NoOwner EXCEPT !.pc = "opening", !.loop = x4[t].loop]],
             x4' = [x4 EXCEPT ![t].pc = "ready", ![t].session = o]
      PROVE  McpCalls!IInv'
  <2>. PICK r \in McpCalls!CallStates :
               /\ x4' = [x4 EXCEPT ![t] = r] /\ r.pc = "ready" /\ r.kind = x4[t].kind
               /\ r.loop = x4[t].loop /\ r.session = o /\ McpCalls!SentRight(r)
    BY <1>3, <1>6
  <2>1. o # None /\ o \in 0..MaxOwners
    BY CallsAssumption, ServersAssumption DEF McpCalls!Owners
  <2> DEFINE g == [x1 EXCEPT !.guard = t]
             h == [g EXCEPT !.owner = o]
  <2>2. x1' = [h EXCEPT !.owners = o]
    BY <1>6
  <2>3. /\ g \in McpCalls!Clients /\ g.guard = t
        /\ g.loop = x1.loop /\ g.pending = x1.pending /\ g.stopping = x1.stopping
        /\ g.loops = x1.loops
    BY <1>1 DEF McpCalls!Clients
  <2>. HIDE DEF g
  <2>4. /\ h \in McpCalls!Clients /\ h.guard = t /\ h.owner = o
        /\ h.loop = x1.loop /\ h.pending = x1.pending /\ h.stopping = x1.stopping
        /\ h.loops = x1.loops
    BY <2>1, <2>3 DEF McpCalls!Clients
  <2>. HIDE DEF h
  <2>5. /\ x1' \in McpCalls!Clients /\ x1'.guard = t /\ x1'.owner = o
        /\ x1'.loop = x1.loop /\ x1'.pending = x1.pending /\ x1'.stopping = x1.stopping
        /\ x1'.loops = x1.loops
    BY <2>1, <2>2, <2>4 DEF McpCalls!Clients
  <2> DEFINE w == [McpCalls!NoOwner EXCEPT !.pc = "opening", !.loop = x4[t].loop]
  <2>6. x4[t].loop \in {None} \cup McpCalls!Loops
    BY <1>1 DEF McpCalls!CallStates
  <2>7. w \in McpCalls!OwnerStates /\ w.loop = x4[t].loop
    BY <2>6 DEF McpCalls!NoOwner, McpCalls!OwnerStates
  <2>8. x3' = [x3 EXCEPT ![o] = w]
    BY <1>6
  <2>. HIDE DEF w
  <2>9. /\ x3' \in [McpCalls!Owners -> McpCalls!OwnerStates] /\ x3'[o] = w
        /\ \A p \in McpCalls!Owners : p # o => x3'[p] = x3[p]
    BY <1>1, <2>7, <2>8
  <2>10. x4[t].loop # None => x4[t].loop <= x1.loops
    BY <1>2 DEF McpCalls!IInv, McpCalls!LoopRuns, McpCalls!Pending
  <2>11. ASSUME NEW p \in McpCalls!Owners, McpCalls!InCharge(p) PROVE FALSE
    <3>1. x1.owner = p /\ x3[p].pc # "done"
      BY <2>11 DEF McpCalls!IInv, McpCalls!OwnerIsKnown, McpCalls!InCharge
    <3>2. p # None
      BY CallsAssumption, ServersAssumption DEF McpCalls!Owners
    <3>. QED  BY <1>6, <3>1, <3>2
  <2>12. \A p \in McpCalls!Owners :
          /\ x3'[p].loop # None => x3'[p].loop <= x1.loops
          /\ McpCalls!InCharge(p)' => x1'.owner = p
    <3>1. \A p \in McpCalls!Owners : p # o => ~McpCalls!InCharge(p)'
      BY <1>2, <2>9, <2>11 DEF McpCalls!InCharge
    <3>. QED
      BY <2>5, <2>7, <2>9, <2>10, <3>1 DEF McpCalls!IInv, McpCalls!OwnerIsKnown
  <2>13. r.pc \notin McpCalls!Out /\ x1.guard \in {None, t} /\ r.pc # "closing" /\ x1'.owner = r.session
        /\ x1'.owner # None
    BY <1>2, <2>1, <2>5 DEF McpCalls!Out
  <2>. QED  BY <1>2, <2>5, <2>9, <2>12, <2>13, CallsMove
<1>. QED
  BY <1>4, <1>5, <1>6 DEF McpCalls!AwaitOwner

LEMMA CallsOwnerSteps ==
  ASSUME McpCalls!IInv, NEW o \in McpCalls!Owners,
         McpCalls!Opens(o) \/ McpCalls!Leaves(o) \/ McpCalls!Closes(o) \/ McpCalls!LoopEnds(o)
  PROVE  McpCalls!IInv'
<1>1. /\ x3[o] \in McpCalls!OwnerStates /\ x3 \in [McpCalls!Owners -> McpCalls!OwnerStates]
      /\ UNCHANGED <<x2, x4, x5>>
  BY DEF McpCalls!IInv, McpCalls!TypeOK, McpCalls!Opens, McpCalls!Leaves, McpCalls!Closes,
     McpCalls!LoopEnds
<1>2. CASE McpCalls!Opens(o)
  <2> DEFINE w == [x3[o] EXCEPT !.pc = "serving", !.opened = TRUE]
  <2>1. /\ w \in McpCalls!OwnerStates /\ w.loop = x3[o].loop /\ w.shutdown = x3[o].shutdown
        /\ w.pc = "serving"
    BY <1>1 DEF McpCalls!OwnerStates
  <2>2. /\ x3' = [x3 EXCEPT ![o] = w] /\ x3[o].pc = "opening"
        /\ x1' = [x1 EXCEPT !.session = o] /\ o \in {None} \cup McpCalls!Owners
    BY <1>1, <1>2 DEF McpCalls!Opens, McpCalls!Runs
  <2>. HIDE DEF w
  <2>. QED  BY <1>1, <2>1, <2>2, CallsOwnerMoves
<1>3. ASSUME NEW p \in {"closing", "done"}, x3' = [x3 EXCEPT ![o].pc = p],
             x1' = x1 \/ x1' = [x1 EXCEPT !.session = None]
      PROVE  McpCalls!IInv'
  <2> DEFINE w == [x3[o] EXCEPT !.pc = p]
  <2>1. /\ w \in McpCalls!OwnerStates /\ w.loop = x3[o].loop /\ w.shutdown = x3[o].shutdown
        /\ w.pc = p
    BY <1>1, <1>3 DEF McpCalls!OwnerStates
  <2>2. x3' = [x3 EXCEPT ![o] = w]
    BY <1>1, <1>3
  <2>. HIDE DEF w
  <2>3. w.pc \notin {"opening", "serving"} /\ (x3[o].shutdown => w.shutdown)
    BY <1>3, <2>1
  <2>4. x1' = x1 \/ \E s \in {None} \cup McpCalls!Owners : x1' = [x1 EXCEPT !.session = s]
    BY <1>3
  <2>. QED  BY <1>1, <2>1, <2>2, <2>3, <2>4, CallsOwnerMoves
<1>. QED
  BY <1>2, <1>3 DEF McpCalls!Leaves, McpCalls!Closes, McpCalls!LoopEnds

(* The step of a call that tells the owner something. *)
LEMMA CallsTellOwner ==
  ASSUME McpCalls!IInv, NEW o \in McpCalls!Owners, UNCHANGED <<x1, x2, x4, x5>>,
         x3' = [x3 EXCEPT ![o].shutdown = TRUE] \/ x3' = [x3 EXCEPT ![o].pc = "closing"]
  PROVE  McpCalls!IInv'
<1>1. x3[o] \in McpCalls!OwnerStates /\ x3 \in [McpCalls!Owners -> McpCalls!OwnerStates]
  BY DEF McpCalls!IInv, McpCalls!TypeOK
<1>2. \E w \in McpCalls!OwnerStates :
        /\ x3' = [x3 EXCEPT ![o] = w] /\ w.loop = x3[o].loop /\ (x3[o].shutdown => w.shutdown)
        /\ w.pc \in {"opening", "serving"} => x3[o].pc \in {"opening", "serving"}
  <2>1. CASE x3' = [x3 EXCEPT ![o].shutdown = TRUE]
    <3> DEFINE w == [x3[o] EXCEPT !.shutdown = TRUE]
    <3>1. /\ w \in McpCalls!OwnerStates /\ w.loop = x3[o].loop /\ w.shutdown /\ w.pc = x3[o].pc
      BY <1>1 DEF McpCalls!OwnerStates
    <3>2. x3' = [x3 EXCEPT ![o] = w]
      BY <1>1, <2>1
    <3>. HIDE DEF w
    <3>. QED  BY <3>1, <3>2
  <2>2. CASE x3' = [x3 EXCEPT ![o].pc = "closing"]
    <3> DEFINE w == [x3[o] EXCEPT !.pc = "closing"]
    <3>1. /\ w \in McpCalls!OwnerStates /\ w.loop = x3[o].loop /\ w.shutdown = x3[o].shutdown
          /\ w.pc = "closing"
      BY <1>1 DEF McpCalls!OwnerStates
    <3>2. x3' = [x3 EXCEPT ![o] = w]
      BY <1>1, <2>2
    <3>. HIDE DEF w
    <3>. QED  BY <3>1, <3>2
  <2>. QED  BY <2>1, <2>2
<1>. QED  BY <1>2, CallsOwnerMoves

(* Who waited under the guard goes on without it. *)
LEMMA CallsLeaveGuard ==
  ASSUME McpCalls!IInv, NEW t \in Actors, x4[t].pc \in {"ready", "unwind", "closing"},
         NEW p \in {"call", "leave", "connect"}, McpCalls!Goes(t, p),
         p = "connect" => x4[t].pc = "closing" /\ x4[t].after = "again",
         p = "call" => x4[t].pc = "ready",
         x1' \in McpCalls!Clients, x1'.loop = x1.loop, x1'.pending = x1.pending,
         x1'.stopping = x1.stopping, x1'.loops = x1.loops, x2' = x2, x5' = x5,
         x1'.owner = x1.owner \/ ~McpCalls!InCharge(x1.owner),
         x3' \in [McpCalls!Owners -> McpCalls!OwnerStates],
         \A o \in McpCalls!Owners : x3'[o].loop = x3[o].loop
                                    /\ (McpCalls!InCharge(o)' => McpCalls!InCharge(o))
  PROVE  McpCalls!IInv'
<1>1. p \in McpCalls!Places
  BY DEF McpCalls!Places, McpCalls!BeforeIt
<1>. PICK r \in McpCalls!CallStates :
         /\ x4' = [x4 EXCEPT ![t] = r] /\ r.pc = p
         /\ r.kind = x4[t].kind /\ r.loop = x4[t].loop /\ r.session = x4[t].session
         /\ r.tries = x4[t].tries /\ r.sent = x4[t].sent /\ r.after = x4[t].after
  BY <1>1, CallsGoes
<1>2. McpCalls!SentRight(x4[t])
  BY DEF McpCalls!IInv
<1>3. McpCalls!SentRight(r)
  BY <1>2 DEF McpCalls!SentRight, McpCalls!BeforeIt, McpCalls!Shutting
<1>4. r.pc \notin McpCalls!Out /\ r.pc \notin {"ready", "unwind", "closing"}
  BY DEF McpCalls!Out
<1>. QED  BY <1>3, <1>4, CallsLetGo

LEMMA CallsReady ==
  ASSUME McpCalls!IInv, NEW t \in Actors, McpCalls!Ready(t) \/ McpCalls!SendAway(t)
  PROVE  McpCalls!IInv'
<1>1. /\ McpCalls!SentRight(x4[t]) /\ x3 \in [McpCalls!Owners -> McpCalls!OwnerStates]
      /\ x1 \in McpCalls!Clients
  BY DEF McpCalls!IInv, McpCalls!TypeOK
<1>2. /\ UNCHANGED <<x2, x5>> /\ x4[t].pc \in {"ready", "unwind"}
  BY DEF McpCalls!Ready, McpCalls!SendAway, McpCalls!At
<1>3. x1.owner = x4[t].session /\ x1.owner \in McpCalls!Owners
  BY <1>1, <1>2 DEF McpCalls!IInv, McpCalls!GuardIsHeld, McpCalls!Clients
<1>4. CASE McpCalls!Ready(t)
  <2>1. CASE McpCalls!Goes(t, "call") /\ x1' = [x1 EXCEPT !.guard = None]
    <3>1. /\ x1' \in McpCalls!Clients /\ x1'.owner = x1.owner
          /\ x1'.loop = x1.loop /\ x1'.pending = x1.pending /\ x1'.stopping = x1.stopping
          /\ x1'.loops = x1.loops
      BY <1>1, <2>1 DEF McpCalls!Clients
    <3>2. x3' = x3 /\ x4[t].pc = "ready"
      BY <1>4 DEF McpCalls!Ready, McpCalls!At
    <3>3. \A o \in McpCalls!Owners : x3'[o].loop = x3[o].loop
                                     /\ (McpCalls!InCharge(o)' => McpCalls!InCharge(o))
      BY <1>2, <3>2 DEF McpCalls!InCharge
    <3>. QED  BY <1>1, <1>2, <2>1, <3>1, <3>2, <3>3, CallsLeaveGuard
  <2>2. CASE McpCalls!Goes(t, "unwind") /\ x1' = x1
    <3>1. "unwind" \in McpCalls!Places
      BY DEF McpCalls!Places, McpCalls!BeforeIt
    <3>. PICK r \in McpCalls!CallStates :
             /\ x4' = [x4 EXCEPT ![t] = r] /\ r.pc = "unwind"
             /\ r.kind = x4[t].kind /\ r.loop = x4[t].loop /\ r.session = x4[t].session
             /\ r.tries = x4[t].tries /\ r.sent = x4[t].sent /\ r.after = x4[t].after
      BY <2>2, <3>1, CallsGoes
    <3>2. McpCalls!SentRight(r)
      BY <1>1, <1>2 DEF McpCalls!SentRight, McpCalls!BeforeIt, McpCalls!Shutting
    <3>3. /\ x4[t].pc \notin McpCalls!Out /\ r.pc \notin McpCalls!Out /\ x4[t].pc = "ready"
          /\ r.pc \notin {"ready", "closing"} /\ x3' = x3
      BY <1>2, <1>4 DEF McpCalls!Out, McpCalls!Ready, McpCalls!At
    <3>. QED  BY <1>2, <2>2, <3>2, <3>3, CallsQuiet
  <2>. QED  BY <1>4, <2>1, <2>2 DEF McpCalls!Ready
<1>5. CASE McpCalls!SendAway(t)
  <2>1. CASE x3[x4[t].session].pc = "done"
    <3>1. /\ x1' = [x1 EXCEPT !.guard = None, !.owner = None] /\ x3' = x3
          /\ McpCalls!Goes(t, "leave")
      BY <1>5, <2>1 DEF McpCalls!SendAway, McpCalls!Ends
    <3>2. /\ x1' \in McpCalls!Clients
          /\ x1'.loop = x1.loop /\ x1'.pending = x1.pending /\ x1'.stopping = x1.stopping
          /\ x1'.loops = x1.loops
      BY <1>1, <3>1 DEF McpCalls!Clients
    <3>3. ~McpCalls!InCharge(x1.owner)
      BY <1>3, <2>1 DEF McpCalls!InCharge
    <3>4. \A o \in McpCalls!Owners : x3'[o].loop = x3[o].loop
                                     /\ (McpCalls!InCharge(o)' => McpCalls!InCharge(o))
      BY <1>2, <3>1 DEF McpCalls!InCharge
    <3>. QED  BY <1>1, <1>2, <3>1, <3>2, <3>3, <3>4, CallsLeaveGuard
  <2>2. CASE x3[x4[t].session].pc # "done"
    <3>1. x3' = [x3 EXCEPT ![x4[t].session].shutdown = TRUE] /\ UNCHANGED <<x1, x4>>
      BY <1>5, <2>2 DEF McpCalls!SendAway
    <3>. QED  BY <1>2, <1>3, <3>1, CallsTellOwner
  <2>. QED  BY <2>1, <2>2
<1>. QED  BY <1>4, <1>5

(* close: up to the guard's end. *)
LEMMA CallsShut ==
  ASSUME McpCalls!IInv, NEW t \in Actors,
         McpCalls!Shut(t) \/ McpCalls!CancelOwner(t) \/ McpCalls!Shutdown(t)
  PROVE  McpCalls!IInv'
<1>1. /\ McpCalls!SentRight(x4[t]) /\ x3 \in [McpCalls!Owners -> McpCalls!OwnerStates]
      /\ x1 \in McpCalls!Clients
  BY DEF McpCalls!IInv, McpCalls!TypeOK
<1>2. UNCHANGED <<x2, x5>>
  BY DEF McpCalls!Shut, McpCalls!CancelOwner, McpCalls!Shutdown
<1>3. CASE McpCalls!Shut(t)
  <2>1. x4[t].pc \in {"shut", "shutQueued"} /\ x1.guard = None /\ x4[t].pc \notin McpCalls!Out
    BY <1>3 DEF McpCalls!Shut, McpCalls!Out
  <2>2. CASE x1.owner = None
    <3>. PICK p \in {"connect", "leave"} :
             McpCalls!Goes(t, p) /\ (p = "connect" => x4[t].after = "again")
      BY <1>3, <2>2 DEF McpCalls!Shut
    <3>1. p \in McpCalls!Places
      BY DEF McpCalls!Places, McpCalls!BeforeIt
    <3>. PICK r \in McpCalls!CallStates :
             /\ x4' = [x4 EXCEPT ![t] = r] /\ r.pc = p
             /\ r.kind = x4[t].kind /\ r.loop = x4[t].loop /\ r.session = x4[t].session
             /\ r.tries = x4[t].tries /\ r.sent = x4[t].sent /\ r.after = x4[t].after
      BY <3>1, CallsGoes
    <3>2. McpCalls!SentRight(r)
      BY <1>1, <2>1 DEF McpCalls!SentRight, McpCalls!BeforeIt, McpCalls!Shutting
    <3>3. r.pc \notin McpCalls!Out /\ r.pc \notin {"ready", "closing", "unwind"} /\ UNCHANGED <<x1, x3>>
      BY <1>3, <2>2 DEF McpCalls!Out, McpCalls!Shut
    <3>. QED  BY <1>2, <2>1, <3>2, <3>3, CallsQuiet
  <2>3. CASE x1.owner # None
    <3>1. /\ x1' = [x1 EXCEPT !.guard = t] /\ x3' = [x3 EXCEPT ![x1.owner].shutdown = TRUE]
          /\ McpCalls!Goes(t, "closing")
      BY <1>3, <2>3 DEF McpCalls!Shut
    <3>2. x1.owner \in McpCalls!Owners /\ "closing" \in McpCalls!Places
      BY <1>1, <2>3 DEF McpCalls!Clients, McpCalls!Places, McpCalls!Shutting
    <3>. PICK r \in McpCalls!CallStates :
             /\ x4' = [x4 EXCEPT ![t] = r] /\ r.pc = "closing"
             /\ r.kind = x4[t].kind /\ r.loop = x4[t].loop /\ r.session = x4[t].session
             /\ r.tries = x4[t].tries /\ r.sent = x4[t].sent /\ r.after = x4[t].after
      BY <3>1, <3>2, CallsGoes
    <3>3. McpCalls!SentRight(r)
      BY <1>1, <2>1 DEF McpCalls!SentRight, McpCalls!BeforeIt, McpCalls!Shutting
    <3>4. /\ x1' \in McpCalls!Clients /\ x1'.guard = t /\ x1'.owner = x1.owner
          /\ x1'.loop = x1.loop /\ x1'.pending = x1.pending /\ x1'.stopping = x1.stopping
          /\ x1'.loops = x1.loops
      BY <1>1, <3>1 DEF McpCalls!Clients
    <3>5. /\ x3' \in [McpCalls!Owners -> McpCalls!OwnerStates] /\ x3'[x1.owner].shutdown
          /\ \A o \in McpCalls!Owners : /\ x3'[o].loop = x3[o].loop
                                        /\ McpCalls!InCharge(o)' => McpCalls!InCharge(o)
      <4>1. x3[x1.owner] \in McpCalls!OwnerStates
        BY <1>1, <3>2
      <4> DEFINE w == [x3[x1.owner] EXCEPT !.shutdown = TRUE]
      <4>2. /\ w \in McpCalls!OwnerStates /\ w.loop = x3[x1.owner].loop /\ w.shutdown
        BY <4>1 DEF McpCalls!OwnerStates
      <4>3. x3' = [x3 EXCEPT ![x1.owner] = w]
        BY <1>1, <3>1
      <4>. HIDE DEF w
      <4>4. /\ x3'[x1.owner] = w /\ x3' \in [McpCalls!Owners -> McpCalls!OwnerStates]
            /\ \A p \in McpCalls!Owners : p # x1.owner => x3'[p] = x3[p]
        BY <1>1, <3>2, <4>2, <4>3
      <4>. QED  BY <1>2, <4>2, <4>4 DEF McpCalls!InCharge
    <3>6. \A o \in McpCalls!Owners :
            /\ x3'[o].loop # None => x3'[o].loop <= x1.loops
            /\ McpCalls!InCharge(o)' => x1'.owner = o
      BY <3>4, <3>5 DEF McpCalls!IInv, McpCalls!OwnerIsKnown
    <3>7. r.pc \notin McpCalls!Out /\ x1.guard \in {None, t} /\ x1'.owner # None /\ x3'[x1'.owner].shutdown
          /\ r.pc \notin {"ready", "unwind"}
      BY <2>1, <2>3, <3>4, <3>5 DEF McpCalls!Out
    <3>. QED  BY <1>2, <2>1, <3>3, <3>4, <3>5, <3>6, <3>7, CallsMove
  <2>. QED  BY <2>2, <2>3
<1>4. CASE McpCalls!CancelOwner(t)
  <2>1. x4[t].pc = "closing" /\ x3' = [x3 EXCEPT ![x1.owner].pc = "closing"] /\ UNCHANGED <<x1, x4>>
    BY <1>4 DEF McpCalls!CancelOwner, McpCalls!At
  <2>2. x1.owner \in McpCalls!Owners
    BY <1>1, <2>1 DEF McpCalls!IInv, McpCalls!GuardIsHeld, McpCalls!Clients
  <2>. QED  BY <1>2, <2>1, <2>2, CallsTellOwner
<1>5. CASE McpCalls!Shutdown(t)
  <2>. PICK p \in {"connect", "leave"} :
           McpCalls!Goes(t, p) /\ (p = "connect" => x4[t].after = "again")
    BY <1>5 DEF McpCalls!Shutdown
  <2>1. /\ x1' = [x1 EXCEPT !.guard = None, !.owner = None] /\ x3' = x3
        /\ x4[t].pc = "closing" /\ x3[x1.owner].pc = "done"
    BY <1>5 DEF McpCalls!Shutdown, McpCalls!At
  <2>2. /\ x1' \in McpCalls!Clients
        /\ x1'.loop = x1.loop /\ x1'.pending = x1.pending /\ x1'.stopping = x1.stopping
        /\ x1'.loops = x1.loops
    BY <1>1, <2>1 DEF McpCalls!Clients
  <2>3. /\ ~McpCalls!InCharge(x1.owner)
        /\ \A o \in McpCalls!Owners : x3'[o].loop = x3[o].loop
                                      /\ (McpCalls!InCharge(o)' => McpCalls!InCharge(o))
    BY <1>2, <2>1 DEF McpCalls!InCharge
  <2>4. x3' \in [McpCalls!Owners -> McpCalls!OwnerStates] /\ p \in {"call", "leave", "connect"}
        /\ p # "call"
    BY <1>1, <2>1
  <2>. QED  BY <1>2, <2>1, <2>2, <2>3, <2>4, CallsLeaveGuard
<1>. QED  BY <1>3, <1>4, <1>5

(* A cancelled coroutine runs the handlers of the place where it waited. *)
LEMMA CallsCancelled ==
  ASSUME McpCalls!IInv, NEW t \in Actors, McpCalls!Cancelled(t)
  PROVE  McpCalls!IInv'
<1>1. /\ McpCalls!SentRight(x4[t]) /\ x3 \in [McpCalls!Owners -> McpCalls!OwnerStates]
      /\ x1 \in McpCalls!Clients
  BY DEF McpCalls!IInv, McpCalls!TypeOK
<1>2. UNCHANGED <<x2, x5>>
  BY DEF McpCalls!Cancelled
<1>3. ASSUME NEW p \in {"leave", "unwind"}, McpCalls!Goes(t, p), UNCHANGED <<x1, x3>>,
             \/ p = "leave" /\ x4[t].pc \in {"queued", "shutQueued", "sent"}
             \/ p = "unwind" /\ x4[t].pc = "ready"
      PROVE  McpCalls!IInv'
  <2>1. p \in McpCalls!Places
    BY DEF McpCalls!Places, McpCalls!BeforeIt
  <2>. PICK r \in McpCalls!CallStates :
           /\ x4' = [x4 EXCEPT ![t] = r] /\ r.pc = p
           /\ r.kind = x4[t].kind /\ r.loop = x4[t].loop /\ r.session = x4[t].session
           /\ r.tries = x4[t].tries /\ r.sent = x4[t].sent /\ r.after = x4[t].after
    BY <1>3, <2>1, CallsGoes
  <2>2. McpCalls!SentRight(r)
    BY <1>1, <1>3 DEF McpCalls!SentRight, McpCalls!BeforeIt, McpCalls!Shutting
  <2>3. /\ x4[t].pc \notin McpCalls!Out /\ r.pc \notin McpCalls!Out
        /\ r.pc \notin {"ready", "closing"} /\ (r.pc = "unwind" => x4[t].pc = "ready")
    BY <1>3 DEF McpCalls!Out
  <2>. QED  BY <1>2, <1>3, <2>2, <2>3, CallsQuiet
<1>4. ASSUME x4[t].pc = "closing", McpCalls!Goes(t, "leave"), x3' = x3,
             x1' = [x1 EXCEPT !.guard = None, !.owner = None]
      PROVE  McpCalls!IInv'
  <2>1. /\ x1' \in McpCalls!Clients
        /\ x1'.loop = x1.loop /\ x1'.pending = x1.pending /\ x1'.stopping = x1.stopping
        /\ x1'.loops = x1.loops
    BY <1>1, <1>4 DEF McpCalls!Clients
  <2>2. ~McpCalls!InCharge(x1.owner)
    BY <1>4 DEF McpCalls!IInv, McpCalls!GuardIsHeld, McpCalls!InCharge, McpCalls!At
  <2>3. \A o \in McpCalls!Owners : x3'[o].loop = x3[o].loop
                                   /\ (McpCalls!InCharge(o)' => McpCalls!InCharge(o))
    BY <1>2, <1>4 DEF McpCalls!InCharge
  <2>. QED  BY <1>1, <1>2, <1>4, <2>1, <2>2, <2>3, CallsLeaveGuard
<1>5. ASSUME x4[t].pc = "unwind", McpCalls!Goes(t, "leave"),
             x1' = [x1 EXCEPT !.guard = None, !.session = None],
             x3' = [x3 EXCEPT ![x4[t].session].pc = "done"]
      PROVE  McpCalls!IInv'
  <2>1. /\ x1' \in McpCalls!Clients /\ x1'.owner = x1.owner
        /\ x1'.loop = x1.loop /\ x1'.pending = x1.pending /\ x1'.stopping = x1.stopping
        /\ x1'.loops = x1.loops
    BY <1>1, <1>5 DEF McpCalls!Clients
  <2>2. x4[t].session \in McpCalls!Owners
    BY <1>1, <1>5 DEF McpCalls!IInv, McpCalls!GuardIsHeld, McpCalls!Clients
  <2>3. /\ x3' \in [McpCalls!Owners -> McpCalls!OwnerStates]
        /\ \A o \in McpCalls!Owners : x3'[o].loop = x3[o].loop
                                      /\ (McpCalls!InCharge(o)' => McpCalls!InCharge(o))
    <3>. PICK s \in McpCalls!Owners : s = x4[t].session
      BY <2>2
    <3>1. x3[s] \in McpCalls!OwnerStates /\ x3' = [x3 EXCEPT ![s].pc = "done"]
      BY <1>1, <1>5
    <3> DEFINE w == [x3[s] EXCEPT !.pc = "done"]
    <3>2. /\ w \in McpCalls!OwnerStates /\ w.loop = x3[s].loop /\ w.pc = "done"
      BY <3>1 DEF McpCalls!OwnerStates
    <3>3. x3' = [x3 EXCEPT ![s] = w]
      BY <1>1, <3>1
    <3>. HIDE DEF w
    <3>4. /\ x3'[s] = w /\ x3' \in [McpCalls!Owners -> McpCalls!OwnerStates]
          /\ \A o \in McpCalls!Owners : o # s => x3'[o] = x3[o]
      BY <1>1, <3>2, <3>3
    <3>. QED  BY <1>2, <3>2, <3>4 DEF McpCalls!InCharge
  <2>. QED  BY <1>1, <1>2, <1>5, <2>1, <2>3, CallsLeaveGuard
<1>. QED
  BY <1>3, <1>4, <1>5 DEF McpCalls!Cancelled, McpCalls!Ends, McpCalls!At

(* The module counts as its standard module does. *)
LEMMA CallsCount == \A S : McpCalls!Cardinality(S) = Cardinality(S)
BY DEF McpCalls!Cardinality, Cardinality

(* One call has begun or ended: one more is pending, or one less. *)
LEMMA CallsPending ==
  ASSUME McpCalls!IInv, NEW t \in Actors, NEW r \in McpCalls!CallStates,
         x4' = [x4 EXCEPT ![t] = r]
  PROVE  /\ x4'[t] = r /\ \A u \in Actors : u # t => x4'[u] = x4[u]
         /\ x4' \in [Actors -> McpCalls!CallStates]
         /\ x1.pending = Cardinality(McpCalls!Pending) /\ x1.pending \in Nat
         /\ r.pc \notin McpCalls!Out /\ x4[t].pc \in McpCalls!Out =>
              Cardinality(McpCalls!Pending') = x1.pending + 1
         /\ r.pc \in McpCalls!Out /\ x4[t].pc \notin McpCalls!Out =>
              Cardinality(McpCalls!Pending') = x1.pending - 1 /\ x1.pending # 0
         /\ r.pc \in McpCalls!Out /\ x4[t].pc \in McpCalls!Out =>
              McpCalls!Pending' = McpCalls!Pending
<1>1. /\ x4'[t] = r /\ \A u \in Actors : u # t => x4'[u] = x4[u]
      /\ x4' \in [Actors -> McpCalls!CallStates]
  BY DEF McpCalls!IInv, McpCalls!TypeOK
<1>2. x1.pending = Cardinality(McpCalls!Pending)
  BY CallsCount DEF McpCalls!IInv, McpCalls!LoopRuns
<1>3. IsFiniteSet(McpCalls!Pending)
  BY ServersAssumption, FS_Subset DEF McpCalls!Pending
<1>4. x1.pending \in Nat
  BY <1>2, <1>3, FS_CardinalityType
<1>5. ASSUME r.pc \notin McpCalls!Out, x4[t].pc \in McpCalls!Out
      PROVE  Cardinality(McpCalls!Pending') = x1.pending + 1
  <2>1. McpCalls!Pending' = McpCalls!Pending \cup {t} /\ t \notin McpCalls!Pending
    BY <1>1, <1>5 DEF McpCalls!Pending
  <2>. QED  BY <1>2, <1>3, <2>1, FS_AddElement
<1>6. ASSUME r.pc \in McpCalls!Out, x4[t].pc \notin McpCalls!Out
      PROVE  Cardinality(McpCalls!Pending') = x1.pending - 1 /\ x1.pending # 0
  <2>1. McpCalls!Pending' = McpCalls!Pending \ {t} /\ t \in McpCalls!Pending
    BY <1>1, <1>6 DEF McpCalls!Pending
  <2>2. Cardinality(McpCalls!Pending') = x1.pending - 1
    BY <1>2, <1>3, <2>1, FS_RemoveElement
  <2>3. x1.pending # 0
    BY <1>2, <1>3, <2>1, FS_EmptySet
  <2>. QED  BY <2>2, <2>3
<1>7. ASSUME r.pc \in McpCalls!Out, x4[t].pc \in McpCalls!Out
      PROVE  McpCalls!Pending' = McpCalls!Pending
  BY <1>1, <1>7 DEF McpCalls!Pending
<1>. QED  BY <1>1, <1>2, <1>4, <1>5, <1>6, <1>7

(* Nothing is pending when the count says so. *)
LEMMA CallsNonePending ==
  ASSUME McpCalls!IInv PROVE x1.pending = 0 <=> McpCalls!Pending = {}
<1>1. x1.pending = Cardinality(McpCalls!Pending)
  BY CallsCount DEF McpCalls!IInv, McpCalls!LoopRuns
<1>2. IsFiniteSet(McpCalls!Pending)
  BY ServersAssumption, FS_Subset DEF McpCalls!Pending
<1>. QED  BY <1>1, <1>2, FS_EmptySet

(* A call that begins or ends leaves the guard, the owners and, but for those  *)
(* of a loop that ends, the owner in charge as they are.                      *)
LEMMA CallsOutside ==
  ASSUME McpCalls!IInv, NEW t \in Actors, NEW r \in McpCalls!CallStates,
         x4' = [x4 EXCEPT ![t] = r], McpCalls!SentRight(r),
         r.pc \notin {"ready", "unwind", "closing"},
         x1' \in McpCalls!Clients, x1'.guard = x1.guard, x1'.owner = x1.owner, x3' = x3,
         x2' \subseteq McpCalls!Loops, x5' \in BOOLEAN, x1.loops <= x1'.loops,
         \A o \in McpCalls!Owners : McpCalls!InCharge(o)' => McpCalls!InCharge(o),
         McpCalls!LoopRuns', McpCalls!CloseIsOnce'
  PROVE  McpCalls!IInv'
<1>1. /\ x4'[t] = r /\ \A u \in Actors : u # t => x4'[u] = x4[u]
      /\ x4' \in [Actors -> McpCalls!CallStates]
  BY CallsPending
<1>2. McpCalls!TypeOK'
  BY <1>1 DEF McpCalls!IInv, McpCalls!TypeOK
<1>3. McpCalls!GuardIsHeld'
  BY <1>1 DEF McpCalls!IInv, McpCalls!GuardIsHeld, McpCalls!At
<1>4. McpCalls!OwnerIsKnown'
  <2>1. /\ x1.loops \in Nat /\ x1'.loops \in Nat
        /\ \A o \in McpCalls!Owners : x3[o].loop # None => x3[o].loop \in Nat
    BY CallsAssumption
       DEF McpCalls!IInv, McpCalls!TypeOK, McpCalls!Clients, McpCalls!OwnerStates, McpCalls!Loops
  <2>2. \A o \in McpCalls!Owners : x3[o].loop # None => x3[o].loop <= x1.loops
    BY DEF McpCalls!IInv, McpCalls!OwnerIsKnown
  <2>3. \A o \in McpCalls!Owners : x3'[o].loop # None => x3'[o].loop <= x1'.loops
    BY <2>1, <2>2
  <2>4. \A o \in McpCalls!Owners : McpCalls!InCharge(o)' => x1'.owner = o
    BY DEF McpCalls!IInv, McpCalls!OwnerIsKnown
  <2>. QED  BY <2>3, <2>4 DEF McpCalls!OwnerIsKnown
<1>5. \A u \in Actors : McpCalls!SentRight(x4'[u])
  BY <1>1 DEF McpCalls!IInv
<1>. QED  BY <1>2, <1>3, <1>4, <1>5 DEF McpCalls!IInv

(* A call is admitted; only one closes, and after it none but late ones.       *)
LEMMA CallsSubmits ==
  ASSUME McpCalls!IInv, NEW t \in Actors, x4[t].pc = "idle", x3' = x3, x5' \in BOOLEAN,
         NEW kind \in {"tool", "read", "close"}, NEW pc \in {"connect", "shut"},
         NEW after \in {None, "raise"}, McpCalls!Submits(t, kind, pc, after),
         kind = "close" => \A u \in Actors : x4[u].kind # "close",
         \A u \in Actors : x4[u].kind = "close" /\ x4[u].pc = "done" => x5'
  PROVE  McpCalls!IInv'
<1> DEFINE l == IF x1.loop = None THEN x1.loops + 1 ELSE x1.loop
           loops == IF x1.loop = None THEN l ELSE x1.loops
           r == [McpCalls!NoCall EXCEPT !.kind = kind, !.pc = pc, !.loop = l, !.after = after]
           a == [x1 EXCEPT !.loop = l]
           b == [a EXCEPT !.pending = @ + 1]
<1>1. x1 \in McpCalls!Clients /\ x1.pending \in Nat /\ x1.loops \in 0..MaxLoops /\ MaxLoops \in Nat
  BY CallsAssumption DEF McpCalls!IInv, McpCalls!TypeOK, McpCalls!Clients
<1>2. /\ ~x1.stopping /\ (x1.loop = None => x1.loops < MaxLoops)
      /\ x1' = [b EXCEPT !.loops = loops]
      /\ x2' = x2 \cup {l} /\ x4' = [x4 EXCEPT ![t] = r]
  BY DEF McpCalls!Submits
<1>3. x1.loop \in McpCalls!Loops \cup {None} /\ (x1.loop # None => x1.loop <= x1.loops)
  BY <1>1 DEF McpCalls!IInv, McpCalls!LoopRuns, McpCalls!Clients
<1>4. /\ l \in McpCalls!Loops /\ l # None /\ l \in Nat
      /\ loops \in 0..MaxLoops /\ x1.loops <= loops /\ l <= loops
      /\ x1.loop = None => l > x1.loops
      /\ x1.loop # None => l = x1.loop
  BY <1>1, <1>2, <1>3, ServersAssumption DEF McpCalls!Loops
<1>. HIDE DEF l, loops
<1>5. a \in McpCalls!Clients /\ a.loop = l /\ a.pending = x1.pending /\ a.stopping = x1.stopping
      /\ a.guard = x1.guard /\ a.owner = x1.owner
  BY <1>1, <1>4 DEF McpCalls!Clients
<1>. HIDE DEF a
<1>6. b \in McpCalls!Clients /\ b.loop = l /\ b.pending = x1.pending + 1 /\ b.stopping = x1.stopping
      /\ b.guard = x1.guard /\ b.owner = x1.owner
  BY <1>1, <1>5 DEF McpCalls!Clients
<1>. HIDE DEF b
<1>7. /\ x1' \in McpCalls!Clients /\ x1'.loop = l /\ x1'.pending = x1.pending + 1
      /\ x1'.stopping = x1.stopping /\ x1'.loops = loops
      /\ x1'.guard = x1.guard /\ x1'.owner = x1.owner
  BY <1>2, <1>4, <1>6 DEF McpCalls!Clients
<1>8. /\ r \in McpCalls!CallStates /\ r.kind = kind /\ r.pc = pc /\ r.loop = l
      /\ r.tries = 0 /\ r.sent = 0 /\ r.after = after
  <2> DEFINE r1 == [McpCalls!NoCall EXCEPT !.kind = kind]
             r2 == [r1 EXCEPT !.pc = pc]
             r3 == [r2 EXCEPT !.loop = l]
  <2>1. McpCalls!NoCall \in McpCalls!CallStates /\ McpCalls!NoCall.tries = 0 /\ McpCalls!NoCall.sent = 0
    BY DEF McpCalls!NoCall, McpCalls!CallStates, McpCalls!Places, McpCalls!Out
  <2>2. pc \in McpCalls!Places
    BY DEF McpCalls!Places, McpCalls!BeforeIt, McpCalls!Shutting
  <2>3. r = [r3 EXCEPT !.after = after]
    OBVIOUS
  <2>4. r1 \in McpCalls!CallStates /\ r1.kind = kind /\ r1.tries = 0 /\ r1.sent = 0
    BY <2>1 DEF McpCalls!CallStates
  <2>. HIDE DEF r, r1
  <2>5. r2 \in McpCalls!CallStates /\ r2.kind = kind /\ r2.pc = pc /\ r2.tries = 0 /\ r2.sent = 0
    BY <2>2, <2>4 DEF McpCalls!CallStates
  <2>. HIDE DEF r2
  <2>6. r3 \in McpCalls!CallStates /\ r3.kind = kind /\ r3.pc = pc /\ r3.loop = l
        /\ r3.tries = 0 /\ r3.sent = 0
    BY <1>4, <2>5 DEF McpCalls!CallStates
  <2>. HIDE DEF r3
  <2>. QED  BY <2>3, <2>6 DEF McpCalls!CallStates
<1>9. x4' = [x4 EXCEPT ![t] = r]
  BY <1>2
<1>. HIDE DEF r
<1>10. /\ x4'[t] = r /\ \A u \in Actors : u # t => x4'[u] = x4[u]
       /\ Cardinality(McpCalls!Pending') = x1.pending + 1
       /\ r.pc \notin McpCalls!Out /\ r.pc \notin {"ready", "unwind", "closing"}
  <2>1. r.pc \notin McpCalls!Out /\ x4[t].pc \in McpCalls!Out /\ r.pc \notin {"ready", "unwind", "closing"}
    BY <1>8 DEF McpCalls!Out
  <2>. QED  BY <1>8, <1>9, <2>1, CallsPending
<1>11. x2' = {l} /\ x2' \subseteq McpCalls!Loops
  BY <1>2, <1>4 DEF McpCalls!IInv, McpCalls!LoopRuns
<1>12. \A u \in McpCalls!Pending' : x4'[u].loop = l
  <2>1. \A u \in McpCalls!Pending' : u \in Actors /\ (u # t => u \in McpCalls!Pending)
    BY <1>10 DEF McpCalls!Pending
  <2>2. \A u \in McpCalls!Pending : x4[u].loop = l
    BY <1>4 DEF McpCalls!IInv, McpCalls!LoopRuns
  <2>. QED  BY <1>8, <1>10, <2>1, <2>2
<1>13. McpCalls!LoopRuns'
  BY <1>4, <1>7, <1>10, <1>11, <1>12, CallsCount DEF McpCalls!LoopRuns
<1>14. McpCalls!CloseIsOnce'
  <2>1. \A u, v \in Actors : x4'[u].kind = "close" /\ x4'[v].kind = "close" => u = v
    BY <1>8, <1>10 DEF McpCalls!IInv, McpCalls!CloseIsOnce
  <2>2. \A u \in Actors : x4'[u].pc = "final" => x4'[u].kind = "close"
    BY <1>8, <1>10 DEF McpCalls!IInv, McpCalls!CloseIsOnce, McpCalls!At
  <2>3. ASSUME NEW u \in Actors, x4'[u].kind = "close"
        PROVE  /\ x4'[u].pc # "idle"
               /\ x4'[u].pc # "done" => x1'.loop # None /\ x4'[u].loop = x1'.loop /\ ~x1'.stopping
               /\ ~(x4'[u].pc = "done" /\ ~x5')
    <3>1. CASE u = t
      BY <1>2, <1>4, <1>7, <1>8, <1>10, <3>1
    <3>2. CASE u # t
      <4>1. x4[u].pc # "idle" /\ (x4[u].pc # "done" => x1.loop # None /\ x4[u].loop = x1.loop)
        BY <1>10, <2>3, <3>2 DEF McpCalls!IInv, McpCalls!CloseIsOnce, McpCalls!At
      <4>. QED  BY <1>2, <1>4, <1>7, <1>10, <2>3, <3>2, <4>1
    <3>. QED  BY <3>1, <3>2
  <2>. QED  BY <1>2, <1>7, <2>1, <2>2, <2>3 DEF McpCalls!CloseIsOnce, McpCalls!At
<1>15. \A o \in McpCalls!Owners : McpCalls!InCharge(o)' => McpCalls!InCharge(o)
  <2>1. ASSUME NEW o \in McpCalls!Owners, x3[o].loop = l PROVE x1.loop # None
    BY <1>1, <1>4, <2>1 DEF McpCalls!IInv, McpCalls!OwnerIsKnown
  <2>2. x1.loop # None => x2 = {l}
    BY <1>4 DEF McpCalls!IInv, McpCalls!LoopRuns
  <2>. QED  BY <1>11, <2>1, <2>2 DEF McpCalls!InCharge
<1>16. McpCalls!SentRight(r)
  BY <1>8, CallsAssumption DEF McpCalls!SentRight, McpCalls!BeforeIt, McpCalls!Shutting
<1>. QED
  BY <1>4, <1>7, <1>8, <1>9, <1>10, <1>11, <1>13, <1>14, <1>15, <1>16, CallsOutside

LEMMA CallsStart ==
  ASSUME McpCalls!IInv, NEW t \in Actors, McpCalls!Start(t) \/ McpCalls!StartClose(t)
  PROVE  McpCalls!IInv'
<1>1. CASE McpCalls!Start(t)
  <2>. PICK k \in {"tool", "read"} : McpCalls!Submits(t, k, "connect", None)
    BY <1>1 DEF McpCalls!Start
  <2>1. /\ x4[t].pc = "idle" /\ x3' = x3 /\ x5' \in BOOLEAN
        /\ \A u \in Actors : x4[u].kind = "close" /\ x4[u].pc = "done" => x5'
    BY <1>1 DEF McpCalls!Start, McpCalls!At, McpCalls!IInv, McpCalls!TypeOK
  <2>. QED  BY <2>1, CallsSubmits
<1>2. CASE McpCalls!StartClose(t)
  <2>1. /\ x4[t].pc = "idle" /\ x3' = x3 /\ x5' \in BOOLEAN
        /\ McpCalls!Submits(t, "close", "shut", "raise")
        /\ \A u \in Actors : x4[u].kind # "close"
    BY <1>2 DEF McpCalls!StartClose, McpCalls!At, McpCalls!IInv, McpCalls!TypeOK
  <2>. QED  BY <2>1, CallsSubmits
<1>. QED  BY <1>1, <1>2

LEMMA CallsRefused ==
  ASSUME McpCalls!IInv, NEW t \in Actors, McpCalls!Refused(t)
  PROVE  McpCalls!IInv'
<1>. PICK k \in {"tool", "read"} : x4' = [x4 EXCEPT ![t].pc = "done", ![t].kind = k]
  BY DEF McpCalls!Refused
<1>1. x4[t].pc = "idle" /\ UNCHANGED <<x1, x2, x3, x5>> /\ x1.stopping
  BY DEF McpCalls!Refused, McpCalls!At
<1>2. x4 \in [Actors -> McpCalls!CallStates] /\ x4[t] \in McpCalls!CallStates
  BY DEF McpCalls!IInv, McpCalls!TypeOK
<1> DEFINE r == [x4[t] EXCEPT !.pc = "done", !.kind = k]
<1>3. "done" \in McpCalls!Places
  BY DEF McpCalls!Places, McpCalls!Out
<1>4. /\ r \in McpCalls!CallStates /\ r.pc = "done" /\ r.kind = k
      /\ r.tries = x4[t].tries /\ r.sent = x4[t].sent
  BY <1>2, <1>3 DEF McpCalls!CallStates
<1>5. x4' = [x4 EXCEPT ![t] = r]
  BY <1>2
<1>. HIDE DEF r
<1>6. /\ x4'[t] = r /\ \A u \in Actors : u # t => x4'[u] = x4[u]
      /\ McpCalls!Pending' = McpCalls!Pending
  <2>1. r.pc \in McpCalls!Out /\ x4[t].pc \in McpCalls!Out
    BY <1>1, <1>4 DEF McpCalls!Out
  <2>. QED  BY <1>4, <1>5, <2>1, CallsPending
<1>7. McpCalls!LoopRuns'
  <2>1. \A u \in McpCalls!Pending : u \in Actors /\ u # t
    BY <1>1 DEF McpCalls!Pending, McpCalls!Out
  <2>. QED  BY <1>1, <1>6, <2>1 DEF McpCalls!IInv, McpCalls!LoopRuns
<1>8. McpCalls!CloseIsOnce'
  <2>1. /\ x4'[t].kind # "close" /\ x4'[t].pc # "final" /\ x4[t].kind # "close"
    BY <1>1, <1>4, <1>6 DEF McpCalls!IInv, McpCalls!CloseIsOnce, McpCalls!At
  <2>2. McpCalls!CloseIsOnce
    BY DEF McpCalls!IInv
  <2>3. \A u \in Actors : x4'[u].kind = "close" => u # t /\ x4'[u] = x4[u]
    BY <1>6, <2>1
  <2>4. \A u \in Actors : x4'[u].pc = "final" => u # t /\ x4'[u] = x4[u]
    BY <1>6, <2>1
  <2>5. /\ \A u, v \in Actors : x4'[u].kind = "close" /\ x4'[v].kind = "close" => u = v
        /\ \A u \in Actors : x4'[u].pc = "final" => x4'[u].kind = "close"
    <3>1. /\ \A u, v \in Actors : x4[u].kind = "close" /\ x4[v].kind = "close" => u = v
          /\ \A u \in Actors : x4[u].pc = "final" => x4[u].kind = "close"
      BY <2>2 DEF McpCalls!CloseIsOnce, McpCalls!At
    <3>2. \A u, v \in Actors : x4'[u].kind = "close" /\ x4'[v].kind = "close" => u = v
      BY <2>3, <3>1
    <3>3. \A u \in Actors : x4'[u].pc = "final" => x4'[u].kind = "close"
      BY <2>4, <3>1
    <3>. QED  BY <3>2, <3>3
  <2>6. \A u \in Actors : x4'[u].kind = "close" =>
          /\ x4'[u].pc # "idle"
          /\ x4'[u].pc # "done" => x1.loop # None /\ x4'[u].loop = x1.loop /\ ~x1.stopping
          /\ x4'[u].pc = "done" /\ ~x5 => x1.loop = None \/ x1.stopping
    <3>1. \A u \in Actors : x4[u].kind = "close" =>
            /\ x4[u].pc # "idle"
            /\ x4[u].pc # "done" => x1.loop # None /\ x4[u].loop = x1.loop /\ ~x1.stopping
            /\ x4[u].pc = "done" /\ ~x5 => x1.loop = None \/ x1.stopping
      BY <2>2 DEF McpCalls!CloseIsOnce, McpCalls!At
    <3>. QED  BY <2>3, <3>1
  <2>7. /\ x1.loop # None /\ x1.pending # 0
        /\ \E u \in Actors : x4'[u].kind = "close"
    <3>1. /\ x1.loop # None /\ x1.pending # 0
          /\ \E u \in Actors : x4[u].kind = "close"
      BY <1>1, <2>2 DEF McpCalls!CloseIsOnce
    <3>2. \A u \in Actors : x4[u].kind = "close" => x4'[u].kind = "close"
      BY <1>6, <2>1
    <3>. QED  BY <3>1, <3>2
  <2>. QED  BY <1>1, <2>5, <2>6, <2>7 DEF McpCalls!CloseIsOnce, McpCalls!At
<1>9. /\ x1 \in McpCalls!Clients /\ x2 \subseteq McpCalls!Loops /\ x5 \in BOOLEAN
      /\ x1.loops <= x1.loops /\ r.pc \notin {"ready", "unwind", "closing"}
  BY <1>4, CallsAssumption DEF McpCalls!IInv, McpCalls!TypeOK, McpCalls!Clients
<1>10. \A o \in McpCalls!Owners : McpCalls!InCharge(o)' => McpCalls!InCharge(o)
  BY <1>1 DEF McpCalls!InCharge
<1>11. McpCalls!SentRight(r)
  <2>1. x4[t].sent = 0
    BY <1>1 DEF McpCalls!IInv, McpCalls!SentRight
  <2>. QED  BY <1>4, <2>1 DEF McpCalls!SentRight, McpCalls!BeforeIt, McpCalls!Shutting
<1>. QED  BY <1>1, <1>4, <1>5, <1>7, <1>8, <1>9, <1>10, <1>11, CallsOutside

(* A thread has its result.  The last that waited stops the loop of a client  *)
(* being closed.                                                            *)
LEMMA CallsReturn ==
  ASSUME McpCalls!IInv, NEW t \in Actors, McpCalls!Return(t)
  PROVE  McpCalls!IInv'
<1> DEFINE p == IF x4[t].kind = "close" THEN "final" ELSE "done"
           left == x1.pending - 1
<1>1. x4[t].pc = "leave" /\ UNCHANGED <<x3, x5>> /\ McpCalls!Goes(t, p)
  BY DEF McpCalls!Return, McpCalls!At
<1>2. p \in McpCalls!Places /\ p \in McpCalls!Out
  BY DEF McpCalls!Places, McpCalls!Out
<1>. PICK r \in McpCalls!CallStates :
         /\ x4' = [x4 EXCEPT ![t] = r] /\ r.pc = p
         /\ r.kind = x4[t].kind /\ r.loop = x4[t].loop /\ r.session = x4[t].session
         /\ r.tries = x4[t].tries /\ r.sent = x4[t].sent /\ r.after = x4[t].after
  BY <1>1, <1>2, CallsGoes
<1>3. /\ x4'[t] = r /\ \A u \in Actors : u # t => x4'[u] = x4[u]
      /\ x1.pending \in Nat /\ x1.pending # 0 /\ Cardinality(McpCalls!Pending') = left
  <2>1. r.pc \in McpCalls!Out /\ x4[t].pc \notin McpCalls!Out
    BY <1>1, <1>2 DEF McpCalls!Out
  <2>. QED  BY <2>1, CallsPending
<1>4. x1 \in McpCalls!Clients /\ x2 \subseteq McpCalls!Loops /\ x5' \in BOOLEAN /\ left \in Nat
  BY <1>1, <1>3 DEF McpCalls!IInv, McpCalls!TypeOK
<1>5. McpCalls!SentRight(r) /\ r.pc \notin {"ready", "unwind", "closing"}
  <2>1. McpCalls!SentRight(x4[t])
    BY DEF McpCalls!IInv
  <2>. QED  BY <2>1 DEF McpCalls!SentRight, McpCalls!BeforeIt, McpCalls!Shutting
<1>6. McpCalls!Pending' \subseteq McpCalls!Pending
  BY <1>1, <1>2, <1>3 DEF McpCalls!Pending
<1>7. CASE x1.stopping /\ McpCalls!Idle(left)
  <2>1. /\ x1' = [x1 EXCEPT !.pending = left, !.loop = None, !.stopping = FALSE]
        /\ x2' = x2 \ {x1.loop} /\ left = 0
    BY <1>7 DEF McpCalls!Return, McpCalls!Idle
  <2>2. /\ x1' \in McpCalls!Clients /\ x1'.loop = None /\ x1'.pending = 0 /\ ~x1'.stopping
        /\ x1'.loops = x1.loops /\ x1'.guard = x1.guard /\ x1'.owner = x1.owner
    <3> DEFINE a == [x1 EXCEPT !.pending = left]
               b == [a EXCEPT !.loop = None]
    <3>1. /\ a \in McpCalls!Clients /\ a.pending = 0
          /\ a.loops = x1.loops /\ a.guard = x1.guard /\ a.owner = x1.owner
      BY <1>4, <2>1 DEF McpCalls!Clients
    <3>2. x1' = [b EXCEPT !.stopping = FALSE]
      BY <2>1
    <3>. HIDE DEF a
    <3>3. /\ b \in McpCalls!Clients /\ b.pending = 0 /\ b.loop = None
          /\ b.loops = x1.loops /\ b.guard = x1.guard /\ b.owner = x1.owner
      BY <3>1 DEF McpCalls!Clients
    <3>. HIDE DEF b
    <3>. QED  BY <3>2, <3>3 DEF McpCalls!Clients
  <2>3. x2' = {} /\ x2' \subseteq McpCalls!Loops
    BY <2>1 DEF McpCalls!IInv, McpCalls!LoopRuns
  <2>4. McpCalls!Pending' = {}
    <3>1. IsFiniteSet(McpCalls!Pending')
      BY <1>6, ServersAssumption, FS_Subset DEF McpCalls!Pending
    <3>. QED  BY <1>3, <2>1, <3>1, FS_EmptySet
  <2>5. McpCalls!LoopRuns'
    <3>1. x1'.pending = McpCalls!Cardinality(McpCalls!Pending')
      BY <1>3, <2>1, <2>2, CallsCount
    <3>. QED  BY <2>2, <2>3, <2>4, <3>1 DEF McpCalls!LoopRuns
  <2>6. McpCalls!CloseIsOnce'
    <3>1. x4[t].kind # "close"
      BY <1>1, <1>7 DEF McpCalls!IInv, McpCalls!CloseIsOnce, McpCalls!At
    <3>2. \A u \in Actors : x4[u].kind = "close" => x4[u].pc = "done"
      BY <1>7 DEF McpCalls!IInv, McpCalls!CloseIsOnce, McpCalls!At
    <3>3. x4'[t].kind # "close" /\ x4'[t].pc # "final"
      BY <1>3, <3>1
    <3>. QED
      BY <1>3, <2>2, <3>1, <3>2, <3>3 DEF McpCalls!IInv, McpCalls!CloseIsOnce, McpCalls!At
  <2>7. /\ \A o \in McpCalls!Owners : McpCalls!InCharge(o)' => McpCalls!InCharge(o)
        /\ x1.loops <= x1'.loops
    BY <1>4, <2>2, <2>3, CallsAssumption DEF McpCalls!InCharge, McpCalls!Clients
  <2>. QED  BY <1>1, <1>4, <1>5, <2>2, <2>3, <2>5, <2>6, <2>7, CallsOutside
<1>8. CASE ~(x1.stopping /\ McpCalls!Idle(left))
  <2>1. x1' = [x1 EXCEPT !.pending = left] /\ x2' = x2 /\ (x1.stopping => left # 0)
    BY <1>8 DEF McpCalls!Return, McpCalls!Idle
  <2>2. /\ x1' \in McpCalls!Clients /\ x1'.loop = x1.loop /\ x1'.pending = left
        /\ x1'.stopping = x1.stopping
        /\ x1'.loops = x1.loops /\ x1'.guard = x1.guard /\ x1'.owner = x1.owner
    BY <1>4, <2>1 DEF McpCalls!Clients
  <2>3. McpCalls!LoopRuns'
    <3>1. x1'.pending = McpCalls!Cardinality(McpCalls!Pending')
      BY <1>3, <2>2, CallsCount
    <3>2. \A u \in McpCalls!Pending' : x1'.loop # None /\ x4'[u].loop = x1'.loop
      <4>1. \A u \in McpCalls!Pending' : u \in Actors /\ x4'[u].loop = x4[u].loop
        BY <1>3 DEF McpCalls!Pending
      <4>. QED  BY <1>6, <2>2, <4>1 DEF McpCalls!IInv, McpCalls!LoopRuns
    <3>. QED  BY <2>1, <2>2, <3>1, <3>2 DEF McpCalls!IInv, McpCalls!LoopRuns
  <2>4. McpCalls!CloseIsOnce'
    <3>1. /\ \A u \in Actors : x4'[u].kind = x4[u].kind /\ x4'[u].loop = x4[u].loop
          /\ \A u \in Actors : u # t => x4'[u].pc = x4[u].pc
          /\ x4'[t].pc = p
      BY <1>3
    <3>2. x4[t].kind = "close" => x1.loop # None /\ x4[t].loop = x1.loop /\ ~x1.stopping
      BY <1>1 DEF McpCalls!IInv, McpCalls!CloseIsOnce, McpCalls!At
    <3>. QED
      BY <1>1, <2>1, <2>2, <3>1, <3>2 DEF McpCalls!IInv, McpCalls!CloseIsOnce, McpCalls!At
  <2>5. /\ \A o \in McpCalls!Owners : McpCalls!InCharge(o)' => McpCalls!InCharge(o)
        /\ x1.loops <= x1'.loops /\ x2' \subseteq McpCalls!Loops
    BY <1>1, <1>4, <2>1, <2>2, CallsAssumption DEF McpCalls!InCharge, McpCalls!Clients
  <2>. QED  BY <1>1, <1>4, <1>5, <2>1, <2>2, <2>3, <2>4, <2>5, CallsOutside
<1>. QED  BY <1>7, <1>8

(* The client is closed: its loop stops, or is left to those who wait on it. *)
LEMMA CallsFinalize ==
  ASSUME McpCalls!IInv, NEW t \in Actors, McpCalls!FinalizeClose(t)
  PROVE  McpCalls!IInv'
<1>1. x4[t].pc = "final" /\ UNCHANGED <<x3, x5>> /\ McpCalls!Goes(t, "done")
  BY DEF McpCalls!FinalizeClose, McpCalls!At
<1>2. "done" \in McpCalls!Places /\ "done" \in McpCalls!Out
  BY DEF McpCalls!Places, McpCalls!Out
<1>. PICK r \in McpCalls!CallStates :
         /\ x4' = [x4 EXCEPT ![t] = r] /\ r.pc = "done"
         /\ r.kind = x4[t].kind /\ r.loop = x4[t].loop /\ r.session = x4[t].session
         /\ r.tries = x4[t].tries /\ r.sent = x4[t].sent /\ r.after = x4[t].after
  BY <1>1, <1>2, CallsGoes
<1>3. /\ x4'[t] = r /\ \A u \in Actors : u # t => x4'[u] = x4[u]
      /\ McpCalls!Pending' = McpCalls!Pending
  <2>1. r.pc \in McpCalls!Out /\ x4[t].pc \in McpCalls!Out
    BY <1>1, <1>2 DEF McpCalls!Out
  <2>. QED  BY <2>1, CallsPending
<1>4. x1 \in McpCalls!Clients /\ x2 \subseteq McpCalls!Loops /\ x5' \in BOOLEAN
  BY <1>1 DEF McpCalls!IInv, McpCalls!TypeOK
<1>5. McpCalls!SentRight(r) /\ r.pc \notin {"ready", "unwind", "closing"}
  <2>1. McpCalls!SentRight(x4[t])
    BY DEF McpCalls!IInv
  <2>. QED  BY <2>1 DEF McpCalls!SentRight, McpCalls!BeforeIt, McpCalls!Shutting
<1>6. /\ x4[t].kind = "close" /\ x1.loop # None /\ x4[t].loop = x1.loop /\ ~x1.stopping
      /\ \A u \in Actors : u # t => x4[u].kind # "close"
  BY <1>1 DEF McpCalls!IInv, McpCalls!CloseIsOnce, McpCalls!At
<1>7. /\ \A u \in Actors : x4'[u].kind = x4[u].kind
      /\ \A u \in Actors : u # t => x4'[u].pc = x4[u].pc /\ x4[u].pc # "final"
      /\ x4'[t].pc = "done"
  BY <1>3, <1>6 DEF McpCalls!IInv, McpCalls!CloseIsOnce, McpCalls!At
<1>8. \A u \in McpCalls!Pending : u \in Actors /\ u # t /\ x4'[u].loop = x4[u].loop
  BY <1>1, <1>3 DEF McpCalls!Pending, McpCalls!Out
<1>9. CASE McpCalls!Idle(x1.pending)
  <2>1. x1' = [x1 EXCEPT !.loop = None] /\ x2' = x2 \ {x1.loop} /\ x1.pending = 0
    BY <1>6, <1>9 DEF McpCalls!FinalizeClose, McpCalls!Idle
  <2>2. /\ x1' \in McpCalls!Clients /\ x1'.loop = None /\ x1'.pending = 0 /\ ~x1'.stopping
        /\ x1'.loops = x1.loops /\ x1'.guard = x1.guard /\ x1'.owner = x1.owner
    BY <1>4, <1>6, <2>1 DEF McpCalls!Clients
  <2>3. x2' = {} /\ x2' \subseteq McpCalls!Loops
    BY <2>1 DEF McpCalls!IInv, McpCalls!LoopRuns
  <2>4. McpCalls!Pending' = {}
    BY <1>3, <2>1, CallsNonePending
  <2>5. McpCalls!LoopRuns'
    <3>1. x1'.pending = McpCalls!Cardinality(McpCalls!Pending')
      BY <1>3, <2>1, <2>2 DEF McpCalls!IInv, McpCalls!LoopRuns
    <3>. QED  BY <2>2, <2>3, <2>4, <3>1 DEF McpCalls!LoopRuns
  <2>6. McpCalls!CloseIsOnce'
    BY <1>6, <1>7, <2>2 DEF McpCalls!CloseIsOnce, McpCalls!At
  <2>7. /\ \A o \in McpCalls!Owners : McpCalls!InCharge(o)' => McpCalls!InCharge(o)
        /\ x1.loops <= x1'.loops
    BY <1>4, <2>2, <2>3, CallsAssumption DEF McpCalls!InCharge, McpCalls!Clients
  <2>. QED  BY <1>1, <1>4, <1>5, <2>2, <2>3, <2>5, <2>6, <2>7, CallsOutside
<1>10. CASE ~McpCalls!Idle(x1.pending)
  <2>1. x1' = [x1 EXCEPT !.stopping = TRUE] /\ x2' = x2 /\ x1.pending # 0
    BY <1>6, <1>10 DEF McpCalls!FinalizeClose, McpCalls!Idle
  <2>2. /\ x1' \in McpCalls!Clients /\ x1'.loop = x1.loop /\ x1'.pending = x1.pending
        /\ x1'.stopping
        /\ x1'.loops = x1.loops /\ x1'.guard = x1.guard /\ x1'.owner = x1.owner
    BY <1>4, <2>1 DEF McpCalls!Clients
  <2>3. McpCalls!LoopRuns'
    BY <1>3, <1>8, <2>1, <2>2 DEF McpCalls!IInv, McpCalls!LoopRuns
  <2>4. McpCalls!CloseIsOnce'
    BY <1>6, <1>7, <2>1, <2>2 DEF McpCalls!CloseIsOnce, McpCalls!At
  <2>5. /\ \A o \in McpCalls!Owners : McpCalls!InCharge(o)' => McpCalls!InCharge(o)
        /\ x1.loops <= x1'.loops /\ x2' \subseteq McpCalls!Loops
    BY <1>1, <1>4, <2>1, <2>2, CallsAssumption DEF McpCalls!InCharge, McpCalls!Clients
  <2>. QED  BY <1>1, <1>4, <1>5, <2>1, <2>2, <2>3, <2>4, <2>5, CallsOutside
<1>. QED  BY <1>9, <1>10

LEMMA CallsNext == ASSUME McpCalls!IInv, McpCalls!Next PROVE McpCalls!IInv'
BY CallsStart, CallsRefused, CallsReturn, CallsFinalize, CallsConnect, CallsAwaitOwner, CallsReady,
   CallsAsk, CallsShut, CallsCancelled, CallsOwnerSteps DEF McpCalls!Next

LEMMA CallsStutters ==
  ASSUME McpCalls!IInv, UNCHANGED <<x1, x2, x3, x4, x5>> PROVE McpCalls!IInv'
<1>1. McpCalls!TypeOK'
  BY DEF McpCalls!IInv, McpCalls!TypeOK
<1>2. McpCalls!LoopRuns' /\ McpCalls!CloseIsOnce'
  BY CallsStay
<1>3. McpCalls!GuardIsHeld' /\ McpCalls!OwnerIsKnown'
  BY DEF McpCalls!IInv, McpCalls!GuardIsHeld, McpCalls!OwnerIsKnown, McpCalls!InCharge, McpCalls!At
<1>. QED  BY <1>1, <1>2, <1>3 DEF McpCalls!IInv

LEMMA CallsInit == ASSUME McpCalls!Init PROVE McpCalls!IInv
<1>1. McpCalls!NoCall \in McpCalls!CallStates /\ McpCalls!NoOwner \in McpCalls!OwnerStates
  BY DEF McpCalls!NoCall, McpCalls!CallStates, McpCalls!Places, McpCalls!Out,
         McpCalls!NoOwner, McpCalls!OwnerStates
<1>2. /\ 0 \in 0..MaxLoops /\ 0 \in 0..MaxOwners /\ 0 \in Nat
  BY CallsAssumption
<1>3. McpCalls!TypeOK
  BY <1>1, <1>2 DEF McpCalls!Init, McpCalls!TypeOK, McpCalls!Clients
<1>4. McpCalls!Pending = {}
  BY DEF McpCalls!Init, McpCalls!NoCall, McpCalls!Pending, McpCalls!Out
<1>5. McpCalls!LoopRuns
  <2>1. McpCalls!Cardinality({}) = 0
    BY CallsCount, FS_EmptySet
  <2>. QED  BY <1>4, <2>1 DEF McpCalls!Init, McpCalls!LoopRuns
<1>6. \A t \in Actors : x4[t] = McpCalls!NoCall
  BY DEF McpCalls!Init
<1>7. McpCalls!CloseIsOnce /\ McpCalls!GuardIsHeld
  BY <1>6, CallsAssumption
     DEF McpCalls!Init, McpCalls!CloseIsOnce, McpCalls!GuardIsHeld, McpCalls!NoCall, McpCalls!At
<1>8. McpCalls!OwnerIsKnown
  BY DEF McpCalls!Init, McpCalls!OwnerIsKnown, McpCalls!NoOwner, McpCalls!InCharge
<1>9. McpCalls!SentRight(McpCalls!NoCall)
  BY DEF McpCalls!SentRight, McpCalls!NoCall, McpCalls!BeforeIt, McpCalls!Shutting
<1>. QED  BY <1>3, <1>5, <1>6, <1>7, <1>8, <1>9 DEF McpCalls!IInv

LEMMA CallsSafe == ASSUME McpCalls!IInv PROVE McpCalls!CallsAreSafe
<1>1. McpCalls!NoCallIsReplayed
  BY DEF McpCalls!IInv, McpCalls!SentRight, McpCalls!NoCallIsReplayed
<1>2. McpCalls!NoCallIsCut
  BY DEF McpCalls!IInv, McpCalls!LoopRuns, McpCalls!Pending, McpCalls!Out,
         McpCalls!NoCallIsCut, McpCalls!Awake
<1>3. McpCalls!OneTransport
  <2>1. \A o \in McpCalls!Owners : McpCalls!InCharge(o) => x1.owner = o
    BY DEF McpCalls!IInv, McpCalls!OwnerIsKnown
  <2>. QED  BY <2>1 DEF McpCalls!OneTransport, McpCalls!InCharge
<1>4. McpCalls!CloseLeavesNothing
  <2> SUFFICES ASSUME ~x5, \A t \in Actors : x4[t].pc = "done",
                      NEW t \in Actors, x4[t].kind = "close"
               PROVE  x2 = {} /\ x1.loop = None
    BY DEF McpCalls!CloseLeavesNothing, McpCalls!At
  <2>1. McpCalls!Pending = {}
    BY DEF McpCalls!Pending, McpCalls!Out
  <2>2. x1.pending = 0
    BY <2>1, CallsNonePending
  <2>3. x1.loop = None
    BY <2>2 DEF McpCalls!IInv, McpCalls!CloseIsOnce, McpCalls!At
  <2>. QED  BY <2>3 DEF McpCalls!IInv, McpCalls!LoopRuns
<1>. QED  BY <1>1, <1>2, <1>3, <1>4 DEF McpCalls!CallsAreSafe

-----------------------------------------------------------------------------
(* McpRegistration.  The cells are mode (x1), shared (x2), life (x3), agent   *)
(* (x4) and job (x5); agents are Actors and jobs are Things.                *)

(* The module counts as its standard module does. *)
LEMMA ServersCount == \A S : McpServers!Cardinality(S) = Cardinality(S)
BY DEF McpServers!Cardinality, Cardinality

(* One job has moved: a client has one worker more, or less, or as many.     *)
LEMMA ServersWorkers ==
  ASSUME McpServers!TypeOK, NEW j \in Things, NEW r \in McpServers!JobStates,
         x5' = [x5 EXCEPT ![j] = r], NEW c \in McpServers!Clients
  PROVE  /\ x5'[j] = r /\ \A k \in Things : k # j => x5'[k] = x5[k]
         /\ McpServers!Working(j, c)' <=> r.client = c /\ r.work \notin {"admit", "done", "close"}
         /\ \A k \in Things : k # j => (McpServers!Working(k, c)' <=> McpServers!Working(k, c))
         /\ Cardinality(McpServers!Workers(c)) \in Nat
         /\ (McpServers!Working(j, c)' <=> McpServers!Working(j, c)) =>
              McpServers!Workers(c)' = McpServers!Workers(c)
         /\ McpServers!Working(j, c)' /\ ~McpServers!Working(j, c) =>
              /\ McpServers!Workers(c)' = McpServers!Workers(c) \cup {j}
              /\ Cardinality(McpServers!Workers(c)') = Cardinality(McpServers!Workers(c)) + 1
         /\ ~McpServers!Working(j, c)' /\ McpServers!Working(j, c) =>
              /\ McpServers!Workers(c)' = McpServers!Workers(c) \ {j}
              /\ Cardinality(McpServers!Workers(c)') = Cardinality(McpServers!Workers(c)) - 1
<1>1. x5'[j] = r /\ \A k \in Things : k # j => x5'[k] = x5[k]
  BY DEF McpServers!TypeOK
<1>2. McpServers!Working(j, c)' <=> r.client = c /\ r.work \notin {"admit", "done", "close"}
  BY <1>1 DEF McpServers!Working
<1>3. \A k \in Things : k # j => (McpServers!Working(k, c)' <=> McpServers!Working(k, c))
  BY <1>1 DEF McpServers!Working
<1>4. IsFiniteSet(McpServers!Workers(c)) /\ Cardinality(McpServers!Workers(c)) \in Nat
  BY ServersAssumption, FS_Subset, FS_CardinalityType DEF McpServers!Workers
<1>5. (McpServers!Working(j, c)' <=> McpServers!Working(j, c)) =>
        McpServers!Workers(c)' = McpServers!Workers(c)
  BY <1>3 DEF McpServers!Workers
<1>6. ASSUME McpServers!Working(j, c)', ~McpServers!Working(j, c)
      PROVE  /\ McpServers!Workers(c)' = McpServers!Workers(c) \cup {j}
             /\ Cardinality(McpServers!Workers(c)') = Cardinality(McpServers!Workers(c)) + 1
  <2>1. McpServers!Workers(c)' = McpServers!Workers(c) \cup {j} /\ j \notin McpServers!Workers(c)
    BY <1>3, <1>6 DEF McpServers!Workers
  <2>. QED  BY <1>4, <2>1, FS_AddElement
<1>7. ASSUME ~McpServers!Working(j, c)', McpServers!Working(j, c)
      PROVE  /\ McpServers!Workers(c)' = McpServers!Workers(c) \ {j}
             /\ Cardinality(McpServers!Workers(c)') = Cardinality(McpServers!Workers(c)) - 1
  <2>1. McpServers!Workers(c)' = McpServers!Workers(c) \ {j} /\ j \in McpServers!Workers(c)
    BY <1>3, <1>7 DEF McpServers!Workers
  <2>. QED  BY <1>4, <2>1, FS_RemoveElement
<1>. QED  BY <1>1, <1>2, <1>3, <1>4, <1>5, <1>6, <1>7

(* A job that neither starts nor stops work on a client: at most it opens the *)
(* client it works on, or writes into the registry's row.                   *)
LEMMA ServersJobMoves ==
  ASSUME McpServers!IInv, UNCHANGED <<x1, x4>>,
         NEW j \in Things, NEW r \in McpServers!JobStates, x5' = [x5 EXCEPT ![j] = r],
         \A c \in McpServers!Clients :
           (r.client = c /\ r.work \notin {"admit", "done", "close"}) <=> McpServers!Working(j, c),
         r.work # "done" => r.client \in McpServers!Clients /\ r.client <= x2.made,
         x5[j].work = "close" => r.work = "close" /\ r.client = x5[j].client,
         \/ x3' = x3
         \/ \E c \in McpServers!Clients :
              McpServers!Working(j, c) /\ x3' = [x3 EXCEPT ![c].open = TRUE],
         x2' \in McpServers!Rows,
         x2'.users = x2.users, x2'.client = x2.client, x2'.made = x2.made,
         McpServers!OffersTheLiveServer'
  PROVE  McpServers!IInv'
<1>1. /\ x5'[j] = r /\ \A k \in Things : k # j => x5'[k] = x5[k]
      /\ x5' \in [Things -> McpServers!JobStates]
  BY DEF McpServers!IInv, McpServers!TypeOK
<1>2. \A c \in McpServers!Clients :
        /\ McpServers!Workers(c)' = McpServers!Workers(c)
        /\ McpServers!Active(c)' <=> McpServers!Active(c)
  BY ServersWorkers DEF McpServers!IInv, McpServers!Active
<1>3. McpServers!Users' = McpServers!Users
  BY DEF McpServers!Users
<1>4. /\ x3' \in [McpServers!Clients -> McpServers!Lives]
      /\ \A c \in McpServers!Clients :
           /\ x3'[c].workers = x3[c].workers /\ x3'[c].registrations = x3[c].registrations
           /\ x3'[c].closing = x3[c].closing
           /\ x3'[c].open # x3[c].open => McpServers!Workers(c) # {}
  <2>1. x3 \in [McpServers!Clients -> McpServers!Lives]
    BY DEF McpServers!IInv, McpServers!TypeOK
  <2>2. CASE \E c \in McpServers!Clients :
               McpServers!Working(j, c) /\ x3' = [x3 EXCEPT ![c].open = TRUE]
    <3>1. PICK c \in McpServers!Clients :
            McpServers!Working(j, c) /\ x3' = [x3 EXCEPT ![c].open = TRUE]
      BY <2>2
    <3> DEFINE l == [x3[c] EXCEPT !.open = TRUE]
    <3>2. /\ l \in McpServers!Lives /\ l.workers = x3[c].workers
          /\ l.registrations = x3[c].registrations /\ l.closing = x3[c].closing
      <4>1. x3[c] \in McpServers!Lives
        BY <2>1
      <4>. QED  BY <4>1 DEF McpServers!Lives
    <3>3. x3' = [x3 EXCEPT ![c] = l]
      BY <2>1, <3>1
    <3>. HIDE DEF l
    <3>4. /\ x3' \in [McpServers!Clients -> McpServers!Lives] /\ x3'[c] = l
          /\ \A d \in McpServers!Clients : d # c => x3'[d] = x3[d]
      BY <2>1, <3>2, <3>3
    <3>5. McpServers!Workers(c) # {}
      BY <3>1 DEF McpServers!Workers
    <3>. QED  BY <3>2, <3>4, <3>5
  <2>. QED  BY <2>1, <2>2
<1>5. McpServers!TypeOK'
  BY <1>1, <1>4 DEF McpServers!IInv, McpServers!TypeOK
<1>6. McpServers!CountsAreRight'
  BY <1>2, <1>3, <1>4 DEF McpServers!IInv, McpServers!CountsAreRight
<1>7. \A c \in McpServers!Clients : McpServers!Closes(c) => McpServers!Closes(c)'
  BY <1>1 DEF McpServers!Closes
<1>8. ASSUME NEW c \in McpServers!Clients, c > x2'.made PROVE McpServers!NobodyKnows(c)'
  <2>1. McpServers!NobodyKnows(c)
    BY <1>8 DEF McpServers!IInv, McpServers!ClientsAreOwned
  <2>2. McpServers!Workers(c) = {}
    BY <2>1 DEF McpServers!NobodyKnows, McpServers!Workers, McpServers!Working
  <2>3. x5'[j].work # "done" => x5'[j].client # c
    BY <1>1, <1>8 DEF McpServers!Clients, McpServers!Rows
  <2>. QED  BY <1>1, <1>2, <1>4, <2>1, <2>2, <2>3 DEF McpServers!NobodyKnows
<1>9. McpServers!ClientsAreOwned'
  BY <1>1, <1>2, <1>4, <1>7, <1>8 DEF McpServers!IInv, McpServers!ClientsAreOwned
<1>. QED  BY <1>5, <1>6, <1>9 DEF McpServers!IInv

(* What the row of a server holds when one more agent has registered. *)
LEMMA ServersRowBegins ==
  ASSUME x2 \in McpServers!Rows, NEW c \in McpServers!Clients, NEW offered \in {None, c},
         x2' = [x2 EXCEPT !.users = @ + 1, !.client = c, !.offered = offered, !.made = c]
  PROVE  /\ x2' \in McpServers!Rows /\ x2'.users = x2.users + 1 /\ x2'.client = c
         /\ x2'.pending = x2.pending /\ x2'.offered = offered /\ x2'.made = c
<1> DEFINE r1 == [x2 EXCEPT !.users = @ + 1]
           r2 == [r1 EXCEPT !.client = c]
           r3 == [r2 EXCEPT !.offered = offered]
           r4 == [r3 EXCEPT !.made = c]
<1>1. c \in {None} \cup McpServers!Clients /\ c \in 0..MaxClients
  BY ServersAssumption DEF McpServers!Clients
<1>2. /\ r1 \in McpServers!Rows /\ r1.users = x2.users + 1 /\ r1.pending = x2.pending
  BY DEF McpServers!Rows
<1>3. x2' = r4
  OBVIOUS
<1>. HIDE DEF r1
<1>4. /\ r2 \in McpServers!Rows /\ r2.users = x2.users + 1 /\ r2.client = c
      /\ r2.pending = x2.pending
  BY <1>1, <1>2 DEF McpServers!Rows
<1>. HIDE DEF r2
<1>5. /\ r3 \in McpServers!Rows /\ r3.users = x2.users + 1 /\ r3.client = c
      /\ r3.pending = x2.pending /\ r3.offered = offered
  BY <1>1, <1>4 DEF McpServers!Rows
<1>. HIDE DEF r3
<1>. QED  BY <1>1, <1>3, <1>5 DEF McpServers!Rows

(* What the row holds when the last agent has let go. *)
LEMMA ServersRowEnds ==
  ASSUME x2 \in McpServers!Rows,
         x2' = [x2 EXCEPT !.users = 0, !.client = None, !.pending = None, !.offered = None]
  PROVE  /\ x2' \in McpServers!Rows /\ x2'.users = 0 /\ x2'.client = None
         /\ x2'.pending = None /\ x2'.offered = None /\ x2'.made = x2.made
<1> DEFINE r1 == [x2 EXCEPT !.users = 0]
           r2 == [r1 EXCEPT !.client = None]
           r3 == [r2 EXCEPT !.pending = None]
           r4 == [r3 EXCEPT !.offered = None]
<1>1. r1 \in McpServers!Rows /\ r1.users = 0 /\ r1.made = x2.made
  BY DEF McpServers!Rows
<1>2. x2' = r4
  OBVIOUS
<1>. HIDE DEF r1
<1>3. /\ r2 \in McpServers!Rows /\ r2.users = 0 /\ r2.client = None /\ r2.made = x2.made
  BY <1>1 DEF McpServers!Rows
<1>. HIDE DEF r2
<1>4. /\ r3 \in McpServers!Rows /\ r3.users = 0 /\ r3.client = None
      /\ r3.pending = None /\ r3.made = x2.made
  BY <1>3 DEF McpServers!Rows
<1>. HIDE DEF r3
<1>. QED  BY <1>2, <1>4 DEF McpServers!Rows

(* A row left alone stays in order. *)
LEMMA ServersRow ==
  ASSUME McpServers!IInv, x2' = x2
  PROVE  /\ x2' \in McpServers!Rows
         /\ x2'.users = x2.users /\ x2'.client = x2.client /\ x2'.made = x2.made
         /\ McpServers!OffersTheLiveServer'
BY DEF McpServers!IInv, McpServers!TypeOK, McpServers!OffersTheLiveServer, McpServers!Active

(* A client somebody knows was made. *)
LEMMA ServersMade ==
  ASSUME McpServers!IInv
  PROVE  /\ \A j \in Things : x5[j].work # "done" =>
              x5[j].client \in McpServers!Clients /\ x5[j].client <= x2.made
         /\ x2.client # None => x2.client \in McpServers!Clients /\ x2.client <= x2.made
         /\ \A a \in Actors : x4[a].pc = "closing" =>
              x4[a].client \in McpServers!Clients /\ x4[a].client <= x2.made
<1>1. x2.made \in Nat /\ \A c \in McpServers!Clients : c \in Nat
  BY ServersAssumption DEF McpServers!IInv, McpServers!TypeOK, McpServers!Clients, McpServers!Rows
<1>2. \A c \in McpServers!Clients : ~McpServers!NobodyKnows(c) => c <= x2.made
  BY <1>1 DEF McpServers!IInv, McpServers!ClientsAreOwned
<1>3. x2.client # None => x2.client \in McpServers!Clients
  BY DEF McpServers!IInv, McpServers!TypeOK, McpServers!Rows
<1>. QED
  BY <1>2, <1>3 DEF McpServers!IInv, McpServers!ClientsAreOwned, McpServers!NobodyKnows,
     McpServers!Active

(* The steps of a connecting thread and of the one that waits for it. *)
LEMMA ServersJobStep ==
  ASSUME McpServers!IInv, NEW j \in Things,
         \/ McpServers!Connect(j) \/ McpServers!Check(j) \/ McpServers!ListTools(j)
         \/ McpServers!Publish(j)
         \/ McpServers!TimesOut(j) \/ McpServers!SeesEnd(j) \/ McpServers!RecordPending(j)
         \/ McpServers!Forget(j)
  PROVE  McpServers!IInv'
<1>1. UNCHANGED <<x1, x4>>
  BY DEF McpServers!Connect, McpServers!Check, McpServers!ListTools, McpServers!Publish,
         McpServers!TimesOut, McpServers!SeesEnd, McpServers!RecordPending, McpServers!Forget
<1>2. x5 \in [Things -> McpServers!JobStates] /\ x5[j] \in McpServers!JobStates
  BY DEF McpServers!IInv, McpServers!TypeOK
<1>3. x5[j].work # "done" => x5[j].client \in McpServers!Clients /\ x5[j].client <= x2.made
  BY ServersMade
<1>4. ASSUME McpServers!AtWork(j, "connect") \/ McpServers!AtWork(j, "check")
             \/ McpServers!AtWork(j, "list") \/ McpServers!AtWork(j, "publish"),
             NEW pc \in {"check", "list", "publish", "finish"}, NEW ok \in BOOLEAN,
             x5' = [x5 EXCEPT ![j].work = pc, ![j].ok = ok],
             x3' = x3 \/ x3' = [x3 EXCEPT ![x5[j].client].open = TRUE],
             x2' \in McpServers!Rows,
             x2'.users = x2.users, x2'.client = x2.client, x2'.made = x2.made,
             McpServers!OffersTheLiveServer'
      PROVE  McpServers!IInv'
  <2> DEFINE r == [x5[j] EXCEPT !.work = pc, !.ok = ok]
  <2>1. r \in McpServers!JobStates /\ r.client = x5[j].client /\ r.work = pc
    BY <1>2 DEF McpServers!JobStates, McpServers!Places
  <2>2. x5' = [x5 EXCEPT ![j] = r]
    BY <1>2, <1>4
  <2>. HIDE DEF r
  <2>3. x5[j].work \in {"connect", "check", "list", "publish"}
    BY <1>4 DEF McpServers!AtWork
  <2>4. \A c \in McpServers!Clients :
          (r.client = c /\ r.work \notin {"admit", "done", "close"}) <=> McpServers!Working(j, c)
    BY <2>1, <2>3 DEF McpServers!Working
  <2>5. McpServers!Working(j, x5[j].client) /\ x5[j].client \in McpServers!Clients /\ x5[j].client <= x2.made
    BY <1>3, <2>3 DEF McpServers!Working
  <2>6. \/ x3' = x3
        \/ \E c \in McpServers!Clients :
             McpServers!Working(j, c) /\ x3' = [x3 EXCEPT ![c].open = TRUE]
    BY <1>4, <2>5
  <2>7. r.client \in McpServers!Clients /\ r.client <= x2.made /\ x5[j].work # "close"
    BY <2>1, <2>3, <2>5
  <2>. QED  BY <1>1, <1>4, <2>1, <2>2, <2>4, <2>6, <2>7, ServersJobMoves
<1>6. CASE McpServers!Connect(j) \/ McpServers!Check(j) \/ McpServers!ListTools(j)
  <2>1. PICK pc \in {"check", "list", "publish", "finish"} : McpServers!Works(j, pc)
    BY <1>6 DEF McpServers!Connect, McpServers!Check, McpServers!ListTools
  <2>2. x5[j].ok \in BOOLEAN /\ x5' = [x5 EXCEPT ![j].work = pc, ![j].ok = x5[j].ok]
    BY <1>2, <2>1 DEF McpServers!Works, McpServers!JobStates
  <2>3. /\ x2' = x2
        /\ x3' = x3 \/ x3' = [x3 EXCEPT ![x5[j].client].open = TRUE]
        /\ \/ McpServers!AtWork(j, "connect") \/ McpServers!AtWork(j, "check")
           \/ McpServers!AtWork(j, "list")
    BY <1>6 DEF McpServers!Connect, McpServers!Check, McpServers!ListTools
  <2>. QED  BY <1>4, <2>2, <2>3, ServersRow
<1>7. CASE McpServers!Publish(j)
  <2>1. x3' = x3 /\ McpServers!AtWork(j, "publish")
    BY <1>7 DEF McpServers!Publish
  <2>2. CASE McpServers!Active(x5[j].client)
    <3>1. /\ x2' = [x2 EXCEPT !.offered = x5[j].client, !.pending = None]
          /\ x5' = [x5 EXCEPT ![j].work = "finish", ![j].ok = TRUE]
      BY <1>7, <2>2 DEF McpServers!Publish
    <3>2. x5[j].client \in McpServers!Clients
      BY <1>3, <2>1 DEF McpServers!AtWork
    <3>3. /\ x2' \in McpServers!Rows
          /\ x2'.users = x2.users /\ x2'.client = x2.client /\ x2'.made = x2.made
          /\ x2'.offered = x5[j].client /\ x2'.pending = None
      BY <3>1, <3>2 DEF McpServers!IInv, McpServers!TypeOK, McpServers!Rows
    <3>4. McpServers!OffersTheLiveServer'
      BY <2>2, <3>3 DEF McpServers!IInv, McpServers!OffersTheLiveServer, McpServers!Active
    <3>. QED  BY <1>4, <2>1, <3>1, <3>3, <3>4
  <2>3. CASE ~McpServers!Active(x5[j].client)
    <3>1. x2' = x2 /\ McpServers!Works(j, "finish")
      BY <1>7, <2>3 DEF McpServers!Publish
    <3>2. x5[j].ok \in BOOLEAN /\ x5' = [x5 EXCEPT ![j].work = "finish", ![j].ok = x5[j].ok]
      BY <1>2, <3>1 DEF McpServers!Works, McpServers!JobStates
    <3>. QED  BY <1>4, <2>1, <3>1, <3>2, ServersRow
  <2>. QED  BY <2>2, <2>3
<1>8. ASSUME NEW r \in McpServers!JobStates, x5' = [x5 EXCEPT ![j] = r], x3' = x3,
             r.work = x5[j].work, r.client = x5[j].client \/ r.work = "done",
             x2' \in McpServers!Rows,
             x2'.users = x2.users, x2'.client = x2.client, x2'.made = x2.made,
             McpServers!OffersTheLiveServer'
      PROVE  McpServers!IInv'
  <2>1. \A c \in McpServers!Clients :
          (r.client = c /\ r.work \notin {"admit", "done", "close"}) <=> McpServers!Working(j, c)
    BY <1>8 DEF McpServers!Working
  <2>. QED  BY <1>1, <1>3, <1>8, <2>1, ServersJobMoves
<1>9. ASSUME NEW pc \in {"join", "failed", "done"}, McpServers!Joined(j, pc)
      PROVE  \E r \in McpServers!JobStates :
               x5' = [x5 EXCEPT ![j] = r] /\ r.work = x5[j].work /\ r.client = x5[j].client
  <2> DEFINE r == [x5[j] EXCEPT !.join = pc]
  <2>1. r \in McpServers!JobStates /\ r.work = x5[j].work /\ r.client = x5[j].client
    BY <1>2 DEF McpServers!JobStates
  <2>2. x5' = [x5 EXCEPT ![j] = r]
    BY <1>2, <1>9 DEF McpServers!Joined
  <2>. QED  BY <2>1, <2>2
<1>10. CASE McpServers!TimesOut(j) \/ McpServers!SeesEnd(j)
  <2>1. x2' = x2 /\ x3' = x3 /\ \E pc \in {"join", "failed", "done"} : McpServers!Joined(j, pc)
    BY <1>10 DEF McpServers!TimesOut, McpServers!SeesEnd
  <2>. QED  BY <1>8, <1>9, <2>1, ServersRow
<1>11. CASE McpServers!RecordPending(j)
  <2>1. x3' = x3 /\ McpServers!Joined(j, "done")
        /\ x2' = IF x5[j].by = None /\ McpServers!Active(x5[j].client) /\ x2.offered = None
                   THEN [x2 EXCEPT !.pending = x5[j].client] ELSE x2
    BY <1>11 DEF McpServers!RecordPending
  <2>2. CASE x2' = x2
    BY <1>8, <1>9, <2>1, <2>2, ServersRow
  <2>3. CASE McpServers!Active(x5[j].client) /\ x2.offered = None /\ x2' = [x2 EXCEPT !.pending = x5[j].client]
    <3>1. x5[j].client \in {None} \cup McpServers!Clients
      BY <1>2 DEF McpServers!JobStates
    <3>2. /\ x2' \in McpServers!Rows
          /\ x2'.users = x2.users /\ x2'.client = x2.client /\ x2'.made = x2.made
          /\ x2'.offered = None /\ x2'.pending = x5[j].client
      BY <2>3, <3>1 DEF McpServers!IInv, McpServers!TypeOK, McpServers!Rows
    <3>3. McpServers!OffersTheLiveServer'
      BY <2>3, <3>2 DEF McpServers!IInv, McpServers!OffersTheLiveServer, McpServers!Active
    <3>. QED  BY <1>8, <1>9, <2>1, <3>2, <3>3
  <2>. QED  BY <2>1, <2>2, <2>3
<1>12. CASE McpServers!Forget(j)
  <2>1. /\ x2' = x2 /\ x3' = x3 /\ x5[j].work = "done"
        /\ x5' = [x5 EXCEPT ![j] = McpServers!NoJob]
    BY <1>12 DEF McpServers!Forget
  <2>2. McpServers!NoJob \in McpServers!JobStates /\ McpServers!NoJob.work = "done"
    BY DEF McpServers!NoJob, McpServers!JobStates, McpServers!Places
  <2>. QED  BY <1>8, <2>1, <2>2, ServersRow
<1>. QED  BY <1>6, <1>7, <1>10, <1>11, <1>12

(* An agent of the registry tries a pending server again. *)
LEMMA ServersRetry ==
  ASSUME McpServers!IInv, NEW a \in Actors, NEW j \in Things, McpServers!Retry(a, j)
  PROVE  McpServers!IInv'
<1> DEFINE r == [McpServers!NoJob EXCEPT !.client = x2.pending, !.by = a, !.work = "admit", !.join = "join"]
<1>1. /\ UNCHANGED <<x1, x2, x3, x4>> /\ x2.pending # None
      /\ x5[j] = McpServers!NoJob /\ x5' = [x5 EXCEPT ![j] = r]
  BY DEF McpServers!Retry
<1>2. x2.pending \in McpServers!Clients /\ x2.pending <= x2.made
  BY <1>1, ServersMade DEF McpServers!IInv, McpServers!TypeOK, McpServers!OffersTheLiveServer,
     McpServers!Active
<1>3. r \in McpServers!JobStates /\ r.work = "admit" /\ r.client = x2.pending
  BY <1>2 DEF McpServers!NoJob, McpServers!JobStates, McpServers!Places
<1>. HIDE DEF r
<1>4. x5[j].work = "done"
  BY <1>1 DEF McpServers!NoJob
<1>5. \A c \in McpServers!Clients :
        (r.client = c /\ r.work \notin {"admit", "done", "close"}) <=> McpServers!Working(j, c)
  BY <1>3, <1>4 DEF McpServers!Working
<1>. QED  BY <1>1, <1>2, <1>3, <1>4, <1>5, ServersRow, ServersJobMoves

(* A step that is about one client leaves the others as they are. *)
LEMMA ServersOneClient ==
  ASSUME McpServers!IInv, NEW c \in McpServers!Clients, NEW l \in McpServers!Lives,
         x1' = x1, x3' = [x3 EXCEPT ![c] = l],
         x2' \in McpServers!Rows,
         x4' \in [Actors -> McpServers!AgentStates], x5' \in [Things -> McpServers!JobStates],
         x2'.users = Cardinality(McpServers!Users'),
         l.workers = Cardinality(McpServers!Workers(c)'),
         l.registrations = IF McpServers!Active(c)' THEN 1 ELSE 0,
         l.closing => ~McpServers!Active(c)' /\ McpServers!Workers(c)' = {},
         l.open => McpServers!Active(c)' \/ McpServers!Workers(c)' # {} \/ McpServers!Closes(c)',
         c <= x2'.made, x2.made <= x2'.made,
         \A d \in McpServers!Clients : d # c =>
           /\ McpServers!Workers(d)' = McpServers!Workers(d)
           /\ McpServers!Active(d)' <=> McpServers!Active(d)
           /\ McpServers!Closes(d) => McpServers!Closes(d)',
         \A a \in Actors : x4'[a].pc = "closing" =>
           (x4[a].pc = "closing" /\ x4'[a].client = x4[a].client) \/ x4'[a].client = c,
         \A j \in Things : x5'[j].work # "done" =>
           (x5[j].work # "done" /\ x5'[j].client = x5[j].client) \/ x5'[j].client = c,
         McpServers!OffersTheLiveServer'
  PROVE  McpServers!IInv'
<1>1. /\ x3' \in [McpServers!Clients -> McpServers!Lives] /\ x3'[c] = l
      /\ \A d \in McpServers!Clients : d # c => x3'[d] = x3[d]
  BY DEF McpServers!IInv, McpServers!TypeOK
<1>2. McpServers!TypeOK'
  BY <1>1 DEF McpServers!IInv, McpServers!TypeOK
<1>3. McpServers!CountsAreRight'
  <2>1. ASSUME NEW d \in McpServers!Clients
        PROVE  /\ x3'[d].workers = McpServers!Cardinality(McpServers!Workers(d)')
               /\ x3'[d].registrations = IF McpServers!Active(d)' THEN 1 ELSE 0
    <3>1. CASE d = c
      BY <1>1, <3>1, ServersCount
    <3>2. CASE d # c
      <4>1. /\ x3[d].workers = McpServers!Cardinality(McpServers!Workers(d))
            /\ x3[d].registrations = IF McpServers!Active(d) THEN 1 ELSE 0
        BY DEF McpServers!IInv, McpServers!CountsAreRight
      <4>. QED  BY <1>1, <3>2, <4>1
    <3>. QED  BY <3>1, <3>2
  <2>2. x2'.users = McpServers!Cardinality(McpServers!Users')
    BY ServersCount
  <2>. QED  BY <2>1, <2>2 DEF McpServers!CountsAreRight
<1>4. ASSUME NEW d \in McpServers!Clients, d > x2'.made PROVE McpServers!NobodyKnows(d)'
  <2>1. d # c /\ d > x2.made
    BY <1>4, ServersAssumption DEF McpServers!IInv, McpServers!TypeOK, McpServers!Clients,
       McpServers!Rows
  <2>2. McpServers!NobodyKnows(d)
    BY <2>1 DEF McpServers!IInv, McpServers!ClientsAreOwned
  <2>. QED  BY <1>1, <2>1, <2>2 DEF McpServers!NobodyKnows
<1>5. ASSUME NEW d \in McpServers!Clients
      PROVE  /\ x3'[d].closing => ~McpServers!Active(d)' /\ McpServers!Workers(d)' = {}
             /\ x3'[d].open => McpServers!Active(d)' \/ McpServers!Workers(d)' # {} \/ McpServers!Closes(d)'
  <2>1. CASE d = c
    BY <1>1, <2>1
  <2>2. CASE d # c
    <3>1. /\ x3[d].closing => ~McpServers!Active(d) /\ McpServers!Workers(d) = {}
          /\ x3[d].open => McpServers!Active(d) \/ McpServers!Workers(d) # {} \/ McpServers!Closes(d)
      BY DEF McpServers!IInv, McpServers!ClientsAreOwned
    <3>. QED  BY <1>1, <2>2, <3>1
  <2>. QED  BY <2>1, <2>2
<1>6. /\ \A a \in Actors : x4'[a].pc = "closing" => x4'[a].client \in McpServers!Clients
      /\ \A j \in Things : x5'[j].work # "done" => x5'[j].client \in McpServers!Clients
  BY DEF McpServers!IInv, McpServers!ClientsAreOwned
<1>. QED  BY <1>2, <1>3, <1>4, <1>5, <1>6 DEF McpServers!IInv, McpServers!ClientsAreOwned

(* What a job's step does to its client: l, and r is what becomes of the job. *)
LEMMA ServersJobEnds ==
  ASSUME McpServers!IInv, NEW j \in Things, NEW r \in McpServers!JobStates,
         NEW c \in McpServers!Clients, NEW l \in McpServers!Lives,
         UNCHANGED <<x1, x2, x4>>, x5' = [x5 EXCEPT ![j] = r], x3' = [x3 EXCEPT ![c] = l],
         x5[j].work # "done", x5[j].client = c, r.client = c,
         l.workers = Cardinality(McpServers!Workers(c)'), l.registrations = x3[c].registrations,
         l.closing => ~McpServers!Active(c) /\ McpServers!Workers(c)' = {},
         l.open => McpServers!Active(c) \/ McpServers!Workers(c)' # {} \/ McpServers!Closes(c)'
  PROVE  McpServers!IInv'
<1>1. /\ x5'[j] = r /\ \A k \in Things : k # j => x5'[k] = x5[k]
      /\ x5' \in [Things -> McpServers!JobStates]
      /\ x4' \in [Actors -> McpServers!AgentStates]
  BY DEF McpServers!IInv, McpServers!TypeOK
<1>2. McpServers!Users' = McpServers!Users /\ x2'.users = Cardinality(McpServers!Users)
  BY ServersCount DEF McpServers!IInv, McpServers!CountsAreRight, McpServers!Users
<1>3. l.registrations = IF McpServers!Active(c) THEN 1 ELSE 0
  BY DEF McpServers!IInv, McpServers!CountsAreRight
<1>4. c <= x2'.made /\ x2.made <= x2'.made
  BY ServersMade DEF McpServers!IInv, McpServers!TypeOK, McpServers!Rows
<1>5. ASSUME NEW d \in McpServers!Clients
      PROVE  /\ McpServers!Active(d)' <=> McpServers!Active(d)
             /\ d # c => McpServers!Workers(d)' = McpServers!Workers(d)
             /\ d # c => (McpServers!Closes(d) => McpServers!Closes(d)')
  <2>1. McpServers!Active(d)' <=> McpServers!Active(d)
    BY DEF McpServers!Active
  <2>2. d # c => McpServers!Workers(d)' = McpServers!Workers(d)
    BY <1>1 DEF McpServers!Workers, McpServers!Working
  <2>3. d # c => (McpServers!Closes(d) => McpServers!Closes(d)')
    BY <1>1 DEF McpServers!Closes
  <2>. QED  BY <2>1, <2>2, <2>3
<1>. QED  BY <1>1, <1>2, <1>3, <1>4, <1>5, ServersRow, ServersOneClient

(* Whoever is admitted works on the registration in force. *)
LEMMA ServersAdmit ==
  ASSUME McpServers!IInv, NEW j \in Things, McpServers!Admit(j)
  PROVE  McpServers!IInv'
<1>1. UNCHANGED <<x1, x2, x4>> /\ x5[j].work = "admit"
  BY DEF McpServers!Admit, McpServers!AtWork
<1>. PICK c \in McpServers!Clients : c = x5[j].client /\ c <= x2.made
  BY <1>1, ServersMade
<1> DEFINE pc == IF McpServers!Active(c) THEN "connect" ELSE "done"
           r == [x5[j] EXCEPT !.work = pc]
<1>2. x5 \in [Things -> McpServers!JobStates] /\ x5[j] \in McpServers!JobStates
      /\ x3 \in [McpServers!Clients -> McpServers!Lives] /\ x3[c] \in McpServers!Lives
  BY DEF McpServers!IInv, McpServers!TypeOK
<1>3. r \in McpServers!JobStates /\ r.work = pc /\ r.client = c
  BY <1>2 DEF McpServers!JobStates, McpServers!Places
<1>4. x5' = [x5 EXCEPT ![j] = r]
  BY <1>2 DEF McpServers!Admit, McpServers!Works
<1>. HIDE DEF r
<1>5. \A d \in McpServers!Clients : ~McpServers!Working(j, d)
  BY <1>1 DEF McpServers!Working
<1>6. CASE ~McpServers!Active(c)
  <2>1. x3' = x3
    BY <1>6 DEF McpServers!Admit
  <2>2. r.work = "done" /\ x5[j].work # "close"
    BY <1>1, <1>3, <1>6
  <2>. QED  BY <1>1, <1>3, <1>4, <1>5, <2>1, <2>2, ServersRow, ServersJobMoves
<1>7. CASE McpServers!Active(c)
  <2> DEFINE l == [x3[c] EXCEPT !.workers = @ + 1]
  <2>1. x3' = [x3 EXCEPT ![c] = l]
    BY <1>2, <1>7 DEF McpServers!Admit
  <2>2. /\ l \in McpServers!Lives /\ l.workers = x3[c].workers + 1
        /\ l.registrations = x3[c].registrations /\ l.closing = x3[c].closing
    BY <1>2 DEF McpServers!Lives
  <2>. HIDE DEF l
  <2>3. Cardinality(McpServers!Workers(c)') = Cardinality(McpServers!Workers(c)) + 1
    BY <1>3, <1>4, <1>5, <1>7, ServersWorkers DEF McpServers!IInv
  <2>4. x3[c].workers = Cardinality(McpServers!Workers(c)) /\ ~x3[c].closing
    BY <1>7, ServersCount DEF McpServers!IInv, McpServers!CountsAreRight, McpServers!ClientsAreOwned
  <2>. QED  BY <1>1, <1>3, <1>4, <1>7, <2>1, <2>2, <2>3, <2>4, ServersJobEnds
<1>. QED  BY <1>6, <1>7

(* The last worker of a client nobody uses claims its close. *)
LEMMA ServersFinish ==
  ASSUME McpServers!IInv, NEW j \in Things, McpServers!Finish(j)
  PROVE  McpServers!IInv'
<1>1. UNCHANGED <<x1, x2, x4>> /\ x5[j].work = "finish"
  BY DEF McpServers!Finish, McpServers!AtWork
<1>. PICK c \in McpServers!Clients : c = x5[j].client
  BY <1>1, ServersMade
<1> DEFINE k == [x3[c] EXCEPT !.workers = @ - 1]
           l == [k EXCEPT !.closing = k.closing \/ McpServers!Claimable(k)]
           pc == IF McpServers!Claimable(k) THEN "close" ELSE "done"
           r == [x5[j] EXCEPT !.work = pc]
<1>2. x5 \in [Things -> McpServers!JobStates] /\ x5[j] \in McpServers!JobStates
      /\ x3 \in [McpServers!Clients -> McpServers!Lives] /\ x3[c] \in McpServers!Lives
  BY DEF McpServers!IInv, McpServers!TypeOK
<1>3. r \in McpServers!JobStates /\ r.work = pc /\ r.client = c
  BY <1>2 DEF McpServers!JobStates, McpServers!Places
<1>4. x5' = [x5 EXCEPT ![j] = r] /\ x3' = [x3 EXCEPT ![c] = l]
  BY <1>2 DEF McpServers!Finish, McpServers!Works, McpServers!LetGo
<1>5. McpServers!Working(j, c)
  BY <1>1 DEF McpServers!Working
<1>6. /\ x3[c].workers = Cardinality(McpServers!Workers(c))
      /\ x3[c].registrations = IF McpServers!Active(c) THEN 1 ELSE 0
      /\ ~x3[c].closing
  BY <1>5, ServersCount DEF McpServers!IInv, McpServers!CountsAreRight,
     McpServers!ClientsAreOwned, McpServers!Workers
<1>7. r.work \in {"close", "done"}
  BY <1>3
<1>. HIDE DEF r
<1>8. /\ McpServers!Workers(c)' = McpServers!Workers(c) \ {j}
      /\ Cardinality(McpServers!Workers(c)') = Cardinality(McpServers!Workers(c)) - 1
  BY <1>3, <1>4, <1>5, <1>7, ServersWorkers DEF McpServers!IInv
<1>9. Cardinality(McpServers!Workers(c)') \in Nat
      /\ (Cardinality(McpServers!Workers(c)') = 0 <=> McpServers!Workers(c)' = {})
  <2>1. IsFiniteSet(McpServers!Workers(c)')
    BY ServersAssumption, FS_Subset DEF McpServers!Workers
  <2>. QED  BY <2>1, FS_CardinalityType, FS_EmptySet
<1>10. /\ k \in McpServers!Lives /\ k.workers = x3[c].workers - 1
       /\ k.registrations = x3[c].registrations /\ k.closing = x3[c].closing
  <2>1. x3[c].workers - 1 \in Nat
    BY <1>6, <1>8, <1>9
  <2>. QED  BY <1>2, <2>1 DEF McpServers!Lives
<1>11. McpServers!Claimable(k) <=> ~McpServers!Active(c) /\ McpServers!Workers(c)' = {}
  BY <1>6, <1>8, <1>9, <1>10 DEF McpServers!Claimable
<1>. HIDE DEF k
<1>12. /\ l \in McpServers!Lives /\ l.workers = k.workers /\ l.registrations = k.registrations
       /\ l.closing <=> McpServers!Claimable(k)
  BY <1>6, <1>10 DEF McpServers!Lives, McpServers!Claimable
<1>. HIDE DEF l
<1>13. McpServers!Claimable(k) => McpServers!Closes(c)'
  <2>1. x5'[j] = r
    BY <1>2, <1>4
  <2>. QED  BY <1>3, <2>1 DEF McpServers!Closes
<1>14. l.open => McpServers!Active(c) \/ McpServers!Workers(c)' # {} \/ McpServers!Closes(c)'
  BY <1>11, <1>13
<1>15. l.workers = Cardinality(McpServers!Workers(c)') /\ l.registrations = x3[c].registrations
  BY <1>6, <1>8, <1>10, <1>12
<1>. QED  BY <1>1, <1>3, <1>4, <1>11, <1>12, <1>14, <1>15, ServersJobEnds

LEMMA ServersCloseByWorker ==
  ASSUME McpServers!IInv, NEW j \in Things, McpServers!CloseByWorker(j)
  PROVE  McpServers!IInv'
<1>1. UNCHANGED <<x1, x2, x4>> /\ x5[j].work = "close"
  BY DEF McpServers!CloseByWorker, McpServers!AtWork
<1>. PICK c \in McpServers!Clients : c = x5[j].client
  BY <1>1, ServersMade
<1> DEFINE l == [x3[c] EXCEPT !.open = FALSE]
           r == [x5[j] EXCEPT !.work = "done"]
<1>2. x5 \in [Things -> McpServers!JobStates] /\ x5[j] \in McpServers!JobStates
      /\ x3 \in [McpServers!Clients -> McpServers!Lives] /\ x3[c] \in McpServers!Lives
  BY DEF McpServers!IInv, McpServers!TypeOK
<1>3. r \in McpServers!JobStates /\ r.work = "done" /\ r.client = c
  BY <1>2 DEF McpServers!JobStates, McpServers!Places
<1>4. x5' = [x5 EXCEPT ![j] = r] /\ x3' = [x3 EXCEPT ![c] = l]
  BY <1>2 DEF McpServers!CloseByWorker, McpServers!Works, McpServers!Closed
<1>5. /\ l \in McpServers!Lives /\ l.workers = x3[c].workers /\ ~l.open
      /\ l.registrations = x3[c].registrations /\ l.closing = x3[c].closing
  BY <1>2 DEF McpServers!Lives
<1>. HIDE DEF l, r
<1>6. McpServers!Workers(c)' = McpServers!Workers(c)
  <2>1. ~McpServers!Working(j, c)
    BY <1>1 DEF McpServers!Working
  <2>. QED  BY <1>3, <1>4, <2>1, ServersWorkers DEF McpServers!IInv
<1>7. /\ x3[c].workers = Cardinality(McpServers!Workers(c))
      /\ x3[c].closing => ~McpServers!Active(c) /\ McpServers!Workers(c) = {}
  BY ServersCount DEF McpServers!IInv, McpServers!CountsAreRight, McpServers!ClientsAreOwned
<1>. QED  BY <1>1, <1>3, <1>4, <1>5, <1>6, <1>7, ServersJobEnds

(* An agent comes or goes: the registry has one user more, or less, or as     *)
(* many.                                                                    *)
LEMMA ServersUsers ==
  ASSUME McpServers!IInv, NEW a \in Actors, NEW r \in McpServers!AgentStates,
         x4' = [x4 EXCEPT ![a] = r]
  PROVE  /\ x4'[a] = r /\ \A b \in Actors : b # a => x4'[b] = x4[b]
         /\ x4' \in [Actors -> McpServers!AgentStates]
         /\ x2.users = Cardinality(McpServers!Users) /\ x2.users \in Nat
         /\ r.pc = "in" /\ x4[a].pc # "in" => Cardinality(McpServers!Users') = x2.users + 1
         /\ r.pc # "in" /\ x4[a].pc = "in" =>
              Cardinality(McpServers!Users') = x2.users - 1 /\ x2.users > 0
         /\ r.pc # "in" /\ x4[a].pc # "in" => Cardinality(McpServers!Users') = x2.users
<1>1. /\ x4'[a] = r /\ \A b \in Actors : b # a => x4'[b] = x4[b]
      /\ x4' \in [Actors -> McpServers!AgentStates]
  BY DEF McpServers!IInv, McpServers!TypeOK
<1>2. x2.users = Cardinality(McpServers!Users)
  BY ServersCount DEF McpServers!IInv, McpServers!CountsAreRight
<1>3. IsFiniteSet(McpServers!Users)
  BY ServersAssumption, FS_Subset DEF McpServers!Users
<1>4. x2.users \in Nat
  BY <1>2, <1>3, FS_CardinalityType
<1>5. ASSUME r.pc = "in", x4[a].pc # "in" PROVE Cardinality(McpServers!Users') = x2.users + 1
  <2>1. McpServers!Users' = McpServers!Users \cup {a} /\ a \notin McpServers!Users
    BY <1>1, <1>5 DEF McpServers!Users
  <2>. QED  BY <1>2, <1>3, <2>1, FS_AddElement
<1>6. ASSUME r.pc # "in", x4[a].pc = "in"
      PROVE  Cardinality(McpServers!Users') = x2.users - 1 /\ x2.users > 0
  <2>1. McpServers!Users' = McpServers!Users \ {a} /\ a \in McpServers!Users
    BY <1>1, <1>6 DEF McpServers!Users
  <2>2. Cardinality(McpServers!Users') = x2.users - 1
    BY <1>2, <1>3, <2>1, FS_RemoveElement
  <2>3. x2.users # 0
    BY <1>2, <1>3, <2>1, FS_EmptySet
  <2>. QED  BY <1>4, <2>2, <2>3
<1>7. ASSUME r.pc # "in", x4[a].pc # "in" PROVE Cardinality(McpServers!Users') = x2.users
  <2>1. McpServers!Users' = McpServers!Users
    BY <1>1, <1>7 DEF McpServers!Users
  <2>. QED  BY <1>2, <2>1
<1>. QED  BY <1>1, <1>2, <1>4, <1>5, <1>6, <1>7

(* An agent that finds the registry connected, or leaves it to others. *)
LEMMA ServersOnlyCounts ==
  ASSUME McpServers!IInv, UNCHANGED <<x1, x3, x5>>,
         NEW a \in Actors, NEW r \in McpServers!AgentStates, x4' = [x4 EXCEPT ![a] = r],
         NEW n \in Nat, x2' = [x2 EXCEPT !.users = n],
         n = Cardinality(McpServers!Users'), n = 0 <=> x2.users = 0,
         x4[a].pc # "closing", r.pc # "closing"
  PROVE  McpServers!IInv'
<1>1. /\ x4'[a] = r /\ \A b \in Actors : b # a => x4'[b] = x4[b]
      /\ x4' \in [Actors -> McpServers!AgentStates]
  BY ServersUsers
<1>2. /\ x2' \in McpServers!Rows
      /\ x2'.users = n /\ x2'.client = x2.client /\ x2'.pending = x2.pending
      /\ x2'.offered = x2.offered /\ x2'.made = x2.made
  BY DEF McpServers!IInv, McpServers!TypeOK, McpServers!Rows
<1>3. McpServers!TypeOK'
  BY <1>1, <1>2 DEF McpServers!IInv, McpServers!TypeOK
<1>4. ASSUME NEW c \in McpServers!Clients
      PROVE  /\ McpServers!Active(c)' <=> McpServers!Active(c)
             /\ McpServers!Workers(c)' = McpServers!Workers(c)
             /\ McpServers!Closes(c) => McpServers!Closes(c)'
             /\ McpServers!NobodyKnows(c) => McpServers!NobodyKnows(c)'
  <2>1. McpServers!Active(c)' <=> McpServers!Active(c)
    BY <1>2 DEF McpServers!Active
  <2>2. McpServers!Workers(c)' = McpServers!Workers(c)
    BY DEF McpServers!Workers, McpServers!Working
  <2>3. McpServers!Closes(c) => McpServers!Closes(c)'
    BY <1>1 DEF McpServers!Closes
  <2>4. McpServers!NobodyKnows(c) => McpServers!NobodyKnows(c)'
    BY <1>1, <2>1 DEF McpServers!NobodyKnows
  <2>. QED  BY <2>1, <2>2, <2>3, <2>4
<1>5. McpServers!CountsAreRight'
  <2>1. x2'.users = McpServers!Cardinality(McpServers!Users')
    BY <1>2, ServersCount
  <2>. QED  BY <1>4, <2>1 DEF McpServers!IInv, McpServers!CountsAreRight
<1>6. McpServers!ClientsAreOwned'
  BY <1>1, <1>2, <1>4 DEF McpServers!IInv, McpServers!ClientsAreOwned
<1>7. McpServers!OffersTheLiveServer'
  BY <1>2 DEF McpServers!IInv, McpServers!OffersTheLiveServer, McpServers!Active
<1>. QED  BY <1>3, <1>5, <1>6, <1>7 DEF McpServers!IInv

LEMMA ServersJoin ==
  ASSUME McpServers!IInv, NEW a \in Actors, McpServers!Join(a)
  PROVE  McpServers!IInv'
<1> DEFINE r == [x4[a] EXCEPT !.pc = "in"]
<1>1. /\ UNCHANGED <<x1, x3, x5>> /\ x4[a].pc = "out" /\ x2.client # None
      /\ x2' = [x2 EXCEPT !.users = x2.users + 1]
  BY DEF McpServers!Join
<1>2. x4 \in [Actors -> McpServers!AgentStates] /\ x4[a] \in McpServers!AgentStates
  BY DEF McpServers!IInv, McpServers!TypeOK
<1>3. r \in McpServers!AgentStates /\ r.pc = "in"
  BY <1>2 DEF McpServers!AgentStates
<1>4. x4' = [x4 EXCEPT ![a] = r]
  BY <1>2 DEF McpServers!Join
<1>. HIDE DEF r
<1>5. Cardinality(McpServers!Users') = x2.users + 1 /\ x2.users \in Nat
  BY <1>1, <1>3, <1>4, ServersUsers
<1>6. x2.users # 0
  BY <1>1 DEF McpServers!IInv, McpServers!OffersTheLiveServer
<1>7. x2.users + 1 \in Nat /\ (x2.users + 1 = 0 <=> x2.users = 0) /\ x4[a].pc # "closing" /\ r.pc # "closing"
  BY <1>1, <1>3, <1>5, <1>6
<1>. QED  BY <1>1, <1>3, <1>4, <1>5, <1>7, ServersOnlyCounts

(* The first agent makes a client. *)
LEMMA ServersRegister ==
  ASSUME McpServers!IInv, NEW a \in Actors, NEW r \in McpServers!AgentStates,
         x1' = x1, x4' = [x4 EXCEPT ![a] = r], x4[a].pc = "out", McpServers!Fresh(a),
         NEW l \in McpServers!Lives, x3' = [x3 EXCEPT ![x2.made + 1] = l],
         NEW offered \in {None, x2.made + 1},
         \/ /\ x2' = [x2 EXCEPT !.users = @ + 1, !.client = x2.made + 1, !.offered = offered,
                                !.made = x2.made + 1]
            /\ r.pc = "in" /\ l.registrations = 1 /\ ~l.closing
         \/ /\ x2' = [x2 EXCEPT !.made = x2.made + 1]
            /\ r.pc = "closing" /\ r.client = x2.made + 1 /\ l.registrations = 0,
         l.workers = 0,
         \/ x5' = x5
         \/ \E j \in Things, q \in McpServers!JobStates :
              /\ x5' = [x5 EXCEPT ![j] = q] /\ x5[j].work = "done"
              /\ q.work = "admit" /\ q.client = x2.made + 1
  PROVE  McpServers!IInv'
<1>1. x2.made \in Nat /\ x2.made < MaxClients /\ x2.client = None /\ MaxClients \in Nat
  BY ServersAssumption DEF McpServers!IInv, McpServers!TypeOK, McpServers!Fresh, McpServers!Rows
<1>2. x2.users = 0 /\ x2.pending = None /\ x2.offered = None
  BY <1>1 DEF McpServers!IInv, McpServers!OffersTheLiveServer, McpServers!Active
<1>. PICK c \in McpServers!Clients : c = x2.made + 1
  BY <1>1 DEF McpServers!Clients
<1>3. c \in Nat /\ c # None
  BY <1>1, ServersAssumption
<1>4. McpServers!NobodyKnows(c)
  BY <1>1 DEF McpServers!IInv, McpServers!ClientsAreOwned
<1>5. /\ x4'[a] = r /\ \A b \in Actors : b # a => x4'[b] = x4[b]
      /\ x4' \in [Actors -> McpServers!AgentStates]
      /\ r.pc = "in" => Cardinality(McpServers!Users') = 1
      /\ r.pc = "closing" => Cardinality(McpServers!Users') = 0
  <2>1. x4[a].pc # "in" /\ (r.pc = "closing" => r.pc # "in")
    OBVIOUS
  <2>2. r.pc = "in" => Cardinality(McpServers!Users') = x2.users + 1
    BY <2>1, ServersUsers
  <2>3. r.pc = "closing" => Cardinality(McpServers!Users') = x2.users
    BY <2>1, ServersUsers
  <2>4. /\ x4'[a] = r /\ \A b \in Actors : b # a => x4'[b] = x4[b]
        /\ x4' \in [Actors -> McpServers!AgentStates]
    BY ServersUsers
  <2>. QED  BY <1>2, <2>2, <2>3, <2>4
<1>6. /\ x5' \in [Things -> McpServers!JobStates]
      /\ \A j \in Things : x5'[j] = x5[j]
           \/ (x5[j].work = "done" /\ x5'[j].work = "admit" /\ x5'[j].client = c)
  BY DEF McpServers!IInv, McpServers!TypeOK
<1>7. \A d \in McpServers!Clients : McpServers!Workers(d)' = McpServers!Workers(d)
  <2>1. \A j \in Things, d \in McpServers!Clients :
          McpServers!Working(j, d)' <=> McpServers!Working(j, d)
    BY <1>6 DEF McpServers!Working
  <2>. QED  BY <2>1 DEF McpServers!Workers
<1>8. McpServers!Workers(c) = {} /\ Cardinality(McpServers!Workers(c)') = 0
  <2>1. McpServers!Workers(c) = {}
    BY <1>4 DEF McpServers!NobodyKnows, McpServers!Workers, McpServers!Working
  <2>. QED  BY <1>7, <2>1, FS_EmptySet
<1>9. /\ x2' \in McpServers!Rows
      /\ x2'.made = c /\ x2'.pending = None
      /\ \/ r.pc = "in" /\ x2'.users = 1 /\ x2'.client = c /\ x2'.offered \in {None, c}
         \/ r.pc = "closing" /\ x2'.users = 0 /\ x2'.client = None /\ x2'.offered = None
  <2>1. x2 \in McpServers!Rows
    BY DEF McpServers!IInv, McpServers!TypeOK
  <2>2. c \in 0..MaxClients /\ x2.users + 1 = 1
    BY <1>1, <1>2
  <2>3. CASE r.pc = "in"
    <3>1. x2' = [x2 EXCEPT !.users = @ + 1, !.client = c, !.offered = offered, !.made = c]
      BY <2>3
    <3>2. /\ offered \in {None} \cup McpServers!Clients /\ offered \in {None, c}
          /\ c \in {None} \cup McpServers!Clients /\ x2.users + 1 \in Nat
          /\ None \in {None} \cup McpServers!Clients
      BY <2>2
    <3>3. /\ x2' \in McpServers!Rows /\ x2'.users = x2.users + 1 /\ x2'.client = c
          /\ x2'.pending = x2.pending /\ x2'.offered = offered /\ x2'.made = c
      <4>1. offered \in {None, c}
        BY <3>2
      <4>. QED  BY <2>1, <3>1, <4>1, ServersRowBegins
    <3>. QED  BY <1>2, <2>2, <2>3, <3>2, <3>3
  <2>4. CASE r.pc = "closing"
    <3>1. x2' = [x2 EXCEPT !.made = c]
      BY <2>4
    <3>2. x2' \in McpServers!Rows
      BY <2>1, <2>2, <3>1 DEF McpServers!Rows
    <3>3. /\ x2'.made = c /\ x2'.pending = x2.pending /\ x2'.users = x2.users
          /\ x2'.client = x2.client /\ x2'.offered = x2.offered
      BY <2>1, <3>1 DEF McpServers!Rows
    <3>. QED  BY <1>1, <1>2, <2>4, <3>2, <3>3
  <2>. QED  BY <2>3, <2>4
<1>10. McpServers!OffersTheLiveServer'
  BY <1>3, <1>9 DEF McpServers!OffersTheLiveServer, McpServers!Active
<1>11. \A d \in McpServers!Clients : d # c =>
         /\ McpServers!Active(d)' <=> McpServers!Active(d)
         /\ McpServers!Closes(d) => McpServers!Closes(d)'
  <2>1. \A d \in McpServers!Clients : d # c => (McpServers!Active(d)' <=> McpServers!Active(d))
    BY <1>1, <1>9, ServersAssumption DEF McpServers!Active, McpServers!Clients
  <2>2. \A d \in McpServers!Clients : McpServers!Closes(d) => McpServers!Closes(d)'
    BY <1>5, <1>6 DEF McpServers!Closes
  <2>. QED  BY <2>1, <2>2
<1>12. /\ l.registrations = IF McpServers!Active(c)' THEN 1 ELSE 0
       /\ l.closing => ~McpServers!Active(c)' /\ McpServers!Workers(c)' = {}
       /\ l.open => McpServers!Active(c)' \/ McpServers!Workers(c)' # {} \/ McpServers!Closes(c)'
  <2>1. CASE r.pc = "in"
    <3>1. l.registrations = 1 /\ ~l.closing /\ x2'.client = c
      BY <1>9, <2>1
    <3>. QED  BY <3>1 DEF McpServers!Active
  <2>2. CASE r.pc = "closing"
    <3>1. l.registrations = 0 /\ x2'.client = None /\ r.client = c
      BY <1>9, <2>2
    <3>2. McpServers!Closes(c)'
      BY <1>5, <2>2, <3>1 DEF McpServers!Closes
    <3>. QED  BY <1>3, <1>7, <1>8, <3>1, <3>2 DEF McpServers!Active
  <2>. QED  BY <2>1, <2>2
<1>13. /\ c <= x2'.made /\ x2.made <= x2'.made
       /\ x2'.users = Cardinality(McpServers!Users')
  BY <1>1, <1>3, <1>5, <1>9
<1>14. /\ \A b \in Actors : x4'[b].pc = "closing" =>
            (x4[b].pc = "closing" /\ x4'[b].client = x4[b].client) \/ x4'[b].client = c
       /\ \A j \in Things : x5'[j].work # "done" =>
            (x5[j].work # "done" /\ x5'[j].client = x5[j].client) \/ x5'[j].client = c
  BY <1>5, <1>6
<1>15. /\ x2' \in McpServers!Rows
       /\ x4' \in [Actors -> McpServers!AgentStates] /\ x5' \in [Things -> McpServers!JobStates]
       /\ x3' = [x3 EXCEPT ![c] = l] /\ x1' = x1 /\ l.workers = Cardinality(McpServers!Workers(c)')
  BY <1>5, <1>6, <1>8, <1>9
<1>16. \A d \in McpServers!Clients : d # c =>
         /\ McpServers!Workers(d)' = McpServers!Workers(d)
         /\ McpServers!Active(d)' <=> McpServers!Active(d)
         /\ McpServers!Closes(d) => McpServers!Closes(d)'
  BY <1>7, <1>11
<1>17. /\ l.workers = Cardinality(McpServers!Workers(c)')
       /\ x3' = [x3 EXCEPT ![c] = l] /\ x1' = x1
  BY <1>15
<1>. QED
  BY ONLY McpServers!IInv, c \in McpServers!Clients, l \in McpServers!Lives,
          <1>10, <1>12, <1>13, <1>14, <1>15, <1>16, <1>17, ServersOneClient

LEMMA ServersRegisterNext ==
  ASSUME McpServers!IInv, NEW a \in Actors,
         \/ \E j \in Things : McpServers!RegisterInBackground(a, j)
         \/ McpServers!RegisterAtStartup(a)
  PROVE  McpServers!IInv'
<1> DEFINE c == x2.made + 1
<1>1. McpServers!Fresh(a) /\ x4[a].pc = "out" /\ x1' = x1
  BY DEF McpServers!RegisterInBackground, McpServers!RegisterAtStartup, McpServers!Fresh
<1>2. c \in McpServers!Clients /\ c > x2.made
  BY <1>1, ServersAssumption DEF McpServers!IInv, McpServers!TypeOK, McpServers!Fresh,
     McpServers!Clients, McpServers!Rows
<1>3. /\ x4 \in [Actors -> McpServers!AgentStates] /\ x4[a] \in McpServers!AgentStates
      /\ x3 \in [McpServers!Clients -> McpServers!Lives] /\ x3[c] \in McpServers!Lives
      /\ x5 \in [Things -> McpServers!JobStates]
  BY <1>2 DEF McpServers!IInv, McpServers!TypeOK
<1>4. McpServers!NobodyKnows(c)
  BY <1>2 DEF McpServers!IInv, McpServers!ClientsAreOwned
<1>5. x3[c].registrations = 0 /\ ~x3[c].closing /\ ~x3[c].open
  BY <1>2, <1>4 DEF McpServers!IInv, McpServers!CountsAreRight, McpServers!NobodyKnows
<1>6. x3[c].workers = 0
  <2>1. McpServers!Workers(c) = {}
    BY <1>2, <1>4 DEF McpServers!NobodyKnows, McpServers!Workers, McpServers!Working
  <2>. QED  BY <1>2, <2>1, ServersCount, FS_EmptySet DEF McpServers!IInv, McpServers!CountsAreRight
<1>. HIDE DEF c
<1>7. ASSUME x4' = [x4 EXCEPT ![a].pc = "in"],
             NEW open \in BOOLEAN, x3' = [x3 EXCEPT ![c].registrations = 1, ![c].open = open],
             NEW offered \in {None, c},
             x2' = [x2 EXCEPT !.users = @ + 1, !.client = c, !.offered = offered, !.made = c],
             \/ x5' = x5
             \/ \E j \in Things, q \in McpServers!JobStates :
                  /\ x5' = [x5 EXCEPT ![j] = q] /\ x5[j].work = "done"
                  /\ q.work = "admit" /\ q.client = c
      PROVE  McpServers!IInv'
  <2> DEFINE r == [x4[a] EXCEPT !.pc = "in"]
             l == [x3[c] EXCEPT !.registrations = 1, !.open = open]
  <2>1. r \in McpServers!AgentStates /\ r.pc = "in"
    BY <1>3 DEF McpServers!AgentStates
  <2>2. l \in McpServers!Lives /\ l.registrations = 1 /\ ~l.closing /\ l.workers = 0
    BY <1>3, <1>5, <1>6, <1>7 DEF McpServers!Lives
  <2>3. x4' = [x4 EXCEPT ![a] = r] /\ x3' = [x3 EXCEPT ![c] = l]
    BY <1>2, <1>3, <1>7
  <2>. HIDE DEF r, l
  <2>. QED  BY <1>1, <1>7, <2>1, <2>2, <2>3, ServersRegister DEF c
<1>8. ASSUME NEW j \in Things, McpServers!RegisterInBackground(a, j) PROVE McpServers!IInv'
  <2> DEFINE q == [McpServers!NoJob EXCEPT !.client = c, !.work = "admit", !.join = "join"]
  <2>1. /\ x2' = [x2 EXCEPT !.users = @ + 1, !.client = c, !.made = c]
        /\ x3' = [x3 EXCEPT ![c].registrations = 1]
        /\ x5' = [x5 EXCEPT ![j] = q] /\ x5[j] = McpServers!NoJob
        /\ x4' = [x4 EXCEPT ![a].pc = "in"]
    BY <1>8 DEF McpServers!RegisterInBackground, c
  <2>2. q \in McpServers!JobStates /\ q.work = "admit" /\ q.client = c /\ x5[j].work = "done"
    <3>1. x5[j].work = "done"
      BY <2>1 DEF McpServers!NoJob
    <3>2. /\ c \in {None} \cup McpServers!Clients /\ McpServers!NoJob \in McpServers!JobStates
          /\ "admit" \in McpServers!Places
      BY <1>2 DEF McpServers!Places, McpServers!NoJob, McpServers!JobStates
    <3> DEFINE q1 == [McpServers!NoJob EXCEPT !.client = c]
               q2 == [q1 EXCEPT !.work = "admit"]
               q3 == [q2 EXCEPT !.join = "join"]
    <3>3. q1 \in McpServers!JobStates /\ q1.client = c
      BY <3>2 DEF McpServers!JobStates
    <3>. HIDE DEF q1
    <3>4. q2 \in McpServers!JobStates /\ q2.client = c /\ q2.work = "admit"
      BY <3>2, <3>3 DEF McpServers!JobStates
    <3>. HIDE DEF q2
    <3>5. q3 \in McpServers!JobStates /\ q3.client = c /\ q3.work = "admit"
      BY <3>4 DEF McpServers!JobStates
    <3>. HIDE DEF q3
    <3>6. q = q3
      BY DEF q1, q2, q3
    <3>. QED  BY <3>1, <3>5, <3>6
  <2>3. x2.offered = None
    BY <1>1 DEF McpServers!Fresh, McpServers!IInv, McpServers!OffersTheLiveServer, McpServers!Active
  <2>4. x2' = [x2 EXCEPT !.users = @ + 1, !.client = c, !.offered = None, !.made = c]
    BY <2>1, <2>3 DEF McpServers!IInv, McpServers!TypeOK
  <2>5. x3' = [x3 EXCEPT ![c].registrations = 1, ![c].open = FALSE]
    BY <1>3, <1>5, <2>1 DEF McpServers!Lives
  <2>. HIDE DEF q
  <2>. QED  BY <1>7, <2>1, <2>2, <2>4, <2>5
<1>9. CASE McpServers!RegisterAtStartup(a)
  <2>1. CASE /\ x2' = [x2 EXCEPT !.users = @ + 1, !.client = c, !.offered = c, !.made = c]
             /\ x3' = [x3 EXCEPT ![c].registrations = 1, ![c].open = TRUE]
             /\ x4' = [x4 EXCEPT ![a].pc = "in"] /\ x5' = x5
    BY <1>7, <2>1
  <2>2. ASSUME x2' = [x2 EXCEPT !.made = c], x5' = x5,
               NEW opened \in BOOLEAN, McpServers!LetGo(c, [x3[c] EXCEPT !.open = opened]),
               x4' = [x4 EXCEPT ![a] = [pc |-> "closing", client |-> c]]
        PROVE  McpServers!IInv'
    <3> DEFINE r == [pc |-> "closing", client |-> c]
               k == [x3[c] EXCEPT !.open = opened]
               l == [k EXCEPT !.closing = k.closing \/ McpServers!Claimable(k)]
    <3>1. r \in McpServers!AgentStates /\ r.pc = "closing" /\ r.client = c
      BY <1>2 DEF McpServers!AgentStates
    <3>2. k \in McpServers!Lives /\ k.registrations = 0 /\ k.workers = 0
      BY <1>3, <1>5, <1>6 DEF McpServers!Lives
    <3>3. x3' = [x3 EXCEPT ![c] = l] /\ x4' = [x4 EXCEPT ![a] = r]
      BY <2>2 DEF McpServers!LetGo
    <3>. HIDE DEF r, k
    <3>4. l \in McpServers!Lives /\ l.registrations = 0 /\ l.workers = 0
      BY <3>2 DEF McpServers!Lives, McpServers!Claimable
    <3>. HIDE DEF l
    <3>. QED  BY <1>1, <2>2, <3>1, <3>3, <3>4, ServersRegister DEF c
  <2>. QED  BY <1>9, <2>1, <2>2 DEF McpServers!RegisterAtStartup, c
<1>. QED  BY <1>8, <1>9

(* The last agent takes the registration back. *)
LEMMA ServersRelease ==
  ASSUME McpServers!IInv, NEW a \in Actors, McpServers!Release(a)
  PROVE  McpServers!IInv'
<1>1. x4[a].pc = "in" /\ UNCHANGED <<x1, x5>>
  BY DEF McpServers!Release
<1>2. /\ x4 \in [Actors -> McpServers!AgentStates] /\ x4[a] \in McpServers!AgentStates
      /\ x3 \in [McpServers!Clients -> McpServers!Lives]
  BY DEF McpServers!IInv, McpServers!TypeOK
<1>3. CASE x2.users > 1
  <2> DEFINE r == [x4[a] EXCEPT !.pc = "out"]
  <2>1. r \in McpServers!AgentStates /\ r.pc = "out"
    BY <1>2 DEF McpServers!AgentStates
  <2>2. x4' = [x4 EXCEPT ![a] = r] /\ x3' = x3 /\ x2' = [x2 EXCEPT !.users = x2.users - 1]
    BY <1>2, <1>3 DEF McpServers!Release
  <2>. HIDE DEF r
  <2>3. Cardinality(McpServers!Users') = x2.users - 1 /\ x2.users \in Nat
    BY <1>1, <2>1, <2>2, ServersUsers
  <2>4. x2.users - 1 \in Nat /\ (x2.users - 1 = 0 <=> x2.users = 0)
    BY <1>3, <2>3
  <2>. QED  BY <1>1, <2>1, <2>2, <2>3, <2>4, ServersOnlyCounts
<1>4. CASE ~(x2.users > 1)
  <2>1. x2.users = Cardinality(McpServers!Users) /\ x2.users = 1
    <3>1. \A r \in McpServers!AgentStates : r.pc # "in" => x2.users \in Nat
      BY DEF McpServers!IInv, McpServers!TypeOK, McpServers!Rows
    <3>2. x2.users = Cardinality(McpServers!Users) /\ IsFiniteSet(McpServers!Users) /\ a \in McpServers!Users
      BY <1>1, ServersCount, ServersAssumption, FS_Subset
         DEF McpServers!Users, McpServers!IInv, McpServers!CountsAreRight
    <3>3. x2.users \in Nat /\ x2.users # 0
      BY <3>2, FS_CardinalityType, FS_EmptySet
    <3>. QED  BY <1>4, <3>2, <3>3
  <2>2. x2.client # None
    BY <2>1 DEF McpServers!IInv, McpServers!OffersTheLiveServer
  <2>. PICK c \in McpServers!Clients : c = x2.client /\ c <= x2.made
    BY <2>2, ServersMade
  <2> DEFINE k == [x3[c] EXCEPT !.registrations = @ - 1]
             l == [k EXCEPT !.closing = k.closing \/ McpServers!Claimable(k)]
             r == IF McpServers!Claimable(k) THEN [pc |-> "closing", client |-> c]
                                             ELSE [pc |-> "out", client |-> None]
  <2>3. /\ x2' = [x2 EXCEPT !.users = 0, !.client = None, !.pending = None, !.offered = None]
        /\ x3' = [x3 EXCEPT ![c] = l] /\ x4' = [x4 EXCEPT ![a] = r]
    BY <1>4 DEF McpServers!Release, McpServers!LetGo
  <2>4. /\ x3[c] \in McpServers!Lives /\ x3[c].registrations = 1 /\ ~x3[c].closing
        /\ x3[c].workers = Cardinality(McpServers!Workers(c))
    BY <1>2, ServersCount
       DEF McpServers!Active, McpServers!IInv, McpServers!CountsAreRight, McpServers!ClientsAreOwned
  <2>5. /\ k \in McpServers!Lives /\ k.registrations = 0 /\ ~k.closing
        /\ k.workers = x3[c].workers /\ k.open = x3[c].open
    BY <2>4 DEF McpServers!Lives
  <2>6. McpServers!Claimable(k) <=> McpServers!Workers(c) = {}
    <3>1. IsFiniteSet(McpServers!Workers(c))
      BY ServersAssumption, FS_Subset DEF McpServers!Workers
    <3>. QED  BY <2>4, <2>5, <3>1, FS_EmptySet DEF McpServers!Claimable
  <2>. HIDE DEF k
  <2>7. /\ l \in McpServers!Lives /\ l.registrations = 0 /\ l.workers = x3[c].workers
        /\ l.closing <=> McpServers!Claimable(k)
    BY <2>5 DEF McpServers!Lives, McpServers!Claimable
  <2>8. /\ r \in McpServers!AgentStates /\ r.pc # "in"
        /\ r.pc = "closing" => r.client = c
        /\ McpServers!Claimable(k) => r.pc = "closing" /\ r.client = c
    BY DEF McpServers!AgentStates
  <2>. HIDE DEF l, r
  <2>9. /\ x4'[a] = r /\ \A b \in Actors : b # a => x4'[b] = x4[b]
        /\ x4' \in [Actors -> McpServers!AgentStates]
        /\ Cardinality(McpServers!Users') = 0
    <3>1. /\ x4'[a] = r /\ \A b \in Actors : b # a => x4'[b] = x4[b]
          /\ x4' \in [Actors -> McpServers!AgentStates]
          /\ Cardinality(McpServers!Users') = x2.users - 1
      BY <1>1, <2>3, <2>8, ServersUsers
    <3>. QED  BY <2>1, <3>1
  <2>10. /\ x2' \in McpServers!Rows
         /\ x2'.users = 0 /\ x2'.client = None /\ x2'.pending = None /\ x2'.offered = None
         /\ x2'.made = x2.made /\ x2.made \in Nat
    <3>1. /\ x2 \in McpServers!Rows
          /\ 0 \in Nat /\ None \in {None} \cup McpServers!Clients
      BY DEF McpServers!IInv, McpServers!TypeOK
    <3>2. x2.made \in 0..MaxClients /\ x2.made \in Nat
      BY <3>1, ServersAssumption DEF McpServers!Rows
    <3>3. /\ x2' \in McpServers!Rows /\ x2'.users = 0 /\ x2'.client = None /\ x2'.pending = None
          /\ x2'.offered = None /\ x2'.made = x2.made
      BY <2>3, <3>1, ServersRowEnds
    <3>. QED  BY <3>1, <3>2, <3>3
  <2>11. McpServers!OffersTheLiveServer'
    BY <2>10 DEF McpServers!OffersTheLiveServer
  <2>12. \A d \in McpServers!Clients :
           /\ McpServers!Workers(d)' = McpServers!Workers(d) /\ ~McpServers!Active(d)'
           /\ d # c => ~McpServers!Active(d)
           /\ McpServers!Closes(d) => McpServers!Closes(d)'
    <3>1. \A d \in McpServers!Clients : McpServers!Workers(d)' = McpServers!Workers(d)
      BY <1>1 DEF McpServers!Workers, McpServers!Working
    <3>2. \A d \in McpServers!Clients : ~McpServers!Active(d)' /\ (d # c => ~McpServers!Active(d))
      BY <2>10, ServersAssumption DEF McpServers!Active, McpServers!Clients
    <3>3. \A d \in McpServers!Clients : McpServers!Closes(d) => McpServers!Closes(d)'
      BY <1>1, <2>9 DEF McpServers!Closes
    <3>. QED  BY <3>1, <3>2, <3>3
  <2>13. /\ l.closing => McpServers!Workers(c)' = {}
         /\ l.open => McpServers!Workers(c)' # {} \/ McpServers!Closes(c)'
    <3>1. McpServers!Claimable(k) => McpServers!Closes(c)'
      BY <2>8, <2>9 DEF McpServers!Closes
    <3>. QED  BY <2>6, <2>7, <2>12, <3>1
  <2>14. /\ \A b \in Actors : x4'[b].pc = "closing" =>
              (x4[b].pc = "closing" /\ x4'[b].client = x4[b].client) \/ x4'[b].client = c
         /\ \A j \in Things : x5'[j].work # "done" =>
              (x5[j].work # "done" /\ x5'[j].client = x5[j].client) \/ x5'[j].client = c
         /\ x5' \in [Things -> McpServers!JobStates]
    BY <1>1, <2>8, <2>9 DEF McpServers!IInv, McpServers!TypeOK
  <2>15. /\ l.workers = Cardinality(McpServers!Workers(c)')
         /\ l.registrations = IF McpServers!Active(c)' THEN 1 ELSE 0
         /\ x2'.users = Cardinality(McpServers!Users')
         /\ c <= x2'.made /\ x2.made <= x2'.made
    BY <2>4, <2>7, <2>9, <2>10, <2>12
  <2>16. /\ l.closing => ~McpServers!Active(c)' /\ McpServers!Workers(c)' = {}
         /\ l.open => McpServers!Active(c)' \/ McpServers!Workers(c)' # {} \/ McpServers!Closes(c)'
    BY <2>12, <2>13
  <2>17. \A d \in McpServers!Clients : d # c =>
           /\ McpServers!Workers(d)' = McpServers!Workers(d)
           /\ McpServers!Active(d)' <=> McpServers!Active(d)
           /\ McpServers!Closes(d) => McpServers!Closes(d)'
    BY <2>12
  <2>18. /\ l \in McpServers!Lives /\ x4' \in [Actors -> McpServers!AgentStates]
         /\ x3' = [x3 EXCEPT ![c] = l] /\ x1' = x1
    BY <1>1, <2>3, <2>7, <2>9
  <2>19. x2' \in McpServers!Rows
    BY <2>10
  <2>. QED
    BY <2>11, <2>14, <2>15, <2>16, <2>17, <2>18, <2>19, ServersOneClient
<1>. QED  BY <1>3, <1>4

LEMMA ServersCloseByAgent ==
  ASSUME McpServers!IInv, NEW a \in Actors, McpServers!CloseByAgent(a)
  PROVE  McpServers!IInv'
<1>1. UNCHANGED <<x1, x2, x5>> /\ x4[a].pc = "closing"
  BY DEF McpServers!CloseByAgent
<1>. PICK c \in McpServers!Clients : c = x4[a].client /\ c <= x2.made
  BY <1>1, ServersMade
<1> DEFINE l == [x3[c] EXCEPT !.open = FALSE]
           r == [pc |-> "out", client |-> None]
<1>2. x3 \in [McpServers!Clients -> McpServers!Lives] /\ x3[c] \in McpServers!Lives
  BY DEF McpServers!IInv, McpServers!TypeOK
<1>3. r \in McpServers!AgentStates /\ r.pc = "out"
  BY DEF McpServers!AgentStates
<1>4. x4' = [x4 EXCEPT ![a] = r] /\ x3' = [x3 EXCEPT ![c] = l]
  BY <1>2 DEF McpServers!CloseByAgent, McpServers!Closed
<1>5. /\ l \in McpServers!Lives /\ l.workers = x3[c].workers /\ ~l.open
      /\ l.registrations = x3[c].registrations /\ l.closing = x3[c].closing
  BY <1>2 DEF McpServers!Lives
<1>. HIDE DEF l, r
<1>6. /\ x4'[a] = r /\ \A b \in Actors : b # a => x4'[b] = x4[b]
      /\ x4' \in [Actors -> McpServers!AgentStates]
      /\ Cardinality(McpServers!Users') = x2.users
  BY <1>1, <1>3, <1>4, ServersUsers
<1>7. \A d \in McpServers!Clients :
        /\ McpServers!Workers(d)' = McpServers!Workers(d)
        /\ McpServers!Active(d)' <=> McpServers!Active(d)
        /\ d # c => (McpServers!Closes(d) => McpServers!Closes(d)')
  <2>1. \A d \in McpServers!Clients : McpServers!Workers(d)' = McpServers!Workers(d)
    BY <1>1 DEF McpServers!Workers, McpServers!Working
  <2>2. \A d \in McpServers!Clients : McpServers!Active(d)' <=> McpServers!Active(d)
    BY <1>1 DEF McpServers!Active
  <2>3. \A d \in McpServers!Clients : d # c => (McpServers!Closes(d) => McpServers!Closes(d)')
    BY <1>1, <1>6 DEF McpServers!Closes
  <2>. QED  BY <2>1, <2>2, <2>3
<1>8. /\ l.workers = Cardinality(McpServers!Workers(c)')
      /\ l.registrations = IF McpServers!Active(c)' THEN 1 ELSE 0
      /\ l.closing => ~McpServers!Active(c)' /\ McpServers!Workers(c)' = {}
  <2>1. /\ x3[c].workers = Cardinality(McpServers!Workers(c))
        /\ x3[c].registrations = IF McpServers!Active(c) THEN 1 ELSE 0
        /\ x3[c].closing => ~McpServers!Active(c) /\ McpServers!Workers(c) = {}
    BY ServersCount DEF McpServers!IInv, McpServers!CountsAreRight, McpServers!ClientsAreOwned
  <2>. QED  BY <1>5, <1>7, <2>1
<1>9. /\ \A b \in Actors : x4'[b].pc = "closing" =>
           (x4[b].pc = "closing" /\ x4'[b].client = x4[b].client) \/ x4'[b].client = c
      /\ \A j \in Things : x5'[j].work # "done" =>
           (x5[j].work # "done" /\ x5'[j].client = x5[j].client) \/ x5'[j].client = c
      /\ x5' \in [Things -> McpServers!JobStates]
  BY <1>1, <1>3, <1>6 DEF McpServers!IInv, McpServers!TypeOK
<1>10. x2'.users = Cardinality(McpServers!Users') /\ c <= x2'.made /\ x2.made <= x2'.made
  BY <1>1, <1>6, ServersAssumption DEF McpServers!IInv, McpServers!TypeOK, McpServers!Rows
<1>11. /\ x2' \in McpServers!Rows
       /\ McpServers!OffersTheLiveServer' /\ x1' = x1
  BY <1>1, ServersRow
<1>12. l.open => McpServers!Active(c)' \/ McpServers!Workers(c)' # {} \/ McpServers!Closes(c)'
  BY <1>5
<1>13. \A d \in McpServers!Clients : d # c =>
         /\ McpServers!Workers(d)' = McpServers!Workers(d)
         /\ McpServers!Active(d)' <=> McpServers!Active(d)
         /\ McpServers!Closes(d) => McpServers!Closes(d)'
  BY <1>7
<1>14. l \in McpServers!Lives /\ x4' \in [Actors -> McpServers!AgentStates] /\ x3' = [x3 EXCEPT ![c] = l]
  BY <1>4, <1>5, <1>6
<1>. QED
  BY <1>8, <1>9, <1>10, <1>11, <1>12, <1>13, <1>14, ServersOneClient

LEMMA ServersNext == ASSUME McpServers!IInv, McpServers!Next PROVE McpServers!IInv'
BY ServersJobStep, ServersRetry, ServersAdmit, ServersFinish, ServersCloseByWorker, ServersJoin,
   ServersRegisterNext, ServersRelease, ServersCloseByAgent DEF McpServers!Next

LEMMA ServersStutters ==
  ASSUME McpServers!IInv, UNCHANGED <<x1, x2, x3, x4, x5>> PROVE McpServers!IInv'
<1>1. McpServers!TypeOK'
  BY DEF McpServers!IInv, McpServers!TypeOK
<1>2. McpServers!CountsAreRight'
  BY DEF McpServers!IInv, McpServers!CountsAreRight, McpServers!Users, McpServers!Workers,
         McpServers!Working, McpServers!Active
<1>3. McpServers!ClientsAreOwned'
  BY DEF McpServers!IInv, McpServers!ClientsAreOwned, McpServers!Workers, McpServers!Working,
         McpServers!Active, McpServers!Closes, McpServers!NobodyKnows
<1>. QED  BY <1>1, <1>2, <1>3, ServersRow DEF McpServers!IInv

LEMMA ServersInit == ASSUME McpServers!Init PROVE McpServers!IInv
<1>1. McpServers!TypeOK
  <2>1. 0 \in 0..MaxClients /\ 0 \in Nat
    BY ServersAssumption
  <2>2. McpServers!NoJob \in McpServers!JobStates
    BY DEF McpServers!NoJob, McpServers!JobStates, McpServers!Places
  <2>. QED
    BY <2>1, <2>2 DEF McpServers!Init, McpServers!TypeOK, McpServers!Lives,
       McpServers!AgentStates, McpServers!Rows
<1>2. \A c \in McpServers!Clients : McpServers!Workers(c) = {} /\ ~McpServers!Active(c)
  BY ServersAssumption DEF McpServers!Init, McpServers!Workers, McpServers!Working,
     McpServers!NoJob,
                           McpServers!Active, McpServers!Clients
<1>3. McpServers!CountsAreRight
  <2>1. McpServers!Users = {}
    BY DEF McpServers!Init, McpServers!Users
  <2>2. McpServers!Cardinality({}) = 0
    BY ServersCount, FS_EmptySet
  <2>. QED  BY <1>2, <2>1, <2>2 DEF McpServers!Init, McpServers!CountsAreRight
<1>4. McpServers!ClientsAreOwned
  BY <1>2 DEF McpServers!Init, McpServers!ClientsAreOwned, McpServers!NobodyKnows, McpServers!NoJob
<1>5. McpServers!OffersTheLiveServer
  BY DEF McpServers!Init, McpServers!OffersTheLiveServer
<1>. QED  BY <1>1, <1>3, <1>4, <1>5 DEF McpServers!IInv

LEMMA ServersShared == ASSUME McpServers!IInv PROVE McpServers!ServersAreShared
<1>1. McpServers!ClosedAlone
  BY DEF McpServers!IInv, McpServers!ClientsAreOwned, McpServers!ClosedAlone, McpServers!Workers
<1>2. McpServers!NothingStaysConnected
  <2> SUFFICES ASSUME \A a \in Actors : x4[a].pc = "out", \A j \in Things : x5[j].work = "done",
                      NEW c \in McpServers!Clients, x3[c].open
               PROVE  FALSE
    BY DEF McpServers!NothingStaysConnected
  <2>1. McpServers!Workers(c) = {} /\ ~McpServers!Closes(c)
    BY DEF McpServers!Workers, McpServers!Working, McpServers!Closes
  <2>2. McpServers!Active(c)
    BY <2>1 DEF McpServers!IInv, McpServers!ClientsAreOwned
  <2>3. x2.client # None
    BY <2>2, ServersAssumption DEF McpServers!Active, McpServers!Clients
  <2>4. McpServers!Users = {}
    BY DEF McpServers!Users
  <2>5. x2.users = 0
    BY <2>4, ServersCount, FS_EmptySet DEF McpServers!IInv, McpServers!CountsAreRight
  <2>. QED  BY <2>3, <2>5 DEF McpServers!IInv, McpServers!OffersTheLiveServer
<1>. QED  BY <1>1, <1>2 DEF McpServers!ServersAreShared, McpServers!IInv

(* However threads call, cancel and close a shared client, and agents join   *)
(* and leave a shared server: no call is replayed or cut, one transport is    *)
(* open at a time, a client is closed by the last that uses it and nothing   *)
(* stays connected.                                                         *)
THEOREM ServersAreSharedSafely == ComponentsSpec => []McpServersAreShared
<1> DEFINE Inv == (focus = "calls" => McpCalls!IInv) /\ (focus = "servers" => McpServers!IInv)
<1>1. ComponentsInit => Inv
  BY CallsInit, ServersInit DEF ComponentsInit
<1>2. Inv /\ [ComponentsNext]_componentsVars => Inv'
  <2> SUFFICES ASSUME Inv, [ComponentsNext]_componentsVars PROVE Inv'
    OBVIOUS
  <2>1. focus' = focus
    BY DEF ComponentsNext, componentsVars
  <2>2. ASSUME focus = "calls" PROVE McpCalls!IInv'
    <3>1. CASE ComponentsNext
      BY <2>2, <3>1, CallsNext DEF ComponentsNext
    <3>2. CASE UNCHANGED componentsVars
      BY <2>2, <3>2, CallsStutters DEF componentsVars, cells
    <3>. QED  BY <3>1, <3>2
  <2>3. ASSUME focus = "servers" PROVE McpServers!IInv'
    <3>1. CASE ComponentsNext
      BY <2>3, <3>1, ServersNext DEF ComponentsNext
    <3>2. CASE UNCHANGED componentsVars
      BY <2>3, <3>2, ServersStutters DEF componentsVars, cells
    <3>. QED  BY <3>1, <3>2
  <2>. QED  BY <2>1, <2>2, <2>3
<1>3. Inv => McpServersAreShared
  BY CallsSafe, ServersShared DEF McpServersAreShared
<1>. HIDE DEF Inv
<1>. QED  BY <1>1, <1>2, <1>3, PTL DEF ComponentsSpec

-----------------------------------------------------------------------------
(* SessionTurns, whose lemmas are proved in a module of their own, here with  *)
(* the cells for its variables.                                             *)

Proved == INSTANCE SessionTurns_proofs WITH
  Sessions <- Two, Clients <- {Client}, Stoppers <- {Janitor},
  MaxActive <- 1, MaxSteps <- 1, MaxRounds <- 0, MaxTurns <- 1,
  MaxPrompts <- 0, life <- x1, busy <- x2, closed <- x3, cancelled <- x4,
  agent <- x5, flag <- x6, active <- x7, sender <- x8, worker <- x9,
  prompt <- x10, asked <- x11, pending <- x12, client <- x13, stopper <- x14,
  closing <- x15, history <- x16

LEMMA TurnsConstants == Proved!TurnsAssumption
BY SessionsAssumption DEF Proved!TurnsAssumption

(* Both instances have the same steps and count the same. *)
LEMMA TurnsInit == Turns!Init => Proved!TInv
<1>1. Turns!Init => Proved!Init
  BY DEF Turns!Init, Proved!Init, Turns!Idle, Proved!Idle, Turns!NotCalled, Proved!NotCalled,
         Turns!NoAnswer, Proved!NoAnswer, Turns!NoPrompt, Proved!NoPrompt,
         Turns!PromptIds, Proved!PromptIds
<1>. QED  BY <1>1, TurnsConstants, Proved!InitTInv

LEMMA TurnsNext == Turns!Next => Proved!Next
BY DEF Turns!Kinds, Proved!Kinds, Turns!PromptIds, Proved!PromptIds, Turns!Status, Proved!Status,
       Turns!turnVars, Proved!turnVars, Turns!Idle, Proved!Idle, Turns!NotCalled,
       Proved!NotCalled, Turns!NoAnswer, Proved!NoAnswer, Turns!NoPrompt, Proved!NoPrompt,
       Turns!Decisions, Proved!Decisions, Turns!PendingOf, Proved!PendingOf,
       Turns!CreateSession, Proved!CreateSession, Turns!MaySend, Proved!MaySend,
       Turns!Send, Proved!Send, Turns!InitAgent, Proved!InitAgent,
       Turns!PropagateInterrupt, Proved!PropagateInterrupt, Turns!StartThread,
       Proved!StartThread, Turns!Undo, Proved!Undo, Turns!At, Proved!At, Turns!Move,
       Proved!Move, Turns!EndRound, Proved!EndRound, Turns!OnlyWorker, Proved!OnlyWorker,
       Turns!NoPrompts, Proved!NoPrompts, Turns!PrepareFails, Proved!PrepareFails,
       Turns!LoopTop, Proved!LoopTop, Turns!ModelCall, Proved!ModelCall, Turns!NextStep,
       Proved!NextStep, Turns!RunTools, Proved!RunTools, Turns!Registered,
       Proved!Registered, Turns!Register, Proved!Register, Turns!Woken, Proved!Woken,
       Turns!WaitTimesOut, Proved!WaitTimesOut, Turns!Expire, Proved!Expire,
       Turns!ReadAnswer, Proved!ReadAnswer, Turns!SettleStatus, Proved!SettleStatus,
       Turns!ClearFlag, Proved!ClearFlag, Turns!DriveGoal, Proved!DriveGoal,
       Turns!SetOutcome, Proved!SetOutcome, Turns!Publish, Proved!Publish,
       Turns!BecomeIdle, Proved!BecomeIdle, Turns!PopPrompt, Proved!PopPrompt,
       Turns!Answer, Proved!Answer, Turns!Interrupted, Proved!Interrupted,
       Turns!Interrupt, Proved!Interrupt, Turns!HookAgent, Proved!HookAgent,
       Turns!ReleaseWaiters, Proved!ReleaseWaiters, Turns!Deletable, Proved!Deletable,
       Turns!Delete, Proved!Delete, Turns!DeleteSession, Proved!DeleteSession,
       Turns!CloseDeleted, Proved!CloseDeleted, Turns!ShutDown, Proved!ShutDown,
       Turns!NextPhase, Proved!NextPhase, Turns!Visited, Proved!Visited, Turns!Quiesce,
       Proved!Quiesce, Turns!ShutDownInterrupts, Proved!ShutDownInterrupts, Turns!Drain,
       Proved!Drain, Turns!Sender, Proved!Sender, Turns!Worker, Proved!Worker,
       Turns!Stopper, Proved!Stopper, Turns!Next, Proved!Next

LEMMA TurnsPermits == Proved!AdmissionMatchesTurns => Turns!AdmissionMatchesTurns
BY DEF Turns!AdmissionMatchesTurns, Proved!AdmissionMatchesTurns,
       Turns!Cardinality, Proved!Cardinality

(* However sends, cold starts that fail, deletions and the shutdown of the    *)
(* sessions interleave: a permit, a busy session and a turn are one, and      *)
(* nothing is admitted once the service is quiet.                           *)
THEOREM AdmissionIsKept == ComponentsSpec => AdmissionHolds
<1> DEFINE Inv == focus = "turns" => Proved!TInv
           Kept == focus = "turns" => Turns!AdmissionMatchesTurns
           Quiet == focus = "turns" => Turns!AdmitsNoTurnOnceQuiet
<1>1. ComponentsInit => Inv
  BY TurnsInit DEF ComponentsInit
<1>2. Inv /\ [ComponentsNext]_componentsVars => Inv'
  <2> SUFFICES ASSUME Proved!TInv, focus = "turns", [ComponentsNext]_componentsVars
               PROVE  Proved!TInv'
    BY DEF ComponentsNext, componentsVars
  <2>1. [Proved!Next]_(Proved!vars)
    BY TurnsNext DEF ComponentsNext, componentsVars, cells, Proved!vars, Proved!turnVars
  <2>. QED  BY <2>1, TurnsConstants, Proved!NextTInv
<1>3. Inv => Kept
  BY TurnsConstants, TurnsPermits, Proved!PermitsFollow
<1>4. Inv /\ [ComponentsNext]_componentsVars => [Quiet]_componentsVars
  <2> SUFFICES ASSUME Proved!TInv, focus = "turns", ComponentsNext PROVE Turns!AdmitsNoTurnOnceQuiet
    OBVIOUS
  <2>1. Proved!Next
    BY TurnsNext DEF ComponentsNext
  <2>2. [Proved!AdmitsNoTurnOnceQuiet]_(Proved!vars)
    BY <2>1, TurnsConstants, Proved!QuietStep
  <2>. QED
    BY <2>2 DEF Proved!AdmitsNoTurnOnceQuiet, Turns!AdmitsNoTurnOnceQuiet, Proved!vars
<1>. HIDE DEF Inv, Kept, Quiet
<1>5. ComponentsSpec => []Inv
  BY <1>1, <1>2, PTL DEF ComponentsSpec
<1>6. ComponentsSpec => []Kept /\ [][Quiet]_componentsVars
  BY <1>3, <1>4, <1>5, PTL DEF ComponentsSpec
<1>. QED  BY <1>6 DEF AdmissionHolds, Kept, Quiet

-----------------------------------------------------------------------------
(* ToolCatalog, twice: an agent and a worker, with a tool of the sandbox and a *)
(* deferred one, and then a deferred tool alone.  Their constants differ, and so *)
(* the lemmas about them are stated once for each.  The cells are kind (x1),  *)
(* mode (x2), tools (x3), found (x4), copy (x5), step (x6), call (x7), made   *)
(* (x8) and offered (x9).                                                  *)

LEMMA ToolsInitIInv == ASSUME Tools!Init PROVE Tools!IInv
<1>1. Tools!TypeOK
  BY DEF Tools!Init, Tools!TypeOK, Tools!Runners, Tools!Calls, Tools!NoCall, Tools!Places,
      Tools!Adapters
<1>2. Tools!FoundWasOffered /\ Tools!WorkerIsConfined /\ Tools!StepsAreListed /\ Tools!CallsAreBound
  BY DEF Tools!Init, Tools!NoCall, Tools!FoundWasOffered, Tools!WorkerIsConfined,
      Tools!StepsAreListed, Tools!CallsAreBound, Tools!Runners
<1>. QED  BY <1>1, <1>2 DEF Tools!IInv

(* The registry.                                                           *)

(* A source holds the lock: no call is bound to what it changes, and what a   *)
(* search has found either stays or is forgotten.                           *)
LEMMA ToolsSourceKeeps ==
  ASSUME Tools!IInv, Tools!Unlocked,
         UNCHANGED <<x1, x2, x5, x6, x7, x9>>,
         x3' \in [{"Bash", "Lookup"} -> Tools!Adapters \cup {None}], x8' \in Nat,
         x4' \in [promoted : SUBSET {"Bash", "Lookup"}, pending : SUBSET {"Bash", "Lookup"}],
         x1 = "deferred" => \A n \in x4'.promoted \cup x4'.pending :
           /\ n \in x4.promoted \cup x4.pending
           /\ x3'[n] # None /\ x3'[n].adapter = x3[n].adapter
  PROVE  Tools!IInv'
<1>1. x7["agent"].pc \notin {"checked", "search"}
  BY ToolsAssumption DEF Tools!Unlocked
<1>2. Tools!TypeOK'
  BY DEF Tools!IInv, Tools!TypeOK
<1>3. Tools!FoundWasOffered'
  BY <1>1 DEF Tools!IInv, Tools!FoundWasOffered
<1>4. Tools!WorkerIsConfined' /\ Tools!StepsAreListed'
  BY DEF Tools!IInv, Tools!WorkerIsConfined, Tools!StepsAreListed, Tools!SourceCurrent
<1>5. Tools!CallsAreBound'
  BY <1>1 DEF Tools!IInv, Tools!CallsAreBound
<1>. QED  BY <1>2, <1>3, <1>4, <1>5 DEF Tools!IInv

(* Names whose adapter goes are neither promoted nor proposed any more. *)
LEMMA ToolsInvalidateForgets ==
  ASSUME NEW names, Tools!TypeOK, Tools!Invalidate(names)
  PROVE  /\ x4' \in [promoted : SUBSET {"Bash", "Lookup"}, pending : SUBSET {"Bash", "Lookup"}]
         /\ x1 = "deferred" => \A n \in x4'.promoted \cup x4'.pending :
              n \in x4.promoted \cup x4.pending /\ n \notin names
BY DEF Tools!Invalidate, Tools!TypeOK

LEMMA ToolsRegisterKeeps ==
  ASSUME Tools!IInv, NEW o \in {"mcp"}, NEW n \in {"Bash", "Lookup"},
         NEW form \in {"object", "function"}, Tools!Register(o, n, form)
  PROVE  Tools!IInv'
<1>1. Tools!TypeOK /\ Tools!FoundWasOffered
  BY DEF Tools!IInv
<1>2. Tools!Adapter(x8 + 1, o, form) \in Tools!Adapters /\ x8' \in Nat
  BY <1>1 DEF Tools!Adapter, Tools!Adapters, Tools!TypeOK, Tools!Register
<1>3. /\ x3' = [x3 EXCEPT ![n] = Tools!Adapter(x8 + 1, o, form)]
      /\ x3' \in [{"Bash", "Lookup"} -> Tools!Adapters \cup {None}]
  BY <1>1, <1>2 DEF Tools!Register, Tools!TypeOK
<1>4. /\ x4' \in [promoted : SUBSET {"Bash", "Lookup"}, pending : SUBSET {"Bash", "Lookup"}]
      /\ x1 = "deferred" => \A m \in x4'.promoted \cup x4'.pending :
           m \in x4.promoted \cup x4.pending /\ m # n
  <2>1. CASE x3[n] # None
    BY <1>1, <2>1, ToolsInvalidateForgets DEF Tools!Register
  <2>2. CASE x3[n] = None
    BY <1>1, <2>2 DEF Tools!Register, Tools!TypeOK, Tools!FoundWasOffered
  <2>. QED  BY <2>1, <2>2
<1>5. x1 = "deferred" => \A m \in x4'.promoted \cup x4'.pending :
        /\ m \in x4.promoted \cup x4.pending
        /\ x3'[m] # None /\ x3'[m].adapter = x3[m].adapter
  BY <1>1, <1>3, <1>4 DEF Tools!TypeOK, Tools!FoundWasOffered
<1>6. Tools!Unlocked /\ UNCHANGED <<x1, x2, x5, x6, x7, x9>>
  BY DEF Tools!Register
<1>. QED  BY <1>2, <1>3, <1>4, <1>5, <1>6, ToolsSourceKeeps

LEMMA ToolsUnregisterKeeps ==
  ASSUME Tools!IInv, NEW o \in {"mcp"}, NEW n \in {"Bash", "Lookup"}, Tools!Unregister(o, n)
  PROVE  Tools!IInv'
<1>1. Tools!TypeOK /\ Tools!FoundWasOffered
  BY DEF Tools!IInv
<1>2. /\ x3' = [x3 EXCEPT ![n] = None]
      /\ x3' \in [{"Bash", "Lookup"} -> Tools!Adapters \cup {None}] /\ x8' \in Nat
  BY <1>1 DEF Tools!Unregister, Tools!TypeOK
<1>3. /\ x4' \in [promoted : SUBSET {"Bash", "Lookup"}, pending : SUBSET {"Bash", "Lookup"}]
      /\ x1 = "deferred" => \A m \in x4'.promoted \cup x4'.pending :
           m \in x4.promoted \cup x4.pending /\ m \notin {n}
  BY <1>1, ToolsInvalidateForgets DEF Tools!Unregister
<1>4. x1 = "deferred" => \A m \in x4'.promoted \cup x4'.pending :
        /\ m \in x4.promoted \cup x4.pending
        /\ x3'[m] # None /\ x3'[m].adapter = x3[m].adapter
  BY <1>1, <1>2, <1>3 DEF Tools!TypeOK, Tools!FoundWasOffered
<1>5. Tools!Unlocked /\ UNCHANGED <<x1, x2, x5, x6, x7, x9>>
  BY DEF Tools!Unregister
<1>. QED  BY <1>2, <1>3, <1>4, <1>5, ToolsSourceKeeps

LEMMA ToolsReplaceOwnedKeeps ==
  ASSUME Tools!IInv, NEW o \in {"mcp"}, NEW names \in SUBSET {"Bash", "Lookup"},
         Tools!ReplaceOwned(o, names)
  PROVE  Tools!IInv'
<1> DEFINE old == {n \in {"Bash", "Lookup"} : x3[n] # None /\ x3[n].owner = o}
<1>1. Tools!TypeOK /\ Tools!FoundWasOffered
  BY DEF Tools!IInv
<1>2. Tools!Adapter(x8 + 1, o, "object") \in Tools!Adapters /\ x8' \in Nat
  BY <1>1 DEF Tools!Adapter, Tools!Adapters, Tools!TypeOK, Tools!ReplaceOwned
<1>3. /\ Tools!Invalidate(old)
      /\ x3' = [n \in {"Bash", "Lookup"} |-> IF n \in names THEN Tools!Adapter(x8 + 1, o, "object")
                                   ELSE IF n \in old THEN None ELSE x3[n]]
  BY DEF Tools!ReplaceOwned
<1>4. x3' \in [{"Bash", "Lookup"} -> Tools!Adapters \cup {None}]
  BY <1>1, <1>2, <1>3 DEF Tools!TypeOK
<1>5. /\ x4' \in [promoted : SUBSET {"Bash", "Lookup"}, pending : SUBSET {"Bash", "Lookup"}]
      /\ x1 = "deferred" => \A n \in x4'.promoted \cup x4'.pending :
           n \in x4.promoted \cup x4.pending /\ n \notin old
  BY <1>1, <1>3, ToolsInvalidateForgets
<1>6. ASSUME x1 = "deferred", NEW n \in x4'.promoted \cup x4'.pending
      PROVE  /\ n \in x4.promoted \cup x4.pending
             /\ x3'[n] # None /\ x3'[n].adapter = x3[n].adapter
  <2>1. n \in {"Bash", "Lookup"} /\ x3[n] # None /\ n \notin old
    BY <1>1, <1>5, <1>6 DEF Tools!TypeOK, Tools!FoundWasOffered
  <2>2. n \notin names
    BY <2>1 DEF Tools!ReplaceOwned, Tools!MayTake
  <2>. QED  BY <1>3, <1>5, <1>6, <2>1, <2>2
<1>7. Tools!Unlocked /\ UNCHANGED <<x1, x2, x5, x6, x7, x9>>
  BY DEF Tools!ReplaceOwned
<1>. QED  BY <1>2, <1>4, <1>5, <1>6, <1>7, ToolsSourceKeeps

LEMMA ToolsSchemaChangesKeeps ==
  ASSUME Tools!IInv, NEW n \in {"Bash", "Lookup"}, Tools!SchemaChanges(n)
  PROVE  Tools!IInv'
<1>1. Tools!TypeOK /\ Tools!FoundWasOffered
  BY DEF Tools!IInv
<1>2. x3[n] \in Tools!Adapters /\ 1 - x3[n].schema \in {0, 1}
  BY <1>1 DEF Tools!SchemaChanges, Tools!TypeOK, Tools!Adapters
<1>3. x3' = [x3 EXCEPT ![n] = [x3[n] EXCEPT !.schema = 1 - x3[n].schema]]
  BY DEF Tools!SchemaChanges
<1>4. /\ [x3[n] EXCEPT !.schema = 1 - x3[n].schema] \in Tools!Adapters
      /\ [x3[n] EXCEPT !.schema = 1 - x3[n].schema].adapter = x3[n].adapter
  BY <1>2 DEF Tools!Adapters
<1>5. x3' \in [{"Bash", "Lookup"} -> Tools!Adapters \cup {None}]
  BY <1>1, <1>3, <1>4 DEF Tools!TypeOK
<1>6. ASSUME NEW m \in {"Bash", "Lookup"}, x3[m] # None
      PROVE  x3'[m] # None /\ x3'[m].adapter = x3[m].adapter
  BY <1>1, <1>3, <1>4, <1>6, ToolsAssumption DEF Tools!TypeOK
<1>7. Tools!Unlocked /\ UNCHANGED <<x1, x2, x5, x6, x7, x9, x4, x8>>
  BY DEF Tools!SchemaChanges
<1>8. /\ x4' \in [promoted : SUBSET {"Bash", "Lookup"}, pending : SUBSET {"Bash", "Lookup"}] /\ x8' \in Nat
      /\ x1 = "deferred" => \A m \in x4'.promoted \cup x4'.pending :
           /\ m \in x4.promoted \cup x4.pending
           /\ x3'[m] # None /\ x3'[m].adapter = x3[m].adapter
  BY <1>1, <1>6, <1>7 DEF Tools!TypeOK, Tools!FoundWasOffered
<1>. QED  BY <1>5, <1>7, <1>8, ToolsSourceKeeps

LEMMA ToolsSetModeKeeps == ASSUME Tools!IInv, Tools!SetMode PROVE Tools!IInv'
<1>1. Tools!TypeOK'
  BY DEF Tools!IInv, Tools!TypeOK, Tools!SetMode
<1>2. /\ Tools!FoundWasOffered'
      /\ Tools!WorkerIsConfined'
      /\ Tools!StepsAreListed'
      /\ Tools!CallsAreBound'
  BY DEF Tools!IInv, Tools!SetMode, Tools!FoundWasOffered, Tools!WorkerIsConfined,
      Tools!StepsAreListed, Tools!CallsAreBound
<1>. QED  BY <1>1, <1>2 DEF Tools!IInv

LEMMA ToolsDeriveKeeps == ASSUME Tools!IInv, Tools!Derive PROVE Tools!IInv'
<1>1. ASSUME NEW n \in {"Bash", "Lookup"}, x3[n] # None
      PROVE  [adapter |-> x3[n].adapter, schema |-> x3[n].schema] \in Tools!Bindings
  BY <1>1 DEF Tools!IInv, Tools!TypeOK, Tools!Adapters, Tools!Bindings
<1>2. x5' \in Tools!Snapshots
  BY <1>1 DEF Tools!Derive, Tools!Snapshots
<1>3. Tools!TypeOK'
  BY <1>2 DEF Tools!IInv, Tools!TypeOK, Tools!Derive
<1>4. Tools!WorkerIsConfined'
  BY DEF Tools!Derive, Tools!WorkerIsConfined
<1>5. Tools!FoundWasOffered' /\ Tools!StepsAreListed'
  BY DEF Tools!IInv, Tools!Derive, Tools!FoundWasOffered, Tools!StepsAreListed
<1>6. Tools!CallsAreBound'
  <2>1. x7["worker"].pc \notin {"gated", "checked"}
    BY DEF Tools!IInv, Tools!CallsAreBound, Tools!Derive, Tools!Runners
  <2>. QED  BY <2>1 DEF Tools!IInv, Tools!Derive, Tools!CallsAreBound, Tools!Runners
<1>. QED  BY <1>3, <1>4, <1>5, <1>6 DEF Tools!IInv

(* Steps, searches and calls.                                              *)

(* A call of one runner moves to where it is bound to nothing.              *)
LEMMA ToolsCallEnds ==
  ASSUME Tools!IInv, NEW r \in Tools!Runners, NEW next \in Tools!Calls,
         next.pc \notin {"search", "gated", "checked"},
         x7' = [x7 EXCEPT ![r] = next],
         UNCHANGED <<x1, x2, x3, x5, x8>>
  PROVE  /\ x7' \in [Tools!Runners -> Tools!Calls]
         /\ x7'["agent"].pc = "search" => x7' ["agent"] = x7["agent"]
         /\ \A q \in Tools!Runners : x7'[q].pc \in {"gated", "checked"} =>
              q # r /\ x7'[q] = x7[q]
BY DEF Tools!IInv, Tools!TypeOK, Tools!Runners

LEMMA ToolsNoCallIsCall == Tools!NoCall \in Tools!Calls /\ Tools!NoCall.pc = "idle"
BY DEF Tools!NoCall, Tools!Calls, Tools!Places

LEMMA ToolsActivateKeeps == ASSUME Tools!IInv, Tools!Activate PROVE Tools!IInv'
<1> DEFINE next == [Tools!NoCall EXCEPT !.pc = "activated"]
<1>1. next \in Tools!Calls /\ next.pc = "activated"
  BY DEF Tools!NoCall, Tools!Calls, Tools!Places
<1>2. x7' = [x7 EXCEPT !["agent"] = next] /\ UNCHANGED <<x1, x2, x3, x5, x6, x8, x9>>
  BY DEF Tools!Activate
<1>. HIDE DEF next
<1>3. /\ x7' \in [Tools!Runners -> Tools!Calls]
      /\ x7'["agent"].pc # "search"
      /\ \A q \in Tools!Runners : x7'[q].pc \in {"gated", "checked"} => q # "agent" /\ x7'[q] = x7[q]
  BY <1>1, <1>2 DEF Tools!IInv, Tools!TypeOK, Tools!Runners
<1>4. PICK new \in SUBSET (x4.pending \cap Tools!Catalog("agent")) :
        x4' = [promoted |-> x4.promoted \cup new, pending |-> {}]
  BY DEF Tools!Activate
<1>5. x4' \in [promoted : SUBSET {"Bash", "Lookup"}, pending : SUBSET {"Bash", "Lookup"}]
  BY <1>4 DEF Tools!IInv, Tools!TypeOK
<1>6. Tools!TypeOK'
  BY <1>2, <1>3, <1>5 DEF Tools!IInv, Tools!TypeOK
<1>7. Tools!FoundWasOffered'
  BY <1>2, <1>3, <1>4 DEF Tools!IInv, Tools!FoundWasOffered
<1>8. Tools!WorkerIsConfined' /\ Tools!StepsAreListed'
  BY <1>2 DEF Tools!IInv, Tools!WorkerIsConfined, Tools!StepsAreListed
<1>9. Tools!CallsAreBound'
  BY <1>2, <1>3 DEF Tools!IInv, Tools!CallsAreBound
<1>. QED  BY <1>6, <1>7, <1>8, <1>9 DEF Tools!IInv

LEMMA ToolsCaptureStepKeeps ==
  ASSUME Tools!IInv, NEW r \in Tools!Runners, Tools!CaptureStep(r) PROVE Tools!IInv'
<1> DEFINE snapshot == [n \in {"Bash", "Lookup"} |-> IF n \in Tools!Listed(r)
             THEN [adapter |-> x3[n].adapter, schema |-> x3[n].schema] ELSE None]
<1>1. /\ x6' = [x6 EXCEPT ![r] = snapshot]
      /\ x7' = [x7 EXCEPT ![r] = Tools!NoCall]
      /\ UNCHANGED <<x1, x2, x3, x4, x5, x8, x9>>
  BY DEF Tools!CaptureStep
<1>2. ASSUME NEW n \in {"Bash", "Lookup"}, snapshot[n] # None
      PROVE  /\ snapshot[n] \in Tools!Bindings /\ snapshot[n].adapter = x3[n].adapter
             /\ x3[n] # None /\ Tools!Visible(n) /\ Tools!Allowed(r, n)
  <2>1. n \in Tools!Listed(r)
    BY <1>2
  <2>2. x3[n] \in Tools!Adapters /\ x3[n] # None /\ Tools!Visible(n) /\ Tools!Allowed(r, n)
    BY <2>1 DEF Tools!IInv, Tools!TypeOK, Tools!Listed, Tools!Catalog
  <2>. QED  BY <2>1, <2>2 DEF Tools!Adapters, Tools!Bindings
<1>3. ASSUME NEW n \in {"Bash", "Lookup"}, snapshot[n] # None
      PROVE  /\ x1 = "deferred" /\ n \notin {"Bash"} => snapshot[n].adapter \in x9
             /\ x1 = "sealed" => n \in {"Bash"}
             /\ r = "worker" => n \notin {}
  <2>1. x3[n] # None /\ Tools!Visible(n) /\ Tools!Allowed(r,
      n) /\ snapshot[n].adapter = x3[n].adapter
    BY <1>2, <1>3
  <2>2. x1 = "deferred" /\ n \notin {"Bash"} => snapshot[n].adapter \in x9
    BY <2>1 DEF Tools!IInv, Tools!FoundWasOffered, Tools!Visible
  <2>3. r = "worker" => n \notin {}
    BY <2>1
       DEF Tools!IInv, Tools!WorkerIsConfined, Tools!Allowed, Tools!SourceCurrent,
           Tools!CaptureStep, Tools!IsDerived
  <2>. QED  BY <2>1, <2>2, <2>3 DEF Tools!Allowed, Tools!HostedAllowed
<1>4. snapshot \in Tools!Snapshots
  BY <1>2 DEF Tools!Snapshots
<1>. HIDE DEF snapshot
<1>5. /\ x7' \in [Tools!Runners -> Tools!Calls]
      /\ x7'["agent"].pc = "search" => x7'["agent"] = x7["agent"]
      /\ \A q \in Tools!Runners : x7'[q].pc \in {"gated", "checked"} =>
           q # r /\ x7'[q] = x7[q] /\ x6'[q] = x6[q]
  BY <1>1, ToolsNoCallIsCall DEF Tools!IInv, Tools!TypeOK, Tools!Runners
<1>6. Tools!TypeOK'
  BY <1>1, <1>4, <1>5 DEF Tools!IInv, Tools!TypeOK
<1>7. Tools!FoundWasOffered' /\ Tools!WorkerIsConfined'
  BY <1>1, <1>5 DEF Tools!IInv, Tools!FoundWasOffered, Tools!WorkerIsConfined
<1>8. Tools!StepsAreListed'
  <2> SUFFICES ASSUME NEW q \in Tools!Runners, x6'[q] # None, NEW n \in {"Bash", "Lookup"},
      x6'[q][n] # None
               PROVE  /\ x1 = "deferred" /\ n \notin {"Bash"} => x6'[q][n].adapter \in x9
                      /\ x1 = "sealed" => n \in {"Bash"}
                      /\ q = "worker" => n \notin {}
    BY <1>1 DEF Tools!StepsAreListed
  <2>1. CASE q = r
    BY <1>1, <1>3, <2>1 DEF Tools!IInv, Tools!TypeOK
  <2>2. CASE q # r
    BY <1>1, <2>2 DEF Tools!IInv, Tools!TypeOK, Tools!StepsAreListed
  <2>. QED  BY <2>1, <2>2
<1>9. Tools!CallsAreBound'
  BY <1>1, <1>5 DEF Tools!IInv, Tools!CallsAreBound
<1>. QED  BY <1>6, <1>7, <1>8, <1>9 DEF Tools!IInv

LEMMA ToolsBeginSearchKeeps == ASSUME Tools!IInv, Tools!BeginSearch PROVE Tools!IInv'
<1> DEFINE next == [Tools!NoCall EXCEPT !.pc = "search", !.seen = Tools!Catalog("agent")]
<1>1. next \in Tools!Calls /\ next.pc = "search" /\ next.seen = Tools!Catalog("agent")
  BY DEF Tools!NoCall, Tools!Calls, Tools!Places, Tools!Catalog
<1>2. x7' = [x7 EXCEPT !["agent"] = next] /\ UNCHANGED <<x1, x2, x3, x4, x5, x6, x8, x9>>
  BY DEF Tools!BeginSearch
<1>. HIDE DEF next
<1>3. /\ x7' \in [Tools!Runners -> Tools!Calls] /\ x7'["agent"] = next
      /\ \A q \in Tools!Runners : x7'[q].pc \in {"gated", "checked"} => x7'[q] = x7[q]
  BY <1>1, <1>2 DEF Tools!IInv, Tools!TypeOK, Tools!Runners
<1>4. Tools!TypeOK'
  BY <1>2, <1>3 DEF Tools!IInv, Tools!TypeOK
<1>5. Tools!FoundWasOffered'
  BY <1>1, <1>2, <1>3 DEF Tools!IInv, Tools!FoundWasOffered, Tools!Catalog
<1>6. Tools!WorkerIsConfined' /\ Tools!StepsAreListed'
  BY <1>2 DEF Tools!IInv, Tools!WorkerIsConfined, Tools!StepsAreListed
<1>7. Tools!CallsAreBound'
  BY <1>2, <1>3 DEF Tools!IInv, Tools!CallsAreBound
<1>. QED  BY <1>4, <1>5, <1>6, <1>7 DEF Tools!IInv

LEMMA ToolsProposeKeeps == ASSUME Tools!IInv, Tools!Propose PROVE Tools!IInv'
<1>1. /\ x7["agent"].pc = "search" /\ x7' = [x7 EXCEPT !["agent"] = Tools!NoCall]
      /\ UNCHANGED <<x1, x2, x3, x5, x6, x8>>
  BY DEF Tools!Propose
<1>2. PICK new \in SUBSET x7["agent"].seen :
        /\ x4' = [x4 EXCEPT !.pending = @ \cup new]
        /\ x9' = x9 \cup {x3[n].adapter : n \in {m \in new : x3[m] # None}}
  BY DEF Tools!Propose
<1>3. new \subseteq {"Bash", "Lookup"} /\ \A n \in new : x3[n] # None
  BY <1>1 DEF Tools!IInv, Tools!TypeOK, Tools!Calls, Tools!Runners, Tools!FoundWasOffered
<1>4. /\ x4'.promoted = x4.promoted /\ x4'.pending = x4.pending \cup new
      /\ x4' \in [promoted : SUBSET {"Bash", "Lookup"}, pending : SUBSET {"Bash", "Lookup"}]
  BY <1>2, <1>3 DEF Tools!IInv, Tools!TypeOK
<1>5. x9' \subseteq Nat /\ x9 \subseteq x9' /\ \A n \in new : x3[n].adapter \in x9'
  <2>1. \A n \in new : x3[n].adapter \in Nat
    BY <1>3 DEF Tools!IInv, Tools!TypeOK, Tools!Adapters
  <2>. QED  BY <1>2, <1>3, <2>1 DEF Tools!IInv, Tools!TypeOK
<1>6. /\ x7' \in [Tools!Runners -> Tools!Calls]
      /\ x7'["agent"].pc # "search"
      /\ \A q \in Tools!Runners : x7'[q].pc \in {"gated", "checked"} => x7'[q] = x7[q]
  BY <1>1, ToolsNoCallIsCall DEF Tools!IInv, Tools!TypeOK, Tools!Runners
<1>7. Tools!TypeOK'
  BY <1>1, <1>4, <1>5, <1>6 DEF Tools!IInv, Tools!TypeOK
<1>8. Tools!FoundWasOffered'
  BY <1>1, <1>3, <1>4, <1>5, <1>6 DEF Tools!IInv, Tools!FoundWasOffered
<1>9. Tools!WorkerIsConfined' /\ Tools!StepsAreListed'
  BY <1>1, <1>5 DEF Tools!IInv, Tools!WorkerIsConfined, Tools!StepsAreListed
<1>10. Tools!CallsAreBound'
  BY <1>1, <1>6 DEF Tools!IInv, Tools!CallsAreBound
<1>. QED  BY <1>7, <1>8, <1>9, <1>10 DEF Tools!IInv

(* Only the call of r moves, and not to a search. *)
LEMMA ToolsCallMoves ==
  ASSUME Tools!IInv, NEW r \in Tools!Runners, NEW next \in Tools!Calls, next.pc # "search",
         x7' = [x7 EXCEPT ![r] = next],
         UNCHANGED <<x1, x2, x3, x4, x5, x6, x8, x9>>,
         next.pc \in {"gated", "checked"} =>
           /\ x6[r] # None /\ next.name \in {"Bash", "Lookup"}
           /\ r = "worker" => x5 # None,
         next.pc = "checked" =>
           /\ x6[r][next.name] # None /\ x6[r][next.name].adapter = next.adapter
           /\ r = "agent" => /\ x3[next.name] # None
                             /\ x3[next.name].adapter = next.adapter
  PROVE  Tools!IInv'
<1>1. /\ x7' \in [Tools!Runners -> Tools!Calls]
      /\ x7'["agent"].pc = "search" => x7'["agent"] = x7["agent"]
  BY DEF Tools!IInv, Tools!TypeOK, Tools!Runners
<1>2. Tools!TypeOK'
  BY <1>1 DEF Tools!IInv, Tools!TypeOK
<1>3. Tools!FoundWasOffered' /\ Tools!WorkerIsConfined' /\ Tools!StepsAreListed'
  BY <1>1 DEF Tools!IInv, Tools!FoundWasOffered, Tools!WorkerIsConfined, Tools!StepsAreListed
<1>4. Tools!CallsAreBound'
  <2>1. ASSUME NEW q \in Tools!Runners PROVE x7'[q] = IF q = r THEN next ELSE x7[q]
    BY DEF Tools!IInv, Tools!TypeOK
  <2>. QED  BY <2>1 DEF Tools!IInv, Tools!CallsAreBound
<1>. QED  BY <1>2, <1>3, <1>4 DEF Tools!IInv

LEMMA ToolsRefuseKeeps ==
  ASSUME Tools!IInv, NEW r \in Tools!Runners, Tools!Refuse(r) PROVE Tools!IInv'
BY ToolsNoCallIsCall, ToolsCallMoves DEF Tools!Refuse

LEMMA ToolsBeginKeeps ==
  ASSUME Tools!IInv, NEW r \in Tools!Runners, NEW n \in {"Bash", "Lookup"}, Tools!Begin(r, n)
  PROVE  Tools!IInv'
<1> DEFINE next == [Tools!NoCall EXCEPT !.pc = "gated", !.name = n]
<1>1. next \in Tools!Calls /\ next.pc = "gated" /\ next.name = n
  BY DEF Tools!NoCall, Tools!Calls, Tools!Places
<1>2. /\ x7' = [x7 EXCEPT ![r] = next]
      /\ UNCHANGED <<x1, x2, x3, x4, x5, x6, x8, x9>>
      /\ x6[r] # None /\ (r = "worker" => x5 # None)
  BY DEF Tools!Begin, Tools!IsDerived
<1>. HIDE DEF next
<1>. QED  BY <1>1, <1>2, ToolsCallMoves

(* A call that passes is bound to the adapter its step has shown. *)
LEMMA ToolsBindKeeps ==
  ASSUME Tools!IInv, NEW r \in Tools!Runners, NEW n, n = x7[r].name, x7[r].pc = "gated",
         Tools!Bound(r, n),
         x7' = [x7 EXCEPT ![r].pc = "checked", ![r].adapter = Tools!Registered(r, n).adapter],
         UNCHANGED <<x1, x2, x3, x4, x5, x6, x8, x9>>
  PROVE  Tools!IInv'
<1> DEFINE a == Tools!Registered(r, n).adapter
           next == [[x7[r] EXCEPT !.pc = "checked"] EXCEPT !.adapter = a]
<1>1. n \in {"Bash", "Lookup"} /\ x6[r] # None /\ (r = "worker" => x5 # None)
  BY DEF Tools!IInv, Tools!CallsAreBound
<1>2. x6[r][n] # None /\ Tools!Registered(r, n) # None /\ x6[r][n].adapter = a
  BY DEF Tools!Bound
<1>3. a \in Nat
  <2>1. x6[r] \in Tools!Snapshots
    BY <1>1 DEF Tools!IInv, Tools!TypeOK
  <2>2. x6[r][n] \in Tools!Bindings
    BY <1>1, <1>2, <2>1 DEF Tools!Snapshots
  <2>. QED  BY <1>2, <2>2 DEF Tools!Bindings
<1>4. r = "agent" => x3[n] # None /\ x3[n].adapter = a
  BY <1>2 DEF Tools!Registered
<1>5. x7' = [x7 EXCEPT ![r] = next]
  BY DEF Tools!IInv, Tools!TypeOK, Tools!Calls
<1>. HIDE DEF a
<1>6. next \in Tools!Calls /\ next.pc = "checked" /\ next.name = n /\ next.adapter = a
  <2>1. x7[r] \in Tools!Calls
    BY DEF Tools!IInv, Tools!TypeOK
  <2>2. [x7[r] EXCEPT !.pc = "checked"] \in Tools!Calls
    BY <2>1 DEF Tools!Calls, Tools!Places
  <2>. QED  BY <1>3, <2>1, <2>2 DEF Tools!Calls
<1>. HIDE DEF next
<1>. QED  BY <1>1, <1>2, <1>4, <1>5, <1>6, ToolsCallMoves

LEMMA ToolsCheckBindingKeeps ==
  ASSUME Tools!IInv, NEW r \in Tools!Runners, Tools!CheckBinding(r) PROVE Tools!IInv'
BY ToolsRefuseKeeps, ToolsBindKeeps DEF Tools!CheckBinding

LEMMA ToolsStartKeeps ==
  ASSUME Tools!IInv, NEW r \in Tools!Runners, Tools!Start(r) PROVE Tools!IInv'
<1> DEFINE next == [x7[r] EXCEPT !.pc = "running"]
<1>1. CASE Tools!Refuse(r)
  BY <1>1, ToolsRefuseKeeps
<1>2. CASE /\ x7' = [x7 EXCEPT ![r].pc = "running"]
           /\ UNCHANGED <<x1, x2, x3, x4, x5, x6, x8, x9>>
  <2>1. x7' = [x7 EXCEPT ![r] = next] /\ next \in Tools!Calls /\ next.pc = "running"
    BY <1>2 DEF Tools!IInv, Tools!TypeOK, Tools!Calls, Tools!Places
  <2>. HIDE DEF next
  <2>. QED  BY <1>2, <2>1, ToolsCallMoves
<1>. QED  BY <1>1, <1>2 DEF Tools!Start

LEMMA ToolsNextIInv == ASSUME Tools!IInv, [Tools!Next]_(Tools!vars) PROVE Tools!IInv'
<1>1. CASE UNCHANGED Tools!vars
  <2>1. Tools!TypeOK'
    BY <1>1 DEF Tools!vars, Tools!IInv, Tools!TypeOK
  <2>2. /\ Tools!FoundWasOffered'
        /\ Tools!WorkerIsConfined'
        /\ Tools!StepsAreListed'
        /\ Tools!CallsAreBound'
    BY <1>1
       DEF Tools!vars, Tools!IInv, Tools!FoundWasOffered, Tools!WorkerIsConfined,
           Tools!StepsAreListed, Tools!CallsAreBound
  <2>. QED  BY <2>1, <2>2 DEF Tools!IInv
<1>2. CASE \E o \in {"mcp"} :
             \/ \E n \in {"Bash", "Lookup"} : Tools!Unregister(o, n)
             \/ \E n \in {"Bash", "Lookup"}, form \in {"object", "function"} : Tools!Register(o, n, form)
             \/ \E names \in SUBSET {"Bash", "Lookup"} : Tools!ReplaceOwned(o, names)
  BY <1>2, ToolsRegisterKeeps, ToolsUnregisterKeeps, ToolsReplaceOwnedKeeps
<1>3. CASE (\E n \in {"Bash", "Lookup"} : Tools!SchemaChanges(n))
           \/ Tools!SetMode \/ Tools!Derive \/ Tools!Activate \/ Tools!BeginSearch \/ Tools!Propose
  BY <1>3, ToolsSchemaChangesKeeps, ToolsSetModeKeeps, ToolsDeriveKeeps, ToolsActivateKeeps,
      ToolsBeginSearchKeeps,
      ToolsProposeKeeps
<1>4. CASE \E r \in Tools!Runners :
             \/ Tools!CaptureStep(r) \/ Tools!CheckBinding(r) \/ Tools!Start(r) \/ Tools!Return(r)
             \/ \E n \in {"Bash", "Lookup"} : Tools!Begin(r, n)
  BY <1>4, ToolsCaptureStepKeeps, ToolsCheckBindingKeeps, ToolsStartKeeps, ToolsRefuseKeeps,
     ToolsBeginKeeps
     DEF Tools!Return
<1>. QED  BY <1>1, <1>2, <1>3, <1>4 DEF Tools!Next

(* Only Start lets a call run. *)
LEMMA ToolsOnlyStartRuns ==
  ASSUME Tools!IInv, [Tools!Next]_(Tools!vars), NEW r \in Tools!Runners, x7[r].pc # "running",
         x7'[r].pc = "running"
  PROVE  Tools!Start(r) /\ x7'[r].name = x7[r].name /\ x7'[r].adapter = x7[r].adapter
<1>1. /\ x7 \in [Tools!Runners -> Tools!Calls] /\ Tools!NoCall.pc = "idle"
  BY ToolsNoCallIsCall DEF Tools!IInv, Tools!TypeOK
<1>2. x7' # x7
  OBVIOUS
<1>3. Tools!Next /\ ~(\E o \in {"mcp"} :
             \/ \E n \in {"Bash", "Lookup"} : Tools!Unregister(o, n)
             \/ \E n \in {"Bash", "Lookup"}, form \in {"object", "function"} : Tools!Register(o, n, form)
             \/ \E names \in SUBSET {"Bash", "Lookup"} : Tools!ReplaceOwned(o, names))
           /\ ~(\E n \in {"Bash", "Lookup"} : Tools!SchemaChanges(n)) /\ ~Tools!SetMode /\ ~Tools!Derive
  BY <1>2
     DEF Tools!vars, Tools!Register, Tools!Unregister, Tools!ReplaceOwned,
         Tools!SchemaChanges, Tools!SetMode, Tools!Derive
<1>4. ~Tools!Activate /\ ~Tools!BeginSearch /\ ~Tools!Propose
  BY <1>1 DEF Tools!Activate, Tools!BeginSearch, Tools!Propose, Tools!NoCall, Tools!Runners
<1>5. ASSUME NEW q \in Tools!Runners PROVE ~Tools!CaptureStep(q) /\ ~Tools!Refuse(q)
  BY <1>1 DEF Tools!CaptureStep, Tools!Refuse
<1>6. ASSUME NEW q \in Tools!Runners PROVE ~Tools!CheckBinding(q)
  BY <1>1, <1>5 DEF Tools!CheckBinding, Tools!Calls
<1>7. ASSUME NEW q \in Tools!Runners, NEW n \in {"Bash", "Lookup"} PROVE ~Tools!Begin(q, n)
  BY <1>1 DEF Tools!Begin, Tools!NoCall
<1>8. PICK q \in Tools!Runners : Tools!Start(q)
  BY <1>3, <1>4, <1>5, <1>6, <1>7 DEF Tools!Next, Tools!Return
<1>9. x7' = [x7 EXCEPT ![q].pc = "running"]
  BY <1>5, <1>8 DEF Tools!Start
<1>. QED  BY <1>1, <1>8, <1>9 DEF Tools!Calls

(* What starts was bound to its step, is permitted now, and was offered. *)
LEMMA ToolsStartsApproved ==
  ASSUME Tools!IInv, [Tools!Next]_(Tools!vars) PROVE Tools!StartsAsApproved
<1> SUFFICES ASSUME NEW r \in Tools!Runners, x7[r].pc # "running", x7'[r].pc = "running",
                    NEW n, n = x7[r].name, NEW a, a = x7[r].adapter,
                    x7'[r].name = n, x7'[r].adapter = a, Tools!Start(r)
             PROVE  /\ x6[r][n] # None /\ x6[r][n].adapter = a
                    /\ r = "agent" => x3[n] # None /\ x3[n].adapter = a
                                      /\ x3[n].schema = x6[r][n].schema
                    /\ r = "worker" => n \notin {}
                    /\ Tools!ModeAllows(r, n)
                    /\ x1 = "deferred" /\ n \notin {"Bash"} => a \in x9
                    /\ x1 = "sealed" => n \in {"Bash"}
  BY ToolsOnlyStartRuns DEF Tools!StartsAsApproved
<1>1. ~Tools!Refuse(r)
  BY ToolsNoCallIsCall DEF Tools!Refuse, Tools!IInv, Tools!TypeOK
<1>2. /\ x7[r].pc = "checked" /\ Tools!ModeAllows(r, n)
      /\ x3[n] # None /\ x3[n].adapter = a => x3[n].schema = x6[r][n].schema
  BY <1>1 DEF Tools!Start
<1>3. /\ n \in {"Bash", "Lookup"} /\ x6[r] # None /\ x6[r][n] # None /\ x6[r][n].adapter = a
      /\ r = "agent" => x3[n] # None /\ x3[n].adapter = a
  BY <1>2 DEF Tools!IInv, Tools!CallsAreBound
<1>. QED  BY <1>2, <1>3 DEF Tools!IInv, Tools!StepsAreListed

-----------------------------------------------------------------------------
(* The same of the deferred tool. *)

LEMMA DeferredInitIInv == ASSUME Deferred!Init PROVE Deferred!IInv
<1>1. Deferred!TypeOK
  BY DEF Deferred!Init, Deferred!TypeOK, Deferred!Runners, Deferred!Calls, Deferred!NoCall,
      Deferred!Places, Deferred!Adapters
<1>2. /\ Deferred!FoundWasOffered
      /\ Deferred!WorkerIsConfined
      /\ Deferred!StepsAreListed
      /\ Deferred!CallsAreBound
  BY DEF Deferred!Init, Deferred!NoCall, Deferred!FoundWasOffered,
      Deferred!WorkerIsConfined, Deferred!StepsAreListed, Deferred!CallsAreBound,
      Deferred!Runners
<1>. QED  BY <1>1, <1>2 DEF Deferred!IInv

(* The registry.                                                           *)

(* A source holds the lock: no call is bound to what it changes, and what a   *)
(* search has found either stays or is forgotten.                           *)
LEMMA DeferredSourceKeeps ==
  ASSUME Deferred!IInv, Deferred!Unlocked,
         UNCHANGED <<x1, x2, x5, x6, x7, x9>>,
         x3' \in [{"Lookup"} -> Deferred!Adapters \cup {None}], x8' \in Nat,
         x4' \in [promoted : SUBSET {"Lookup"}, pending : SUBSET {"Lookup"}],
         x1 = "deferred" => \A n \in x4'.promoted \cup x4'.pending :
           /\ n \in x4.promoted \cup x4.pending
           /\ x3'[n] # None /\ x3'[n].adapter = x3[n].adapter
  PROVE  Deferred!IInv'
<1>1. x7["agent"].pc \notin {"checked", "search"}
  BY ToolsAssumption DEF Deferred!Unlocked
<1>2. Deferred!TypeOK'
  BY DEF Deferred!IInv, Deferred!TypeOK
<1>3. Deferred!FoundWasOffered'
  BY <1>1 DEF Deferred!IInv, Deferred!FoundWasOffered
<1>4. Deferred!WorkerIsConfined' /\ Deferred!StepsAreListed'
  BY DEF Deferred!IInv, Deferred!WorkerIsConfined, Deferred!StepsAreListed, Deferred!SourceCurrent
<1>5. Deferred!CallsAreBound'
  BY <1>1 DEF Deferred!IInv, Deferred!CallsAreBound
<1>. QED  BY <1>2, <1>3, <1>4, <1>5 DEF Deferred!IInv

(* Names whose adapter goes are neither promoted nor proposed any more. *)
LEMMA DeferredInvalidateForgets ==
  ASSUME NEW names, Deferred!TypeOK, Deferred!Invalidate(names)
  PROVE  /\ x4' \in [promoted : SUBSET {"Lookup"}, pending : SUBSET {"Lookup"}]
         /\ x1 = "deferred" => \A n \in x4'.promoted \cup x4'.pending :
              n \in x4.promoted \cup x4.pending /\ n \notin names
BY DEF Deferred!Invalidate, Deferred!TypeOK

LEMMA DeferredRegisterKeeps ==
  ASSUME Deferred!IInv, NEW o \in {"mcp"}, NEW n \in {"Lookup"},
         NEW form \in {"object", "function"}, Deferred!Register(o, n, form)
  PROVE  Deferred!IInv'
<1>1. Deferred!TypeOK /\ Deferred!FoundWasOffered
  BY DEF Deferred!IInv
<1>2. Deferred!Adapter(x8 + 1, o, form) \in Deferred!Adapters /\ x8' \in Nat
  BY <1>1 DEF Deferred!Adapter, Deferred!Adapters, Deferred!TypeOK, Deferred!Register
<1>3. /\ x3' = [x3 EXCEPT ![n] = Deferred!Adapter(x8 + 1, o, form)]
      /\ x3' \in [{"Lookup"} -> Deferred!Adapters \cup {None}]
  BY <1>1, <1>2 DEF Deferred!Register, Deferred!TypeOK
<1>4. /\ x4' \in [promoted : SUBSET {"Lookup"}, pending : SUBSET {"Lookup"}]
      /\ x1 = "deferred" => \A m \in x4'.promoted \cup x4'.pending :
           m \in x4.promoted \cup x4.pending /\ m # n
  <2>1. CASE x3[n] # None
    BY <1>1, <2>1, DeferredInvalidateForgets DEF Deferred!Register
  <2>2. CASE x3[n] = None
    BY <1>1, <2>2 DEF Deferred!Register, Deferred!TypeOK, Deferred!FoundWasOffered
  <2>. QED  BY <2>1, <2>2
<1>5. x1 = "deferred" => \A m \in x4'.promoted \cup x4'.pending :
        /\ m \in x4.promoted \cup x4.pending
        /\ x3'[m] # None /\ x3'[m].adapter = x3[m].adapter
  BY <1>1, <1>3, <1>4 DEF Deferred!TypeOK, Deferred!FoundWasOffered
<1>6. Deferred!Unlocked /\ UNCHANGED <<x1, x2, x5, x6, x7, x9>>
  BY DEF Deferred!Register
<1>. QED  BY <1>2, <1>3, <1>4, <1>5, <1>6, DeferredSourceKeeps

LEMMA DeferredUnregisterKeeps ==
  ASSUME Deferred!IInv, NEW o \in {"mcp"}, NEW n \in {"Lookup"}, Deferred!Unregister(o, n)
  PROVE  Deferred!IInv'
<1>1. Deferred!TypeOK /\ Deferred!FoundWasOffered
  BY DEF Deferred!IInv
<1>2. /\ x3' = [x3 EXCEPT ![n] = None]
      /\ x3' \in [{"Lookup"} -> Deferred!Adapters \cup {None}] /\ x8' \in Nat
  BY <1>1 DEF Deferred!Unregister, Deferred!TypeOK
<1>3. /\ x4' \in [promoted : SUBSET {"Lookup"}, pending : SUBSET {"Lookup"}]
      /\ x1 = "deferred" => \A m \in x4'.promoted \cup x4'.pending :
           m \in x4.promoted \cup x4.pending /\ m \notin {n}
  BY <1>1, DeferredInvalidateForgets DEF Deferred!Unregister
<1>4. x1 = "deferred" => \A m \in x4'.promoted \cup x4'.pending :
        /\ m \in x4.promoted \cup x4.pending
        /\ x3'[m] # None /\ x3'[m].adapter = x3[m].adapter
  BY <1>1, <1>2, <1>3 DEF Deferred!TypeOK, Deferred!FoundWasOffered
<1>5. Deferred!Unlocked /\ UNCHANGED <<x1, x2, x5, x6, x7, x9>>
  BY DEF Deferred!Unregister
<1>. QED  BY <1>2, <1>3, <1>4, <1>5, DeferredSourceKeeps

LEMMA DeferredReplaceOwnedKeeps ==
  ASSUME Deferred!IInv, NEW o \in {"mcp"}, NEW names \in SUBSET {"Lookup"},
         Deferred!ReplaceOwned(o, names)
  PROVE  Deferred!IInv'
<1> DEFINE old == {n \in {"Lookup"} : x3[n] # None /\ x3[n].owner = o}
<1>1. Deferred!TypeOK /\ Deferred!FoundWasOffered
  BY DEF Deferred!IInv
<1>2. Deferred!Adapter(x8 + 1, o, "object") \in Deferred!Adapters /\ x8' \in Nat
  BY <1>1 DEF Deferred!Adapter, Deferred!Adapters, Deferred!TypeOK, Deferred!ReplaceOwned
<1>3. /\ Deferred!Invalidate(old)
      /\ x3' = [n \in {"Lookup"} |-> IF n \in names THEN Deferred!Adapter(x8 + 1, o, "object")
                                   ELSE IF n \in old THEN None ELSE x3[n]]
  BY DEF Deferred!ReplaceOwned
<1>4. x3' \in [{"Lookup"} -> Deferred!Adapters \cup {None}]
  BY <1>1, <1>2, <1>3 DEF Deferred!TypeOK
<1>5. /\ x4' \in [promoted : SUBSET {"Lookup"}, pending : SUBSET {"Lookup"}]
      /\ x1 = "deferred" => \A n \in x4'.promoted \cup x4'.pending :
           n \in x4.promoted \cup x4.pending /\ n \notin old
  BY <1>1, <1>3, DeferredInvalidateForgets
<1>6. ASSUME x1 = "deferred", NEW n \in x4'.promoted \cup x4'.pending
      PROVE  /\ n \in x4.promoted \cup x4.pending
             /\ x3'[n] # None /\ x3'[n].adapter = x3[n].adapter
  <2>1. n \in {"Lookup"} /\ x3[n] # None /\ n \notin old
    BY <1>1, <1>5, <1>6 DEF Deferred!TypeOK, Deferred!FoundWasOffered
  <2>2. n \notin names
    BY <2>1 DEF Deferred!ReplaceOwned, Deferred!MayTake
  <2>. QED  BY <1>3, <1>5, <1>6, <2>1, <2>2
<1>7. Deferred!Unlocked /\ UNCHANGED <<x1, x2, x5, x6, x7, x9>>
  BY DEF Deferred!ReplaceOwned
<1>. QED  BY <1>2, <1>4, <1>5, <1>6, <1>7, DeferredSourceKeeps

LEMMA DeferredSchemaChangesKeeps ==
  ASSUME Deferred!IInv, NEW n \in {"Lookup"}, Deferred!SchemaChanges(n)
  PROVE  Deferred!IInv'
<1>1. Deferred!TypeOK /\ Deferred!FoundWasOffered
  BY DEF Deferred!IInv
<1>2. x3[n] \in Deferred!Adapters /\ 1 - x3[n].schema \in {0, 1}
  BY <1>1 DEF Deferred!SchemaChanges, Deferred!TypeOK, Deferred!Adapters
<1>3. x3' = [x3 EXCEPT ![n] = [x3[n] EXCEPT !.schema = 1 - x3[n].schema]]
  BY DEF Deferred!SchemaChanges
<1>4. /\ [x3[n] EXCEPT !.schema = 1 - x3[n].schema] \in Deferred!Adapters
      /\ [x3[n] EXCEPT !.schema = 1 - x3[n].schema].adapter = x3[n].adapter
  BY <1>2 DEF Deferred!Adapters
<1>5. x3' \in [{"Lookup"} -> Deferred!Adapters \cup {None}]
  BY <1>1, <1>3, <1>4 DEF Deferred!TypeOK
<1>6. ASSUME NEW m \in {"Lookup"}, x3[m] # None
      PROVE  x3'[m] # None /\ x3'[m].adapter = x3[m].adapter
  BY <1>1, <1>3, <1>4, <1>6, ToolsAssumption DEF Deferred!TypeOK
<1>7. Deferred!Unlocked /\ UNCHANGED <<x1, x2, x5, x6, x7, x9, x4, x8>>
  BY DEF Deferred!SchemaChanges
<1>8. /\ x4' \in [promoted : SUBSET {"Lookup"}, pending : SUBSET {"Lookup"}] /\ x8' \in Nat
      /\ x1 = "deferred" => \A m \in x4'.promoted \cup x4'.pending :
           /\ m \in x4.promoted \cup x4.pending
           /\ x3'[m] # None /\ x3'[m].adapter = x3[m].adapter
  BY <1>1, <1>6, <1>7 DEF Deferred!TypeOK, Deferred!FoundWasOffered
<1>. QED  BY <1>5, <1>7, <1>8, DeferredSourceKeeps

LEMMA DeferredSetModeKeeps == ASSUME Deferred!IInv, Deferred!SetMode PROVE Deferred!IInv'
<1>1. Deferred!TypeOK'
  BY DEF Deferred!IInv, Deferred!TypeOK, Deferred!SetMode
<1>2. /\ Deferred!FoundWasOffered'
      /\ Deferred!WorkerIsConfined'
      /\ Deferred!StepsAreListed'
      /\ Deferred!CallsAreBound'
  BY DEF Deferred!IInv, Deferred!SetMode, Deferred!FoundWasOffered,
      Deferred!WorkerIsConfined, Deferred!StepsAreListed, Deferred!CallsAreBound
<1>. QED  BY <1>1, <1>2 DEF Deferred!IInv

LEMMA DeferredDeriveKeeps == ASSUME Deferred!IInv, Deferred!Derive PROVE Deferred!IInv'
<1>1. ASSUME NEW n \in {"Lookup"}, x3[n] # None
      PROVE  [adapter |-> x3[n].adapter, schema |-> x3[n].schema] \in Deferred!Bindings
  BY <1>1 DEF Deferred!IInv, Deferred!TypeOK, Deferred!Adapters, Deferred!Bindings
<1>2. x5' \in Deferred!Snapshots
  BY <1>1 DEF Deferred!Derive, Deferred!Snapshots
<1>3. Deferred!TypeOK'
  BY <1>2 DEF Deferred!IInv, Deferred!TypeOK, Deferred!Derive
<1>4. Deferred!WorkerIsConfined'
  BY DEF Deferred!Derive, Deferred!WorkerIsConfined
<1>5. Deferred!FoundWasOffered' /\ Deferred!StepsAreListed'
  BY DEF Deferred!IInv, Deferred!Derive, Deferred!FoundWasOffered, Deferred!StepsAreListed
<1>6. Deferred!CallsAreBound'
  <2>1. x7["worker"].pc \notin {"gated", "checked"}
    BY DEF Deferred!IInv, Deferred!CallsAreBound, Deferred!Derive, Deferred!Runners
  <2>. QED  BY <2>1 DEF Deferred!IInv, Deferred!Derive, Deferred!CallsAreBound, Deferred!Runners
<1>. QED  BY <1>3, <1>4, <1>5, <1>6 DEF Deferred!IInv

(* Steps, searches and calls.                                              *)

(* A call of one runner moves to where it is bound to nothing.              *)
LEMMA DeferredCallEnds ==
  ASSUME Deferred!IInv, NEW r \in Deferred!Runners, NEW next \in Deferred!Calls,
         next.pc \notin {"search", "gated", "checked"},
         x7' = [x7 EXCEPT ![r] = next],
         UNCHANGED <<x1, x2, x3, x5, x8>>
  PROVE  /\ x7' \in [Deferred!Runners -> Deferred!Calls]
         /\ x7'["agent"].pc = "search" => x7' ["agent"] = x7["agent"]
         /\ \A q \in Deferred!Runners : x7'[q].pc \in {"gated", "checked"} =>
              q # r /\ x7'[q] = x7[q]
BY DEF Deferred!IInv, Deferred!TypeOK, Deferred!Runners

LEMMA DeferredNoCallIsCall == Deferred!NoCall \in Deferred!Calls /\ Deferred!NoCall.pc = "idle"
BY DEF Deferred!NoCall, Deferred!Calls, Deferred!Places

LEMMA DeferredActivateKeeps == ASSUME Deferred!IInv, Deferred!Activate PROVE Deferred!IInv'
<1> DEFINE next == [Deferred!NoCall EXCEPT !.pc = "activated"]
<1>1. next \in Deferred!Calls /\ next.pc = "activated"
  BY DEF Deferred!NoCall, Deferred!Calls, Deferred!Places
<1>2. x7' = [x7 EXCEPT !["agent"] = next] /\ UNCHANGED <<x1, x2, x3, x5, x6, x8, x9>>
  BY DEF Deferred!Activate
<1>. HIDE DEF next
<1>3. /\ x7' \in [Deferred!Runners -> Deferred!Calls]
      /\ x7'["agent"].pc # "search"
      /\ \A q \in Deferred!Runners : x7'[q].pc \in {"gated", "checked"} => q # "agent" /\ x7'[q] = x7[q]
  BY <1>1, <1>2 DEF Deferred!IInv, Deferred!TypeOK, Deferred!Runners
<1>4. PICK new \in SUBSET (x4.pending \cap Deferred!Catalog("agent")) :
        x4' = [promoted |-> x4.promoted \cup new, pending |-> {}]
  BY DEF Deferred!Activate
<1>5. x4' \in [promoted : SUBSET {"Lookup"}, pending : SUBSET {"Lookup"}]
  BY <1>4 DEF Deferred!IInv, Deferred!TypeOK
<1>6. Deferred!TypeOK'
  BY <1>2, <1>3, <1>5 DEF Deferred!IInv, Deferred!TypeOK
<1>7. Deferred!FoundWasOffered'
  BY <1>2, <1>3, <1>4 DEF Deferred!IInv, Deferred!FoundWasOffered
<1>8. Deferred!WorkerIsConfined' /\ Deferred!StepsAreListed'
  BY <1>2 DEF Deferred!IInv, Deferred!WorkerIsConfined, Deferred!StepsAreListed
<1>9. Deferred!CallsAreBound'
  BY <1>2, <1>3 DEF Deferred!IInv, Deferred!CallsAreBound
<1>. QED  BY <1>6, <1>7, <1>8, <1>9 DEF Deferred!IInv

LEMMA DeferredCaptureStepKeeps ==
  ASSUME Deferred!IInv, NEW r \in Deferred!Runners, Deferred!CaptureStep(r) PROVE Deferred!IInv'
<1> DEFINE snapshot == [n \in {"Lookup"} |-> IF n \in Deferred!Listed(r)
             THEN [adapter |-> x3[n].adapter, schema |-> x3[n].schema] ELSE None]
<1>1. /\ x6' = [x6 EXCEPT ![r] = snapshot]
      /\ x7' = [x7 EXCEPT ![r] = Deferred!NoCall]
      /\ UNCHANGED <<x1, x2, x3, x4, x5, x8, x9>>
  BY DEF Deferred!CaptureStep
<1>2. ASSUME NEW n \in {"Lookup"}, snapshot[n] # None
      PROVE  /\ snapshot[n] \in Deferred!Bindings /\ snapshot[n].adapter = x3[n].adapter
             /\ x3[n] # None /\ Deferred!Visible(n) /\ Deferred!Allowed(r, n)
  <2>1. n \in Deferred!Listed(r)
    BY <1>2
  <2>2. x3[n] \in Deferred!Adapters /\ x3[n] # None /\ Deferred!Visible(n) /\ Deferred!Allowed(r, n)
    BY <2>1 DEF Deferred!IInv, Deferred!TypeOK, Deferred!Listed, Deferred!Catalog
  <2>. QED  BY <2>1, <2>2 DEF Deferred!Adapters, Deferred!Bindings
<1>3. ASSUME NEW n \in {"Lookup"}, snapshot[n] # None
      PROVE  /\ x1 = "deferred" /\ n \notin {} => snapshot[n].adapter \in x9
             /\ x1 = "sealed" => n \in {}
             /\ r = "worker" => n \notin {}
  <2>1. x3[n] # None /\ Deferred!Visible(n) /\ Deferred!Allowed(r,
      n) /\ snapshot[n].adapter = x3[n].adapter
    BY <1>2, <1>3
  <2>2. x1 = "deferred" /\ n \notin {} => snapshot[n].adapter \in x9
    BY <2>1 DEF Deferred!IInv, Deferred!FoundWasOffered, Deferred!Visible
  <2>3. r = "worker" => n \notin {}
    BY <2>1
       DEF Deferred!IInv, Deferred!WorkerIsConfined, Deferred!Allowed,
           Deferred!SourceCurrent, Deferred!CaptureStep, Deferred!IsDerived
  <2>. QED  BY <2>1, <2>2, <2>3 DEF Deferred!Allowed, Deferred!HostedAllowed
<1>4. snapshot \in Deferred!Snapshots
  BY <1>2 DEF Deferred!Snapshots
<1>. HIDE DEF snapshot
<1>5. /\ x7' \in [Deferred!Runners -> Deferred!Calls]
      /\ x7'["agent"].pc = "search" => x7'["agent"] = x7["agent"]
      /\ \A q \in Deferred!Runners : x7'[q].pc \in {"gated", "checked"} =>
           q # r /\ x7'[q] = x7[q] /\ x6'[q] = x6[q]
  BY <1>1, DeferredNoCallIsCall DEF Deferred!IInv, Deferred!TypeOK, Deferred!Runners
<1>6. Deferred!TypeOK'
  BY <1>1, <1>4, <1>5 DEF Deferred!IInv, Deferred!TypeOK
<1>7. Deferred!FoundWasOffered' /\ Deferred!WorkerIsConfined'
  BY <1>1, <1>5 DEF Deferred!IInv, Deferred!FoundWasOffered, Deferred!WorkerIsConfined
<1>8. Deferred!StepsAreListed'
  <2> SUFFICES ASSUME NEW q \in Deferred!Runners, x6'[q] # None, NEW n \in {"Lookup"},
      x6'[q][n] # None
               PROVE  /\ x1 = "deferred" /\ n \notin {} => x6'[q][n].adapter \in x9
                      /\ x1 = "sealed" => n \in {}
                      /\ q = "worker" => n \notin {}
    BY <1>1 DEF Deferred!StepsAreListed
  <2>1. CASE q = r
    BY <1>1, <1>3, <2>1 DEF Deferred!IInv, Deferred!TypeOK
  <2>2. CASE q # r
    BY <1>1, <2>2 DEF Deferred!IInv, Deferred!TypeOK, Deferred!StepsAreListed
  <2>. QED  BY <2>1, <2>2
<1>9. Deferred!CallsAreBound'
  BY <1>1, <1>5 DEF Deferred!IInv, Deferred!CallsAreBound
<1>. QED  BY <1>6, <1>7, <1>8, <1>9 DEF Deferred!IInv

LEMMA DeferredBeginSearchKeeps == ASSUME Deferred!IInv, Deferred!BeginSearch PROVE Deferred!IInv'
<1> DEFINE next == [Deferred!NoCall EXCEPT !.pc = "search", !.seen = Deferred!Catalog("agent")]
<1>1. next \in Deferred!Calls /\ next.pc = "search" /\ next.seen = Deferred!Catalog("agent")
  BY DEF Deferred!NoCall, Deferred!Calls, Deferred!Places, Deferred!Catalog
<1>2. x7' = [x7 EXCEPT !["agent"] = next] /\ UNCHANGED <<x1, x2, x3, x4, x5, x6, x8, x9>>
  BY DEF Deferred!BeginSearch
<1>. HIDE DEF next
<1>3. /\ x7' \in [Deferred!Runners -> Deferred!Calls] /\ x7'["agent"] = next
      /\ \A q \in Deferred!Runners : x7'[q].pc \in {"gated", "checked"} => x7'[q] = x7[q]
  BY <1>1, <1>2 DEF Deferred!IInv, Deferred!TypeOK, Deferred!Runners
<1>4. Deferred!TypeOK'
  BY <1>2, <1>3 DEF Deferred!IInv, Deferred!TypeOK
<1>5. Deferred!FoundWasOffered'
  BY <1>1, <1>2, <1>3 DEF Deferred!IInv, Deferred!FoundWasOffered, Deferred!Catalog
<1>6. Deferred!WorkerIsConfined' /\ Deferred!StepsAreListed'
  BY <1>2 DEF Deferred!IInv, Deferred!WorkerIsConfined, Deferred!StepsAreListed
<1>7. Deferred!CallsAreBound'
  BY <1>2, <1>3 DEF Deferred!IInv, Deferred!CallsAreBound
<1>. QED  BY <1>4, <1>5, <1>6, <1>7 DEF Deferred!IInv

LEMMA DeferredProposeKeeps == ASSUME Deferred!IInv, Deferred!Propose PROVE Deferred!IInv'
<1>1. /\ x7["agent"].pc = "search" /\ x7' = [x7 EXCEPT !["agent"] = Deferred!NoCall]
      /\ UNCHANGED <<x1, x2, x3, x5, x6, x8>>
  BY DEF Deferred!Propose
<1>2. PICK new \in SUBSET x7["agent"].seen :
        /\ x4' = [x4 EXCEPT !.pending = @ \cup new]
        /\ x9' = x9 \cup {x3[n].adapter : n \in {m \in new : x3[m] # None}}
  BY DEF Deferred!Propose
<1>3. new \subseteq {"Lookup"} /\ \A n \in new : x3[n] # None
  BY <1>1
     DEF Deferred!IInv, Deferred!TypeOK, Deferred!Calls, Deferred!Runners,
         Deferred!FoundWasOffered
<1>4. /\ x4'.promoted = x4.promoted /\ x4'.pending = x4.pending \cup new
      /\ x4' \in [promoted : SUBSET {"Lookup"}, pending : SUBSET {"Lookup"}]
  BY <1>2, <1>3 DEF Deferred!IInv, Deferred!TypeOK
<1>5. x9' \subseteq Nat /\ x9 \subseteq x9' /\ \A n \in new : x3[n].adapter \in x9'
  <2>1. \A n \in new : x3[n].adapter \in Nat
    BY <1>3 DEF Deferred!IInv, Deferred!TypeOK, Deferred!Adapters
  <2>. QED  BY <1>2, <1>3, <2>1 DEF Deferred!IInv, Deferred!TypeOK
<1>6. /\ x7' \in [Deferred!Runners -> Deferred!Calls]
      /\ x7'["agent"].pc # "search"
      /\ \A q \in Deferred!Runners : x7'[q].pc \in {"gated", "checked"} => x7'[q] = x7[q]
  BY <1>1, DeferredNoCallIsCall DEF Deferred!IInv, Deferred!TypeOK, Deferred!Runners
<1>7. Deferred!TypeOK'
  BY <1>1, <1>4, <1>5, <1>6 DEF Deferred!IInv, Deferred!TypeOK
<1>8. Deferred!FoundWasOffered'
  BY <1>1, <1>3, <1>4, <1>5, <1>6 DEF Deferred!IInv, Deferred!FoundWasOffered
<1>9. Deferred!WorkerIsConfined' /\ Deferred!StepsAreListed'
  BY <1>1, <1>5 DEF Deferred!IInv, Deferred!WorkerIsConfined, Deferred!StepsAreListed
<1>10. Deferred!CallsAreBound'
  BY <1>1, <1>6 DEF Deferred!IInv, Deferred!CallsAreBound
<1>. QED  BY <1>7, <1>8, <1>9, <1>10 DEF Deferred!IInv

(* Only the call of r moves, and not to a search. *)
LEMMA DeferredCallMoves ==
  ASSUME Deferred!IInv, NEW r \in Deferred!Runners, NEW next \in Deferred!Calls, next.pc # "search",
         x7' = [x7 EXCEPT ![r] = next],
         UNCHANGED <<x1, x2, x3, x4, x5, x6, x8, x9>>,
         next.pc \in {"gated", "checked"} =>
           /\ x6[r] # None /\ next.name \in {"Lookup"}
           /\ r = "worker" => x5 # None,
         next.pc = "checked" =>
           /\ x6[r][next.name] # None /\ x6[r][next.name].adapter = next.adapter
           /\ r = "agent" => /\ x3[next.name] # None
                             /\ x3[next.name].adapter = next.adapter
  PROVE  Deferred!IInv'
<1>1. /\ x7' \in [Deferred!Runners -> Deferred!Calls]
      /\ x7'["agent"].pc = "search" => x7'["agent"] = x7["agent"]
  BY DEF Deferred!IInv, Deferred!TypeOK, Deferred!Runners
<1>2. Deferred!TypeOK'
  BY <1>1 DEF Deferred!IInv, Deferred!TypeOK
<1>3. Deferred!FoundWasOffered' /\ Deferred!WorkerIsConfined' /\ Deferred!StepsAreListed'
  BY <1>1
     DEF Deferred!IInv, Deferred!FoundWasOffered, Deferred!WorkerIsConfined,
         Deferred!StepsAreListed
<1>4. Deferred!CallsAreBound'
  <2>1. ASSUME NEW q \in Deferred!Runners PROVE x7'[q] = IF q = r THEN next ELSE x7[q]
    BY DEF Deferred!IInv, Deferred!TypeOK
  <2>. QED  BY <2>1 DEF Deferred!IInv, Deferred!CallsAreBound
<1>. QED  BY <1>2, <1>3, <1>4 DEF Deferred!IInv

LEMMA DeferredRefuseKeeps ==
  ASSUME Deferred!IInv, NEW r \in Deferred!Runners, Deferred!Refuse(r) PROVE Deferred!IInv'
BY DeferredNoCallIsCall, DeferredCallMoves DEF Deferred!Refuse

LEMMA DeferredBeginKeeps ==
  ASSUME Deferred!IInv, NEW r \in Deferred!Runners, NEW n \in {"Lookup"}, Deferred!Begin(r, n)
  PROVE  Deferred!IInv'
<1> DEFINE next == [Deferred!NoCall EXCEPT !.pc = "gated", !.name = n]
<1>1. next \in Deferred!Calls /\ next.pc = "gated" /\ next.name = n
  BY DEF Deferred!NoCall, Deferred!Calls, Deferred!Places
<1>2. /\ x7' = [x7 EXCEPT ![r] = next]
      /\ UNCHANGED <<x1, x2, x3, x4, x5, x6, x8, x9>>
      /\ x6[r] # None /\ (r = "worker" => x5 # None)
  BY DEF Deferred!Begin, Deferred!IsDerived
<1>. HIDE DEF next
<1>. QED  BY <1>1, <1>2, DeferredCallMoves

(* A call that passes is bound to the adapter its step has shown. *)
LEMMA DeferredBindKeeps ==
  ASSUME Deferred!IInv, NEW r \in Deferred!Runners, NEW n, n = x7[r].name, x7[r].pc = "gated",
         Deferred!Bound(r, n),
         x7' = [x7 EXCEPT ![r].pc = "checked", ![r].adapter = Deferred!Registered(r, n).adapter],
         UNCHANGED <<x1, x2, x3, x4, x5, x6, x8, x9>>
  PROVE  Deferred!IInv'
<1> DEFINE a == Deferred!Registered(r, n).adapter
           next == [[x7[r] EXCEPT !.pc = "checked"] EXCEPT !.adapter = a]
<1>1. n \in {"Lookup"} /\ x6[r] # None /\ (r = "worker" => x5 # None)
  BY DEF Deferred!IInv, Deferred!CallsAreBound
<1>2. x6[r][n] # None /\ Deferred!Registered(r, n) # None /\ x6[r][n].adapter = a
  BY DEF Deferred!Bound
<1>3. a \in Nat
  <2>1. x6[r] \in Deferred!Snapshots
    BY <1>1 DEF Deferred!IInv, Deferred!TypeOK
  <2>2. x6[r][n] \in Deferred!Bindings
    BY <1>1, <1>2, <2>1 DEF Deferred!Snapshots
  <2>. QED  BY <1>2, <2>2 DEF Deferred!Bindings
<1>4. r = "agent" => x3[n] # None /\ x3[n].adapter = a
  BY <1>2 DEF Deferred!Registered
<1>5. x7' = [x7 EXCEPT ![r] = next]
  BY DEF Deferred!IInv, Deferred!TypeOK, Deferred!Calls
<1>. HIDE DEF a
<1>6. next \in Deferred!Calls /\ next.pc = "checked" /\ next.name = n /\ next.adapter = a
  <2>1. x7[r] \in Deferred!Calls
    BY DEF Deferred!IInv, Deferred!TypeOK
  <2>2. [x7[r] EXCEPT !.pc = "checked"] \in Deferred!Calls
    BY <2>1 DEF Deferred!Calls, Deferred!Places
  <2>. QED  BY <1>3, <2>1, <2>2 DEF Deferred!Calls
<1>. HIDE DEF next
<1>. QED  BY <1>1, <1>2, <1>4, <1>5, <1>6, DeferredCallMoves

LEMMA DeferredCheckBindingKeeps ==
  ASSUME Deferred!IInv, NEW r \in Deferred!Runners, Deferred!CheckBinding(r) PROVE Deferred!IInv'
BY DeferredRefuseKeeps, DeferredBindKeeps DEF Deferred!CheckBinding

LEMMA DeferredStartKeeps ==
  ASSUME Deferred!IInv, NEW r \in Deferred!Runners, Deferred!Start(r) PROVE Deferred!IInv'
<1> DEFINE next == [x7[r] EXCEPT !.pc = "running"]
<1>1. CASE Deferred!Refuse(r)
  BY <1>1, DeferredRefuseKeeps
<1>2. CASE /\ x7' = [x7 EXCEPT ![r].pc = "running"]
           /\ UNCHANGED <<x1, x2, x3, x4, x5, x6, x8, x9>>
  <2>1. x7' = [x7 EXCEPT ![r] = next] /\ next \in Deferred!Calls /\ next.pc = "running"
    BY <1>2 DEF Deferred!IInv, Deferred!TypeOK, Deferred!Calls, Deferred!Places
  <2>. HIDE DEF next
  <2>. QED  BY <1>2, <2>1, DeferredCallMoves
<1>. QED  BY <1>1, <1>2 DEF Deferred!Start

LEMMA DeferredNextIInv == ASSUME Deferred!IInv, [Deferred!Next]_(Deferred!vars) PROVE Deferred!IInv'
<1>1. CASE UNCHANGED Deferred!vars
  <2>1. Deferred!TypeOK'
    BY <1>1 DEF Deferred!vars, Deferred!IInv, Deferred!TypeOK
  <2>2. /\ Deferred!FoundWasOffered'
        /\ Deferred!WorkerIsConfined'
        /\ Deferred!StepsAreListed'
        /\ Deferred!CallsAreBound'
    BY <1>1
       DEF Deferred!vars, Deferred!IInv, Deferred!FoundWasOffered,
           Deferred!WorkerIsConfined, Deferred!StepsAreListed, Deferred!CallsAreBound
  <2>. QED  BY <2>1, <2>2 DEF Deferred!IInv
<1>2. CASE \E o \in {"mcp"} :
             \/ \E n \in {"Lookup"} : Deferred!Unregister(o, n)
             \/ \E n \in {"Lookup"}, form \in {"object", "function"} : Deferred!Register(o, n, form)
             \/ \E names \in SUBSET {"Lookup"} : Deferred!ReplaceOwned(o, names)
  BY <1>2, DeferredRegisterKeeps, DeferredUnregisterKeeps, DeferredReplaceOwnedKeeps
<1>3. CASE (\E n \in {"Lookup"} : Deferred!SchemaChanges(n))
           \/ Deferred!SetMode \/ Deferred!Derive \/ Deferred!Activate \/ Deferred!BeginSearch \/ Deferred!Propose
  BY <1>3, DeferredSchemaChangesKeeps, DeferredSetModeKeeps, DeferredDeriveKeeps,
      DeferredActivateKeeps, DeferredBeginSearchKeeps,
      DeferredProposeKeeps
<1>4. CASE \E r \in Deferred!Runners :
             \/ Deferred!CaptureStep(r) \/ Deferred!CheckBinding(r) \/ Deferred!Start(r) \/ Deferred!Return(r)
             \/ \E n \in {"Lookup"} : Deferred!Begin(r, n)
  BY <1>4, DeferredCaptureStepKeeps, DeferredCheckBindingKeeps, DeferredStartKeeps,
      DeferredRefuseKeeps, DeferredBeginKeeps
     DEF Deferred!Return
<1>. QED  BY <1>1, <1>2, <1>3, <1>4 DEF Deferred!Next

(* Only Start lets a call run. *)
LEMMA DeferredOnlyStartRuns ==
  ASSUME Deferred!IInv, [Deferred!Next]_(Deferred!vars), NEW r \in Deferred!Runners,
         x7[r].pc # "running", x7'[r].pc = "running"
  PROVE  Deferred!Start(r) /\ x7'[r].name = x7[r].name /\ x7'[r].adapter = x7[r].adapter
<1>1. /\ x7 \in [Deferred!Runners -> Deferred!Calls] /\ Deferred!NoCall.pc = "idle"
  BY DeferredNoCallIsCall DEF Deferred!IInv, Deferred!TypeOK
<1>2. x7' # x7
  OBVIOUS
<1>3. Deferred!Next /\ ~(\E o \in {"mcp"} :
             \/ \E n \in {"Lookup"} : Deferred!Unregister(o, n)
             \/ \E n \in {"Lookup"}, form \in {"object", "function"} : Deferred!Register(o, n, form)
             \/ \E names \in SUBSET {"Lookup"} : Deferred!ReplaceOwned(o, names))
           /\ ~(\E n \in {"Lookup"} : Deferred!SchemaChanges(n)) /\ ~Deferred!SetMode /\ ~Deferred!Derive
  BY <1>2
     DEF Deferred!vars, Deferred!Register, Deferred!Unregister, Deferred!ReplaceOwned,
         Deferred!SchemaChanges, Deferred!SetMode, Deferred!Derive
<1>4. ~Deferred!Activate /\ ~Deferred!BeginSearch /\ ~Deferred!Propose
  BY <1>1
     DEF Deferred!Activate, Deferred!BeginSearch, Deferred!Propose, Deferred!NoCall,
         Deferred!Runners
<1>5. ASSUME NEW q \in Deferred!Runners PROVE ~Deferred!CaptureStep(q) /\ ~Deferred!Refuse(q)
  BY <1>1 DEF Deferred!CaptureStep, Deferred!Refuse
<1>6. ASSUME NEW q \in Deferred!Runners PROVE ~Deferred!CheckBinding(q)
  BY <1>1, <1>5 DEF Deferred!CheckBinding, Deferred!Calls
<1>7. ASSUME NEW q \in Deferred!Runners, NEW n \in {"Lookup"} PROVE ~Deferred!Begin(q, n)
  BY <1>1 DEF Deferred!Begin, Deferred!NoCall
<1>8. PICK q \in Deferred!Runners : Deferred!Start(q)
  BY <1>3, <1>4, <1>5, <1>6, <1>7 DEF Deferred!Next, Deferred!Return
<1>9. x7' = [x7 EXCEPT ![q].pc = "running"]
  BY <1>5, <1>8 DEF Deferred!Start
<1>. QED  BY <1>1, <1>8, <1>9 DEF Deferred!Calls

(* What starts was bound to its step, is permitted now, and was offered. *)
LEMMA DeferredStartsApproved ==
  ASSUME Deferred!IInv, [Deferred!Next]_(Deferred!vars) PROVE Deferred!StartsAsApproved
<1> SUFFICES ASSUME NEW r \in Deferred!Runners, x7[r].pc # "running", x7'[r].pc = "running",
                    NEW n, n = x7[r].name, NEW a, a = x7[r].adapter,
                    x7'[r].name = n, x7'[r].adapter = a, Deferred!Start(r)
             PROVE  /\ x6[r][n] # None /\ x6[r][n].adapter = a
                    /\ r = "agent" => x3[n] # None /\ x3[n].adapter = a
                                      /\ x3[n].schema = x6[r][n].schema
                    /\ r = "worker" => n \notin {}
                    /\ Deferred!ModeAllows(r, n)
                    /\ x1 = "deferred" /\ n \notin {} => a \in x9
                    /\ x1 = "sealed" => n \in {}
  BY DeferredOnlyStartRuns DEF Deferred!StartsAsApproved
<1>1. ~Deferred!Refuse(r)
  BY DeferredNoCallIsCall DEF Deferred!Refuse, Deferred!IInv, Deferred!TypeOK
<1>2. /\ x7[r].pc = "checked" /\ Deferred!ModeAllows(r, n)
      /\ x3[n] # None /\ x3[n].adapter = a => x3[n].schema = x6[r][n].schema
  BY <1>1 DEF Deferred!Start
<1>3. /\ n \in {"Lookup"} /\ x6[r] # None /\ x6[r][n] # None /\ x6[r][n].adapter = a
      /\ r = "agent" => x3[n] # None /\ x3[n].adapter = a
  BY <1>2 DEF Deferred!IInv, Deferred!CallsAreBound
<1>. QED  BY <1>2, <1>3 DEF Deferred!IInv, Deferred!StepsAreListed

(* However sources replace their tools, modes change and searches run: what   *)
(* starts is what the step has shown, with its schema, permitted by then,     *)
(* and offered by a search if it is a deferred one.                         *)
THEOREM WhatStartsIsApproved == ComponentsSpec => StartsAsApproved
<1> DEFINE Inv == /\ focus = "tools" => Tools!IInv
                  /\ focus = "deferred" => Deferred!IInv
           Step == /\ focus = "tools" => Tools!StartsAsApproved
                   /\ focus = "deferred" => Deferred!StartsAsApproved
<1>1. ComponentsInit => Inv
  BY ToolsInitIInv, DeferredInitIInv DEF ComponentsInit
<1>2. ASSUME focus = "tools", Tools!IInv, [ComponentsNext]_componentsVars
      PROVE  focus' = focus /\ Tools!IInv' /\ Tools!StartsAsApproved
  <2>1. focus' = focus /\ [Tools!Next]_(Tools!vars)
    BY <1>2 DEF ComponentsNext, componentsVars, cells, Tools!vars
  <2>. QED  BY <1>2, <2>1, ToolsNextIInv, ToolsStartsApproved
<1>3. ASSUME focus = "deferred", Deferred!IInv, [ComponentsNext]_componentsVars
      PROVE  focus' = focus /\ Deferred!IInv' /\ Deferred!StartsAsApproved
  <2>1. focus' = focus /\ [Deferred!Next]_(Deferred!vars)
    BY <1>3 DEF ComponentsNext, componentsVars, cells, Deferred!vars
  <2>. QED  BY <1>3, <2>1, DeferredNextIInv, DeferredStartsApproved
<1>4. Inv /\ [ComponentsNext]_componentsVars => Inv' /\ [Step]_componentsVars
  <2>1. [ComponentsNext]_componentsVars => focus' = focus
    BY DEF ComponentsNext, componentsVars
  <2>. QED  BY <1>2, <1>3, <2>1
<1>. HIDE DEF Inv, Step
<1>5. ComponentsSpec => [][Step]_componentsVars
  BY <1>1, <1>4, PTL DEF ComponentsSpec
<1>. QED  BY <1>5 DEF StartsAsApproved, Step

-----------------------------------------------------------------------------
(* Plugins.  The cells are disk (x1), row (x2), op (x3), consent (x4), agent  *)
(* (x5), call (x6), hook (x7) and surprises (x8).                           *)

LEMMA PluginInit == ASSUME Plugin!Init PROVE Plugin!IInv
<1>1. x1 \in [Plugin!Slots -> Plugin!Revs]
  BY DEF Plugin!Init, Plugin!Slots, Plugin!Revs
<1>2. Plugin!TypeOK
  BY <1>1
     DEF Plugin!Init, Plugin!TypeOK, Plugin!Idle, Plugin!Ops, Plugin!Stages, Plugin!Revs,
         Plugin!Agents, Plugin!NoCall, Plugin!EventCalls, Plugin!HookStates
<1>3. Plugin!TrustIsConsent /\ Plugin!FoundIsThere /\ Plugin!HooksRunWithConsent /\ Plugin!BlocksAreKept
  BY DEF Plugin!Init, Plugin!NoCall, Plugin!TrustIsConsent, Plugin!FoundIsThere,
      Plugin!HooksRunWithConsent, Plugin!BlocksAreKept
<1>4. Plugin!UpdateStands /\ Plugin!RollbackStands /\ Plugin!OthersStand
  BY PluginAssumption
     DEF Plugin!Init, Plugin!Idle, Plugin!UpdateStands, Plugin!RollbackStands,
         Plugin!OthersStand, Plugin!Kinds
<1>. QED  BY <1>2, <1>3, <1>4 DEF Plugin!IInv

(* What the catalog does leaves agents alone, and none asks for trust then.  *)
LEMMA PluginCatalogKeeps ==
  ASSUME Plugin!IInv, UNCHANGED Plugin!runtime, x5.pc # "check",
         x1' \in [Plugin!Slots -> Plugin!Revs], x2' \in Plugin!Rows \cup {None}, x3' \in Plugin!Ops, x4' \in Plugin!Revs,
         Plugin!TrustIsConsent', Plugin!UpdateStands', Plugin!RollbackStands', Plugin!OthersStand'
  PROVE  Plugin!IInv'
<1>1. UNCHANGED <<x5, x6, x7>>
  BY DEF Plugin!runtime
<1>2. Plugin!TypeOK'
  BY <1>1 DEF Plugin!IInv, Plugin!TypeOK
<1>3. Plugin!FoundIsThere' /\ Plugin!HooksRunWithConsent' /\ Plugin!BlocksAreKept'
  BY <1>1 DEF Plugin!IInv, Plugin!FoundIsThere, Plugin!HooksRunWithConsent, Plugin!BlocksAreKept
<1>. QED  BY <1>2, <1>3 DEF Plugin!IInv

(* An agent that asks for trust keeps the catalog waiting, and the reverse.  *)
LEMMA PluginNobodyAsks ==
  ASSUME Plugin!IInv
  PROVE  /\ Plugin!MayChange => x5.pc # "check" /\ x3.pc = "idle"
         /\ x3.pc # "idle" => x5.pc # "check"
BY PluginAssumption DEF Plugin!MayChange, Plugin!IInv, Plugin!FoundIsThere

(* No call of the catalog stands anywhere once it is idle. *)
LEMMA PluginIdleStands ==
  ASSUME x3' = Plugin!Idle
  PROVE  x3' \in Plugin!Ops /\ Plugin!UpdateStands' /\ Plugin!RollbackStands' /\ Plugin!OthersStand'
<1>1. x3' \in Plugin!Ops
  BY DEF Plugin!Idle, Plugin!Ops, Plugin!Stages, Plugin!Revs
<1>2. x3'.pc = "idle" /\ x3'.kind = None
  BY DEF Plugin!Idle
<1>. QED  BY <1>1, <1>2, PluginAssumption
   DEF Plugin!UpdateStands, Plugin!RollbackStands, Plugin!OthersStand, Plugin!Kinds

LEMMA PluginStillIdle ==
  ASSUME Plugin!IInv, x3.pc = "idle", x3' = x3
  PROVE  x3' \in Plugin!Ops /\ Plugin!UpdateStands' /\ Plugin!RollbackStands' /\ Plugin!OthersStand'
<1>1. x3' \in Plugin!Ops /\ x3'.pc = "idle" /\ x3'.kind = None
  BY DEF Plugin!IInv, Plugin!TypeOK, Plugin!OthersStand
<1>. QED  BY <1>1, PluginAssumption
   DEF Plugin!UpdateStands, Plugin!RollbackStands, Plugin!OthersStand, Plugin!Kinds

(* A call goes to another stage, and nothing else of it changes. *)
LEMMA PluginGoes ==
  ASSUME x3 \in Plugin!Ops, NEW pc \in Plugin!Stages, Plugin!Goto(pc)
  PROVE  /\ x3' \in Plugin!Ops /\ x3'.pc = pc
         /\ x3'.kind = x3.kind /\ x3'.new = x3.new /\ x3'.old = x3.old
         /\ x3'.row = x3.row /\ x3'.was = x3.was
BY DEF Plugin!Goto, Plugin!Ops

LEMMA PluginBegins ==
  ASSUME Plugin!TypeOK, NEW kind \in Plugin!Kinds, NEW pc \in Plugin!Stages, NEW new \in Plugin!Revs,
         NEW read \in {x2, None}, Plugin!Begin(kind, pc, new, read)
  PROVE  /\ x3' \in Plugin!Ops /\ x3'.pc = pc /\ x3'.kind = kind /\ x3'.new = new
         /\ x3'.old = x1.dir /\ x3'.was = <<x1.dir, x1.previous, x2>> /\ x3'.row # None
<1>1. x1.dir \in Plugin!Revs /\ x1.previous \in Plugin!Revs
  BY DEF Plugin!TypeOK, Plugin!Slots
<1>2. Plugin!Flags(read) \in Plugin!Rows
  BY DEF Plugin!TypeOK, Plugin!Flags, Plugin!Blank, Plugin!Rows, Plugin!Revs
<1>3. x3' \in Plugin!Ops /\ x3'.row = Plugin!Flags(read)
  BY <1>1, <1>2 DEF Plugin!Begin, Plugin!Ops, Plugin!TypeOK
<1>. QED  BY <1>1, <1>2, <1>3, PluginAssumption DEF Plugin!Begin

LEMMA PluginMoves ==
  ASSUME Plugin!TypeOK, NEW from \in Plugin!Slots, NEW to \in Plugin!Slots \cup {None}
  PROVE  /\ Plugin!Move(from, to) \in [Plugin!Slots -> Plugin!Revs]
         /\ \A s \in Plugin!Slots : Plugin!Move(from, to)[s] =
              IF s = to THEN x1[from] ELSE IF s = from THEN None ELSE x1[s]
BY DEF Plugin!Move, Plugin!TypeOK, Plugin!Revs

(* Flags and edits by hand, between calls of the catalog. *)
LEMMA PluginFlags ==
  ASSUME Plugin!IInv, NEW on \in BOOLEAN,
         Plugin!SetEnabled(on) \/ Plugin!SetTrusted(on) \/ Plugin!SetPinned(on)
  PROVE  Plugin!IInv'
<1>1. UNCHANGED <<x1, x3>> /\ UNCHANGED Plugin!runtime /\ x5.pc # "check" /\ x3.pc = "idle"
  BY PluginNobodyAsks DEF Plugin!SetEnabled, Plugin!SetTrusted, Plugin!SetPinned
<1>2. Plugin!TypeOK /\ Plugin!TrustIsConsent
  BY DEF Plugin!IInv
<1>3. ASSUME NEW read \in {x2, None}
      PROVE  /\ Plugin!Flags(read) \in Plugin!Rows
             /\ Plugin!Flags(read).trusted # None => x4 = Plugin!Flags(read).trusted
  <2>1. CASE read = None
    BY <2>1 DEF Plugin!Flags, Plugin!Blank, Plugin!Rows, Plugin!Revs
  <2>2. CASE read # None
    BY <1>2, <2>2 DEF Plugin!Flags, Plugin!TypeOK, Plugin!TrustIsConsent
  <2>. QED  BY <2>1, <2>2
<1>4. x2' \in Plugin!Rows \cup {None} /\ x4' \in Plugin!Revs /\ Plugin!TrustIsConsent'
  <2>1. CASE Plugin!SetEnabled(on)
    <3>1. PICK read \in {x2, None} : x2' = [Plugin!Flags(read) EXCEPT !.enabled = on]
      BY <2>1 DEF Plugin!SetEnabled
    <3>2. x2' \in Plugin!Rows /\ x2'.trusted = Plugin!Flags(read).trusted
      BY <1>3, <3>1 DEF Plugin!Rows
    <3>. QED  BY <1>2, <1>3, <2>1, <3>2 DEF Plugin!SetEnabled, Plugin!TypeOK, Plugin!TrustIsConsent
  <2>2. CASE Plugin!SetTrusted(on)
    <3> DEFINE print == IF on THEN x1.dir ELSE None
    <3>1. PICK read \in {x2, None} : x2' = [Plugin!Flags(read) EXCEPT !.trusted = print]
      BY <2>2 DEF Plugin!SetTrusted
    <3>2. print \in Plugin!Revs /\ x4' = print
      BY <1>2, <2>2 DEF Plugin!SetTrusted, Plugin!TypeOK, Plugin!Slots, Plugin!Revs
    <3>. HIDE DEF print
    <3>3. x2' \in Plugin!Rows /\ x2'.trusted = print
      BY <1>3, <3>1, <3>2 DEF Plugin!Rows
    <3>. QED  BY <3>2, <3>3 DEF Plugin!TrustIsConsent
  <2>3. CASE Plugin!SetPinned(on)
    <3>1. x2' = [x2 EXCEPT !.pinned = on] /\ x2 \in Plugin!Rows /\ x4' = x4
      BY <1>2, <2>3 DEF Plugin!SetPinned, Plugin!TypeOK
    <3>2. x2' \in Plugin!Rows /\ x2'.trusted = x2.trusted
      BY <3>1 DEF Plugin!Rows
    <3>. QED  BY <1>2, <2>3, <3>1, <3>2 DEF Plugin!SetPinned, Plugin!TypeOK, Plugin!TrustIsConsent
  <2>. QED  BY <2>1, <2>2, <2>3
<1>. QED  BY <1>1, <1>2, <1>4, PluginStillIdle, PluginCatalogKeeps DEF Plugin!TypeOK

LEMMA PluginEdits ==
  ASSUME Plugin!IInv, NEW r \in Things, Plugin!EditByHand(r)
  PROVE  Plugin!IInv'
<1>1. /\ UNCHANGED <<x2, x3, x4>> /\ UNCHANGED Plugin!runtime
      /\ x5.pc # "check" /\ x3.pc = "idle" /\ x1' = [x1 EXCEPT !.dir = r]
  BY PluginNobodyAsks DEF Plugin!EditByHand
<1>2. x1' \in [Plugin!Slots -> Plugin!Revs]
  BY <1>1 DEF Plugin!IInv, Plugin!TypeOK, Plugin!Revs
<1>3. Plugin!TrustIsConsent' /\ x2' \in Plugin!Rows \cup {None} /\ x4' \in Plugin!Revs
  BY <1>1 DEF Plugin!IInv, Plugin!TypeOK, Plugin!TrustIsConsent
<1>. QED  BY <1>1, <1>2, <1>3, PluginStillIdle, PluginCatalogKeeps

(* A call of the catalog begins. *)
LEMMA PluginInstalls ==
  ASSUME Plugin!IInv, NEW r \in Things, Plugin!InstallZip(r) PROVE Plugin!IInv'
<1>1. /\ UNCHANGED <<x2, x4>> /\ UNCHANGED Plugin!runtime /\ x5.pc # "check"
      /\ x1' = [x1 EXCEPT !.dir = r] /\ Plugin!Begin("install", "write", r, None)
  BY PluginNobodyAsks DEF Plugin!InstallZip
<1>2. x3' \in Plugin!Ops /\ x3'.pc = "write" /\ x3'.kind = "install"
  BY <1>1, PluginBegins DEF Plugin!IInv, Plugin!Kinds, Plugin!Stages, Plugin!Revs
<1>3. x1' \in [Plugin!Slots -> Plugin!Revs]
  BY <1>1 DEF Plugin!IInv, Plugin!TypeOK, Plugin!Revs
<1>4. Plugin!TrustIsConsent' /\ x2' \in Plugin!Rows \cup {None} /\ x4' \in Plugin!Revs
  BY <1>1 DEF Plugin!IInv, Plugin!TypeOK, Plugin!TrustIsConsent
<1>5. Plugin!UpdateStands' /\ Plugin!RollbackStands' /\ Plugin!OthersStand'
  BY <1>2, PluginAssumption
     DEF Plugin!UpdateStands, Plugin!RollbackStands, Plugin!OthersStand, Plugin!Kinds
<1>. QED  BY <1>1, <1>2, <1>3, <1>4, <1>5, PluginCatalogKeeps

LEMMA PluginUninstalls == ASSUME Plugin!IInv, Plugin!Uninstall PROVE Plugin!IInv'
<1>1. /\ UNCHANGED <<x1, x2, x4>> /\ UNCHANGED Plugin!runtime /\ x5.pc # "check"
      /\ Plugin!Begin("uninstall", "remove", None, None)
  BY PluginNobodyAsks DEF Plugin!Uninstall
<1>2. x3' \in Plugin!Ops /\ x3'.pc = "remove" /\ x3'.kind = "uninstall"
  BY <1>1, PluginBegins DEF Plugin!IInv, Plugin!Kinds, Plugin!Stages, Plugin!Revs
<1>3. Plugin!TrustIsConsent' /\ x2' \in Plugin!Rows \cup {None} /\ x4' \in Plugin!Revs /\ x1' \in [Plugin!Slots -> Plugin!Revs]
  BY <1>1 DEF Plugin!IInv, Plugin!TypeOK, Plugin!TrustIsConsent
<1>4. Plugin!UpdateStands' /\ Plugin!RollbackStands' /\ Plugin!OthersStand'
  BY <1>2, PluginAssumption
     DEF Plugin!UpdateStands, Plugin!RollbackStands, Plugin!OthersStand, Plugin!Kinds
<1>. QED  BY <1>1, <1>2, <1>3, <1>4, PluginCatalogKeeps

LEMMA PluginUpdates == ASSUME Plugin!IInv, NEW r \in Things, Plugin!UpdateZip(r) PROVE Plugin!IInv'
<1>1. /\ UNCHANGED <<x1, x2, x4>> /\ UNCHANGED Plugin!runtime /\ x5.pc # "check"
      /\ \E read \in {x2, None} : Plugin!Begin("update", "rotate", r, read)
  BY PluginNobodyAsks DEF Plugin!UpdateZip
<1>2. /\ x3' \in Plugin!Ops /\ x3'.pc = "rotate" /\ x3'.kind = "update"
      /\ x3'.old = x1.dir /\ x3'.was = <<x1.dir, x1.previous, x2>> /\ x3'.row # None
  BY <1>1, PluginBegins DEF Plugin!IInv, Plugin!Kinds, Plugin!Stages, Plugin!Revs
<1>3. Plugin!TrustIsConsent' /\ x2' \in Plugin!Rows \cup {None} /\ x4' \in Plugin!Revs /\ x1' \in [Plugin!Slots -> Plugin!Revs]
  BY <1>1 DEF Plugin!IInv, Plugin!TypeOK, Plugin!TrustIsConsent
<1>4. Plugin!UpdateStands'
  BY <1>1, <1>2 DEF Plugin!UpdateStands, Plugin!Stands
<1>5. Plugin!RollbackStands' /\ Plugin!OthersStand'
  BY <1>2, PluginAssumption DEF Plugin!RollbackStands, Plugin!OthersStand, Plugin!Kinds
<1>. QED  BY <1>1, <1>2, <1>3, <1>4, <1>5, PluginCatalogKeeps

LEMMA PluginRollsBack == ASSUME Plugin!IInv, Plugin!Rollback PROVE Plugin!IInv'
<1>1. /\ UNCHANGED <<x2, x4>> /\ UNCHANGED Plugin!runtime /\ x5.pc # "check"
      /\ \E read \in {x2, None} : Plugin!Begin("rollback", "out", x1.previous, read)
      /\ x1' = [x1 EXCEPT !.aside = None] /\ x1.previous # None
  BY PluginNobodyAsks DEF Plugin!Rollback
<1>2. x1.previous \in Plugin!Revs
  BY DEF Plugin!IInv, Plugin!TypeOK, Plugin!Slots
<1>3. /\ x3' \in Plugin!Ops /\ x3'.pc = "out" /\ x3'.kind = "rollback" /\ x3'.new = x1.previous
      /\ x3'.old = x1.dir /\ x3'.was = <<x1.dir, x1.previous, x2>> /\ x3'.row # None
  BY <1>1, <1>2, PluginBegins DEF Plugin!IInv, Plugin!Kinds, Plugin!Stages
<1>4. /\ x1' \in [Plugin!Slots -> Plugin!Revs] /\ x1'.dir = x1.dir /\ x1'.previous = x1.previous
  BY <1>1 DEF Plugin!IInv, Plugin!TypeOK, Plugin!Slots, Plugin!Revs
<1>5. Plugin!TrustIsConsent' /\ x2' \in Plugin!Rows \cup {None} /\ x4' \in Plugin!Revs
  BY <1>1 DEF Plugin!IInv, Plugin!TypeOK, Plugin!TrustIsConsent
<1>6. Plugin!RollbackStands'
  BY <1>1, <1>3, <1>4 DEF Plugin!RollbackStands, Plugin!Stands
<1>7. Plugin!UpdateStands' /\ Plugin!OthersStand'
  BY <1>3, PluginAssumption DEF Plugin!UpdateStands, Plugin!OthersStand, Plugin!Kinds
<1>. QED  BY <1>1, <1>3, <1>4, <1>5, <1>6, <1>7, PluginCatalogKeeps

(* A call of the catalog that only moves directories.  It stays, or is over.  *)
LEMMA PluginCallMoves ==
  ASSUME Plugin!IInv, x3.pc # "idle", UNCHANGED <<x2, x4>>, UNCHANGED Plugin!runtime,
         x1' \in [Plugin!Slots -> Plugin!Revs],
         \/ x3' = Plugin!Idle
         \/ x3' \in Plugin!Ops /\ Plugin!UpdateStands' /\ Plugin!RollbackStands' /\ Plugin!OthersStand'
  PROVE  Plugin!IInv'
<1>1. x5.pc # "check"
  BY PluginNobodyAsks
<1>2. x3' \in Plugin!Ops /\ Plugin!UpdateStands' /\ Plugin!RollbackStands' /\ Plugin!OthersStand'
  BY PluginIdleStands
<1>3. x2' \in Plugin!Rows \cup {None} /\ x4' \in Plugin!Revs /\ Plugin!TrustIsConsent'
  BY DEF Plugin!IInv, Plugin!TypeOK, Plugin!TrustIsConsent
<1>. QED  BY <1>1, <1>2, <1>3, PluginCatalogKeeps

LEMMA PluginRotate == ASSUME Plugin!IInv, Plugin!Rotate PROVE Plugin!IInv'
<1>1. x3.pc = "rotate" /\ UNCHANGED <<x2, x4>> /\ UNCHANGED Plugin!runtime
  BY DEF Plugin!Rotate
<1>2. Plugin!TypeOK /\ x3 \in Plugin!Ops
  BY DEF Plugin!IInv, Plugin!TypeOK
<1>3. x3.kind = "update" /\ x3.old = x1.dir /\ Plugin!Stands(x1.dir, x1.previous) /\ x3.row # None
  BY <1>1, <1>2
     DEF Plugin!IInv, Plugin!UpdateStands, Plugin!RollbackStands, Plugin!OthersStand,
         Plugin!Ops, Plugin!Kinds
<1>4. CASE x1' = [x1 EXCEPT !.older = @] /\ Plugin!End
  <2>1. x1' \in [Plugin!Slots -> Plugin!Revs] /\ x3' = Plugin!Idle
    BY <1>2, <1>4 DEF Plugin!TypeOK, Plugin!End
  <2>. QED  BY <1>1, <2>1, PluginCallMoves
<1>5. CASE /\ x1' = IF x1.previous = None THEN [x1 EXCEPT !.older = None]
                                           ELSE Plugin!Move("previous", "older")
           /\ Plugin!Goto("out")
  <2>1. /\ x3' \in Plugin!Ops /\ x3'.pc = "out" /\ x3'.kind = "update"
        /\ x3'.old = x3.old /\ x3'.was = x3.was /\ x3'.row = x3.row
    BY <1>2, <1>3, <1>5, PluginGoes DEF Plugin!Stages
  <2>2. /\ x1' \in [Plugin!Slots -> Plugin!Revs] /\ x1'.dir = x1.dir
        /\ x1'.previous = None /\ x1'.older = x1.previous
    <3>1. CASE x1.previous = None
      BY <1>2, <1>5, <3>1 DEF Plugin!TypeOK, Plugin!Slots, Plugin!Revs
    <3>2. CASE x1.previous # None
      <4>1. x1' = Plugin!Move("previous", "older")
        BY <1>5, <3>2
      <4>. QED  BY <1>2, <4>1, PluginMoves DEF Plugin!Slots
    <3>. QED  BY <3>1, <3>2
  <2>3. Plugin!UpdateStands'
    BY <1>1, <1>3, <2>1, <2>2 DEF Plugin!UpdateStands, Plugin!Stands
  <2>4. Plugin!RollbackStands' /\ Plugin!OthersStand'
    BY <2>1, PluginAssumption DEF Plugin!RollbackStands, Plugin!OthersStand, Plugin!Kinds
  <2>. QED  BY <1>1, <2>1, <2>2, <2>3, <2>4, PluginCallMoves
<1>. QED  BY <1>4, <1>5 DEF Plugin!Rotate

LEMMA PluginMoveOut == ASSUME Plugin!IInv, Plugin!MoveOut PROVE Plugin!IInv'
<1>1. x3.pc = "out" /\ UNCHANGED <<x2, x4>> /\ UNCHANGED Plugin!runtime
  BY DEF Plugin!MoveOut
<1>2. Plugin!TypeOK /\ x3 \in Plugin!Ops /\ x1 \in [Plugin!Slots -> Plugin!Revs]
  BY DEF Plugin!IInv, Plugin!TypeOK
<1>3. x3.kind = "update" \/ x3.kind = "rollback"
  BY <1>1, <1>2 DEF Plugin!IInv, Plugin!OthersStand, Plugin!Ops, Plugin!Kinds
<1>4. CASE x3.kind = "update"
  <2>1. /\ x3.old = x1.dir /\ x1.previous = None /\ Plugin!Stands(x1.dir, x1.older) /\ x3.row # None
    BY <1>1, <1>4 DEF Plugin!IInv, Plugin!UpdateStands
  <2>2. CASE x1' = Plugin!Move("dir", "previous") /\ Plugin!Goto("in")
    <3>1. /\ x3' \in Plugin!Ops /\ x3'.pc = "in" /\ x3'.kind = "update"
          /\ x3'.old = x3.old /\ x3'.was = x3.was /\ x3'.row = x3.row
      BY <1>2, <1>4, <2>2, PluginGoes DEF Plugin!Stages
    <3>2. /\ x1' \in [Plugin!Slots -> Plugin!Revs] /\ x1'.previous = x1.dir /\ x1'.older = x1.older
      BY <1>2, <2>2, PluginMoves DEF Plugin!Slots
    <3>3. Plugin!UpdateStands'
      BY <1>1, <2>1, <3>1, <3>2 DEF Plugin!UpdateStands, Plugin!Stands
    <3>4. Plugin!RollbackStands' /\ Plugin!OthersStand'
      BY <3>1, PluginAssumption DEF Plugin!RollbackStands, Plugin!OthersStand, Plugin!Kinds
    <3>. QED  BY <1>1, <3>1, <3>2, <3>3, <3>4, PluginCallMoves
  <2>3. CASE UNCHANGED x1 /\ Plugin!Goto("undo older")
    <3>1. /\ x3' \in Plugin!Ops /\ x3'.pc = "undo older" /\ x3'.kind = "update"
          /\ x3'.old = x3.old /\ x3'.was = x3.was /\ x3'.row = x3.row
      BY <1>2, <1>4, <2>3, PluginGoes DEF Plugin!Stages
    <3>2. Plugin!UpdateStands'
      BY <1>1, <2>1, <2>3, <3>1 DEF Plugin!UpdateStands, Plugin!Stands
    <3>3. Plugin!RollbackStands' /\ Plugin!OthersStand'
      BY <3>1, PluginAssumption DEF Plugin!RollbackStands, Plugin!OthersStand, Plugin!Kinds
    <3>. QED  BY <1>1, <1>2, <2>3, <3>1, <3>2, <3>3, PluginCallMoves
  <2>. QED  BY <1>4, <2>2, <2>3 DEF Plugin!MoveOut
<1>5. CASE x3.kind = "rollback"
  <2>1. /\ x3.old = x1.dir /\ x1.previous = x3.new /\ x3.new # None
        /\ Plugin!Stands(x1.dir, x1.previous) /\ x3.row # None
    BY <1>1, <1>5 DEF Plugin!IInv, Plugin!RollbackStands
  <2>2. CASE x1' = Plugin!Move("dir", "aside") /\ Plugin!Goto("in")
    <3>1. /\ x3' \in Plugin!Ops /\ x3'.pc = "in" /\ x3'.kind = "rollback" /\ x3'.new = x3.new
          /\ x3'.old = x3.old /\ x3'.was = x3.was /\ x3'.row = x3.row
      BY <1>2, <1>5, <2>2, PluginGoes DEF Plugin!Stages
    <3>2. /\ x1' \in [Plugin!Slots -> Plugin!Revs] /\ x1'.dir = None /\ x1'.aside = x1.dir
          /\ x1'.previous = x1.previous
      BY <1>2, <2>2, PluginMoves DEF Plugin!Slots
    <3>3. Plugin!RollbackStands'
      BY <1>1, <2>1, <3>1, <3>2 DEF Plugin!RollbackStands, Plugin!Stands
    <3>4. Plugin!UpdateStands' /\ Plugin!OthersStand'
      BY <3>1, PluginAssumption DEF Plugin!UpdateStands, Plugin!OthersStand, Plugin!Kinds
    <3>. QED  BY <1>1, <3>1, <3>2, <3>3, <3>4, PluginCallMoves
  <2>3. CASE UNCHANGED x1 /\ Plugin!End
    BY <1>1, <1>2, <2>3, PluginCallMoves DEF Plugin!End
  <2>. QED  BY <1>5, <2>2, <2>3 DEF Plugin!MoveOut
<1>. QED  BY <1>3, <1>4, <1>5

LEMMA PluginMoveIn == ASSUME Plugin!IInv, Plugin!MoveIn PROVE Plugin!IInv'
<1>1. x3.pc = "in" /\ UNCHANGED <<x2, x4>> /\ UNCHANGED Plugin!runtime
  BY DEF Plugin!MoveIn
<1>2. Plugin!TypeOK /\ x3 \in Plugin!Ops /\ x1 \in [Plugin!Slots -> Plugin!Revs] /\ x3.new \in Plugin!Revs
  BY DEF Plugin!IInv, Plugin!TypeOK, Plugin!Ops
<1>3. x3.kind = "update" \/ x3.kind = "rollback"
  BY <1>1, <1>2 DEF Plugin!IInv, Plugin!OthersStand, Plugin!Ops, Plugin!Kinds
<1>4. CASE x3.kind = "update"
  <2>1. x3.old = x1.previous /\ Plugin!Stands(x1.previous, x1.older) /\ x3.row # None
    BY <1>1, <1>4 DEF Plugin!IInv, Plugin!UpdateStands
  <2>2. CASE x1' = [x1 EXCEPT !.dir = x3.new] /\ Plugin!Goto("write")
    <3>1. /\ x3' \in Plugin!Ops /\ x3'.pc = "write" /\ x3'.kind = "update" /\ x3'.new = x3.new
          /\ x3'.old = x3.old /\ x3'.was = x3.was /\ x3'.row = x3.row
      BY <1>2, <1>4, <2>2, PluginGoes DEF Plugin!Stages
    <3>2. /\ x1' \in [Plugin!Slots -> Plugin!Revs] /\ x1'.dir = x3.new /\ x1'.previous = x1.previous
          /\ x1'.older = x1.older
      BY <1>2, <2>2 DEF Plugin!Slots
    <3>3. Plugin!UpdateStands'
      BY <1>1, <2>1, <3>1, <3>2 DEF Plugin!UpdateStands, Plugin!Stands
    <3>4. Plugin!RollbackStands' /\ Plugin!OthersStand'
      BY <3>1, PluginAssumption DEF Plugin!RollbackStands, Plugin!OthersStand, Plugin!Kinds
    <3>. QED  BY <1>1, <3>1, <3>2, <3>3, <3>4, PluginCallMoves
  <2>3. CASE UNCHANGED x1 /\ Plugin!Goto("undo")
    <3>1. /\ x3' \in Plugin!Ops /\ x3'.pc = "undo" /\ x3'.kind = "update"
          /\ x3'.old = x3.old /\ x3'.was = x3.was /\ x3'.row = x3.row
      BY <1>2, <1>4, <2>3, PluginGoes DEF Plugin!Stages
    <3>2. Plugin!UpdateStands'
      BY <1>1, <2>1, <2>3, <3>1 DEF Plugin!UpdateStands, Plugin!Stands
    <3>3. Plugin!RollbackStands' /\ Plugin!OthersStand'
      BY <3>1, PluginAssumption DEF Plugin!RollbackStands, Plugin!OthersStand, Plugin!Kinds
    <3>. QED  BY <1>1, <1>2, <2>3, <3>1, <3>2, <3>3, PluginCallMoves
  <2>. QED  BY <1>4, <2>2, <2>3 DEF Plugin!MoveIn
<1>5. CASE x3.kind = "rollback"
  <2>1. /\ x3.old = x1.aside /\ x1.dir = None /\ x1.previous = x3.new /\ x3.new # None
        /\ Plugin!Stands(x1.aside, x3.new) /\ x3.row # None
    BY <1>1, <1>5 DEF Plugin!IInv, Plugin!RollbackStands
  <2>2. CASE x1' = Plugin!Move("previous", "dir") /\ Plugin!Goto("write")
    <3>1. /\ x3' \in Plugin!Ops /\ x3'.pc = "write" /\ x3'.kind = "rollback" /\ x3'.new = x3.new
          /\ x3'.old = x3.old /\ x3'.was = x3.was /\ x3'.row = x3.row
      BY <1>2, <1>5, <2>2, PluginGoes DEF Plugin!Stages
    <3>2. /\ x1' \in [Plugin!Slots -> Plugin!Revs] /\ x1'.dir = x1.previous /\ x1'.aside = x1.aside
          /\ x1'.previous = None
      BY <1>2, <2>2, PluginMoves DEF Plugin!Slots
    <3>3. Plugin!RollbackStands'
      BY <1>1, <2>1, <3>1, <3>2 DEF Plugin!RollbackStands, Plugin!Stands
    <3>4. Plugin!UpdateStands' /\ Plugin!OthersStand'
      BY <3>1, PluginAssumption DEF Plugin!UpdateStands, Plugin!OthersStand, Plugin!Kinds
    <3>. QED  BY <1>1, <3>1, <3>2, <3>3, <3>4, PluginCallMoves
  <2>3. CASE UNCHANGED x1 /\ Plugin!Goto("undo")
    <3>1. /\ x3' \in Plugin!Ops /\ x3'.pc = "undo" /\ x3'.kind = "rollback" /\ x3'.new = x3.new
          /\ x3'.old = x3.old /\ x3'.was = x3.was /\ x3'.row = x3.row
      BY <1>2, <1>5, <2>3, PluginGoes DEF Plugin!Stages
    <3>2. Plugin!RollbackStands'
      BY <1>1, <2>1, <2>3, <3>1 DEF Plugin!RollbackStands, Plugin!Stands
    <3>3. Plugin!UpdateStands' /\ Plugin!OthersStand'
      BY <3>1, PluginAssumption DEF Plugin!UpdateStands, Plugin!OthersStand, Plugin!Kinds
    <3>. QED  BY <1>1, <1>2, <2>3, <3>1, <3>2, <3>3, PluginCallMoves
  <2>. QED  BY <1>5, <2>2, <2>3 DEF Plugin!MoveIn
<1>. QED  BY <1>3, <1>4, <1>5

(* What replaces another is neither trusted nor pinned. *)
LEMMA PluginReplaced ==
  ASSUME x3 \in Plugin!Ops, x3.row # None \/ x3.kind = "install"
  PROVE  Plugin!Replaced \in Plugin!Rows /\ Plugin!Replaced.trusted = None
BY DEF Plugin!Replaced, Plugin!Blank, Plugin!Ops, Plugin!Rows, Plugin!Revs

LEMMA PluginWriteState == ASSUME Plugin!IInv, Plugin!WriteState PROVE Plugin!IInv'
<1>1. x3.pc = "write" /\ UNCHANGED x1 /\ UNCHANGED Plugin!runtime /\ x5.pc # "check"
  BY PluginNobodyAsks DEF Plugin!WriteState
<1>2. Plugin!TypeOK /\ x3 \in Plugin!Ops /\ x1 \in [Plugin!Slots -> Plugin!Revs] /\ x3.kind \in Plugin!Kinds
  BY <1>1 DEF Plugin!IInv, Plugin!TypeOK, Plugin!OthersStand, Plugin!Ops
<1>3. CASE UNCHANGED <<x2, x4>> /\ x3.kind \notin {"update", "rollback"} /\ Plugin!End
  BY <1>1, <1>2, <1>3, PluginCallMoves DEF Plugin!End
<1>4. CASE UNCHANGED <<x2, x4>> /\ x3.kind \in {"update", "rollback"} /\ Plugin!Goto("undo")
  <2>1. /\ x3' \in Plugin!Ops /\ x3'.pc = "undo" /\ x3'.kind = x3.kind /\ x3'.new = x3.new
        /\ x3'.old = x3.old /\ x3'.was = x3.was /\ x3'.row = x3.row
    BY <1>2, <1>4, PluginGoes DEF Plugin!Stages
  <2>2. Plugin!UpdateStands'
    BY <1>1, <1>4, <2>1 DEF Plugin!IInv, Plugin!UpdateStands, Plugin!Stands
  <2>3. Plugin!RollbackStands'
    BY <1>1, <1>4, <2>1 DEF Plugin!IInv, Plugin!RollbackStands, Plugin!Stands
  <2>4. Plugin!OthersStand'
    BY <1>4, <2>1, PluginAssumption DEF Plugin!OthersStand, Plugin!Kinds
  <2>. QED  BY <1>1, <1>2, <1>4, <2>1, <2>2, <2>3, <2>4, PluginCallMoves
<1>5. CASE /\ x2' = IF x3.kind = "uninstall" THEN None ELSE Plugin!Replaced
           /\ x4' = None
           /\ CASE x3.kind = "update" -> Plugin!Goto("sweep")
                [] x3.kind = "rollback" -> Plugin!Goto("back")
                [] OTHER -> Plugin!End
  <2>1. /\ x2' \in Plugin!Rows \cup {None} /\ x4' \in Plugin!Revs /\ Plugin!TrustIsConsent'
    <3>1. x3.kind # "uninstall" => x3.row # None \/ x3.kind = "install"
      BY <1>2 DEF Plugin!IInv, Plugin!UpdateStands, Plugin!RollbackStands, Plugin!Kinds
    <3>2. x2' = None \/ (x2' \in Plugin!Rows /\ x2'.trusted = None)
      BY <1>2, <1>5, <3>1, PluginReplaced
    <3>. QED  BY <1>5, <3>2 DEF Plugin!Revs, Plugin!TrustIsConsent
  <2>2. CASE x3.kind \notin {"update", "rollback"}
    BY <1>1, <1>2, <1>5, <2>1, <2>2, PluginIdleStands, PluginCatalogKeeps DEF Plugin!End
  <2>3. CASE x3.kind = "update"
    <3>1. /\ x3' \in Plugin!Ops /\ x3'.pc = "sweep" /\ x3'.kind = "update" /\ x3'.new = x3.new
          /\ x3'.old = x3.old /\ x3'.row = x3.row
      BY <1>2, <1>5, <2>3, PluginGoes DEF Plugin!Stages
    <3>2. x2' = Plugin!Replaced'
      BY <1>5, <2>3, <3>1 DEF Plugin!Replaced
    <3>3. Plugin!UpdateStands'
      BY <1>1, <2>3, <3>1, <3>2 DEF Plugin!IInv, Plugin!UpdateStands
    <3>4. Plugin!RollbackStands' /\ Plugin!OthersStand'
      BY <3>1, PluginAssumption DEF Plugin!RollbackStands, Plugin!OthersStand, Plugin!Kinds
    <3>. QED  BY <1>1, <1>2, <2>1, <3>1, <3>3, <3>4, PluginCatalogKeeps
  <2>4. CASE x3.kind = "rollback"
    <3>1. /\ x3' \in Plugin!Ops /\ x3'.pc = "back" /\ x3'.kind = "rollback" /\ x3'.new = x3.new
          /\ x3'.old = x3.old /\ x3'.row = x3.row
      BY <1>2, <1>5, <2>4, PluginGoes DEF Plugin!Stages
    <3>2. x2' = Plugin!Replaced'
      BY <1>5, <2>4, <3>1 DEF Plugin!Replaced
    <3>3. Plugin!RollbackStands'
      BY <1>1, <2>4, <3>1, <3>2 DEF Plugin!IInv, Plugin!RollbackStands
    <3>4. Plugin!UpdateStands' /\ Plugin!OthersStand'
      BY <3>1, PluginAssumption DEF Plugin!UpdateStands, Plugin!OthersStand, Plugin!Kinds
    <3>. QED  BY <1>1, <1>2, <2>1, <3>1, <3>3, <3>4, PluginCatalogKeeps
  <2>. QED  BY <2>2, <2>3, <2>4
<1>. QED  BY <1>3, <1>4, <1>5 DEF Plugin!WriteState

LEMMA PluginUndo == ASSUME Plugin!IInv, Plugin!Undo PROVE Plugin!IInv'
<1>1. x3.pc = "undo" /\ UNCHANGED <<x2, x4>> /\ UNCHANGED Plugin!runtime
  BY DEF Plugin!Undo
<1>2. Plugin!TypeOK /\ x3 \in Plugin!Ops /\ x1 \in [Plugin!Slots -> Plugin!Revs]
  BY DEF Plugin!IInv, Plugin!TypeOK
<1>3. CASE x3.kind = "update"
  <2>1. x3.old = x1.previous /\ Plugin!Stands(x1.previous, x1.older) /\ x3.row # None
    BY <1>1, <1>3 DEF Plugin!IInv, Plugin!UpdateStands
  <2>2. x1' = Plugin!Move("previous", "dir") /\ Plugin!Goto("undo older")
    BY <1>3 DEF Plugin!Undo
  <2>3. /\ x3' \in Plugin!Ops /\ x3'.pc = "undo older" /\ x3'.kind = "update"
        /\ x3'.old = x3.old /\ x3'.was = x3.was /\ x3'.row = x3.row
    BY <1>2, <1>3, <2>2, PluginGoes DEF Plugin!Stages
  <2>4. /\ x1' \in [Plugin!Slots -> Plugin!Revs] /\ x1'.dir = x1.previous /\ x1'.previous = None
        /\ x1'.older = x1.older
    BY <1>2, <2>2, PluginMoves DEF Plugin!Slots
  <2>5. Plugin!UpdateStands'
    BY <1>1, <2>1, <2>3, <2>4 DEF Plugin!UpdateStands, Plugin!Stands
  <2>6. Plugin!RollbackStands' /\ Plugin!OthersStand'
    BY <2>3, PluginAssumption DEF Plugin!RollbackStands, Plugin!OthersStand, Plugin!Kinds
  <2>. QED  BY <1>1, <2>3, <2>4, <2>5, <2>6, PluginCallMoves
<1>4. CASE x3.kind # "update"
  <2>1. /\ x1' = [x1 EXCEPT !.dir = x1.aside, !.aside = None,
                                !.previous = IF x1.dir # None THEN x1.dir ELSE @]
        /\ x3' = Plugin!Idle
    BY <1>4 DEF Plugin!Undo, Plugin!End
  <2>2. x1' \in [Plugin!Slots -> Plugin!Revs]
    BY <1>2, <2>1 DEF Plugin!Slots, Plugin!Revs
  <2>. QED  BY <1>1, <2>1, <2>2, PluginCallMoves
<1>. QED  BY <1>3, <1>4

(* The last steps of a call: what it leaves is left, and it is over, or it    *)
(* goes on to remove the slots and the row of what is uninstalled.          *)
LEMMA PluginLastSteps ==
  ASSUME Plugin!IInv, Plugin!UndoOlder \/ Plugin!Sweep \/ Plugin!MoveBack \/ Plugin!Remove \/ Plugin!RemoveSlots
  PROVE  Plugin!IInv'
<1>1. /\ x3.pc \in {"undo older", "sweep", "back", "remove", "remove slots"}
      /\ UNCHANGED <<x2, x4>> /\ UNCHANGED Plugin!runtime
  BY DEF Plugin!UndoOlder, Plugin!Sweep, Plugin!MoveBack, Plugin!Remove, Plugin!RemoveSlots
<1>2. Plugin!TypeOK /\ x3 \in Plugin!Ops /\ x1 \in [Plugin!Slots -> Plugin!Revs]
  BY DEF Plugin!IInv, Plugin!TypeOK
<1>3. ASSUME NEW from \in Plugin!Slots,
    NEW to \in Plugin!Slots \cup {None} PROVE Plugin!Move(from,
    to) \in [Plugin!Slots -> Plugin!Revs]
  BY <1>2, PluginMoves
<1>4. [x1 EXCEPT !.previous = None, !.older = None,
    !.aside = None] \in [Plugin!Slots -> Plugin!Revs]
  BY <1>2 DEF Plugin!Revs
<1>5. x1' \in [Plugin!Slots -> Plugin!Revs]
  BY <1>2, <1>3, <1>4
     DEF Plugin!UndoOlder, Plugin!Sweep, Plugin!MoveBack, Plugin!Remove, Plugin!RemoveSlots,
         Plugin!Slots
<1>6. CASE x3' = Plugin!Idle
  BY <1>1, <1>5, <1>6, PluginCallMoves
<1>7. CASE \E pc \in {"remove slots", "write"} : Plugin!Goto(pc) /\ x3.pc \in {"remove",
    "remove slots"}
  <2>1. x3.kind \in {"install", "uninstall"}
    BY <1>1, <1>2, <1>7
       DEF Plugin!IInv, Plugin!UpdateStands, Plugin!RollbackStands, Plugin!OthersStand,
           Plugin!Ops, Plugin!Kinds
  <2>2. x3' \in Plugin!Ops /\ x3'.pc \in {"remove slots", "write"} /\ x3'.kind = x3.kind
    BY <1>2, <1>7, PluginGoes DEF Plugin!Stages
  <2>3. Plugin!UpdateStands' /\ Plugin!RollbackStands' /\ Plugin!OthersStand'
    BY <2>1, <2>2, PluginAssumption
       DEF Plugin!UpdateStands, Plugin!RollbackStands, Plugin!OthersStand, Plugin!Kinds
  <2>. QED  BY <1>1, <1>5, <2>2, <2>3, PluginCallMoves
<1>. QED  BY <1>6, <1>7, PluginAssumption
   DEF Plugin!UndoOlder, Plugin!Sweep, Plugin!MoveBack, Plugin!Remove, Plugin!RemoveSlots,
       Plugin!End

(* An agent starts: it finds what is enabled, and asks whether it is trusted. *)
LEMMA PluginDiscovers ==
  ASSUME Plugin!IInv, Plugin!EnabledManifests \/ Plugin!HooksTrusted
  PROVE  Plugin!IInv'
<1>1. UNCHANGED <<x1, x2, x3, x4, x6, x7>>
  BY DEF Plugin!EnabledManifests, Plugin!HooksTrusted, Plugin!files
<1>2. Plugin!TypeOK /\ x5 \in Plugin!Agents
  BY DEF Plugin!IInv, Plugin!TypeOK
<1>3. Plugin!UpdateStands' /\ Plugin!RollbackStands' /\ Plugin!OthersStand'
  BY <1>1
     DEF Plugin!IInv, Plugin!UpdateStands, Plugin!RollbackStands, Plugin!OthersStand,
         Plugin!Stands, Plugin!Replaced
<1>4. Plugin!TrustIsConsent' /\ Plugin!BlocksAreKept'
  BY <1>1 DEF Plugin!IInv, Plugin!TrustIsConsent, Plugin!BlocksAreKept
<1>5. CASE Plugin!EnabledManifests
  <2>1. x1.dir \in Plugin!Revs /\ x3.pc = "idle"
    BY <1>2, <1>5, PluginAssumption DEF Plugin!TypeOK, Plugin!Slots, Plugin!EnabledManifests
  <2>2. /\ x5' \in Plugin!Agents /\ x5'.pc = "check"
        /\ x5'.found # None => x5'.found = x1.dir
        /\ x5'.registered = x5.registered /\ x5'.consented = x5.consented
    BY <1>2, <1>5, <2>1 DEF Plugin!EnabledManifests, Plugin!Agents, Plugin!Revs
  <2>3. Plugin!TypeOK'
    BY <1>1, <1>2, <2>2 DEF Plugin!TypeOK
  <2>4. Plugin!FoundIsThere' /\ Plugin!HooksRunWithConsent'
    BY <1>1, <2>1, <2>2 DEF Plugin!IInv, Plugin!FoundIsThere, Plugin!HooksRunWithConsent
  <2>. QED  BY <1>3, <1>4, <2>3, <2>4 DEF Plugin!IInv
<1>6. CASE Plugin!HooksTrusted
  <2>1. /\ x5' \in Plugin!Agents /\ x5'.pc = "up"
        /\ x5'.registered # None => x5'.consented
    <3>1. CASE x5.found # None /\ TRUE /\ Plugin!TrustValid
      <4>1. x5' = [pc |-> "up", found |-> None, registered |-> x5.found,
                      consented |-> x4 = x5.found]
        BY <1>6, <3>1 DEF Plugin!HooksTrusted
      <4>2. x4 = x5.found
        BY <1>6, <3>1
           DEF Plugin!HooksTrusted, Plugin!IInv, Plugin!FoundIsThere, Plugin!TrustIsConsent,
               Plugin!TrustValid
      <4>. QED  BY <1>2, <4>1, <4>2 DEF Plugin!Agents, Plugin!Revs
    <3>2. CASE ~(x5.found # None /\ TRUE /\ Plugin!TrustValid)
      <4>1. x5' = [x5 EXCEPT !.pc = "up", !.found = None]
        BY <1>6, <3>2 DEF Plugin!HooksTrusted
      <4>. QED  BY <1>2, <4>1
         DEF Plugin!IInv, Plugin!HooksRunWithConsent, Plugin!Agents, Plugin!Revs
    <3>. QED  BY <3>1, <3>2
  <2>2. Plugin!TypeOK'
    BY <1>1, <1>2, <2>1 DEF Plugin!TypeOK
  <2>3. Plugin!FoundIsThere' /\ Plugin!HooksRunWithConsent'
    BY <2>1 DEF Plugin!FoundIsThere, Plugin!HooksRunWithConsent
  <2>. QED  BY <1>3, <1>4, <2>2, <2>3 DEF Plugin!IInv
<1>. QED  BY <1>5, <1>6

(* What the hooks of an event do leaves everything else alone. *)
LEMMA PluginEventKeeps ==
  ASSUME Plugin!IInv, UNCHANGED <<x1, x2, x3, x4, x5>>, x6' \in Plugin!EventCalls,
         x7' \in [Actors -> Plugin!HookStates], Plugin!BlocksAreKept'
  PROVE  Plugin!IInv'
<1>1. Plugin!TypeOK'
  BY DEF Plugin!IInv, Plugin!TypeOK
<1>2. Plugin!TrustIsConsent' /\ Plugin!FoundIsThere' /\ Plugin!HooksRunWithConsent'
  BY DEF Plugin!IInv, Plugin!TrustIsConsent, Plugin!FoundIsThere, Plugin!HooksRunWithConsent
<1>3. Plugin!UpdateStands' /\ Plugin!RollbackStands' /\ Plugin!OthersStand'
  BY DEF Plugin!IInv, Plugin!UpdateStands, Plugin!RollbackStands, Plugin!OthersStand,
      Plugin!Stands, Plugin!Replaced
<1>. QED  BY <1>1, <1>2, <1>3 DEF Plugin!IInv

LEMMA PluginEvents ==
  ASSUME Plugin!IInv,
         \/ \E e \in Plugin!Events : Plugin!RunHooks(e)
         \/ \E h \in Actors : Plugin!ExecuteHook(h) \/ \E o \in Plugin!Outcomes : Plugin!HookEnds(h, o)
         \/ Plugin!EventOver
  PROVE  Plugin!IInv'
<1>1. UNCHANGED <<x1, x2, x3, x4, x5>>
  BY DEF Plugin!RunHooks, Plugin!ExecuteHook, Plugin!HookEnds, Plugin!EventOver, Plugin!files
<1>2. x6 \in Plugin!EventCalls /\ x7 \in [Actors -> Plugin!HookStates] /\ Plugin!BlocksAreKept
  BY DEF Plugin!IInv, Plugin!TypeOK
<1>3. CASE \E e \in Plugin!Events : Plugin!RunHooks(e)
  <2>1. /\ x6' \in Plugin!EventCalls /\ ~x6'.blocked /\ x7' = [h \in Actors |-> "submitted"]
    BY <1>3 DEF Plugin!RunHooks, Plugin!NoCall, Plugin!EventCalls
  <2>. QED  BY <1>1, <2>1, PluginEventKeeps DEF Plugin!HookStates, Plugin!BlocksAreKept
<1>4. ASSUME NEW h \in Actors, Plugin!ExecuteHook(h) PROVE Plugin!IInv'
  <2>1. x6' = x6 /\ x7[h] = "submitted" /\ x7' = [x7 EXCEPT ![h] = "started"]
    BY <1>4 DEF Plugin!ExecuteHook
  <2>2. x7' \in [Actors -> Plugin!HookStates]
    BY <1>2, <2>1 DEF Plugin!HookStates
  <2>3. Plugin!BlocksAreKept'
    BY <1>2, <2>1 DEF Plugin!BlocksAreKept
  <2>. QED  BY <1>1, <1>2, <2>1, <2>2, <2>3, PluginEventKeeps
<1>5. ASSUME NEW h \in Actors, NEW o \in Plugin!Outcomes, Plugin!HookEnds(h, o) PROVE Plugin!IInv'
  <2>1. /\ x6.pc = "running" /\ x7[h] = "started" /\ x7' = [x7 EXCEPT ![h] = o]
        /\ x6' = [x6 EXCEPT !.blocked = x6.blocked \/ o = "block"]
    BY <1>5 DEF Plugin!HookEnds, Plugin!Merge
  <2>2. /\ x6' \in Plugin!EventCalls /\ x6'.blocked = (x6.blocked \/ o = "block")
    BY <1>2, <2>1 DEF Plugin!EventCalls
  <2>3. x7' \in [Actors -> Plugin!HookStates]
    BY <1>2, <2>1 DEF Plugin!HookStates
  <2>4. (\E g \in Actors : x7'[g] = "block") <=> (\E g \in Actors : x7[g] = "block") \/ o = "block"
    BY <1>2, <2>1
  <2>5. Plugin!BlocksAreKept'
    BY <1>2, <2>1, <2>2, <2>4 DEF Plugin!BlocksAreKept
  <2>. QED  BY <1>1, <2>2, <2>3, <2>5, PluginEventKeeps
<1>6. CASE Plugin!EventOver
  <2>1. x6' \in Plugin!EventCalls /\ x6'.pc = "none" /\ x7' = [h \in Actors |-> "idle"]
    BY <1>6 DEF Plugin!EventOver, Plugin!NoCall, Plugin!EventCalls
  <2>. QED  BY <1>1, <2>1, PluginEventKeeps DEF Plugin!HookStates, Plugin!BlocksAreKept
<1>. QED  BY <1>3, <1>4, <1>5, <1>6

LEMMA PluginCrash == ASSUME Plugin!IInv, Plugin!Crash PROVE Plugin!IInv'
<1>1. /\ x3' = Plugin!Idle /\ UNCHANGED <<x1, x2, x4>>
      /\ x5' = [pc |-> "down", found |-> None, registered |-> None, consented |-> FALSE]
      /\ x6' = Plugin!NoCall /\ x7' = [h \in Actors |-> "idle"]
  BY DEF Plugin!Crash
<1>2. x3' \in Plugin!Ops /\ Plugin!UpdateStands' /\ Plugin!RollbackStands' /\ Plugin!OthersStand'
  BY <1>1, PluginIdleStands
<1>3. Plugin!TypeOK'
  BY <1>1, <1>2
     DEF Plugin!IInv, Plugin!TypeOK, Plugin!Agents, Plugin!Revs, Plugin!NoCall,
         Plugin!EventCalls, Plugin!HookStates
<1>4. Plugin!TrustIsConsent' /\ Plugin!FoundIsThere' /\ Plugin!HooksRunWithConsent' /\ Plugin!BlocksAreKept'
  BY <1>1
     DEF Plugin!IInv, Plugin!NoCall, Plugin!TrustIsConsent, Plugin!FoundIsThere,
         Plugin!HooksRunWithConsent, Plugin!BlocksAreKept
<1>. QED  BY <1>2, <1>3, <1>4 DEF Plugin!IInv

LEMMA PluginNext == ASSUME Plugin!IInv, Plugin!Next PROVE Plugin!IInv'
<1>1. CASE \E on \in BOOLEAN : Plugin!SetEnabled(on) \/ Plugin!SetTrusted(on) \/ Plugin!SetPinned(on)
  BY <1>1, PluginFlags
<1>2. CASE \E r \in Things : Plugin!EditByHand(r) \/ Plugin!InstallZip(r) \/ Plugin!UpdateZip(r)
  BY <1>2, PluginEdits, PluginInstalls, PluginUpdates
<1>3. CASE Plugin!Rotate \/ Plugin!MoveOut \/ Plugin!MoveIn \/ Plugin!WriteState \/ Plugin!Undo
  BY <1>3, PluginRotate, PluginMoveOut, PluginMoveIn, PluginWriteState, PluginUndo
<1>4. CASE Plugin!UndoOlder \/ Plugin!Sweep \/ Plugin!MoveBack \/ Plugin!Remove \/ Plugin!RemoveSlots
  BY <1>4, PluginLastSteps
<1>5. CASE Plugin!Rollback \/ Plugin!Uninstall
  BY <1>5, PluginRollsBack, PluginUninstalls
<1>6. CASE Plugin!EnabledManifests \/ Plugin!HooksTrusted \/ Plugin!Crash
  BY <1>6, PluginDiscovers, PluginCrash
<1>7. CASE \/ \E e \in Plugin!Events : Plugin!RunHooks(e)
           \/ \E h \in Actors : Plugin!ExecuteHook(h) \/ \E o \in Plugin!Outcomes : Plugin!HookEnds(h, o)
           \/ Plugin!EventOver
  BY <1>7, PluginEvents
<1>. QED  BY <1>1, <1>2, <1>3, <1>4, <1>5, <1>6, <1>7 DEF Plugin!Next

LEMMA PluginStutters == ASSUME Plugin!IInv, UNCHANGED Plugin!vars PROVE Plugin!IInv'
<1>1. UNCHANGED <<x1, x2, x3, x4, x5, x6, x7>>
  BY DEF Plugin!vars
<1>2. x6' \in Plugin!EventCalls /\ x7' \in [Actors -> Plugin!HookStates] /\ Plugin!BlocksAreKept'
  BY <1>1 DEF Plugin!IInv, Plugin!TypeOK, Plugin!BlocksAreKept
<1>. QED  BY <1>1, <1>2, PluginEventKeeps

(* A call that ends ends in one of its last steps. *)
LEMMA PluginEnds ==
  ASSUME Plugin!IInv, Plugin!Next
  PROVE  Plugin!AllOrNothing
<1> SUFFICES ASSUME x3.pc # "idle", x3.kind \in {"update", "rollback"}, x3'.pc = "idle",
                    x5'.pc # "down"
             PROVE  \/ <<x1.dir, x1.previous, x2>>' = x3.was
                    \/ <<x1.dir, x1.previous, x2>>' = <<x3.new, x3.old, Plugin!Replaced>>
  BY DEF Plugin!AllOrNothing
<1>1. Plugin!TypeOK /\ x3 \in Plugin!Ops /\ x1 \in [Plugin!Slots -> Plugin!Revs]
  BY DEF Plugin!IInv, Plugin!TypeOK
<1>2. ASSUME NEW pc \in Plugin!Stages \ {"idle"} PROVE ~Plugin!Goto(pc)
  BY <1>1, PluginGoes
<1>3. /\ ~(\E on \in BOOLEAN : Plugin!SetEnabled(on) \/ Plugin!SetTrusted(on) \/ Plugin!SetPinned(on))
      /\ ~(\E r \in Things : Plugin!EditByHand(r) \/ Plugin!InstallZip(r) \/ Plugin!UpdateZip(r))
      /\ ~Plugin!Rollback /\ ~Plugin!Uninstall
  BY DEF Plugin!SetEnabled, Plugin!SetTrusted, Plugin!SetPinned, Plugin!EditByHand,
      Plugin!InstallZip, Plugin!UpdateZip, Plugin!Rollback,
         Plugin!Uninstall, Plugin!MayChange
<1>4. /\ ~Plugin!EnabledManifests /\ ~Plugin!HooksTrusted /\ ~Plugin!EventOver
      /\ ~(\E e \in Plugin!Events : Plugin!RunHooks(e))
      /\ ~(\E h \in Actors : Plugin!ExecuteHook(h) \/ \E o \in Plugin!Outcomes : Plugin!HookEnds(h, o))
  BY DEF Plugin!EnabledManifests, Plugin!HooksTrusted, Plugin!EventOver, Plugin!RunHooks,
      Plugin!ExecuteHook, Plugin!HookEnds, Plugin!files
<1>5. ~Plugin!Crash
  BY DEF Plugin!Crash
<1>6. CASE Plugin!Rotate
  <2>1. x1' = [x1 EXCEPT !.older = @] /\ x2' = x2 /\ x3.pc = "rotate"
    BY <1>2, <1>6 DEF Plugin!Rotate, Plugin!Stages
  <2>2. x3.was = <<x1.dir, x1.previous, x2>>
    BY <2>1 DEF Plugin!IInv, Plugin!UpdateStands, Plugin!RollbackStands, Plugin!Stands
  <2>3. x1'.dir = x1.dir /\ x1'.previous = x1.previous
    BY <1>1, <2>1 DEF Plugin!Slots
  <2>. QED  BY <2>1, <2>2, <2>3
<1>7. CASE Plugin!MoveOut
  <2>1. x1' = x1 /\ x2' = x2 /\ x3.pc = "out" /\ x3.kind = "rollback"
    BY <1>2, <1>7 DEF Plugin!MoveOut, Plugin!Stages
  <2>. QED  BY <2>1 DEF Plugin!IInv, Plugin!RollbackStands, Plugin!Stands
<1>8. ~Plugin!MoveIn
  BY <1>2 DEF Plugin!MoveIn, Plugin!Stages
<1>9. ~Plugin!WriteState
  BY <1>2 DEF Plugin!WriteState, Plugin!Stages
<1>10. CASE Plugin!Undo
  <2>1. x3.pc = "undo" /\ x3.kind = "rollback" /\ x2' = x2
    BY <1>2, <1>10 DEF Plugin!Undo, Plugin!Stages
  <2>2. x1' = [x1 EXCEPT !.dir = x1.aside, !.aside = None,
                             !.previous = IF x1.dir # None THEN x1.dir ELSE @]
    BY <1>10, <2>1 DEF Plugin!Undo
  <2>3. /\ x3.was = <<x1.aside, x3.new, x2>> /\ x3.new # None
        /\ \/ x1.dir = None /\ x1.previous = x3.new
           \/ x1.dir = x3.new /\ x1.previous = None
    BY <2>1 DEF Plugin!IInv, Plugin!RollbackStands, Plugin!Stands
  <2>4. x1'.dir = x1.aside /\ x1'.previous = x3.new
    BY <1>1, <2>2, <2>3 DEF Plugin!Slots
  <2>. QED  BY <2>1, <2>3, <2>4
<1>11. CASE Plugin!UndoOlder
  <2>1. x3.pc = "undo older" /\ x3.kind = "update" /\ x2' = x2
    BY <1>11 DEF Plugin!UndoOlder, Plugin!IInv, Plugin!RollbackStands
  <2>2. x1.previous = None /\ x3.was = <<x1.dir, x1.older, x2>>
    BY <2>1 DEF Plugin!IInv, Plugin!UpdateStands, Plugin!Stands
  <2>3. x1'.dir = x1.dir /\ x1'.previous = x1.older
    <3>1. CASE x1.older = None
      BY <1>11, <2>2, <3>1 DEF Plugin!UndoOlder
    <3>2. CASE x1.older # None
      <4>1. x1' = Plugin!Move("older", "previous")
        BY <1>11, <3>2 DEF Plugin!UndoOlder
      <4>. QED  BY <1>1, <4>1, PluginMoves DEF Plugin!Slots
    <3>. QED  BY <3>1, <3>2
  <2>. QED  BY <2>1, <2>2, <2>3
<1>12. CASE Plugin!Sweep
  <2>1. x3.pc = "sweep" /\ x3.kind = "update" /\ x2' = x2
    BY <1>12 DEF Plugin!Sweep, Plugin!IInv, Plugin!RollbackStands
  <2>2. x1.dir = x3.new /\ x1.previous = x3.old /\ x2 = Plugin!Replaced
    BY <2>1 DEF Plugin!IInv, Plugin!UpdateStands
  <2>3. x1'.dir = x1.dir /\ x1'.previous = x1.previous
    <3>1. CASE x1' = x1
      BY <3>1
    <3>2. CASE x1' = Plugin!Move("older", None)
      BY <1>1, <3>2, PluginMoves, PluginAssumption DEF Plugin!Slots
    <3>. QED  BY <1>12, <3>1, <3>2 DEF Plugin!Sweep
  <2>. QED  BY <2>1, <2>2, <2>3
<1>13. CASE Plugin!MoveBack
  <2>1. x3.pc = "back" /\ x3.kind = "rollback" /\ x2' = x2 /\ x1' = Plugin!Move("aside", "previous")
    BY <1>13, PluginAssumption DEF Plugin!MoveBack, Plugin!IInv, Plugin!UpdateStands
  <2>2. x1.dir = x3.new /\ x1.aside = x3.old /\ x2 = Plugin!Replaced
    BY <2>1 DEF Plugin!IInv, Plugin!RollbackStands
  <2>3. x1'.dir = x1.dir /\ x1'.previous = x1.aside
    BY <1>1, <2>1, PluginMoves DEF Plugin!Slots
  <2>. QED  BY <2>1, <2>2, <2>3
<1>14. ~Plugin!Remove /\ ~Plugin!RemoveSlots
  BY DEF Plugin!Remove, Plugin!RemoveSlots, Plugin!IInv, Plugin!UpdateStands, Plugin!RollbackStands
<1>. QED
  BY <1>3, <1>4, <1>5, <1>6, <1>7, <1>8, <1>9, <1>10, <1>11, <1>12, <1>13, <1>14 DEF Plugin!Next

(* What is remembered of an event tells its verdict. *)
LEMMA PluginIsHeard == ASSUME Plugin!IInv PROVE Plugin!HooksRunWithConsent /\ Plugin!BlockIsHeard
BY DEF Plugin!IInv, Plugin!BlocksAreKept, Plugin!BlockIsHeard, Plugin!AllEnded, Plugin!Verdict

(* However installs, updates, rollbacks, edits by hand, crashes and agents    *)
(* that start interleave: an update or a rollback that ends has done all or   *)
(* nothing, hooks run only with consent to what is there, and a block counts  *)
(* in whatever order the hooks end.                                         *)
THEOREM PluginsStayWhole == ComponentsSpec => PluginsAreKept
<1> DEFINE Inv == focus = "plugins" => Plugin!IInv
           Kept == focus = "plugins" => Plugin!HooksRunWithConsent /\ Plugin!BlockIsHeard
           Step == focus = "plugins" => Plugin!AllOrNothing
<1>1. ComponentsInit => Inv
  BY PluginInit DEF ComponentsInit
<1>2. Inv /\ [ComponentsNext]_componentsVars => Inv'
  <2> SUFFICES ASSUME Plugin!IInv, focus = "plugins", [ComponentsNext]_componentsVars
               PROVE  Plugin!IInv'
    BY DEF ComponentsNext, componentsVars
  <2>1. CASE ComponentsNext
    BY <2>1, PluginNext DEF ComponentsNext
  <2>2. CASE UNCHANGED componentsVars
    BY <2>2, PluginStutters DEF componentsVars, cells, Plugin!vars
  <2>. QED  BY <2>1, <2>2
<1>3. Inv => Kept
  BY PluginIsHeard
<1>4. Inv /\ [ComponentsNext]_componentsVars => [Step]_componentsVars
  BY PluginEnds DEF ComponentsNext
<1>. HIDE DEF Inv, Kept, Step
<1>5. ComponentsSpec => []Kept /\ [][Step]_componentsVars
  BY <1>1, <1>2, <1>3, <1>4, PTL DEF ComponentsSpec
<1>. QED  BY <1>5 DEF PluginsAreKept, Kept, Step

-----------------------------------------------------------------------------
(* BoxlitePool.  Its lemmas are proved in a module of their own, of any       *)
(* callers, scopes, VMs and capacity, here with those of the instance.      *)

ProvedPool == INSTANCE BoxlitePool_proofs WITH
  Callers <- Actors, Scopes <- Things, Capacity <- 1, keepWarm <- x1,
  lease <- x2, warm <- x3, pending <- x4, closed <- x5, poisoned <- x6,
  loop <- x7, vm <- x8, dirty <- x9, lost <- x10, doomed <- x11,
  caller <- x12

LEMMA PoolConstantsHold == ProvedPool!PoolConstants
BY PoolAssumption, ServersAssumption
   DEF ProvedPool!PoolConstants, ProvedPool!IsFiniteSet, IsFiniteSet, ProvedPool!Lease, Pool!Lease

(* Both instances take the same steps: what a caller does. *)
LEMMA PoolCallSame == ASSUME NEW c \in Actors, Pool!Call(c) PROVE ProvedPool!Call(c)
<1>1. \A S : Pool!Cardinality(S) = ProvedPool!Cardinality(S)
  BY DEF Pool!Cardinality, ProvedPool!Cardinality
<1>2. \A s : Pool!Without(s) = ProvedPool!Without(s)
  BY DEF Pool!Without, ProvedPool!Without, Pool!Range, ProvedPool!Range, Pool!RemoveAt,
     ProvedPool!RemoveAt
<1>3. ASSUME NEW s PROVE Pool!Acquire(c, s) => ProvedPool!Acquire(c, s)
  BY <1>1, <1>2 DEF Pool!Acquire, ProvedPool!Acquire, Pool!Full, ProvedPool!Full,
         Pool!Leased, ProvedPool!Leased, Pool!At, ProvedPool!At, Pool!Range,
         ProvedPool!Range
<1>4. Pool!Evict(c) => ProvedPool!Evict(c)
  BY DEF Pool!Evict, ProvedPool!Evict, Pool!Disposed, ProvedPool!Disposed, Pool!At,
         ProvedPool!At, Pool!tables, ProvedPool!tables
<1>5. Pool!Start(c) => ProvedPool!Start(c)
  BY DEF Pool!Start, ProvedPool!Start, Pool!Unused, ProvedPool!Unused, Pool!At,
         ProvedPool!At, Pool!Go, ProvedPool!Go, Pool!Leased, ProvedPool!Leased,
         Pool!Sweepers, ProvedPool!Sweepers, Pool!tables, ProvedPool!tables
<1>6. Pool!Started(c) => ProvedPool!Started(c)
  BY DEF Pool!Started, ProvedPool!Started, Pool!At, ProvedPool!At, Pool!Go, ProvedPool!Go,
         Pool!tables, ProvedPool!tables
<1>7. Pool!StartFails(c) => ProvedPool!StartFails(c)
  BY DEF Pool!StartFails, ProvedPool!StartFails, Pool!LeftBehind, ProvedPool!LeftBehind,
         Pool!At, ProvedPool!At, Pool!tables, ProvedPool!tables
<1>8. Pool!StartGivenUp(c) => ProvedPool!StartGivenUp(c)
  BY DEF Pool!StartGivenUp, ProvedPool!StartGivenUp, Pool!At, ProvedPool!At, Pool!tables,
         ProvedPool!tables
<1>9. Pool!Publish(c) => ProvedPool!Publish(c)
  BY DEF Pool!Publish, ProvedPool!Publish, Pool!At, ProvedPool!At, Pool!Go, ProvedPool!Go
<1>10. Pool!Discard(c) => ProvedPool!Discard(c)
  BY DEF Pool!Discard, ProvedPool!Discard, Pool!Disposed, ProvedPool!Disposed, Pool!At,
         ProvedPool!At, Pool!tables, ProvedPool!tables
<1>11. Pool!Settle(c) => ProvedPool!Settle(c)
  BY DEF Pool!Settle, ProvedPool!Settle, Pool!At, ProvedPool!At, Pool!Leave,
         ProvedPool!Leave, Pool!NoCaller, ProvedPool!NoCaller
<1>12. Pool!Execute(c) => ProvedPool!Execute(c)
  BY DEF Pool!Execute, ProvedPool!Execute, Pool!Active, ProvedPool!Active, Pool!At,
         ProvedPool!At, Pool!Go, ProvedPool!Go, Pool!Leased, ProvedPool!Leased, Pool!Range,
         ProvedPool!Range
<1>13. Pool!CommandEnds(c) => ProvedPool!CommandEnds(c)
  BY DEF Pool!CommandEnds, ProvedPool!CommandEnds, Pool!At, ProvedPool!At, Pool!tables,
         ProvedPool!tables
<1>14. Pool!AfterCommand(c) => ProvedPool!AfterCommand(c)
  BY DEF Pool!AfterCommand, ProvedPool!AfterCommand, Pool!At, ProvedPool!At, Pool!Go,
         ProvedPool!Go, Pool!Leased, ProvedPool!Leased
<1>15. Pool!Invalidate(c) => ProvedPool!Invalidate(c)
  BY DEF Pool!Invalidate, ProvedPool!Invalidate, Pool!Disposed, ProvedPool!Disposed,
         Pool!At, ProvedPool!At, Pool!Leave, ProvedPool!Leave, Pool!NoCaller,
         ProvedPool!NoCaller, Pool!tables, ProvedPool!tables
<1>16. Pool!Release(c) => ProvedPool!Release(c)
  BY <1>2 DEF Pool!Release, ProvedPool!Release, Pool!At, ProvedPool!At, Pool!Leave,
         ProvedPool!Leave, Pool!NoCaller, ProvedPool!NoCaller, Pool!Leased,
         ProvedPool!Leased, Pool!Range, ProvedPool!Range
<1>. QED
  BY <1>3, <1>4, <1>5, <1>6, <1>7, <1>8, <1>9, <1>10, <1>11, <1>12, <1>13, <1>14, <1>15,
     <1>16 DEF Pool!Call, ProvedPool!Call

LEMMA PoolSame ==
  /\ Pool!Init => ProvedPool!Init
  /\ Pool!Next => ProvedPool!Next
  /\ ProvedPool!CapacityHolds => Pool!CapacityHolds
  /\ ProvedPool!CommandOwnsItsVm => Pool!CommandOwnsItsVm
<1>1. \A S : Pool!Cardinality(S) = ProvedPool!Cardinality(S)
  BY DEF Pool!Cardinality, ProvedPool!Cardinality
<1>2. /\ \A b : Pool!VmUp(b) => ProvedPool!VmUp(b)
      /\ \A b : Pool!CancelledStartEnds(b) => ProvedPool!CancelledStartEnds(b)
      /\ \A w, b : Pool!Sweep(w, b) => ProvedPool!Sweep(w, b)
  BY DEF Pool!VmUp, ProvedPool!VmUp, Pool!CancelledStartEnds, ProvedPool!CancelledStartEnds,
         Pool!Sweep, ProvedPool!Sweep, Pool!Disposed, ProvedPool!Disposed, Pool!tables,
         ProvedPool!tables
<1>3. /\ Pool!Reap => ProvedPool!Reap
      /\ Pool!Shutdown => ProvedPool!Shutdown
      /\ Pool!StopLoop => ProvedPool!StopLoop
  BY DEF Pool!Reap, ProvedPool!Reap, Pool!Shutdown, ProvedPool!Shutdown, Pool!StopLoop,
         ProvedPool!StopLoop, Pool!Leased, ProvedPool!Leased, Pool!tables, ProvedPool!tables
<1>4. Pool!Next => ProvedPool!Next
  BY <1>2, <1>3, PoolCallSame DEF Pool!Next, ProvedPool!Next, Pool!Sweepers, ProvedPool!Sweepers
<1>5. Pool!Init => ProvedPool!Init
  BY DEF Pool!Init, ProvedPool!Init, Pool!Sweepers, ProvedPool!Sweepers, Pool!NoCaller,
         ProvedPool!NoCaller
<1>6. ProvedPool!TypeOK => Pool!TypeOK
  BY DEF Pool!TypeOK, ProvedPool!TypeOK, Pool!Leased, ProvedPool!Leased, Pool!Range,
         ProvedPool!Range, Pool!IsInjective, ProvedPool!IsInjective
<1>7. ProvedPool!CapacityHolds => Pool!CapacityHolds
  BY <1>1, <1>6 DEF Pool!CapacityHolds, ProvedPool!CapacityHolds, Pool!Counted,
         ProvedPool!Counted, Pool!Acquiring, ProvedPool!Acquiring, Pool!Leased,
         ProvedPool!Leased, Pool!Live, ProvedPool!Live, Pool!GoingDown, ProvedPool!GoingDown
<1>8. ProvedPool!CommandOwnsItsVm => Pool!CommandOwnsItsVm
  BY DEF Pool!CommandOwnsItsVm, ProvedPool!CommandOwnsItsVm, Pool!CommandStartsAlone,
         ProvedPool!CommandStartsAlone, Pool!StopsNoWaitedCommand,
         ProvedPool!StopsNoWaitedCommand, Pool!At, ProvedPool!At
<1>. QED  BY <1>4, <1>5, <1>7, <1>8

(* Whatever callers start, evict, invalidate and release at the same time,     *)
(* beside the reaper and a shutdown: the pool counts no more VMs than its     *)
(* capacity and forgets none, and a command has its VM, up and for itself,    *)
(* until a shutdown.                                                       *)
THEOREM PoolIsCapped == ComponentsSpec => PoolIsOwned
<1> DEFINE Inv == focus = "pool" => ProvedPool!IInv
           Kept == focus = "pool" => Pool!CapacityHolds
           Step == focus = "pool" => Pool!CommandOwnsItsVm
<1>1. ComponentsInit => Inv
  BY PoolSame, PoolConstantsHold, ProvedPool!PoolInit DEF ComponentsInit
<1>2. Inv /\ [ComponentsNext]_componentsVars => Inv'
  <2> SUFFICES ASSUME ProvedPool!IInv, focus = "pool", [ComponentsNext]_componentsVars
               PROVE  ProvedPool!IInv'
    BY DEF ComponentsNext, componentsVars
  <2>1. [ProvedPool!Next]_(ProvedPool!vars)
    BY PoolSame DEF ComponentsNext, componentsVars, cells, ProvedPool!vars
  <2>. QED  BY <2>1, PoolConstantsHold, ProvedPool!PoolStep
<1>3. Inv => Kept
  BY PoolSame, PoolConstantsHold, ProvedPool!PoolHoldsCapacity
<1>4. Inv /\ [ComponentsNext]_componentsVars => [Step]_componentsVars
  <2> SUFFICES ASSUME ProvedPool!IInv, focus = "pool", ComponentsNext
               PROVE  Pool!CommandOwnsItsVm
    OBVIOUS
  <2>1. [ProvedPool!Next]_(ProvedPool!vars)
    BY PoolSame DEF ComponentsNext
  <2>2. ProvedPool!CommandOwnsItsVm
    BY <2>1, PoolConstantsHold, ProvedPool!PoolStartsAlone, ProvedPool!PoolStopsNone
       DEF ProvedPool!CommandOwnsItsVm
  <2>. QED  BY <2>2, PoolSame
<1>. HIDE DEF Inv, Kept, Step
<1>5. ComponentsSpec => []Kept /\ [][Step]_componentsVars
  BY <1>1, <1>2, <1>3, <1>4, PTL DEF ComponentsSpec
<1>. QED  BY <1>5 DEF PoolIsOwned, Kept, Step
=============================================================================
