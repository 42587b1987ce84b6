------------------------------- MODULE Memories -------------------------------
(***************************************************************************)
(* Long-term memory of a project: records in one SQLite file, settings in   *)
(* another file.  The web page changes both; the Memory tool of an agent    *)
(* saves and deletes; a turn begins with the records its message recalls,   *)
(* and when it completed a thread in the background asks a model for facts  *)
(* and stores those that are new.  Each call reads the settings when it     *)
(* begins and works with what it read.                                      *)
(* A text is the set of the terms in it: a text is part of another when its *)
(* terms are.                                                               *)
(***************************************************************************)
EXTENDS Naturals, Sequences, FiniteSets

CONSTANTS
  None, Agents,
  Web,            \* the page, not one of the agents
  Roots,          \* project roots; an agent moves between them
  Home,           \* the root the web page was started for, one of Roots
  Texts,          \* non-empty sets of terms
  Messages,       \* the terms of what a user asks, in their order
  SharedDir,      \* MYCODEAGENT_DATA_DIR is set: one file of settings and records
  Limit,          \* records a turn is given at most
  MaxRecords, MaxTurns, MaxSettings, MaxFaults        \* bounds

VARIABLES
  settings,       \* by data directory
  records,        \* by identity, which is also the order they were made in
  root,           \* _project_root of each agent
  running,        \* agents in a turn
  prompt,         \* the records its context holds
  locked,         \* its _capture_lock
  captures,       \* threads in the background
  call,           \* the Memory tool of an agent, the request of the page
  turns, changes, faults

vars == <<settings, records, root, running, prompt, locked, captures, call,
          turns, changes, faults>>
store == <<settings, records>>
agents == <<root, running, prompt, locked, captures>>
bounds == <<turns, changes, faults>>

Callers == Agents \cup {Web}
Dir(r) == IF SharedDir THEN Home ELSE r
Off == [enabled |-> FALSE, auto |-> FALSE]
Choices == {s \in [enabled : BOOLEAN, auto : BOOLEAN] : s.auto => s.enabled}

Init ==
  /\ settings = [d \in Roots |-> Off]
  /\ records = <<>>
  /\ root = [a \in Agents |-> Home] /\ running = {}
  /\ prompt = [a \in Agents |-> {}]
  /\ locked = {} /\ captures = {}
  /\ call = [c \in Callers |-> None]
  /\ turns = 0 /\ changes = 0 /\ faults = 0

Fails == faults < MaxFaults /\ faults' = faults + 1

-----------------------------------------------------------------------------
(* The service that a call makes for itself, and the store behind it.      *)

Service(r) ==
  [root |-> r, enabled |-> settings[Dir(r)].enabled, auto |-> settings[Dir(r)].auto]

Kept(dir) == {i \in DOMAIN records : records[i] # None /\ Dir(records[i].root) = dir}

(* Mutant: all that is in the file.                                        *)
OfDirectory(v) == IF v.enabled THEN Kept(Dir(v.root)) ELSE {}

OfScope(v) == IF v.enabled THEN {i \in Kept(Dir(v.root)) : records[i].root = v.root} ELSE {}

Matching(v, terms) == {i \in OfScope(v) : terms \subseteq records[i].text}
Newest(S, n) == {i \in S : Cardinality({j \in S : j > i}) < n}

Add(v, text, by) ==
  /\ Len(records) < MaxRecords
  /\ records' = Append(records, [root |-> v.root, text |-> text, by |-> by])

Remove(v, i) ==
  records' = IF i \in OfScope(v) THEN [records EXCEPT ![i] = None] ELSE records

-----------------------------------------------------------------------------
(* Settings: enabling needs a provider, and capturing needs both.           *)

UpdateSettings(s) ==
  /\ changes < MaxSettings /\ changes' = changes + 1
  /\ settings' = [settings EXCEPT ![Home] = s]
  /\ UNCHANGED <<records, call, turns, faults>> /\ UNCHANGED agents

-----------------------------------------------------------------------------
(* The Memory tool, in a turn, and the requests of the page.               *)

Open(c, op) ==
  /\ call[c] = None /\ (c = Web \/ c \in running)
  /\ LET v == Service(IF c = Web THEN Home ELSE root[c])
     IN /\ v.enabled              \* else the call says that memory is off
        /\ call' = [call EXCEPT ![c] = [op |-> op, service |-> v]]
  /\ UNCHANGED store /\ UNCHANGED agents /\ UNCHANGED bounds

Do(c) ==
  /\ call[c] # None /\ call' = [call EXCEPT ![c] = None]
  /\ LET v == call[c].service IN
     \/ call[c].op = "save" /\ UNCHANGED faults /\ \E t \in Texts : Add(v, t, None)
     \/ call[c].op = "delete" /\ UNCHANGED faults /\ \E i \in DOMAIN records : Remove(v, i)
     \/ Fails /\ UNCHANGED records
  /\ UNCHANGED <<settings, turns, changes>> /\ UNCHANGED agents

-----------------------------------------------------------------------------
(* Turns.                                                                  *)

Move(a, r) ==
  /\ a \notin running /\ root[a] # r /\ root' = [root EXCEPT ![a] = r]
  /\ UNCHANGED <<running, prompt, locked, captures, call>>
  /\ UNCHANGED store /\ UNCHANGED bounds

(* Mutant: what the last turn recalled is left where there is nothing new.  *)
RecallKeeping(a, v, m) ==
  LET found == UNION {Newest(Matching(v, {m[n]}), Limit) : n \in DOMAIN m}
  IN IF found = {} THEN prompt[a] ELSE found

(* Term by term, the newest first, until there are enough.                 *)
Recall(a, v, m) ==
  LET found[n \in 0..Len(m)] ==
        IF n = 0 THEN {}
        ELSE found[n - 1] \cup
             Newest(Newest(Matching(v, {m[n]}), Limit) \ found[n - 1],
                    Limit - Cardinality(found[n - 1]))
  IN found[Len(m)]

BeginTurn(a, message) ==
  /\ a \notin running /\ turns < MaxTurns /\ turns' = turns + 1
  /\ running' = running \cup {a}
  /\ \/ /\ prompt' = [prompt EXCEPT ![a] = Recall(a, Service(root[a]), message)]
        /\ UNCHANGED faults
     \/ Fails /\ prompt' = [prompt EXCEPT ![a] = {}]
  /\ UNCHANGED <<root, locked, captures, call, changes>> /\ UNCHANGED store

Thread(a, v) ==
  [agent |-> a, service |-> v, at |-> "model", facts |-> {}, fact |-> None, turn |-> turns]

(* Mutants: a thread that does not wait for the lock; one return keeps it.  *)
CaptureAnyway(a, v) ==
  /\ captures' = captures \cup {Thread(a, v)}
  /\ locked' = locked \cup {a} /\ UNCHANGED faults
CaptureKeepsLock(a, v) ==
  /\ a \notin locked /\ locked' = locked \cup {a} /\ UNCHANGED faults
  /\ captures' = IF v.enabled /\ v.auto
                 THEN captures \cup {Thread(a, v)}
                 ELSE captures

(* The lock is tried, not waited for, and is free again when no thread was  *)
(* started.                                                                *)
Capture(a, v) ==
  IF a \in locked \/ ~v.enabled \/ ~v.auto
  THEN UNCHANGED <<locked, captures, faults>>
  ELSE \/ /\ locked' = locked \cup {a} /\ UNCHANGED faults
          /\ captures' = captures \cup {Thread(a, v)}
       \/ Fails /\ UNCHANGED <<locked, captures>>

EndTurn(a, completed) ==
  /\ a \in running /\ call[a] = None /\ running' = running \ {a}
  /\ IF completed THEN Capture(a, Service(root[a]))
     ELSE UNCHANGED <<locked, captures, faults>>
  /\ UNCHANGED <<root, prompt, call, turns, changes>> /\ UNCHANGED store

-----------------------------------------------------------------------------
(* The thread of a capture.                                                *)

Becomes(k, new) == captures' = (captures \ {k}) \cup {new}

(* At most max_per_turn = 2 facts; none when the model fails or is late.   *)
ModelAnswers(k) ==
  /\ k.at = "model"
  /\ \E F \in SUBSET Texts :
       Cardinality(F) <= 2 /\ Becomes(k, [k EXCEPT !.at = "facts", !.facts = F])
  /\ UNCHANGED <<root, running, prompt, locked, call>> /\ UNCHANGED store /\ UNCHANGED bounds

(* A fact is skipped when it is part of a record, or a look at the store    *)
(* fails.                                                                  *)
LookUp(k, f) ==
  /\ k.at = "facts" /\ f \in k.facts
  /\ \/ /\ Becomes(k, [k EXCEPT !.facts = @ \ {f}, !.fact = f,
                         !.at = IF Matching(k.service, f) = {} THEN "store" ELSE @])
        /\ UNCHANGED faults
     \/ Fails /\ Becomes(k, [k EXCEPT !.facts = @ \ {f}])
  /\ UNCHANGED <<root, running, prompt, locked, call, turns, changes>> /\ UNCHANGED store

Store(k) ==
  /\ k.at = "store" /\ Becomes(k, [k EXCEPT !.at = "facts"])
  /\ \/ Add(k.service, k.fact, k.agent) /\ UNCHANGED faults
     \/ Fails /\ UNCHANGED records
  /\ UNCHANGED <<settings, root, running, prompt, locked, call, turns, changes>>

Finish(k) ==
  /\ k.at = "facts" /\ k.facts = {}
  /\ captures' = captures \ {k} /\ locked' = locked \ {k.agent}
  /\ UNCHANGED <<root, running, prompt, call>> /\ UNCHANGED store /\ UNCHANGED bounds

Next ==
  \/ \E s \in Choices : UpdateSettings(s)
  \/ \E c \in Callers : Open(c, "save") \/ Open(c, "delete") \/ Do(c)
  \/ \E a \in Agents :
       \/ \E r \in Roots : Move(a, r)
       \/ \E m \in Messages : BeginTurn(a, m)
       \/ EndTurn(a, TRUE) \/ EndTurn(a, FALSE)
  \/ \E k \in captures :
       \/ ModelAnswers(k) \/ Store(k) \/ Finish(k)
       \/ \E f \in k.facts : LookUp(k, f)

Spec == Init /\ [][Next]_vars

-----------------------------------------------------------------------------
(* However a turn ends and a capture goes, its lock is held by one thread    *)
(* that is under way or by none: a lock left behind would end all captures. *)
LockIsOfItsCapture ==
  \A a \in Agents :
    Cardinality({k \in captures : k.agent = a}) = IF a \in locked THEN 1 ELSE 0

(* What one session captures, in turns that overlap earlier captures, it     *)
(* does not store again while a record still tells it.                      *)
FactsAreStoredOnce ==
  \A i, j \in DOMAIN records :
    i < j /\ records[i] # None /\ records[j] # None =>
      ~ /\ records[i].by = records[j].by /\ records[i].by # None
        /\ records[i].root = records[j].root
        /\ records[j].text \subseteq records[i].text

(* A turn begins with records of its own project that are still there, no   *)
(* more than the limit, and with none when memory is off.                   *)
TurnsRecallTheirOwn ==
  \A a \in running' \ running :
    /\ \A i \in prompt'[a] :
         /\ records[i] # None /\ records[i].root = root[a]
         /\ settings[Dir(root[a])].enabled
    /\ Cardinality(prompt'[a]) <= Limit
=============================================================================
