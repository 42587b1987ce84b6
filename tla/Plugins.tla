------------------------------- MODULE Plugins -------------------------------
(***************************************************************************)
(* One plugin of a project: its directory, the revision kept for a rollback, *)
(* its row in the state file, the calls of PluginCatalog that move one to    *)
(* the other, the discovery of an agent that starts, and the hooks that the  *)
(* agent runs at once around a call of a tool.  A revision stands for a      *)
(* content, its version, its archive and the digest of either.               *)
(***************************************************************************)
EXTENDS Naturals, FiniteSets

CONSTANTS
  None,
  Revisions, Hooks,
  OptIn,            \* RIDGE_ALLOW_TRUSTED_HOOKS
  ChangesOverlap,   \* the plugin is changed while an agent discovers it
  MoveBackFails,    \* the last rename of a rollback may fail
  MaxSurprises      \* bound on edits by hand and reads of the state that fail

VARIABLES
  disk,      \* which revision is in the directory, and in the slots beside it
  row,       \* the plugin's row of the state file, or None
  op,        \* the call of the catalog that holds _STATE_LOCK
  consent,   \* history: the revision the user trusts, until it is replaced
  agent,     \* an agent: what it found and the hooks it registered
  call,      \* the event in hand and its verdict
  hook,      \* what became of each hook of that event
  surprises  \* how many edits and failed reads there were

vars == <<disk, row, op, consent, agent, call, hook, surprises>>
files == <<disk, row, op, consent>>
runtime == <<agent, call, hook>>

Idle == [pc |-> "idle", kind |-> None, new |-> None, old |-> None, row |-> None,
         was |-> <<>>]
NoCall == [pc |-> "none", event |-> None, blocked |-> FALSE]
Blank == [enabled |-> FALSE, trusted |-> None, sha |-> None, pinned |-> FALSE,
          previous |-> None]

Init ==
  /\ disk = [dir |-> None, previous |-> None, older |-> None, aside |-> None]
  /\ row = None /\ op = Idle /\ consent = None
  /\ agent = [pc |-> "down", found |-> None, registered |-> None, consented |-> FALSE]
  /\ call = NoCall /\ hook = [h \in Hooks |-> "idle"]
  /\ surprises = 0

(* Hooks that run read nothing of the catalog: it waits for them here.     *)
MayChange ==
  /\ op.pc = "idle" /\ call.pc = "none"
  /\ agent.pc \in {"down", "up"} \/ ChangesOverlap

(* A rename, or the removal of a tree when to is None. *)
Move(from, to) ==
  [s \in DOMAIN disk |-> IF s = to THEN disk[from] ELSE IF s = from THEN None ELSE disk[s]]

(* _state answers with nothing when the file cannot be read.               *)
ReadState(read) ==
  \/ read = row /\ UNCHANGED surprises
  \/ read = None /\ surprises < MaxSurprises /\ surprises' = surprises + 1
Flags(read) == IF read = None THEN Blank ELSE read

-----------------------------------------------------------------------------
(* Flags: one write of the state file each.                                *)

SetEnabled(on) ==
  /\ MayChange /\ disk.dir # None
  /\ \E read \in {row, None} : ReadState(read) /\ row' = [Flags(read) EXCEPT !.enabled = on]
  /\ UNCHANGED <<disk, op, consent, runtime>>

SetTrusted(on) ==
  /\ MayChange /\ disk.dir # None
  /\ LET print == IF on THEN disk.dir ELSE None IN
     /\ \E read \in {row, None} : ReadState(read) /\ row' = [Flags(read) EXCEPT !.trusted = print]
     /\ consent' = print
  /\ UNCHANGED <<disk, op, runtime>>

SetPinned(on) ==
  /\ MayChange /\ disk.dir # None
  /\ row # None /\ row.sha # None
  /\ row' = [row EXCEPT !.pinned = on]
  /\ UNCHANGED <<disk, op, consent, runtime, surprises>>

(* The files are the user's, who may put another content there.            *)
EditByHand(r) ==
  /\ MayChange /\ surprises < MaxSurprises
  /\ disk' = [disk EXCEPT !.dir = r]
  /\ surprises' = surprises + 1
  /\ UNCHANGED <<row, op, consent, runtime>>

-----------------------------------------------------------------------------
(* Calls that move directories.  Each step may fail, and then undoes what    *)
(* was done, and the process may end between two of them.                   *)

Begin(kind, pc, new, read) ==
  op' = [pc |-> pc, kind |-> kind, new |-> new, old |-> disk.dir, row |-> Flags(read),
         was |-> <<disk.dir, disk.previous, row>>]

Goto(pc) == op' = [op EXCEPT !.pc = pc]
End == op' = Idle

(* The archive was validated; the staged directory takes the plugin's name. *)
InstallZip(r) ==
  /\ MayChange /\ disk.dir = None
  /\ disk' = [disk EXCEPT !.dir = r]
  /\ Begin("install", "write", r, None)
  /\ UNCHANGED <<row, consent, runtime, surprises>>

(* An update wants a new version of a plugin that is not pinned.           *)
UpdateZip(r) ==
  /\ MayChange /\ disk.dir \notin {None, r}
  /\ \E read \in {row, None} :
       /\ ReadState(read)
       /\ ~Flags(read).pinned
       /\ Begin("update", "rotate", r, read)
  /\ UNCHANGED <<disk, row, consent, runtime>>

Rotate ==
  /\ op.pc = "rotate"
  /\ \/ disk' = [disk EXCEPT !.older = @] /\ End                         \* failed
     \/ /\ disk' = IF disk.previous = None THEN [disk EXCEPT !.older = None]
                                           ELSE Move("previous", "older")
        /\ Goto("out")
  /\ UNCHANGED <<row, consent, runtime, surprises>>

MoveOut ==
  /\ op.pc = "out"
  /\ LET slot == IF op.kind = "update" THEN "previous" ELSE "aside" IN
     \/ /\ disk' = Move("dir", slot) /\ Goto("in")
     \/ /\ UNCHANGED disk
        /\ IF op.kind = "update" THEN Goto("undo older") ELSE End
  /\ UNCHANGED <<row, consent, runtime, surprises>>

MoveIn ==
  /\ op.pc = "in"
  /\ \/ /\ disk' = IF op.kind = "update" THEN [disk EXCEPT !.dir = op.new]
                                         ELSE Move("previous", "dir")
        /\ Goto("write")
     \/ UNCHANGED disk /\ Goto("undo")
  /\ UNCHANGED <<row, consent, runtime, surprises>>

(* Every replacement is disabled and not trusted.                          *)
Replaced ==
  [Blank EXCEPT !.sha = IF op.kind = "rollback" THEN op.row.previous ELSE op.new,
                !.previous = IF op.kind = "install" THEN None ELSE op.row.sha]

WriteState ==
  /\ op.pc = "write"
  /\ \/ /\ row' = IF op.kind = "uninstall" THEN None ELSE Replaced
        /\ consent' = None
        /\ CASE op.kind = "update" -> Goto("sweep")
             [] op.kind = "rollback" -> Goto("back")
             [] OTHER -> End
     \/ /\ UNCHANGED <<row, consent>>
        /\ IF op.kind \in {"update", "rollback"} THEN Goto("undo") ELSE End
  /\ UNCHANGED <<disk, runtime, surprises>>

(* The undo of an update removes what came in; that of a rollback puts it   *)
(* back into its slot.                                                      *)
(* Mutant: an update that fails leaves its revision in place. *)
UndoForgetsSlot ==
  /\ op.pc = "undo" /\ op.kind = "update"
  /\ End
  /\ UNCHANGED <<disk, row, consent, runtime, surprises>>

Undo ==
  /\ op.pc = "undo"
  /\ IF op.kind = "update"
     THEN disk' = Move("previous", "dir") /\ Goto("undo older")
     ELSE /\ disk' = [disk EXCEPT !.dir = disk.aside, !.aside = None,
                                  !.previous = IF disk.dir # None THEN disk.dir ELSE @]
          /\ End
  /\ UNCHANGED <<row, consent, runtime, surprises>>

UndoOlder ==
  /\ op.pc = "undo older"
  /\ disk' = IF disk.older # None THEN Move("older", "previous") ELSE disk
  /\ End
  /\ UNCHANGED <<row, consent, runtime, surprises>>

(* What an update has no use for any more is removed, or stays. *)
Sweep ==
  /\ op.pc = "sweep"
  /\ disk' \in {disk, Move("older", None)}
  /\ End
  /\ UNCHANGED <<row, consent, runtime, surprises>>

Rollback ==
  /\ MayChange /\ disk.dir # None /\ disk.previous # None
  /\ \E read \in {row, None} : ReadState(read) /\ Begin("rollback", "out", disk.previous, read)
  /\ disk' = [disk EXCEPT !.aside = None]
  /\ UNCHANGED <<row, consent, runtime>>

MoveBack ==
  /\ op.pc = "back"
  /\ \/ disk' = Move("aside", "previous") /\ End
     \/ MoveBackFails /\ UNCHANGED disk /\ Goto("undo")
  /\ UNCHANGED <<row, consent, runtime, surprises>>

Uninstall ==
  /\ MayChange /\ disk.dir # None
  /\ Begin("uninstall", "remove", None, None)
  /\ UNCHANGED <<disk, row, consent, runtime, surprises>>

Remove ==
  /\ op.pc = "remove"
  /\ \/ disk' = Move("dir", None) /\ Goto("remove slots")
     \/ UNCHANGED disk /\ End
  /\ UNCHANGED <<row, consent, runtime, surprises>>

RemoveSlots ==
  /\ op.pc = "remove slots"
  /\ \/ disk' = [disk EXCEPT !.previous = None, !.older = None, !.aside = None] /\ Goto("write")
     \/ UNCHANGED disk /\ End
  /\ UNCHANGED <<row, consent, runtime, surprises>>

-----------------------------------------------------------------------------
(* HookService: discovery when an agent starts, without _STATE_LOCK.        *)

(* The manifests of the enabled plugins are read first ...                 *)
EnabledManifests ==
  /\ agent.pc = "down" /\ (op.pc = "idle" \/ ChangesOverlap)
  /\ agent' = [agent EXCEPT !.pc = "check",
                 !.found = IF row # None /\ row.enabled THEN disk.dir ELSE None]
  /\ UNCHANGED <<files, call, hook, surprises>>

(* Mutant: the digest is not compared with what is on disk. *)
TrustWithoutDigest == row # None /\ row.trusted # None

TrustValid == row # None /\ row.trusted # None /\ row.trusted = disk.dir

(* ... and then each is asked for its trust, from what is on disk by then. *)
HooksTrusted ==
  /\ agent.pc = "check"
  /\ agent' =
       IF agent.found # None /\ OptIn /\ TrustValid
       THEN [pc |-> "up", found |-> None, registered |-> agent.found,
             consented |-> consent = agent.found]
       ELSE [agent EXCEPT !.pc = "up", !.found = None]
  /\ UNCHANGED <<files, call, hook, surprises>>

-----------------------------------------------------------------------------
(* Events.                                                                 *)

Events == {"SessionStart", "PreToolUse", "PostToolUse", "SessionEnd"}

RunHooks(event) ==
  /\ agent.pc = "up" /\ op.pc = "idle" /\ agent.registered # None /\ call.pc = "none"
  /\ call' = [NoCall EXCEPT !.pc = "running", !.event = event]
  /\ hook' = [h \in Hooks |-> "submitted"]
  /\ UNCHANGED <<files, agent, surprises>>

(* The hooks of one event run at once. *)
ExecuteHook(h) ==
  /\ call.pc = "running" /\ hook[h] = "submitted"
  /\ hook' = [hook EXCEPT ![h] = "started"]
  /\ UNCHANGED <<files, agent, call, surprises>>

(* "other" is every outcome that does not block: a message, a new input, and *)
(* the warning of a hook that fails or runs out of time.                     *)
Outcomes == {"block", "other"}

(* Mutant: the last hook decides. *)
MergeLast(outcome) == [call EXCEPT !.blocked = outcome = "block"]

Merge(outcome) == [call EXCEPT !.blocked = @ \/ outcome = "block"]

HookEnds(h, outcome) ==
  /\ call.pc = "running" /\ hook[h] = "started"
  /\ hook' = [hook EXCEPT ![h] = outcome]
  /\ call' = Merge(outcome)
  /\ UNCHANGED <<files, agent, surprises>>

Verdict == call.blocked /\ call.event \notin {"PostToolUse", "SessionEnd"}
AllEnded == call.pc = "running" /\ \A h \in Hooks : hook[h] \in Outcomes

(* The answer goes to the caller. *)
EventOver ==
  /\ AllEnded
  /\ call' = NoCall /\ hook' = [h \in Hooks |-> "idle"]
  /\ UNCHANGED <<files, agent, surprises>>

(* The process ends, wherever it is.                                       *)
Crash ==
  /\ op' = Idle
  /\ agent' = [pc |-> "down", found |-> None, registered |-> None, consented |-> FALSE]
  /\ call' = NoCall /\ hook' = [h \in Hooks |-> "idle"]
  /\ UNCHANGED <<disk, row, consent, surprises>>

-----------------------------------------------------------------------------
Next ==
  \/ \E on \in BOOLEAN : SetEnabled(on) \/ SetTrusted(on) \/ SetPinned(on)
  \/ \E r \in Revisions : EditByHand(r) \/ InstallZip(r) \/ UpdateZip(r)
  \/ Rotate \/ MoveOut \/ MoveIn \/ WriteState \/ Undo \/ UndoOlder \/ Sweep
  \/ Rollback \/ MoveBack \/ Uninstall \/ Remove \/ RemoveSlots
  \/ EnabledManifests \/ HooksTrusted
  \/ \E e \in Events : RunHooks(e)
  \/ \E h \in Hooks : ExecuteHook(h) \/ \E o \in Outcomes : HookEnds(h, o)
  \/ EventOver \/ Crash

Spec == Init /\ [][Next]_vars

-----------------------------------------------------------------------------
(* plugin_loader.py:387-391, 465-466: the end of an update or of a rollback  *)
(* that the process lives to see leaves the directory, the revision kept     *)
(* and the row as they were, or all three of the replacement, disabled.      *)
AllOrNothing ==
  op.pc # "idle" /\ op.kind \in {"update", "rollback"} /\ op'.pc = "idle" /\ agent'.pc # "down"
    => \/ <<disk.dir, disk.previous, row>>' = op.was
       \/ <<disk.dir, disk.previous, row>>' = <<op.new, op.old, Replaced>>

(* hook_system.py:374-377: an event is blocked exactly when it may be and a  *)
(* hook said so, in whatever order the hooks ended.                         *)
BlockIsHeard ==
  AllEnded => (Verdict <=> /\ call.event \notin {"PostToolUse", "SessionEnd"}
                           /\ \E h \in Hooks : hook[h] = "block")

(* plugin_loader.py:236-237, 387-391: hooks run only for the content the     *)
(* user trusts, whatever was replaced, edited or left half done since.       *)
HooksRunWithConsent == agent.registered # None => agent.consented

-----------------------------------------------------------------------------
(* The strengthening, in parts, for a catalog that nobody changes while an    *)
(* agent discovers it, and whose last rename does not fail.                  *)

Revs == Revisions \cup {None}
Slots == {"dir", "previous", "older", "aside"}
Kinds == {"install", "update", "rollback", "uninstall"}
Rows == [enabled : BOOLEAN, trusted : Revs, sha : Revs, pinned : BOOLEAN, previous : Revs]
Stages == {"idle", "rotate", "out", "in", "write", "undo", "undo older", "sweep", "back",
           "remove", "remove slots"}
Ops == [pc : Stages, kind : Kinds \cup {None}, new : Revs, old : Revs, row : Rows \cup {None},
        was : {<<>>} \cup (Revs \X Revs \X (Rows \cup {None}))]
Agents == [pc : {"down", "check", "up"}, found : Revs, registered : Revs, consented : BOOLEAN]
EventCalls == [pc : {"none", "running"}, event : Events \cup {None}, blocked : BOOLEAN]
HookStates == {"idle", "submitted", "started"} \cup Outcomes

TypeOK ==
  /\ disk \in [Slots -> Revs] /\ row \in Rows \cup {None} /\ op \in Ops /\ consent \in Revs
  /\ agent \in Agents /\ call \in EventCalls /\ hook \in [Hooks -> HookStates]

(* A row is trusted by the user's word of this very content. *)
TrustIsConsent == row # None /\ row.trusted # None => consent = row.trusted

(* What an agent that asks for trust has found is still there. *)
FoundIsThere ==
  agent.pc = "check" => op.pc = "idle" /\ (agent.found # None => agent.found = disk.dir)

(* Where the revisions of an update and of a rollback are at each stage.      *)
Stands(dir, previous) == op.was = <<dir, previous, row>>
UpdateStands ==
  op.kind = "update" =>
    /\ op.pc \in {"rotate", "out", "in", "write", "undo", "undo older", "sweep"} /\ op.row # None
    /\ op.pc = "rotate" => Stands(disk.dir, disk.previous) /\ op.old = disk.dir
    /\ op.pc \in {"out", "undo older"} => disk.previous = None /\ Stands(disk.dir, disk.older)
    /\ op.pc = "out" => op.old = disk.dir
    /\ op.pc \in {"in", "write", "undo"} =>
         Stands(disk.previous, disk.older) /\ op.old = disk.previous
    /\ op.pc \in {"write", "sweep"} => disk.dir = op.new
    /\ op.pc = "sweep" => disk.previous = op.old /\ row = Replaced
RollbackStands ==
  op.kind = "rollback" =>
    /\ op.pc \in {"out", "in", "write", "undo", "back"} /\ op.new # None /\ op.row # None
    /\ op.pc = "out" => Stands(disk.dir, disk.previous) /\ disk.previous = op.new /\ op.old = disk.dir
    /\ op.pc = "in" => disk.dir = None /\ disk.previous = op.new
    /\ op.pc = "undo" => \/ disk.dir = None /\ disk.previous = op.new
                         \/ disk.dir = op.new /\ disk.previous = None
    /\ op.pc \in {"in", "write", "undo"} => Stands(disk.aside, op.new)
    /\ op.pc \in {"in", "write", "undo", "back"} => op.old = disk.aside
    /\ op.pc \in {"write", "back"} => disk.dir = op.new /\ disk.previous = None
    /\ op.pc = "back" => row = Replaced
OthersStand ==
  /\ op.kind \in {"install", "uninstall"} => op.pc \in {"write", "remove", "remove slots"}
  /\ op.pc = "idle" <=> op.kind = None

(* A block is remembered as long as the event is in hand. *)
BlocksAreKept == call.pc = "running" => (call.blocked <=> \E h \in Hooks : hook[h] = "block")

IInv ==
  /\ TypeOK /\ TrustIsConsent /\ FoundIsThere /\ HooksRunWithConsent
  /\ UpdateStands /\ RollbackStands /\ OthersStand /\ BlocksAreKept
=============================================================================
