----------------------------- MODULE FileEdits -----------------------------
(***************************************************************************)
(* How agents change files that others change too: tools/builtin/          *)
(* read_file.py, write_file.py, edit_file.py and edit_file_multi.py, and   *)
(* the guard around them in tools/registry.py.  A registry remembers the   *)
(* modification time and the size a Read reported and hands them to the    *)
(* next Write, Edit or MultiEdit of that path, which compares them with    *)
(* the file before it reads it and again before it replaces it.  Agents    *)
(* have registries of their own; editors, compilers and shells write at    *)
(* any time.  A tool that exceeds its time goes on in its thread.          *)
(***************************************************************************)
EXTENDS Naturals, Sequences, FiniteSets, Functions

CONSTANTS
  Agents, Calls,        \* registries; tool threads
  Values,               \* what a piece of text may be: naturals, their widths
  Length,               \* pieces in a file
  Drafts,               \* the texts others, or Write, put there as a whole
  RootIsCwd,            \* the project root is the working directory
  None,
  MaxTime, MaxVersions, MaxOutside                                 \* bounds

Places == 1..Length
Edits  == {e \in [old : Values, new : Values] : e.old # e.new}

VARIABLES
  file,      \* the file: Absent, or its text, time and number
  now,       \* the clock of the file system, in milliseconds
  cache,     \* [Agents -> what _read_cache holds for it, or None]
  call,      \* [Calls -> a tool thread]
  versions, outside,                                         \* for the bounds
  seen       \* history: [Agents -> the stats of what it read or wrote]

vars == <<file, now, cache, call, versions, outside, seen>>
world == <<file, now, versions, outside>>

Absent == [text |-> None, mtime |-> 0, number |-> 0]
NoCall == [agent |-> None, tool |-> None, pc |-> "idle", awaited |-> FALSE,
           want |-> None, expect |-> None, base |-> None, told |-> FALSE, mark |-> 0]

Exists == file # Absent

(* What stat() tells, and what a Read reports of it. *)
StatOf(f) == [mtime |-> f.mtime, size |-> FoldFunction(+, 0, f.text)]
Stat == StatOf(file)

Init ==
  /\ now = 1
  /\ file \in {Absent} \cup {[text |-> t, mtime |-> 1, number |-> 1] : t \in Drafts}
  /\ cache = [a \in Agents |-> None]
  /\ call = [c \in Calls |-> NoCall]
  /\ versions = 1 /\ outside = 0
  /\ seen = [a \in Agents |-> {}]

-----------------------------------------------------------------------------
(* The world: time passes, and somebody else writes or deletes the file.   *)

Tick ==
  /\ now < MaxTime                                                  \* bound
  /\ now' = now + 1
  /\ UNCHANGED <<file, cache, call, versions, outside, seen>>

Stored(text) == [text |-> text, mtime |-> now, number |-> versions + 1]

Outside ==
  /\ outside < MaxOutside /\ versions < MaxVersions                 \* bounds
  /\ \/ \E t \in Drafts : file' = Stored(t)
     \/ Exists /\ file' = Absent
  /\ versions' = versions + 1 /\ outside' = outside + 1
  /\ UNCHANGED <<now, cache, call, seen>>

-----------------------------------------------------------------------------
(* The registry's side of a call.                                          *)

(* A turn waits for its call; a thread that nobody waits for may go on. *)
MayCall(a, c) ==
  /\ call[c] = NoCall
  /\ \A d \in Calls : call[d].agent = a => ~call[d].awaited

(* The path is looked up in the working directory, then in the cache. *)
MustRead(a) == RootIsCwd /\ Exists /\ cache[a] = None

(* The expectation of a writing tool is what the cache holds. *)
Start(a, c, tool, want) ==
  /\ call' = [call EXCEPT ![c] = [NoCall EXCEPT
        !.agent = a, !.tool = tool, !.pc = "check", !.awaited = TRUE, !.want = want,
        !.expect = IF tool = "Read" THEN None ELSE cache[a],
        !.told = tool # "Read" /\ cache[a] # None, !.mark = versions]]
  /\ UNCHANGED <<world, cache, seen>>

(* execute_tool: a call that must be preceded by a Read is refused. *)
Begin(a, c) ==
  /\ MayCall(a, c)
  /\ \/ Start(a, c, "Read", None)
     \/ /\ ~MustRead(a)
        /\ \/ \E t \in Drafts : Start(a, c, "Write", t)
           \/ \E e \in Edits : Start(a, c, "Edit", <<e>>)
           \/ \E e, f \in Edits : Start(a, c, "MultiEdit", <<e, f>>)

(* future.result(timeout) gives up; the thread does not.  A Read has then   *)
(* no effect left.                                                          *)
TimeOut(c) ==
  /\ call[c].awaited
  /\ call' = [call EXCEPT ![c] = IF @.tool = "Read" THEN NoCall ELSE [@ EXCEPT !.awaited = FALSE]]
  /\ UNCHANGED <<world, cache, seen>>

-----------------------------------------------------------------------------
(* The tools.                                                              *)

At(c, tools, pc) == call[c].tool \in tools /\ call[c].pc = pc

Stay == UNCHANGED <<world, cache, seen>>

(* The tool reports an error (conflict, missing file, text not found) or     *)
(* the result of a dry run: nothing has changed.                             *)
Fail(c) == call' = [call EXCEPT ![c] = NoCall] /\ Stay

(* Mutant: the time is not compared. *)
ChangedInSize(c) == ~Exists \/ Stat.size # call[c].expect.size

(* The optimistic lock. *)
Changed(c) == ~Exists \/ Stat # call[c].expect

(* Before anything else a tool checks its parameters and the path, and asks *)
(* the permission gate for one outside the project; a directory, a binary   *)
(* or an unreadable file ends the call too.                                 *)
RejectsRead(c)      == At(c, {"Read"}, "check") /\ Fail(c)
RejectsWrite(c)     == At(c, {"Write"}, "check") /\ Fail(c)
RejectsEdit(c)      == At(c, {"Edit"}, "check") /\ Fail(c)
RejectsMultiEdit(c) == At(c, {"MultiEdit"}, "check") /\ Fail(c)
Rejects(c) == RejectsRead(c) \/ RejectsWrite(c) \/ RejectsEdit(c) \/ RejectsMultiEdit(c)

(* Read takes the stat first ... *)
ReadStat(c) ==
  /\ At(c, {"Read"}, "check")
  /\ \/ ~Exists /\ Fail(c)
     \/ Exists /\ call' = [call EXCEPT ![c].pc = "load", ![c].expect = Stat] /\ Stay

(* ... and the text afterwards; the registry keeps the stat. *)
ReadText(c) ==
  /\ At(c, {"Read"}, "load")
  /\ \/ ~Exists /\ Fail(c)
     \/ /\ Exists
        /\ cache' = [cache EXCEPT ![call[c].agent] = call[c].expect]
        /\ seen' = [seen EXCEPT ![call[c].agent] = @ \cup {Stat}]
        /\ call' = [call EXCEPT ![c] = NoCall]
        /\ UNCHANGED world

(* Write compares if there is a file, with what it finds if nothing was     *)
(* expected of it.                                                          *)
CheckWrite(c) ==
  /\ At(c, {"Write"}, "check")
  /\ \/ /\ ~Exists
        /\ call' = [call EXCEPT ![c].pc = "load"] /\ Stay
     \/ /\ Exists /\ call[c].expect = None
        /\ call' = [call EXCEPT ![c].pc = "load", ![c].expect = Stat] /\ Stay
     \/ /\ Exists /\ call[c].expect # None
        /\ IF Changed(c) THEN Fail(c)
           ELSE call' = [call EXCEPT ![c].pc = "load"] /\ Stay

(* The old text, for the diff; without one the file is created, and nothing *)
(* is compared again.                                                       *)
LoadWrite(c) ==
  /\ At(c, {"Write"}, "load")
  /\ IF Exists
       THEN call' = [call EXCEPT ![c].base = file.text,
                       ![c].pc = IF call[c].expect = None THEN "replace" ELSE "compare"]
       ELSE call' = [call EXCEPT ![c].pc = "replace"]
  /\ Stay

(* Edit and MultiEdit need a file and an expectation. *)
CheckEdit(c) ==
  /\ At(c, {"Edit", "MultiEdit"}, "check")
  /\ IF ~Exists \/ call[c].expect = None \/ Changed(c) THEN Fail(c)
     ELSE call' = [call EXCEPT ![c].pc = "load"] /\ Stay

(* Where the text to be replaced occurs. *)
Matches(text, e) == {i \in Places : text[i] = e.old}

(* Each old text must occur once, and no two at the same place; all are     *)
(* replaced in the text that was read.                                      *)
Applicable(edits, text) ==
  /\ \A k \in DOMAIN edits : Cardinality(Matches(text, edits[k])) = 1
  /\ \A k, l \in DOMAIN edits :
       k # l => Matches(text, edits[k]) \cap Matches(text, edits[l]) = {}

Applied(edits, text) ==
  [i \in Places |->
     LET mine == {k \in DOMAIN edits : i \in Matches(text, edits[k])}
     IN IF mine = {} THEN text[i] ELSE edits[CHOOSE k \in mine : TRUE].new]

LoadEdit(c) ==
  /\ At(c, {"Edit"}, "load")
  /\ IF Exists /\ Cardinality(Matches(file.text, call[c].want[1])) = 1
       THEN call' = [call EXCEPT ![c].pc = "compare", ![c].base = file.text] /\ Stay
       ELSE Fail(c)

LoadMultiEdit(c) ==
  /\ At(c, {"MultiEdit"}, "load")
  /\ IF Exists /\ Applicable(call[c].want, file.text)
       THEN call' = [call EXCEPT ![c].pc = "compare", ![c].base = file.text] /\ Stay
       ELSE Fail(c)

(* A dry run computes what it would write, and does no more. *)
DryRun(c) == call[c].pc \in {"compare", "replace"} /\ Fail(c)

(* The second comparison, before the write. *)
Compared(c, tool) ==
  /\ At(c, {tool}, "compare")
  /\ IF Changed(c) THEN Fail(c)
     ELSE call' = [call EXCEPT ![c].pc = "replace",
                                ![c].mark = IF call[c].told THEN versions ELSE @] /\ Stay

CompareWrite(c)     == Compared(c, "Write")
CompareEdit(c)      == Compared(c, "Edit")
CompareMultiEdit(c) == Compared(c, "MultiEdit")
Compare(c) == CompareWrite(c) \/ CompareEdit(c) \/ CompareMultiEdit(c)

(* A temporary file takes the place of the file; the cache is left alone. *)
Stores(c, tool, text) ==
  /\ At(c, {tool}, "replace")
  /\ versions < MaxVersions                                         \* bound
  /\ file' = Stored(text)
  /\ seen' = [seen EXCEPT ![call[c].agent] = @ \cup {StatOf(file')}]
  /\ versions' = versions + 1
  /\ call' = [call EXCEPT ![c] = NoCall]
  /\ UNCHANGED <<now, outside, cache>>

ReplaceByWrite(c)     == Stores(c, "Write", call[c].want)
ReplaceByEdit(c)      == Stores(c, "Edit", Applied(call[c].want, call[c].base))
ReplaceByMultiEdit(c) == Stores(c, "MultiEdit", Applied(call[c].want, call[c].base))
Replace(c) == ReplaceByWrite(c) \/ ReplaceByEdit(c) \/ ReplaceByMultiEdit(c)

(* The disk is full, or the file may not be written. *)
WriteError(c) == call[c].pc = "replace" /\ Fail(c)

Next ==
  \/ Tick \/ Outside
  \/ \E c \in Calls :
       \/ \E a \in Agents : Begin(a, c)
       \/ TimeOut(c) \/ Rejects(c) \/ ReadStat(c) \/ ReadText(c) \/ DryRun(c)
       \/ CheckWrite(c) \/ LoadWrite(c) \/ CheckEdit(c) \/ LoadEdit(c)
       \/ LoadMultiEdit(c) \/ Compare(c) \/ Replace(c) \/ WriteError(c)

Spec == Init /\ [][Next]_vars

-----------------------------------------------------------------------------
(* Properties.                                                             *)

Replaces(c) == call[c].pc = "replace" /\ file' # file /\ call'[c] = NoCall

(* Written after the last look that could tell: the second comparison with  *)
(* what a Read reported, or, for an agent that read nothing, the registry's  *)
(* finding that there is no file.                                            *)
Late(c) == file.number > call[c].mark

(* "Existing files may only be overwritten after a Read in this session, so *)
(* concurrent edits are not silently discarded" (registry.py): what a tool   *)
(* replaces is a version its agent has read or written, as far as time and   *)
(* size can tell, whatever others wrote and whichever call of the agent      *)
(* timed out and went on; but for what appears after the last look.          *)
ReplacesOnlyWhatItRead ==
  \A c \in Calls :
    Replaces(c) /\ Exists /\ ~Late(c) => Stat \in seen[call[c].agent]

(* An edit changes what it names in the file it replaces and leaves all the  *)
(* rest alone, also what others changed in the meantime: nothing is written  *)
(* back from an older copy, unless time and size are those of that copy.     *)
EditKeepsTheRest ==
  \A c \in Calls :
    /\ Replaces(c) /\ call[c].tool # "Write" /\ Exists /\ ~Late(c)
    /\ Stat = call[c].expect => file.text = call[c].base
    =>
      /\ \A i \in Places : file'.text[i] # file.text[i] =>
           \E k \in DOMAIN call[c].want :
             call[c].want[k] = [old |-> file.text[i], new |-> file'.text[i]]
      /\ \A k \in DOMAIN call[c].want :
           Cardinality({i \in Places : /\ file.text[i] = call[c].want[k].old
                                       /\ file'.text[i] = call[c].want[k].new}) = 1

ChangesOnlyWhatItRead == ReplacesOnlyWhatItRead /\ EditKeepsTheRest
=============================================================================
