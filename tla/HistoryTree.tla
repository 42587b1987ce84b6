---------------------------- MODULE HistoryTree ----------------------------
(***************************************************************************)
(* HistoryManager (core/context_engine/history_manager.py): the tree of a  *)
(* conversation, the branch its cursor selects, and the context the model   *)
(* is given, through forks, compactions and restarts.                      *)
(*                                                                         *)
(* Every message and every tree entry is a node; parents are older than     *)
(* their children.  What a message says is left out; of a summary, the      *)
(* messages it stands for (covers) are kept.                               *)
(***************************************************************************)
EXTENDS Naturals, Sequences, SequencesExt, FiniteSets

CONSTANTS
  MinRetain,     \* min_retain_rounds
  Restores,      \* who loads a snapshot: "tree" (_ensure_agent), "entries" (_apply_snapshot)
  MaxNodes       \* bound

VARIABLES
  node,          \* every node ever made; node numbers are its ids
  messages,      \* _messages
  index,         \* _id_index
  entries,       \* _entries
  cursor,        \* _cursor_id, 0 is None
  saved,         \* the snapshot in the session store
  path,          \* for the properties: the messages of the branch the user selected
  forgotten      \* for the properties: what was not in the snapshot last read back

vars == <<node, messages, index, entries, cursor, saved, path, forgotten>>

MessageKinds == {"user", "assistant", "summary"}

New == Len(node) + 1
Node(kind, first, covers, trail) ==
  [kind |-> kind, parent |-> cursor, first |-> first, covers |-> covers, trail |-> trail]

Kept(s) == ToSet(s)

(* The chain of parents, through entries; an id that nobody knows ends it.   *)
Branch ==
  LET chain[i \in 0..Len(node)] ==
        IF i = 0 THEN <<>>
        ELSE IF i \in index THEN Append(chain[node[i].parent], i)
        ELSE IF i \in Kept(entries) THEN chain[node[i].parent]
        ELSE <<>>
  IN IF cursor = 0 THEN messages ELSE chain[cursor]

HasForks == \E e \in Kept(entries) : node[e].kind = "leaf"

(* The newest compaction of an ancestor of the cursor, if there is one.      *)
Overlays(branch) ==
  {e \in Kept(entries) : /\ node[e].kind = "scoped"
                         /\ {node[e].parent, node[e].first} \subseteq Kept(branch)}

Context ==
  LET branch == Branch
      found  == Overlays(branch)
  IN IF found = {} THEN branch
     ELSE LET newest == CHOOSE e \in found : \A f \in found : f <= e
              start  == CHOOSE i \in DOMAIN branch : branch[i] = node[newest].first
          IN <<newest>> \o SubSeq(branch, start, Len(branch))

(* What a sequence of messages and overlays tells the model.                 *)
Tells(s) == UNION {IF node[i].kind \in {"user", "assistant"} THEN {i} ELSE node[i].covers :
                   i \in Kept(s)}

(* Where the rounds of s begin.                                             *)
Rounds(s) == SelectSeq([i \in DOMAIN s |-> i], LAMBDA i : node[s[i]].kind = "user")

Init ==
  /\ node = <<>> /\ messages = <<>> /\ index = {} /\ entries = <<>> /\ cursor = 0
  /\ path = <<>> /\ forgotten = {}
  /\ saved = [messages |-> <<>>, entries |-> <<>>, cursor |-> 0, path |-> <<>>]

(* append_user, append_assistant and append_tool.                           *)
AppendMessage(kind) ==
  /\ New <= MaxNodes                                                \* bound
  /\ kind = "assistant" => path # <<>> /\ node[Last(path)].kind = "user"
  /\ node' = Append(node, Node(kind, 0, {}, Append(path, New)))
  /\ messages' = Append(messages, New) /\ index' = index \cup {New}
  /\ cursor' = New /\ path' = Append(path, New)
  /\ UNCHANGED <<entries, saved, forgotten>>

(* append_model_change, append_thinking_change and append_label move the     *)
(* cursor to an entry that is not a message.                                *)
AppendChange ==
  /\ New <= MaxNodes /\ ~ \E i \in Kept(entries) : node[i].kind = "change"  \* bound
  /\ node' = Append(node, Node("change", 0, {}, path))
  /\ entries' = Append(entries, New) /\ cursor' = New
  /\ UNCHANGED <<messages, index, saved, path, forgotten>>

(* fork(), saved by fork_history before anybody else gets the session.       *)
Fork(target) ==
  /\ New <= MaxNodes                                                \* bound
  /\ target \in index
  /\ node' = Append(node, Node("leaf", 0, {}, path))
  /\ entries' = Append(entries, New)
  /\ cursor' = target /\ path' = node[target].trail
  /\ saved' = [messages |-> messages, entries |-> entries', cursor |-> cursor',
               path |-> path']
  /\ UNCHANGED <<messages, index, forgotten>>

(* load_entries: messages come first, and every entry but a compaction moves *)
(* the cursor.  (As a mutant: the cursor of the snapshot is not used.)       *)
LoadedCursorOfEntries(known, how) ==
  LET moving == SelectSeq(known.messages \o known.entries,
                          LAMBDA i : node[i].kind \notin {"scoped", "linear"})
  IN IF moving = <<>> THEN 0 ELSE Last(moving)

(* restore_tree_state puts it where it was.  If that is a message a           *)
(* compaction took out (it could still be forked to while it was in the       *)
(* index), the branch of the last entry stays selected.                     *)
Found(known) == known.cursor \in Kept(known.messages) \cup Kept(known.entries)
LoadedCursor(known, how) ==
  IF how = "tree" /\ Found(known) THEN known.cursor ELSE LoadedCursorOfEntries(known, how)

Load(known, how) ==
  /\ messages' = known.messages /\ index' = Kept(known.messages)
  /\ entries' = known.entries
  /\ cursor' = LoadedCursor(known, how)
  /\ path' = IF Found(known) \/ cursor' = 0 THEN known.path ELSE node[cursor'].trail
  /\ forgotten' = (1..Len(node)) \ Kept(known.messages)

(* The save failed: the tree of before is loaded again.                     *)
ForkFails(target) ==
  /\ target \in index
  /\ Load([messages |-> messages, entries |-> entries, cursor |-> cursor, path |-> path],
          "tree")
  /\ UNCHANGED <<node, saved>>

(* compact() without forks: a summary takes the place of all but the last    *)
(* rounds.  It is no ancestor of anything, and its place is not indexed.     *)
CompactAll ==
  LET rounds == Rounds(messages)
      start  == rounds[Len(rounds) - MinRetain + 1]
      gone   == SubSeq(messages, 1, start - 1)
      tail   == SubSeq(messages, start, Len(messages))
      sum    == Node("summary", 0, Tells(gone), path)
  IN /\ ~HasForks /\ New + 1 <= MaxNodes                            \* bound
     /\ Len(rounds) > MinRetain
     /\ \E i \in Kept(gone) : node[i].kind # "summary"
     /\ node' = node \o <<sum, Node("linear", Head(tail), {}, path)>>
     /\ messages' = <<New>> \o tail
     /\ entries' = Append(entries, New + 1)
     /\ cursor' = Last(tail)
     /\ UNCHANGED <<index, saved, path, forgotten>>

(* compact() with forks: an overlay on the selected branch.                  *)
CompactBranch ==
  LET context == Context
      rounds  == Rounds(context)
      start   == rounds[Len(rounds) - MinRetain + 1]
      gone    == SubSeq(context, 1, start - 1)
  IN /\ HasForks /\ New <= MaxNodes                                 \* bound
     /\ Len(rounds) > MinRetain /\ gone # <<>>
     /\ node' = Append(node, Node("scoped", context[start], Tells(gone), path))
     /\ entries' = Append(entries, New)
     /\ UNCHANGED <<messages, index, cursor, saved, path, forgotten>>

(* The save at the end of a turn.                                           *)
Save ==
  /\ saved' = [messages |-> messages, entries |-> entries, cursor |-> cursor, path |-> path]
  /\ UNCHANGED <<node, messages, index, entries, cursor, path, forgotten>>

(* The process ends; the session is opened again from its snapshot.          *)
Reopen(how) ==
  /\ Load(saved, how)
  /\ UNCHANGED <<node, saved>>

-----------------------------------------------------------------------------
(* A portable archive of the saved session: its visible messages, each below  *)
(* its nearest visible ancestor.  0 is no ancestor; an ancestor that is not   *)
(* in the snapshot (Missing) refuses the export.                            *)
Missing == Len(node) + 1
Visible(known) == {i \in Kept(known.messages) : node[i].kind \in {"user", "assistant"}}

Nearest(known, n) ==
  LET near[i \in 0..Len(node)] ==
        IF i = 0 \/ i \in Visible(known) THEN i
        ELSE IF i \in Kept(known.messages) \cup Kept(known.entries) THEN near[node[i].parent]
        ELSE Missing
  IN near[n]

(* Mutant: the last message is selected, whatever the cursor is.            *)
ArchiveCursorOfLast(known) ==
  IF known.messages = <<>> THEN 0 ELSE Nearest(known, Last(known.messages))
ArchiveCursor(known) ==
  IF known.messages = <<>> \/ known.cursor # 0 THEN Nearest(known, known.cursor)
  ELSE Nearest(known, Last(known.messages \o known.entries))

Exportable(known) ==
  /\ \A i \in Visible(known) : Nearest(known, node[i].parent) # Missing
  /\ ArchiveCursor(known) # Missing
  /\ ArchiveCursor(known) = 0 => Visible(known) = {}

(* The branch that an import of the archive shows.                          *)
ImportedBranch(known) ==
  LET chain[i \in 0..Len(node)] ==
        IF i = 0 THEN <<>> ELSE Append(chain[Nearest(known, node[i].parent)], i)
  IN chain[ArchiveCursor(known)]

-----------------------------------------------------------------------------
Next ==
  \/ \E kind \in {"user", "assistant"} : AppendMessage(kind)
  \/ AppendChange \/ CompactAll \/ CompactBranch \/ Save
  \/ \E target \in index : Fork(target) \/ ForkFails(target)
  \/ \E how \in Restores : Reopen(how)

Spec == Init /\ [][Next]_vars

-----------------------------------------------------------------------------
(* Properties. *)

TypeOK ==
  /\ index \subseteq 1..Len(node) /\ cursor \in 0..Len(node)
  /\ Kept(messages) \subseteq 1..Len(node) /\ Kept(entries) \subseteq 1..Len(node)
  /\ \A i \in DOMAIN node : node[i].parent < i

(* The context is about the branch the user selected: neither a message nor  *)
(* a summary tells the model what was said on a branch that was left, after  *)
(* any forks, compactions, failed saves and restarts; and the whole branch   *)
(* is told, but for what a compaction without forks took out of a snapshot    *)
(* that was read back.  (And the types.)                                   *)
ContextIsTheSelectedBranch ==
  /\ TypeOK
  /\ Tells(Context) \subseteq Kept(path)
  /\ Kept(path) \ forgotten \subseteq Tells(Context)

(* An archive that can be made is the branch the user selected before the     *)
(* save: a message, an entry or a summary between two messages does not part  *)
(* them, and forks do not mix.                                              *)
ExportIsTheSelectedBranch ==
  Exportable(saved) /\ (Found(saved) \/ saved.cursor = 0) =>
    ImportedBranch(saved) = SelectSeq(saved.path, LAMBDA i : i \in Visible(saved))

-----------------------------------------------------------------------------
(* What the comments say and the code does not do *)

(* "One compacted summary followed by complete recent turns": whatever was    *)
(* compacted is still told, by a summary.                                   *)
NothingIsForgotten == Kept(path) \subseteq Tells(Context)
=============================================================================
