------------------------------ MODULE Worktrees ------------------------------
(***************************************************************************)
(* Git worktrees of a project and the sessions that work in them.           *)
(* EnterWorktree makes one, or takes one by its path, and turns the root of *)
(* the session to it; ExitWorktree keeps or removes it and turns the root   *)
(* back.  What git holds, the index file and the root of a session change   *)
(* one after the other; git may fail, or time out after its work, the       *)
(* process may end between two steps, and what a session left running in    *)
(* the background goes on changing files.                                   *)
(***************************************************************************)
EXTENDS Naturals

CONSTANTS
  None, Sessions, Names,
  MaxCalls, MaxEdits, MaxFaults       \* bounds

VARIABLES
  index,      \* the status of each name in index.json, None where it has none
  tree,       \* what git has at the path of a name: None, "clean" or "dirty"
  branches,   \* the names whose branch exists
  active,     \* the worktree each session is in, the root its tools work under
  call,       \* its call of EnterWorktree or ExitWorktree
  saved,      \* the worktree in its snapshot
  orderly,    \* history: one call at a time, of worktrees that are there, no fault
  calls, edits, faults

vars == <<index, tree, branches, active, call, saved, orderly, calls,
          edits, faults>>

Idle == [pc |-> "idle", tool |-> None, name |-> None, action |-> None,
         discard |-> FALSE, force |-> FALSE, status |-> None, copy |-> None]

Init ==
  /\ index = [n \in Names |-> None] /\ tree = [n \in Names |-> None]
  /\ branches = {}
  /\ active = [s \in Sessions |-> None]
  /\ call = [s \in Sessions |-> Idle] /\ saved = [s \in Sessions |-> None]
  /\ orderly = TRUE /\ calls = 0 /\ edits = 0 /\ faults = 0

Fault == faults < MaxFaults /\ faults' = faults + 1 /\ orderly' = FALSE
Smooth == UNCHANGED <<faults, orderly>>
Goto(s, pc) == call' = [call EXCEPT ![s].pc = pc]
Return(s) == call' = [call EXCEPT ![s] = Idle]

(* The root that the tools of a session work under.                        *)
Rebind(s, n) == active' = [active EXCEPT ![s] = n]

-----------------------------------------------------------------------------
(* EnterWorktree.                                                          *)

Begin(s, c, considerate) ==
  /\ call[s].pc = "idle" /\ calls < MaxCalls /\ calls' = calls + 1
  /\ call' = [call EXCEPT ![s] = c]
  /\ orderly' = (orderly /\ considerate /\ \A t \in Sessions : call[t].pc = "idle")
  /\ UNCHANGED <<index, tree, branches, active, saved, edits, faults>>

(* A name that was removed may be used again.                              *)
EnterNew(s, n) ==
  /\ index[n] \notin {"active", "kept"}
  /\ Begin(s, [Idle EXCEPT !.pc = "add", !.tool = "enter", !.name = n], TRUE)

(* Any path the index has will do: one that was removed, one another        *)
(* session is in.                                                          *)
EnterPath(s, n) ==
  /\ index[n] # None
  /\ Begin(s, [Idle EXCEPT !.pc = "enter", !.tool = "enter", !.name = n],
           index[n] # "removed" /\ \A t \in Sessions : active[t] # n)

(* git worktree add -b: the path and the branch have to be new.            *)
GitAdds(s) ==
  /\ call[s].pc = "add"
  /\ LET n == call[s].name IN
     IF tree[n] = None /\ n \notin branches
     THEN /\ tree' = [tree EXCEPT ![n] = "clean"] /\ branches' = branches \cup {n}
          /\ call' = [call EXCEPT ![s].pc = "load", ![s].status = "active"]
     ELSE Return(s) /\ UNCHANGED <<tree, branches>>
  /\ Smooth /\ UNCHANGED <<index, active, saved, calls, edits>>

(* It failed, or timed out when it had done its work.                      *)
GitAddFails(s) ==
  /\ call[s].pc = "add" /\ Fault /\ Return(s)
  /\ LET n == call[s].name IN
     \/ UNCHANGED <<tree, branches>>
     \/ /\ tree[n] = None /\ n \notin branches
        /\ tree' = [tree EXCEPT ![n] = "clean"] /\ branches' = branches \cup {n}
  /\ UNCHANGED <<index, active, saved, calls, edits>>

(* A session that is in a worktree already stays there.                    *)
Enter(s) ==
  /\ call[s].pc = "enter" /\ Return(s)
  /\ Rebind(s, IF active[s] = None THEN call[s].name ELSE active[s])
  /\ Smooth /\ UNCHANGED <<index, tree, branches, saved, calls, edits>>

-----------------------------------------------------------------------------
(* The index: read whole, changed, written whole.                          *)

Load(s) ==
  /\ call[s].pc = "load"
  /\ call' = [call EXCEPT ![s].pc = "write",
              ![s].copy = [index EXCEPT ![call[s].name] = call[s].status]]
  /\ Smooth /\ UNCHANGED <<index, tree, branches, active, saved, calls, edits>>

Write(s) ==
  /\ call[s].pc = "write"
  /\ index' = call[s].copy
  /\ call' = [call EXCEPT ![s].copy = None,
                          ![s].pc = IF call[s].tool = "enter" THEN "enter" ELSE "restore"]
  /\ Smooth /\ UNCHANGED <<tree, branches, active, saved, calls, edits>>

-----------------------------------------------------------------------------
(* ExitWorktree.                                                           *)

Exit(s, action, discard) ==
  /\ active[s] # None
  /\ Begin(s, [Idle EXCEPT !.pc = "clean", !.tool = "exit", !.name = active[s],
                           !.action = action, !.discard = discard], TRUE)

Removing(c, force) == [c EXCEPT !.pc = "find", !.force = force]

(* Mutant: what was clean a moment ago is removed by force.                *)
CleanIsForced(c) == Removing(c, TRUE)

CleanIsRemoved(c) == Removing(c, FALSE)

(* What follows when there are changes; removing them has to be asked for. *)
Changed(c) ==
  CASE c.action = "keep"                   -> [c EXCEPT !.pc = "keep"]
    [] c.action = "remove" /\ c.discard    -> Removing(c, TRUE)
    [] OTHER                               -> Idle

(* git status cannot run where there is no directory, and this raises; when *)
(* it fails there, the worktree counts as changed.                         *)
AskClean(s) ==
  /\ call[s].pc = "clean"
  /\ LET c == call[s]
         n == c.name
     IN \/ /\ Smooth
           /\ call' = [call EXCEPT ![s] =
                CASE index[n] = None  -> [c EXCEPT !.pc = "restore"]
                  [] index[n] # None /\ tree[n] = None    -> Idle
                  [] index[n] # None /\ tree[n] = "clean" -> CleanIsRemoved(c)
                  [] OTHER            -> Changed(c)]
        \/ /\ Fault /\ index[n] # None /\ tree[n] = "clean"
           /\ call' = [call EXCEPT ![s] = Changed(c)]
  /\ UNCHANGED <<index, tree, branches, active, saved, calls, edits>>

Keep(s) ==
  /\ call[s].pc = "keep"
  /\ call' = [call EXCEPT ![s].status = "kept",
                          ![s].pc = IF index[call[s].name] = None THEN "restore" ELSE "load"]
  /\ Smooth /\ UNCHANGED <<index, tree, branches, active, saved, calls, edits>>

(* remove looks again before it calls git.                                 *)
LookAgain(s) ==
  /\ call[s].pc = "find"
  /\ LET c == call[s]
         n == c.name
     IN call' = [call EXCEPT ![s] =
          CASE index[n] = None                          -> [c EXCEPT !.pc = "restore"]
            [] index[n] # None /\ ~c.force /\ tree[n] = None    -> Idle
            [] index[n] # None /\ ~c.force /\ tree[n] = "dirty" -> [c EXCEPT !.pc = "restore"]
            [] OTHER                                    -> [c EXCEPT !.pc = "rm"]]
  /\ Smooth /\ UNCHANGED <<index, tree, branches, active, saved, calls, edits>>

(* Mutant: the entry keeps its status.                                     *)
GitRemovesOnly(s) ==
  /\ call[s].pc = "rm" /\ Goto(s, "restore")
  /\ tree' = [tree EXCEPT ![call[s].name] =
                IF call[s].force \/ @ = "clean" THEN None ELSE @]
  /\ Smooth /\ UNCHANGED <<index, branches, active, saved, calls, edits>>

(* git worktree remove refuses changes unless it is forced.                *)
GitRemoves(s) ==
  /\ call[s].pc = "rm"
  /\ LET n == call[s].name IN
     IF tree[n] = "clean" \/ (call[s].force /\ tree[n] = "dirty")
     THEN tree' = [tree EXCEPT ![n] = None] /\ Goto(s, "branch")
     ELSE Goto(s, "restore") /\ UNCHANGED tree
  /\ Smooth /\ UNCHANGED <<index, branches, active, saved, calls, edits>>

GitRemoveFails(s) ==
  /\ call[s].pc = "rm" /\ Fault /\ Goto(s, "restore")
  /\ LET n == call[s].name IN
     \/ UNCHANGED tree
     \/ /\ tree[n] = "clean" \/ (call[s].force /\ tree[n] = "dirty")
        /\ tree' = [tree EXCEPT ![n] = None]
  /\ UNCHANGED <<index, branches, active, saved, calls, edits>>

(* git branch -D, with the commits only it has; its failure is not heard.  *)
DeleteBranch(s) ==
  /\ call[s].pc = "branch"
  /\ call' = [call EXCEPT ![s].pc = "load", ![s].status = "removed"]
  /\ \/ Smooth /\ branches' = branches \ {call[s].name}
     \/ Fault /\ UNCHANGED branches
  /\ UNCHANGED <<index, tree, active, saved, calls, edits>>

(* Whatever git said.                                                      *)
Restore(s) ==
  /\ call[s].pc = "restore" /\ Return(s)
  /\ Rebind(s, None)
  /\ Smooth /\ UNCHANGED <<index, tree, branches, saved, calls, edits>>

-----------------------------------------------------------------------------
(* Commands in the background, snapshots, and the end of a process.        *)

Edit(n) ==
  /\ edits < MaxEdits /\ edits' = edits + 1
  /\ \/ tree[n] = "clean" /\ tree' = [tree EXCEPT ![n] = "dirty"]
     \/ tree[n] = "dirty" /\ tree' = [tree EXCEPT ![n] = "clean"]     \* a commit
  /\ UNCHANGED <<index, branches, active, call, saved, orderly, calls, faults>>

SaveSession(s) ==
  /\ call[s].pc = "idle"
  /\ saved' = [saved EXCEPT ![s] = active[s]]
  /\ UNCHANGED <<index, tree, branches, active, call, orderly, calls, edits, faults>>

(* The restored session enters its worktree, known to the index or not.  An *)
(* index cut off while it was written reads as an empty one.               *)
Restart(s) ==
  /\ Fault /\ Return(s)
  /\ Rebind(s, saved[s])
  /\ \/ UNCHANGED index
     \/ call[s].pc = "write" /\ index' = [n \in Names |-> None]
  /\ UNCHANGED <<tree, branches, saved, calls, edits>>

CallStep(s) ==
  \/ GitAdds(s) \/ GitAddFails(s) \/ Enter(s) \/ Load(s) \/ Write(s) \/ AskClean(s)
  \/ Keep(s) \/ LookAgain(s) \/ GitRemoves(s) \/ GitRemoveFails(s)
  \/ DeleteBranch(s) \/ Restore(s)

Next ==
  \/ \E s \in Sessions :
       \/ \E n \in Names : EnterNew(s, n) \/ EnterPath(s, n)
       \/ \E d \in BOOLEAN : Exit(s, "keep", d) \/ Exit(s, "remove", d)
       \/ CallStep(s) \/ SaveSession(s) \/ Restart(s)
  \/ \E n \in Names : Edit(n)

Spec == Init /\ [][Next]_vars

-----------------------------------------------------------------------------
(* Uncommitted changes go away with their worktree only in a call that asked *)
(* for it, whatever else changes the files, fails or ends in between.       *)
ChangesAreNotLost ==
  \A n \in Names : tree[n] = "dirty" /\ tree'[n] = None =>
    \E s \in Sessions : call[s].name = n /\ call[s].action = "remove" /\ call[s].discard

(* Calls one at a time that nothing went wrong with leave an index that     *)
(* tells which worktrees there are, and no session in one that is gone.     *)
IndexTellsTrees ==
  orderly /\ (\A s \in Sessions : call[s].pc = "idle") =>
    /\ \A n \in Names : tree[n] # None <=> index[n] \in {"active", "kept"}
    /\ \A s \in Sessions : active[s] # None => tree[active[s]] # None
=============================================================================
