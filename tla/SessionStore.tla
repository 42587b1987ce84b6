---------------------------- MODULE SessionStore ----------------------------
(***************************************************************************)
(* A conversation on disk: SessionManager (core/session_manager.py) keeps a *)
(* snapshot, SessionLog (core/session_log.py) a log that is only appended   *)
(* to and a sidecar with the place to append at.  The agent of the session  *)
(* saves at the end of each turn; handlers load (and repair what they load), *)
(* delete, reconcile; the process may die between any two file operations.  *)
(*                                                                         *)
(* One session.  Messages are numbered as they are made, a summary too.     *)
(***************************************************************************)
EXTENDS Naturals, Sequences, SequencesExt

CONSTANTS
  None,
  Scenarios,     \* a subset of {"overlap", "quiet", "both"}, see Quiet
  MaxMessages, MaxCrashes, MaxFaults   \* bounds

VARIABLES
  snapshot,      \* <id>.json: None or the messages
  log,           \* <id>.jsonl: None or [messages, branch, torn, size]
  sidecar,       \* <id>.logstate.json: None or [size, events]
  indexed,       \* index.json has the session
  live,          \* history of the agent; None when there is no agent
  saver, handler, \* the turn thread and an HTTP handler: [pc, job, mine, start, ...]
  made, crashes, faults, writes,
  scenario,
  kept           \* for the properties: [last, tries, inLine, gone]

vars == <<snapshot, log, sidecar, indexed, live, saver, handler, made, crashes, faults,
          writes, scenario, kept>>

Nobody == [pc |-> "idle", job |-> "none", mine |-> <<>>, start |-> 0, branch |-> FALSE,
           found |-> <<>>, may |-> {}]

(* A handler may load in the middle of a save ("overlap"), or histories may   *)
(* shrink and appends fail ("quiet"); in the code ("both") all of that may     *)
(* happen together, and a new generation may fail to be published.          *)
Quiet(process) == scenario = "quiet" => process.pc \in {"idle", "turn"}

(* What a load may give: the last save that returned or, when a later one     *)
(* had begun, what it had added by then.                                    *)
Since(old, new) ==
  {old, new} \cup IF IsPrefix(old, new) THEN {SubSeq(new, 1, i) : i \in Len(old)..Len(new)}
                  ELSE {}
MayBe == UNION {Since(kept.last, try) : try \in kept.tries} \cup {kept.last}

Written(messages, branch) == [messages |-> messages, branch |-> branch, torn |-> FALSE,
                              size |-> writes + 1]
HasEvents == log # None /\ (log.messages # <<>> \/ log.branch)

(* Mutant: the sidecar is trusted whatever the size of the log.              *)
TrustedBlindly == log # None /\ sidecar # None
Trusted == log # None /\ sidecar # None /\ sidecar.size = log.size
Logged == IF log = None THEN <<>> ELSE log.messages

(* create_session.                                                         *)
Init ==
  /\ snapshot = <<>> /\ log = [messages |-> <<>>, branch |-> FALSE, torn |-> FALSE, size |-> 0]
  /\ sidecar = [size |-> 0, events |-> 0] /\ indexed = TRUE
  /\ live = None /\ saver = Nobody /\ handler = Nobody
  /\ made = 0 /\ crashes = 0 /\ faults = 0 /\ writes = 0
  /\ scenario \in Scenarios
  /\ kept = [last |-> <<>>, tries |-> {}, inLine |-> TRUE, gone |-> "no"]

-----------------------------------------------------------------------------
(* SessionLog.sync: where to append is read first ...                       *)
SyncPlan(mine) ==
  LET start == IF Trusted THEN sidecar.events ELSE Len(Logged)
  IN IF log = None \/ Len(mine) < start
     THEN [how |-> "publish", start |-> 0, branch |-> log # None]
     ELSE IF ~Trusted /\ log.torn
     THEN [how |-> "publish", start |-> 0, branch |-> FALSE]
     ELSE [how |-> "append", start |-> start, branch |-> FALSE]

(* ... then a new generation is published, or messages are appended to a     *)
(* file that open(..., "a") makes if it is gone.  Lines behind a torn one    *)
(* are not read.                                                           *)
AppendedTo(old, more) ==
  IF old = None THEN Written(more, FALSE)
  ELSE IF old.torn THEN [old EXCEPT !.size = writes + 1]
  ELSE [old EXCEPT !.messages = @ \o more, !.size = writes + 1]

Planned(process) ==
  LET plan == SyncPlan(process.mine)
  IN [process EXCEPT !.pc = plan.how, !.start = plan.start, !.branch = plan.branch]

Rest(process) == SubSeq(process.mine, process.start + 1, Len(process.mine))

(* The log operation of a process and what follows it (next).                *)
LogWrite(process, next) ==
  /\ \/ /\ process.pc = "publish" /\ log' = Written(process.mine, process.branch)
        /\ writes' = writes + 1
     \/ /\ process.pc = "append"
        /\ IF Rest(process) = <<>> THEN UNCHANGED <<log, writes>>
           ELSE /\ log' = AppendedTo(log, Rest(process)) /\ writes' = writes + 1
  /\ next.pc = "sidecar"
  /\ UNCHANGED <<snapshot, sidecar, indexed, live, made, crashes, faults, scenario>>

SidecarWrite(process) ==
  /\ process.pc = "sidecar"
  /\ sidecar' = IF log = None THEN sidecar
                ELSE [size |-> log.size, events |-> Len(process.mine)]
  /\ UNCHANGED <<snapshot, log, indexed, live, made, crashes, faults, writes, scenario>>

-----------------------------------------------------------------------------
(* The agent *)

(* A turn adds to the history ...                                           *)
Turn ==
  /\ live # None /\ saver.pc \in {"idle", "turn"}
  /\ made < MaxMessages                                             \* bound
  /\ made' = made + 1 /\ live' = Append(live, made')
  /\ saver' = [Nobody EXCEPT !.pc = "turn"]
  /\ UNCHANGED <<snapshot, log, sidecar, indexed, handler, crashes, faults, writes,
                 scenario, kept>>

(* ... and may compact it.                                                  *)
Compact ==
  /\ scenario # "overlap"
  /\ saver.pc = "turn" /\ Len(live) > 2
  /\ made < MaxMessages                                             \* bound
  /\ made' = made + 1 /\ live' = <<made'>> \o SubSeq(live, Len(live), Len(live))
  /\ UNCHANGED <<snapshot, log, sidecar, indexed, saver, handler, crashes, faults, writes,
                 scenario, kept>>

(* save_session: log, snapshot, index.  After a compaction the turn ends      *)
(* before the history is as long as it was.                                 *)
BeginSave ==
  /\ saver.pc = "turn" /\ Quiet(handler)
  /\ IsPrefix(kept.last, live) \/ Len(live) < Len(kept.last)        \* bound
  /\ saver' = Planned([Nobody EXCEPT !.job = "save", !.mine = live])
  /\ kept' = [kept EXCEPT !.tries = @ \cup {live},
                          !.inLine = @ /\ \/ IsPrefix(Logged, live)
                                          \/ Len(live) < Len(Logged)]
  /\ handler' = [handler EXCEPT !.may = @ \cup Since(kept.last, live)]
  /\ UNCHANGED <<snapshot, log, sidecar, indexed, live, made, crashes, faults, writes, scenario>>

SaveLog ==
  /\ saver' = [saver EXCEPT !.pc = "sidecar"] /\ LogWrite(saver, saver')
  /\ UNCHANGED <<handler, kept>>
SaveSidecar ==
  /\ SidecarWrite(saver) /\ saver' = [saver EXCEPT !.pc = "snapshot"]
  /\ UNCHANGED <<handler, kept>>

(* An OSError of the log is swallowed; one of the snapshot ends the save.     *)
SaveLogFails ==
  /\ \/ saver.pc = "append" /\ scenario # "overlap"
     \/ saver.pc = "publish" /\ scenario = "both"
  /\ faults < MaxFaults                                             \* bound
  /\ faults' = faults + 1 /\ saver' = [saver EXCEPT !.pc = "snapshot"]
  /\ UNCHANGED <<snapshot, log, sidecar, indexed, live, handler, made, crashes, writes,
                 scenario, kept>>
SaveFails ==
  /\ saver.pc = "snapshot" /\ faults < MaxFaults                     \* bound
  /\ faults' = faults + 1 /\ saver' = Nobody
  /\ UNCHANGED <<snapshot, log, sidecar, indexed, live, handler, made, crashes, writes,
                 scenario, kept>>

SaveSnapshot ==
  /\ saver.pc = "snapshot"
  /\ snapshot' = saver.mine /\ saver' = [saver EXCEPT !.pc = "index"]
  /\ kept' = [kept EXCEPT !.last = saver.mine, !.tries = {}]
  /\ UNCHANGED <<log, sidecar, indexed, live, handler, made, crashes, faults, writes, scenario>>
SaveIndex ==
  /\ saver.pc = "index" /\ indexed' = TRUE /\ saver' = Nobody
  /\ UNCHANGED <<snapshot, log, sidecar, live, handler, made, crashes, faults, writes, scenario,
                 kept>>

-----------------------------------------------------------------------------
(* The handlers *)

(* load_session, to show the history or to make the agent (_ensure_agent).    *)
Begin(job) ==
  /\ handler.pc = "idle" /\ indexed /\ Quiet(saver)
  /\ job = "open" => live = None
  /\ handler' = [Nobody EXCEPT !.pc = "read", !.job = job, !.may = MayBe]
  /\ UNCHANGED <<snapshot, log, sidecar, indexed, live, saver, made, crashes, faults, writes,
                 scenario, kept>>

(* Without a snapshot the log is what there is, unless it is only a header.   *)
ReadSnapshot ==
  /\ handler.pc = "read"
  /\ handler' =
       IF snapshot # None
       THEN [handler EXCEPT !.pc = "prefer", !.mine = snapshot]
       ELSE [handler EXCEPT !.pc = "loaded", !.mine = Logged,
                            !.found = IF HasEvents THEN Logged ELSE None]
  /\ UNCHANGED <<snapshot, log, sidecar, indexed, live, saver, made, crashes, faults, writes,
                 scenario, kept>>

(* _prefer_log_history, and whether _repair_log_behind_snapshot has work.     *)
Preferred(mine) == IF Len(Logged) > Len(mine) THEN Logged ELSE mine
PreferLog ==
  /\ handler.pc = "prefer"
  /\ LET found == Preferred(handler.mine)
         next  == [handler EXCEPT !.found = found]
     IN handler' = IF log # None /\ Len(Logged) < Len(found) THEN Planned(next)
                   ELSE [next EXCEPT !.pc = "loaded"]
  /\ UNCHANGED <<snapshot, log, sidecar, indexed, live, saver, made, crashes, faults, writes,
                 scenario, kept>>

RepairLog ==
  /\ handler.job \in {"show", "open"}
  /\ handler' = [handler EXCEPT !.pc = "sidecar"] /\ LogWrite(handler, handler')
  /\ UNCHANGED <<saver, kept>>
RepairSidecar ==
  /\ SidecarWrite(handler) /\ handler' = [handler EXCEPT !.pc = "loaded"]
  /\ UNCHANGED <<saver, kept>>

(* The agent takes the tree of the snapshot and, only if that is empty, the   *)
(* messages.  A session that is not there is taken off the index (activate).  *)
Loaded ==
  /\ handler.pc = "loaded"
  /\ live' = IF handler.job # "open" \/ handler.found = None THEN live
             ELSE IF handler.mine # <<>> THEN handler.mine ELSE handler.found
  /\ handler' = IF handler.found = None THEN [Nobody EXCEPT !.pc = "unlink", !.job = "delete"]
                ELSE Nobody
  /\ UNCHANGED <<snapshot, log, sidecar, indexed, saver, made, crashes, faults, writes, scenario,
                 kept>>

(* delete: the agent is taken away first; snapshot, log and sidecar, index.   *)
BeginDelete ==
  /\ handler.pc = "idle" /\ indexed /\ saver.pc = "idle"
  /\ handler' = [Nobody EXCEPT !.pc = "unlink", !.job = "delete"]
  /\ live' = None /\ kept' = [kept EXCEPT !.gone = "asked"]
  /\ UNCHANGED <<snapshot, log, sidecar, indexed, saver, made, crashes, faults, writes, scenario>>
Unlink ==
  /\ handler.pc = "unlink" /\ snapshot' = None
  /\ handler' = [handler EXCEPT !.pc = "unlink log"]
  /\ UNCHANGED <<log, sidecar, indexed, live, saver, made, crashes, faults, writes, scenario, kept>>
UnlinkLog ==
  /\ handler.pc = "unlink log" /\ log' = None /\ sidecar' = None
  /\ handler' = [handler EXCEPT !.pc = "unindex"]
  /\ UNCHANGED <<snapshot, indexed, live, saver, made, crashes, faults, writes, scenario, kept>>
Unindex ==
  /\ handler.pc = "unindex" /\ indexed' = FALSE /\ handler' = Nobody
  /\ kept' = [kept EXCEPT !.gone = "yes"]
  /\ UNCHANGED <<snapshot, log, sidecar, live, saver, made, crashes, faults, writes, scenario>>

-----------------------------------------------------------------------------
(* Crash and restart: reconcile_index makes the index agree with the files.   *)
(* Lines that were being appended are there, in part, or not at all.         *)
CrashIn(process) ==
  \E n \in 0..Len(Rest(process)), torn \in BOOLEAN :
    /\ process.pc = "append" /\ Rest(process) # <<>> /\ log # None
    /\ n = Len(Rest(process)) => ~torn
    /\ log' = [AppendedTo(log, SubSeq(Rest(process), 1, n)) EXCEPT !.torn = @ \/ torn]
    /\ writes' = writes + 1
Crash ==
  /\ crashes < MaxCrashes                                           \* bound
  /\ crashes' = crashes + 1
  /\ \/ CrashIn(saver) \/ CrashIn(handler)
     \/ UNCHANGED <<log, writes>>
  /\ saver' = Nobody /\ handler' = Nobody /\ live' = None
  /\ indexed' = (snapshot # None \/ (log' # None /\ (log'.messages # <<>> \/ log'.branch)))
  /\ UNCHANGED <<snapshot, sidecar, made, faults, scenario, kept>>

(* reconcile_sessions(), run while nothing else is: the log follows a         *)
(* snapshot of the same length or a longer one.                             *)
Reconcile ==
  /\ saver.pc = "idle" /\ handler.pc = "idle" /\ live = None
  /\ snapshot # None /\ Len(Logged) <= Len(snapshot) /\ Logged # snapshot
  /\ log' = Written(snapshot, FALSE) /\ writes' = writes + 1
  /\ sidecar' = [size |-> writes', events |-> Len(snapshot)]
  /\ UNCHANGED <<kept, snapshot, indexed, live, saver, handler, made, crashes, faults, scenario>>

Next ==
  \/ Turn \/ Compact \/ BeginSave \/ SaveLog \/ SaveSidecar \/ SaveLogFails \/ SaveFails
  \/ SaveSnapshot \/ SaveIndex
  \/ \E job \in {"show", "open"} : Begin(job)
  \/ ReadSnapshot \/ PreferLog \/ RepairLog \/ RepairSidecar \/ Loaded
  \/ BeginDelete \/ Unlink \/ UnlinkLog \/ Unindex
  \/ Crash \/ Reconcile

Spec == Init /\ [][Next]_vars

-----------------------------------------------------------------------------
(* Properties. *)

(* A load gives a whole save: the last one that returned, or what a later    *)
(* one had added when it was cut off.                                       *)
LoadedIsASave == handler.pc = "loaded" /\ kept.gone = "no" => handler.found \in handler.may \cup {None}

Loadable == snapshot # None \/ HasEvents

(* ... as long as the last save left the log in line with the snapshot; and   *)
(* a session can be loaded until it is deleted, and never after.            *)
SessionsAreKeptWhole ==
  /\ kept.inLine => LoadedIsASave
  /\ kept.gone = "yes" => ~Loadable /\ ~indexed
  /\ kept.gone = "no" => Loadable
=============================================================================
