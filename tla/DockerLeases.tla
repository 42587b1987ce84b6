----------------------------- MODULE DockerLeases -----------------------------
(***************************************************************************)
(* Commands in containers of a Docker daemon, and the reaper of those that  *)
(* were left behind.  The processes of an installation share an owner key    *)
(* in a file, and the daemon; each has a reaper, and the set of the          *)
(* commands it executes, which the others do not see.  A container carries    *)
(* the owner, the end of its lease and a signature of both, here one label.  *)
(* The daemon creates a container some time after it was asked to.           *)
(***************************************************************************)
EXTENDS Naturals, Sequences, FiniteSets

CONSTANTS
  None, Procs, Commands,
  Timeout, Grace,     \* of a command; LEASE_GRACE_SECONDS
  MaxScan,            \* MAX_SCAN
  KeyFaults,          \* where writing the key may fail: "write", "sync"
  MaxTime, MaxFaults  \* bounds

VARIABLES
  now,
  file,           \* the key file: None, "empty" or a key
  phase,          \* of a process: "off", "writing", "syncing", "reading", "on"
  owner,          \* the key of its lease manager
  command,        \* what a process knows of a command
  active,         \* _active of its lease manager
  asked,          \* containers the daemon was asked for and has not created
  containers,     \* those it has, the oldest first
  scan,           \* a reap() under way
  faults

vars == <<now, file, phase, owner, command, active, asked, containers, scan, faults>>
keys == <<file, phase, owner>>
daemon == <<asked, containers>>

Fails == faults < MaxFaults /\ faults' = faults + 1
Exists(c) == \E i \in DOMAIN containers : containers[i] = c
Without(c) == SelectSeq(containers, LAMBDA d : d # c)

Init ==
  /\ now = 0 /\ file = None /\ faults = 0
  /\ phase = [p \in Procs |-> "off"] /\ owner = [p \in Procs |-> None]
  /\ command = [c \in Commands |-> None] /\ active = [p \in Procs |-> {}]
  /\ asked = {} /\ containers = <<>> /\ scan = [p \in Procs |-> None]

Tick == now < MaxTime /\ now' = now + 1 /\ UNCHANGED <<keys, command, active, daemon, scan, faults>>

-----------------------------------------------------------------------------
(* The key of the installation, made once.                                 *)

Goes(p, to) == phase' = [phase EXCEPT ![p] = to]

(* Mutant: a key that is there is written over.                            *)
CreateAnyKey(p) ==
  /\ phase[p] = "off" /\ file' = "empty" /\ Goes(p, "writing")
  /\ UNCHANGED <<now, owner, command, active, daemon, scan, faults>>

CreateKey(p) ==
  /\ phase[p] = "off"
  /\ IF file = None
     THEN file' = "empty" /\ Goes(p, "writing")
     ELSE UNCHANGED file /\ Goes(p, "reading")
  /\ UNCHANGED <<now, owner, command, active, daemon, scan, faults>>

(* What cannot be written or synced is unlinked, and the provider refuses.  *)
WriteKey(p) ==
  /\ \/ phase[p] = "writing" /\ file' = p /\ Goes(p, "syncing") /\ UNCHANGED faults
     \/ phase[p] = "syncing" /\ UNCHANGED <<file, faults>> /\ Goes(p, "reading")
     \/ phase[p] = "writing" /\ "write" \in KeyFaults /\ Fails /\ file' = None /\ Goes(p, "off")
     \/ phase[p] = "syncing" /\ "sync" \in KeyFaults /\ Fails /\ file' = None /\ Goes(p, "off")
  /\ UNCHANGED <<now, owner, command, active, daemon, scan>>

(* A file that is gone or not yet written is refused.                      *)
ReadKey(p) ==
  /\ phase[p] = "reading" /\ UNCHANGED file
  /\ IF file \in Procs
     THEN Goes(p, "on") /\ owner' = [owner EXCEPT ![p] = file]
     ELSE Goes(p, "off") /\ UNCHANGED owner
  /\ UNCHANGED <<now, command, active, daemon, scan, faults>>

(* The CLI of a command goes with its process; the container stays.        *)
Crash(p) ==
  /\ phase[p] # "off" /\ Fails /\ Goes(p, "off")
  /\ owner' = [owner EXCEPT ![p] = None]
  /\ active' = [active EXCEPT ![p] = {}] /\ scan' = [scan EXCEPT ![p] = None]
  /\ command' = [c \in Commands |-> IF command[c] # None /\ command[c].proc = p
                                    THEN [command[c] EXCEPT !.step = "done"]
                                    ELSE command[c]]
  /\ UNCHANGED <<now, file, daemon>>

-----------------------------------------------------------------------------
(* A command: labelled, active, running, removing, leaving, done.          *)

(* Mutant: a lease that ends when the grace does.                          *)
ExpiryOfGrace == now + Grace
Expiry == now + Timeout + Grace

(* The provider of p was made, and leases with the owner it read.           *)
Serves(p) == phase[p] = "on"

Label(p, c) ==
  /\ Serves(p) /\ command[c] = None
  /\ command' = [command EXCEPT ![c] =
       [proc |-> p, step |-> "labelled", owner |-> owner[p], expires |-> Expiry,
        since |-> now, until |-> None]]
  /\ UNCHANGED <<now, keys, active, daemon, scan, faults>>

Step(c, from, to) ==
  /\ command[c] # None /\ command[c].step = from
  /\ command' = [command EXCEPT ![c].step = to]

Activate(c) ==
  /\ Step(c, "labelled", "active")
  /\ active' = [active EXCEPT ![command[c].proc] = @ \cup {c}]
  /\ UNCHANGED <<now, keys, daemon, scan, faults>>

(* The turn was interrupted before it began.                               *)
NeverStarts(c) ==
  Step(c, "labelled", "done") /\ UNCHANGED <<now, keys, active, daemon, scan, faults>>

Run(c) ==
  /\ \/ /\ command[c] # None /\ command[c].step = "active" /\ UNCHANGED faults
        /\ command' = [command EXCEPT ![c].step = "running", ![c].until = now + Timeout]
        /\ asked' = asked \cup {c}
     \/ Fails /\ Step(c, "active", "leaving") /\ UNCHANGED asked
  /\ UNCHANGED <<now, keys, active, containers, scan>>

(* The CLI returns when its container is gone or was never made.           *)
Returns(c) ==
  /\ Step(c, "running", "leaving") /\ c \notin asked /\ ~Exists(c)
  /\ UNCHANGED <<now, keys, active, daemon, scan, faults>>

(* At its time-out, or when the turn is interrupted, the CLI is killed.    *)
Stop(c) ==
  /\ Step(c, "running", "removing")
  /\ UNCHANGED <<now, keys, active, daemon, scan, faults>>

(* `docker rm --force` finds what is there by then; a failure is passed by.  *)
ForceRemove(c) ==
  /\ Step(c, "removing", "leaving")
  /\ \/ containers' = Without(c) /\ UNCHANGED faults
     \/ Fails /\ UNCHANGED containers
  /\ UNCHANGED <<now, keys, active, asked, scan>>

Leave(c) ==
  /\ Step(c, "leaving", "done")
  /\ active' = [active EXCEPT ![command[c].proc] = @ \ {c}]
  /\ UNCHANGED <<now, keys, daemon, scan, faults>>

-----------------------------------------------------------------------------
(* The daemon.                                                             *)

Creates(c) ==
  /\ c \in asked /\ asked' = asked \ {c} /\ containers' = Append(containers, c)
  /\ UNCHANGED <<now, keys, command, active, scan, faults>>

Refuses(c) ==
  /\ c \in asked /\ asked' = asked \ {c}
  /\ UNCHANGED <<now, keys, command, active, containers, scan, faults>>

(* --rm                                                                    *)
Ends(c) ==
  /\ Exists(c) /\ containers' = Without(c)
  /\ UNCHANGED <<now, keys, command, active, asked, scan, faults>>

-----------------------------------------------------------------------------
(* A reaper: it lists, then inspects and removes one after the other.      *)

Owned(p) == SelectSeq(containers, LAMBDA c : command[c].owner = owner[p])
Listed(p) ==
  LET s == Owned(p) IN {s[i] : i \in {j \in DOMAIN s : j + MaxScan > Len(s)}}

(* Mutant: a container of a command under way is taken as well.            *)
ExpiredOnly(p, c) == command[c].owner = owner[p] /\ command[c].expires <= now

Eligible(p, c) ==
  command[c].owner = owner[p] /\ command[c].expires <= now /\ c \notin active[p]

Reap(p) ==
  /\ Serves(p) /\ scan[p] = None
  /\ scan' = [scan EXCEPT ![p] =
       [ids |-> Listed(p), at |-> None, failed |-> FALSE,
        orphans |-> {c \in Listed(p) : command[c].expires <= now} \ active[p]]]
  /\ UNCHANGED <<now, keys, command, active, daemon, faults>>

Inspect(p, c) ==
  /\ scan[p] # None /\ scan[p].at = None /\ c \in scan[p].ids
  /\ \/ /\ UNCHANGED faults
        /\ scan' = [scan EXCEPT ![p].ids = @ \ {c},
                                ![p].failed = @ \/ ~Exists(c),
                                ![p].at = IF Exists(c) /\ Eligible(p, c) THEN c ELSE None]
     \/ Fails /\ scan' = [scan EXCEPT ![p].ids = @ \ {c}, ![p].failed = TRUE]
  /\ UNCHANGED <<now, keys, command, active, daemon>>

(* Mutant: a container that could not be removed is not told.              *)
RemoveQuietly(p) ==
  /\ scan[p] # None /\ scan[p].at # None
  /\ scan' = [scan EXCEPT ![p].at = None]
  /\ \/ containers' = Without(scan[p].at) /\ UNCHANGED faults
     \/ Fails /\ UNCHANGED containers
  /\ UNCHANGED <<now, keys, command, active, asked>>

Remove(p) ==
  /\ scan[p] # None /\ scan[p].at # None
  /\ LET c == scan[p].at IN
     \/ /\ containers' = Without(c) /\ UNCHANGED faults
        /\ scan' = [scan EXCEPT ![p].at = None, ![p].failed = @ \/ ~Exists(c)]
     \/ /\ Fails /\ UNCHANGED containers
        /\ scan' = [scan EXCEPT ![p].at = None, ![p].failed = TRUE]
  /\ UNCHANGED <<now, keys, command, active, asked>>

(* The scan is complete, or out of its budget of eight seconds.            *)
EndScan(p) ==
  /\ scan[p] # None /\ scan[p].at = None /\ scan' = [scan EXCEPT ![p] = None]
  /\ UNCHANGED <<now, keys, command, active, daemon, faults>>

Next ==
  \/ Tick
  \/ \E p \in Procs :
       \/ CreateKey(p) \/ WriteKey(p) \/ ReadKey(p) \/ Crash(p)
       \/ Reap(p) \/ Remove(p) \/ EndScan(p)
       \/ \E c \in Commands : Label(p, c) \/ Inspect(p, c)
  \/ \E c \in Commands :
       \/ Activate(c) \/ NeverStarts(c) \/ Run(c) \/ Returns(c) \/ Stop(c)
       \/ ForceRemove(c) \/ Leave(c)
       \/ Creates(c) \/ Refuses(c) \/ Ends(c)

Spec == Init /\ [][Next]_vars

-----------------------------------------------------------------------------
(* The processes of an installation have one key, whichever came first: with *)
(* two, neither would know what the other left behind.                      *)
OwnersShareTheKey ==
  \A p, q \in Procs : Serves(p) /\ Serves(q) => owner[p] = owner[q]

(* A reaper never takes the container of a command its own process executes, *)
(* however late that is, nor one that another process began within the grace *)
(* and that is within its time-out.                                         *)
ReapsOnlyOrphans ==
  \A p \in Procs, c \in Commands :
    Remove(p) /\ Exists(c) /\ containers' # containers /\ scan[p].at = c =>
      \/ command[c].step = "done"
      \/ /\ command[c].proc # p
         /\ \/ command[c].until <= now
            \/ command[c].until > command[c].since + Timeout + Grace

(* A scan that went through its list and reports no failure has left none of *)
(* the orphans it found.                                                    *)
CleanScansLeaveNoOrphans ==
  \A p \in Procs :
    EndScan(p) /\ scan[p].ids = {} /\ ~scan[p].failed =>
      \A c \in scan[p].orphans : ~Exists(c)
=============================================================================
