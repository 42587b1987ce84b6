------------------------------ MODULE MCStores ------------------------------
(***************************************************************************)
(* Components without symmetry, side by side: the board of a team; the     *)
(* tree, the files and the catalogue of conversations; the machines of two  *)
(* providers; the steps of a turn and its searches, pages and worktrees;    *)
(* the terminal; memories, goals and profiles.  A behaviour is one of the   *)
(* component it has its focus on; the cells x1, x2, ... are its variables,   *)
(* in their order, and those left over hold nothing.                       *)
(***************************************************************************)
EXTENDS Naturals, Sequences

CONSTANTS None, Lead, Members, Gated, Providers,
  TerminalCalls, TerminalEvents, TerminalDrops,     \* bounds of TerminalView
  LoopTools, LoopSafe, LoopPlanTools, LoopSwitch, LoopUnbudgeted, LoopThreshold,
  LoopTurns, LoopSteps, LoopCalls, LoopChanges      \* tools and bounds of AgentLoop

VARIABLES
  focus,
  x1, x2, x3, x4, x5, x6, x7, x8, x9, x10, x11, x12, x13, x14, x15

vars == <<focus, x1, x2, x3, x4, x5, x6, x7, x8, x9, x10, x11, x12, x13, x14, x15>>

Board == INSTANCE TeamBoard WITH
  MaxTasks <- 2, MaxRequests <- 2, MaxItems <- 2, MaxEvents <- 2,
  tasks <- x1, nextId <- x2, lock <- x3, requests <- x4, approvals <- x5,
  letters <- x6, items <- x7, call <- x8, spent <- x9, restarts <- x10,
  past <- x11

Tree == INSTANCE HistoryTree WITH
  MinRetain <- 1, Restores <- {"tree"}, MaxNodes <- 6, node <- x1,
  messages <- x2, index <- x3, entries <- x4, cursor <- x5, saved <- x6,
  path <- x7, forgotten <- x8

Store == INSTANCE SessionStore WITH
  Scenarios <- {"overlap", "quiet"}, MaxMessages <- 5, MaxCrashes <- 2,
  MaxFaults <- 1, snapshot <- x1, log <- x2, sidecar <- x3, indexed <- x4,
  live <- x5, saver <- x6, handler <- x7, made <- x8, crashes <- x9,
  faults <- x10, writes <- x11, scenario <- x12, kept <- x13

Remote == INSTANCE E2BCapacity WITH
  Limit <- 1, MaxCommands <- 2, MaxLosses <- 1, slots <- x1, claims <- x2,
  vm <- x3, inside <- x4, main <- x5, creator <- x6, closer <- x7,
  client <- x8, busy <- x9, closed <- x10, poisoned <- x11, abort <- x12,
  reserved <- x13, commands <- x14, losses <- x15

Loop == INSTANCE AgentLoop WITH
  Tools <- LoopTools, Safe <- LoopSafe, PlanTools <- LoopPlanTools,
  Switch <- LoopSwitch, Unbudgeted <- LoopUnbudgeted,
  Threshold <- LoopThreshold, ForkTo <- "rounds", MaxTurns <- LoopTurns,
  MaxSteps <- LoopSteps, MaxCalls <- LoopCalls, MaxChanges <- LoopChanges,
  registry <- x1, advertised <- x2,
  planning <- x3, interrupted <- x4, breaker <- x5, hooks <- x6, owner <- x7,
  work <- x8, next <- x9, upto <- x10, history <- x11

Search == INSTANCE Searches WITH
  Dirs <- {1, 2}, Files <- 1..4, Directory <- <<1, 1, 2, 2>>,
  Matching <- {1, 3, 4}, Hidden <- {4}, Ignored <- {2}, Limit <- 2,
  MaxVisited <- 4, MaxDuration <- 1, MaxChanges <- 2, there <- x1,
  clock <- x2, call <- x3, page <- x4, seen <- x5, changes <- x6

Worktree == INSTANCE Worktrees WITH
  Sessions <- Members, Names <- {"t1", "t2"}, MaxCalls <- 4, MaxEdits <- 1,
  MaxFaults <- 1, index <- x1, tree <- x2, branches <- x3, active <- x4,
  call <- x5, saved <- x6, orderly <- x7, calls <- x8, edits <- x9,
  faults <- x10

Terminal == INSTANCE TerminalView WITH
  Sessions <- Members, Eager <- FALSE, MaxCalls <- TerminalCalls,
  MaxEvents <- TerminalEvents, MaxDrops <- TerminalDrops, created <- x1, deleted <- x2, turn <- x3, asked <- x4,
  journal <- x5, view <- x6, epoch <- x7, disconnect <- x8, sockets <- x9,
  calls <- x10, used <- x11, drops <- x12, closed <- x13

Memory == INSTANCE Memories WITH
  Agents <- {"a1"}, Web <- "web", Roots <- {"r1", "r2"}, Home <- "r1",
  Texts <- {{"a"}, {"a", "b"}}, Messages <- {<<"a">>, <<"b", "a">>},
  SharedDir <- TRUE, Limit <- 1, MaxRecords <- 2, MaxTurns <- 2,
  MaxSettings <- 2, MaxFaults <- 1, settings <- x1, records <- x2,
  root <- x3, running <- x4, prompt <- x5, locked <- x6, captures <- x7,
  call <- x8, turns <- x9, changes <- x10, faults <- x11

Docker == INSTANCE DockerLeases WITH
  Procs <- {"p1", "p2"}, Commands <- {1}, Timeout <- 1, Grace <- 1,
  MaxScan <- 1, KeyFaults <- {"write"}, MaxTime <- 3, MaxFaults <- 2,
  now <- x1, file <- x2, phase <- x3, owner <- x4, command <- x5,
  active <- x6, asked <- x7, containers <- x8, scan <- x9, faults <- x10

Catalog == INSTANCE SessionCatalog WITH
  Service <- "service", Sessions <- {"s1", "s2"}, Spare <- {"t1"},
  Titles <- {"mine"}, LooksNew <- {}, Managers <- {"c", "t"},
  UnlinkFails <- FALSE, MaxTurns <- 2, MaxCrashes <- 1, index <- x1,
  snapshot <- x2, log <- x3, workspace <- x4, lock <- x5, task <- x6,
  live <- x7, built <- x8, reconciled <- x9, given <- x10, deleted <- x11,
  used <- x12, turns <- x13, crashes <- x14

Web == INSTANCE WebReads WITH
  Readers <- {"r1", "r2"}, Pages <- {"p", "q"},
  Host <- [page \in {"p", "q"} |-> "h"],
  Redirects <- [page \in {"p", "q"} |-> IF page = "p" THEN "q" ELSE None],
  Respected <- TRUE, Forbidden <- {"q"}, MaxRequests <- 1, Window <- 3,
  MaxRedirects <- 1, Ttl <- 2, RobotsTtl <- 2, MaxEntries <- 1,
  MaxDelay <- 1, MaxTime <- 3, MaxReads <- 2, now <- x1, history <- x2,
  cache <- x3, robots <- x4, fetch <- x5, answer <- x6, sent <- x7,
  reads <- x8

Goal == INSTANCE Goals WITH
  Runners <- {1}, Budgets <- {1, 2}, MaxAuto <- 2, MaxSets <- 3,
  MaxTurns <- 2, MaxCalls <- 2, disk <- x1, run <- x2, flag <- x3,
  asked <- x4, word <- x5, clash <- x6, claimed <- x7, over <- x8,
  turns <- x9

Profile == INSTANCE ModelProfiles WITH
  Names <- {"a", "b"}, Routes <- {"r1"}, Keys <- {"k1", "k2"},
  Environment <- [name \in {"b"} |-> [route |-> "r0", key |-> "k0"]],
  Legacy <- [name \in {"a"} |-> [route |-> "r0", key |-> "k9"]],
  Writers <- {1, 2}, Agents <- {1}, Start <- [route |-> "r9", key |-> "ks"],
  MaxEdits <- 2, MaxSwitches <- 2, MaxCrashes <- 1, works <- x1,
  keychain <- x2, keyfile <- x3, rows <- x4, writer <- x5, agent <- x6,
  wanted <- x7, settled <- x8, edits <- x9, switches <- x10, crashes <- x11

(* A terminal starts with a call; None is neither a session nor a number.    *)
ASSUME TerminalAssumption ==
  TerminalCalls \in Nat \ {0} /\ None \notin Members /\ None \notin Nat

(* The tools that switch the plan mode are controls (tool_specs.py): they never *)
(* run alongside others.  "" is the name of no tool.                        *)
ASSUME LoopAssumption ==
  /\ LoopSwitch \notin LoopSafe /\ "" \notin LoopTools
  /\ LoopThreshold \in Nat /\ LoopCalls \in Nat

(* The cells from the nth on hold nothing. *)
From15 == x15 = None
From14 == x14 = None /\ From15
From12 == x12 = None /\ x13 = None /\ From14
From11 == x11 = None /\ From12
From10 == x10 = None /\ From11
From9 == x9 = None /\ From10
From7 == x7 = None /\ x8 = None /\ From9

Init ==
  \/ focus = "board" /\ Board!Init /\ From12
  \/ focus = "tree" /\ Tree!Init /\ From9
  \/ focus = "store" /\ Store!Init /\ From14
  \/ focus = "remote" /\ Remote!Init
  \/ focus = "loop" /\ Loop!Init /\ From12
  \/ focus = "search" /\ Search!Init /\ From7
  \/ focus = "worktree" /\ Worktree!Init /\ From11
  \/ focus = "terminal" /\ Terminal!Init /\ From14
  \/ focus = "memory" /\ Memory!Init /\ From12
  \/ focus = "docker" /\ Docker!Init /\ From11
  \/ focus = "catalog" /\ Catalog!Init /\ From15
  \/ focus = "web" /\ Web!Init /\ From9
  \/ focus = "goal" /\ Goal!Init /\ From10
  \/ focus = "profile" /\ Profile!Init /\ From12

Next ==
  /\ UNCHANGED focus
  /\ \/ focus = "board" /\ Board!Next /\ UNCHANGED <<x12, x13, x14, x15>>
     \/ focus = "tree" /\ Tree!Next
        /\ UNCHANGED <<x9, x10, x11, x12, x13, x14, x15>>
     \/ focus = "store" /\ Store!Next /\ UNCHANGED <<x14, x15>>
     \/ focus = "remote" /\ Remote!Next
     \/ focus = "loop" /\ Loop!Next /\ UNCHANGED <<x12, x13, x14, x15>>
     \/ focus = "search" /\ Search!Next
        /\ UNCHANGED <<x7, x8, x9, x10, x11, x12, x13, x14, x15>>
     \/ focus = "worktree" /\ Worktree!Next /\ UNCHANGED <<x11, x12, x13, x14, x15>>
     \/ focus = "terminal" /\ Terminal!Next /\ UNCHANGED <<x14, x15>>
     \/ focus = "memory" /\ Memory!Next /\ UNCHANGED <<x12, x13, x14, x15>>
     \/ focus = "docker" /\ Docker!Next /\ UNCHANGED <<x11, x12, x13, x14, x15>>
     \/ focus = "catalog" /\ Catalog!Next /\ UNCHANGED <<x15>>
     \/ focus = "web" /\ Web!Next
        /\ UNCHANGED <<x9, x10, x11, x12, x13, x14, x15>>
     \/ focus = "goal" /\ Goal!Next
        /\ UNCHANGED <<x10, x11, x12, x13, x14, x15>>
     \/ focus = "profile" /\ Profile!Next /\ UNCHANGED <<x12, x13, x14, x15>>

Spec == Init /\ [][Next]_vars

(* TeamBoard *)
BoardIsKept ==
  /\ [](focus = "board" => /\ Board!ApprovalMakesOneItem
                           /\ Board!OneMemberPerTask
                           /\ Board!CompletedMeansDone)
  /\ [][focus = "board" => Board!ClaimsOnlyUnblocked]_vars

(* HistoryTree *)
ContextIsTheSelectedBranch ==
  focus = "tree" => Tree!ContextIsTheSelectedBranch /\ Tree!ExportIsTheSelectedBranch

(* SessionStore: the files of a session; SessionCatalog: the index over them *)
SessionsAreKeptWhole ==
  /\ focus = "store" => Store!SessionsAreKeptWhole
  /\ focus = "catalog" => /\ Catalog!RowsMatchFiles
                          /\ Catalog!TitlesStay
                          /\ Catalog!DeletedIsGone

(* E2BCapacity: the slots of two gateways; DockerLeases: two processes *)
MachinesAreOwned ==
  /\ [](/\ focus = "remote" => Remote!SlotsCoverMachines
        /\ focus = "docker" => Docker!OwnersShareTheKey)
  /\ [][focus = "docker" => Docker!ReapsOnlyOrphans /\ Docker!CleanScansLeaveNoOrphans]_vars

(* AgentLoop *)
ToolCallsAreSafe ==
  /\ [](focus = "loop" => Loop!RequestsArePaired /\ Loop!UnsafeToolsRunAlone)
  /\ [][focus = "loop" => Loop!StartsAsAdvertised]_vars

(* Searches: calls of Glob and Grep, pages of LS, and tools that change files; *)
(* WebReads: two agents that read pages of one host                          *)
AnswersAreHonest ==
  /\ [](/\ focus = "search" => Search!AnswersAreHonest
        /\ focus = "web" => Web!HostsAreSpared)
  /\ [][focus = "web" => Web!AnswersAreRecent]_vars

(* Worktrees: two sessions, their calls, and commands left in the background *)
WorktreesAreKept ==
  /\ [](focus = "worktree" => Worktree!IndexTellsTrees)
  /\ [][focus = "worktree" => Worktree!ChangesAreNotLost]_vars

(* TerminalView: commands, replies and events of two sessions *)
TerminalShowsItsSession ==
  focus = "terminal" => Terminal!ShownIsSelected /\ Terminal!QuestionsAreShown

(* What a page and an agent share.  Memories: the turns, captures and memory   *)
(* calls of an agent, and the page; Goals: its automatic rounds, the Goal tool *)
(* and the handlers of the service; ModelProfiles: edits and switches.       *)
RecordsAreKept ==
  /\ [](/\ focus = "memory" => Memory!LockIsOfItsCapture /\ Memory!FactsAreStoredOnce
        /\ focus = "goal" => Goal!UserHasTheLastWord
        /\ focus = "profile" => Profile!ProfilesResolve)
  /\ [][/\ focus = "memory" => Memory!TurnsRecallTheirOwn
        /\ focus = "goal" => Goal!RoundsAreDue
        /\ focus = "profile" => Profile!SwitchesAreComplete]_vars
=============================================================================
