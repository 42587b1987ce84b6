--------------------------- MODULE MCComponents ---------------------------
(***************************************************************************)
(* TLC instances of the components that share no state, side by side.  A    *)
(* behaviour is one of the component it has its focus on.  The ACP server,   *)
(* whose module this one extends, has its own variables; the cells x1, x2,   *)
(* ... are the variables of any other component, in their order, and those   *)
(* that are left over hold nothing.                                        *)
(***************************************************************************)
EXTENDS AcpServer, TLC

CONSTANTS
  Two, Janitor, Client, Agent, Boxes,
  Actors,     \* threads, callers, agents, jobs: whatever runs side by side
  Things,     \* what they use
  MaxLoops, MaxOwners,                                           \* of McpSessions
  MaxClients,                                               \* of McpRegistration
  SubagentMaxSteps, MaxCalls, MaxReads, MaxRestarts,           \* of Subagents
  PipeSize, MaxOutput, MaxWrites                           \* of ShellCommands

VARIABLES
  focus,
  x1, x2, x3, x4, x5, x6, x7, x8, x9, x10, x11, x12, x13, x14, x15, x16

cells == <<x1, x2, x3, x4, x5, x6, x7, x8, x9, x10, x11, x12, x13, x14, x15, x16>>
componentsVars == <<focus, cells, vars>>

Turns == INSTANCE SessionTurns WITH
  Sessions <- Two, Clients <- {Client}, Stoppers <- {Janitor},
  MaxActive <- 1, MaxSteps <- 1, MaxRounds <- 0, MaxTurns <- 1,
  MaxPrompts <- 0, life <- x1, busy <- x2, closed <- x3, cancelled <- x4,
  agent <- x5, flag <- x6, active <- x7, sender <- x8, worker <- x9,
  prompt <- x10, asked <- x11, pending <- x12, client <- x13, stopper <- x14,
  closing <- x15, history <- x16

Files == INSTANCE FileEdits WITH
  Agents <- {Agent}, Calls <- Actors, Values <- {0, 1}, Length <- 2,
  Drafts <- {<<0, 1>>, <<1, 0>>}, RootIsCwd <- TRUE, MaxTime <- 2,
  MaxVersions <- 3, MaxOutside <- 1, file <- x1, now <- x2, cache <- x3,
  call <- x4, versions <- x5, outside <- x6, seen <- x7

Pool == INSTANCE BoxlitePool WITH
  Callers <- Actors, Scopes <- Things, Capacity <- 1, keepWarm <- x1,
  lease <- x2, warm <- x3, pending <- x4, closed <- x5, poisoned <- x6,
  loop <- x7, vm <- x8, dirty <- x9, lost <- x10, doomed <- x11,
  caller <- x12

McpCalls == INSTANCE McpSessions WITH
  Threads <- Actors, Kinds <- {"tool", "read", "close"}, client <- x1,
  live <- x2, owner <- x3, call <- x4, late <- x5

McpServers == INSTANCE McpRegistration WITH
  Agents <- Actors, Jobs <- Things, mode <- x1, shared <- x2, life <- x3,
  agent <- x4, job <- x5

Model == INSTANCE ModelCalls WITH
  MaxRetries <- 1, MaxChunks <- 3, MaxSteps <- 2, setup <- x1, step <- x2,
  chunks <- x3, came <- x4, tape <- x5, saved <- x6

Tools == INSTANCE ToolCatalog WITH
  Names <- {"Bash", "Lookup"}, Owners <- {"mcp"}, AlwaysVisible <- {"Bash"},
  PlanTools <- {}, DelegateTools <- {}, ParentOnly <- {},
  Sandboxed <- {"Bash"}, MaxPromoted <- 1, SearchOverlaps <- FALSE,
  MaxAdapters <- 2, kind <- x1, mode <- x2, tools <- x3, found <- x4,
  copy <- x5, step <- x6, call <- x7, made <- x8, offered <- x9

Deferred == INSTANCE ToolCatalog WITH
  Names <- {"Lookup"}, Owners <- {"mcp"}, AlwaysVisible <- {},
  PlanTools <- {}, DelegateTools <- {}, ParentOnly <- {}, Sandboxed <- {},
  MaxPromoted <- 1, SearchOverlaps <- FALSE, MaxAdapters <- 3, kind <- x1,
  mode <- x2, tools <- x3, found <- x4, copy <- x5, step <- x6, call <- x7,
  made <- x8, offered <- x9

Subagent == INSTANCE Subagents WITH
  task <- x1, events <- x2, memory <- x3, file <- x4, reader <- x5,
  restarts <- x6, handed <- x7

Shell == INSTANCE ShellCommands WITH
  setup <- x1, call <- x2, child <- x3, group <- x4, stray <- x5,
  queued <- x6, written <- x7, kept <- x8, overflow <- x9, reader <- x10,
  cancelled <- x11

Plugin == INSTANCE Plugins WITH
  Revisions <- Things, Hooks <- Actors, OptIn <- TRUE,
  ChangesOverlap <- FALSE, MoveBackFails <- FALSE, MaxSurprises <- 1,
  disk <- x1, row <- x2, op <- x3, consent <- x4, agent <- x5, call <- x6,
  hook <- x7, surprises <- x8

(* The cells from the nth on hold nothing. *)
From13 == x13 = None /\ x14 = None /\ x15 = None /\ x16 = None
From12 == x12 = None /\ From13
From10 == x10 = None /\ x11 = None /\ From12
From9 == x9 = None /\ From10
From8 == x8 = None /\ From9
From7 == x7 = None /\ From8
From6 == x6 = None /\ From7
From1 ==
  /\ x1 = None /\ x2 = None /\ x3 = None /\ x4 = None /\ x5 = None
  /\ From6

(* Beside another component, AcpServer stays at its start. *)
ComponentsInit ==
  /\ Init
  /\ \/ focus = "acp" /\ From1
     \/ focus = "turns" /\ Turns!Init
     \/ focus = "files" /\ Files!Init /\ From8
     \/ focus = "pool" /\ Pool!Init /\ From13
     \/ focus = "calls" /\ McpCalls!Init /\ From6
     \/ focus = "servers" /\ McpServers!Init /\ From6
     \/ focus = "model" /\ Model!Init /\ From7
     \/ focus = "tools" /\ Tools!Init /\ From10
     \/ focus = "deferred" /\ Deferred!Init /\ From10
     \/ focus = "subagent" /\ Subagent!Init /\ From8
     \/ focus = "shell" /\ Shell!Init /\ From12
     \/ focus = "plugins" /\ Plugin!Init /\ From9

ComponentsNext ==
  /\ UNCHANGED focus
  /\ \/ focus = "acp" /\ Next /\ UNCHANGED cells
     \/ focus = "turns" /\ Turns!Next /\ UNCHANGED vars
     \/ focus = "files" /\ Files!Next
        /\ UNCHANGED <<x8, x9, x10, x11, x12, x13, x14, x15, x16, vars>>
     \/ focus = "pool" /\ Pool!Next /\ UNCHANGED <<x13, x14, x15, x16, vars>>
     \/ focus = "calls" /\ McpCalls!Next
        /\ UNCHANGED <<x6, x7, x8, x9, x10, x11, x12, x13, x14, x15, x16, vars>>
     \/ focus = "servers" /\ McpServers!Next
        /\ UNCHANGED <<x6, x7, x8, x9, x10, x11, x12, x13, x14, x15, x16, vars>>
     \/ focus = "model" /\ Model!Next
        /\ UNCHANGED <<x7, x8, x9, x10, x11, x12, x13, x14, x15, x16, vars>>
     \/ focus = "tools" /\ Tools!Next
        /\ UNCHANGED <<x10, x11, x12, x13, x14, x15, x16, vars>>
     \/ focus = "deferred" /\ Deferred!Next
        /\ UNCHANGED <<x10, x11, x12, x13, x14, x15, x16, vars>>
     \/ focus = "subagent" /\ Subagent!Next
        /\ UNCHANGED <<x8, x9, x10, x11, x12, x13, x14, x15, x16, vars>>
     \/ focus = "shell" /\ Shell!Next
        /\ UNCHANGED <<x12, x13, x14, x15, x16, vars>>
     \/ focus = "plugins" /\ Plugin!Next
        /\ UNCHANGED <<x9, x10, x11, x12, x13, x14, x15, x16, vars>>

(* What the proofs need of the constants. *)
ASSUME SessionsAssumption == Two # {}

ASSUME ServersAssumption ==
  MaxClients \in Nat /\ None \notin Nat /\ IsFiniteSet(Actors) /\ IsFiniteSet(Things)

ASSUME PoolAssumption == None \notin Pool!Lease \cup Boxes

ASSUME CallsAssumption ==
  /\ MaxLoops \in Nat /\ MaxOwners \in Nat /\ None \notin Actors
  /\ None \notin {"tool", "read", "close"} /\ None \notin {"raise", "again"}

ASSUME SubagentAssumption ==
  /\ MaxCalls \in Nat
  /\ None \notin Subagent!Ends /\ None \notin {"background", "running"}
  /\ None \notin Subagent!Records

ASSUME ShellAssumption ==
  /\ PipeSize \in Nat \ {0} /\ MaxOutput \in Nat
  /\ None \notin Shell!Replies /\ None \notin Shell!Ends

ASSUME ToolsAssumption == None \notin Tools!Adapters \cup Deferred!Adapters

ASSUME PluginAssumption == None \notin Plugin!Kinds \cup Plugin!Slots \cup Plugin!Rows

ComponentsSpec == ComponentsInit /\ [][ComponentsNext]_componentsVars

Symmetry == Permutations(Actors) \cup Permutations(Things)

(* SessionTurns: two sessions and one admission slot, and a shutdown *)
AdmissionHolds ==
  /\ [](focus = "turns" => Turns!AdmissionMatchesTurns)
  /\ [][focus = "turns" => Turns!AdmitsNoTurnOnceQuiet]_componentsVars

(* FileEdits: two tool threads *)
ToolsChangeOnlyWhatWasRead == [][focus = "files" => Files!ChangesOnlyWhatItRead]_componentsVars

(* BoxlitePool: two callers, two scopes, one replica *)
PoolIsOwned ==
  /\ [](focus = "pool" => Pool!CapacityHolds)
  /\ [][focus = "pool" => Pool!CommandOwnsItsVm]_componentsVars

(* McpSessions: two threads that share a client; McpRegistration: two agents   *)
(* that share a server                                                      *)
McpServersAreShared ==
  /\ focus = "calls" => McpCalls!CallsAreSafe
  /\ focus = "servers" => McpServers!ServersAreShared

(* ModelCalls: two steps of a run *)
AnswersAreWhole == focus = "model" => Model!AnswersAreWhole

(* ToolCatalog: an agent and a worker, a tool of the sandbox and a deferred   *)
(* one; and a deferred tool whose adapter is replaced twice                  *)
StartsAsApproved ==
  [][/\ focus = "tools" => Tools!StartsAsApproved
     /\ focus = "deferred" => Deferred!StartsAsApproved]_componentsVars

(* Subagents: one task, a reader and a restart *)
SubagentsTellTheTruth == focus = "subagent" => Subagent!SubagentsTellTheTruth

(* ShellCommands: one command *)
CommandsAreAccountedFor == focus = "shell" => Shell!CommandsAreAccountedFor

(* Plugins: a plugin of two revisions, and two hooks *)
PluginsAreKept ==
  /\ [](focus = "plugins" => Plugin!HooksRunWithConsent /\ Plugin!BlockIsHeard)
  /\ [][focus = "plugins" => Plugin!AllOrNothing]_componentsVars
=============================================================================
