----------------------------- MODULE ToolCatalog -----------------------------
(***************************************************************************)
(* tools/registry.py and core/runtime/tool_catalog.py: which adapter a call *)
(* of the model reaches while sources (plugins, MCP servers) replace theirs, *)
(* modes change and deferred tools are looked up.  An agent and one worker  *)
(* derived from its registry take steps; each step shows the model a sealed *)
(* snapshot.  _registration_lock makes a change of the registry one action, *)
(* and holds it off while a call is checked against its snapshot.  Circuit  *)
(* breakers and the validation of arguments are left to AgentLoop.         *)
(***************************************************************************)
EXTENDS Naturals, FiniteSets

CONSTANTS
  Names, Owners,
  None,
  AlwaysVisible,      \* DEFAULT_ALWAYS_VISIBLE
  PlanTools,          \* PLAN_MODE_TOOLS
  DelegateTools,      \* DELEGATION_ALLOWED_TOOLS
  ParentOnly,         \* _PARENT_ONLY_TOOLS and whatever a worker is denied
  Sandboxed,          \* what restrict_to_tools leaves
  MaxPromoted,
  SearchOverlaps,     \* sources may change their tools while a search runs
  MaxAdapters                                                       \* bound

Runners == {"agent", "worker"}

VARIABLES
  kind,      \* "plain", "deferred" (discovery is enabled), "sealed" (a sandbox)
  mode,      \* planning, delegate, and the membership a hosted sandbox asks for
  tools,     \* [Names -> None or its adapter, owner, form and schema]
  found,     \* the discovery state: promoted and pending names
  copy,      \* [Names -> None or the worker's binding]; None before it is derived
  step,      \* [Runners -> None or the snapshot of the step]
  call,      \* [Runners -> where the call that is made now is]
  made,      \* adapters so far
  offered    \* history: adapters that stood under a name a search proposed

vars == <<kind, mode, tools, found, copy, step, call, made, offered>>

NoCall == [pc |-> "idle", name |-> None, adapter |-> None, seen |-> {}]

Init ==
  /\ kind \in {"plain", "deferred", "sealed"}
  /\ mode = [planning |-> FALSE, delegate |-> FALSE, member |-> TRUE]
  /\ tools = [n \in Names |-> IF n \in AlwaysVisible
                 THEN [adapter |-> 1, owner |-> "builtin", form |-> "object", schema |-> 0]
                 ELSE None]
  /\ found = [promoted |-> {}, pending |-> {}]
  /\ copy = None
  /\ step = [r \in Runners |-> None]
  /\ call = [r \in Runners |-> NoCall]
  /\ made = 1
  /\ offered = {}

-----------------------------------------------------------------------------
(* What the gates answer for a name.                                       *)

HostedAllowed(n) == kind = "sealed" => n \in Sandboxed /\ mode.member

(* The parent's adapter is the one the worker's copy was made of. *)
SourceCurrent(n) ==
  /\ copy[n] # None /\ tools[n] # None
  /\ tools[n].adapter = copy[n].adapter
  /\ tools[n].schema = copy[n].schema

Allowed(r, n) ==
  /\ HostedAllowed(n)
  /\ r = "worker" => SourceCurrent(n)

(* A worker follows the planning of its parent, not the lead's delegation. *)
ModeAllows(r, n) ==
  /\ mode.planning => n \in PlanTools
  /\ r = "agent" /\ mode.delegate => n \in DelegateTools

Visible(n) == kind = "deferred" => n \in AlwaysVisible \cup found.promoted

(* get_openai_tools(include_deferred=True), and without. *)
Catalog(r) == {n \in Names : tools[n] # None /\ Allowed(r, n) /\ ModeAllows(r, n)}
Listed(r) == {n \in Catalog(r) : Visible(n)}

-----------------------------------------------------------------------------
(* The registry.                                                           *)

(* A source holds _registration_lock; only an agent's call that is being    *)
(* checked holds it across actions, as it reads the mode meanwhile.         *)
Unlocked ==
  /\ call["agent"].pc # "checked"
  /\ ~SearchOverlaps => call["agent"].pc # "search"

(* Mutant: a source's new tools keep the promotion of its old ones. *)
InvalidateNothing(names) == UNCHANGED found

Invalidate(names) ==
  found' = IF kind = "deferred"
             THEN [promoted |-> found.promoted \ names, pending |-> found.pending \ names]
             ELSE found

MayTake(o, n) == tools[n] # None => tools[n].owner = o

Adapter(a, o, form) == [adapter |-> a, owner |-> o, form |-> form, schema |-> 0]

(* register_tool and register_function: a name has one adapter. *)
Register(o, n, form) ==
  /\ Unlocked /\ made < MaxAdapters                                  \* bound
  /\ MayTake(o, n)
  /\ ~(kind = "sealed" /\ n \in Sandboxed)
  /\ tools[n] # None => tools[n].form = form
  /\ IF tools[n] # None THEN Invalidate({n}) ELSE UNCHANGED found
  /\ tools' = [tools EXCEPT ![n] = Adapter(made + 1, o, form)]
  /\ made' = made + 1
  /\ UNCHANGED <<kind, mode, copy, step, call, offered>>

Unregister(o, n) ==
  /\ Unlocked /\ tools[n] # None
  /\ MayTake(o, n)
  /\ ~(kind = "sealed" /\ n \in Sandboxed)
  /\ Invalidate({n})
  /\ tools' = [tools EXCEPT ![n] = None]
  /\ UNCHANGED <<kind, mode, copy, step, call, made, offered>>

(* A source's whole inventory is swapped: after a reconnect, or to none.   *)
ReplaceOwned(o, names) ==
  /\ Unlocked /\ kind # "sealed"
  /\ names # {} => made < MaxAdapters                                \* bound
  /\ \A n \in names : MayTake(o, n)
  /\ LET old == {n \in Names : tools[n] # None /\ tools[n].owner = o} IN
       /\ old \cup names # {}
       /\ Invalidate(old)
       /\ tools' = [n \in Names |->
            IF n \in names THEN Adapter(made + 1, o, "object")
            ELSE IF n \in old THEN None ELSE tools[n]]
  /\ made' = IF names = {} THEN made ELSE made + 1
  /\ UNCHANGED <<kind, mode, copy, step, call, offered>>

(* A tool reads its schema anew each time it is asked for it. *)
SchemaChanges(n) ==
  /\ Unlocked /\ tools[n] # None /\ tools[n].form = "object"
  /\ tools' = [tools EXCEPT ![n].schema = 1 - @]
  /\ UNCHANGED <<kind, mode, found, copy, step, call, made, offered>>

SetMode ==
  /\ mode' \in [planning : BOOLEAN, delegate : BOOLEAN, member : BOOLEAN]
  /\ mode' # mode /\ (kind = "sealed" \/ mode'.member)
  /\ UNCHANGED <<kind, tools, found, copy, step, call, made, offered>>

(* Functions are not handed on, and neither is what only the parent may run. *)
Derive ==
  /\ copy = None /\ step["agent"] # None
  /\ copy' = [n \in Names |->
       IF n \in ParentOnly \/ tools[n] = None \/ (tools[n] # None /\ tools[n].form = "function")
         THEN None ELSE [adapter |-> tools[n].adapter, schema |-> tools[n].schema]]
  /\ UNCHANGED <<kind, mode, tools, found, step, call, made, offered>>

-----------------------------------------------------------------------------
(* A step: pending discoveries are promoted, and the tools are shown.      *)

IsDerived(r) == r = "worker" => copy # None

Activate ==
  /\ call["agent"] = NoCall
  /\ LET ready == found.pending \cap Catalog("agent") IN
     \E new \in SUBSET ready :
       /\ Cardinality(found.promoted \cup new) <= MaxPromoted
       /\ new # ready => Cardinality(found.promoted \cup new) = MaxPromoted
       /\ found' = [promoted |-> found.promoted \cup new, pending |-> {}]
  /\ call' = [call EXCEPT !["agent"] = [NoCall EXCEPT !.pc = "activated"]]
  /\ UNCHANGED <<kind, mode, tools, copy, step, made, offered>>

CaptureStep(r) ==
  /\ IsDerived(r)
  /\ call[r].pc = IF r = "agent" THEN "activated" ELSE "idle"
  /\ step' = [step EXCEPT ![r] = [n \in Names |-> IF n \in Listed(r)
       THEN [adapter |-> tools[n].adapter, schema |-> tools[n].schema] ELSE None]]
  /\ call' = [call EXCEPT ![r] = NoCall]
  /\ UNCHANGED <<kind, mode, tools, found, copy, made, offered>>

-----------------------------------------------------------------------------
(* ToolSearch reads the catalog, then proposes names of it.                *)

BeginSearch ==
  /\ kind = "deferred" /\ call["agent"] = NoCall /\ step["agent"] # None
  /\ call' = [call EXCEPT !["agent"] = [NoCall EXCEPT !.pc = "search", !.seen = Catalog("agent")]]
  /\ UNCHANGED <<kind, mode, tools, found, copy, step, made, offered>>

Propose ==
  /\ call["agent"].pc = "search"
  /\ \E new \in SUBSET {n \in call["agent"].seen : ~Visible(n) /\ ModeAllows("agent", n)} :
       /\ new # {} =>
            Cardinality(found.promoted) + Cardinality(found.pending \cup new) <= MaxPromoted
       /\ found' = [found EXCEPT !.pending = @ \cup new]
       /\ offered' = offered \cup {tools[n].adapter : n \in {m \in new : tools[m] # None}}
  /\ call' = [call EXCEPT !["agent"] = NoCall]
  /\ UNCHANGED <<kind, mode, tools, copy, step, made>>

-----------------------------------------------------------------------------
(* execute_tool.  The model may name any tool.                             *)

Begin(r, n) ==
  /\ IsDerived(r) /\ step[r] # None /\ call[r] = NoCall
  /\ Allowed(r, n) /\ ModeAllows(r, n) /\ Visible(n)
  /\ call' = [call EXCEPT ![r] = [NoCall EXCEPT !.pc = "gated", !.name = n]]
  /\ UNCHANGED <<kind, mode, tools, found, copy, step, made, offered>>

Registered(r, n) == IF r = "agent" THEN tools[n] ELSE copy[n]

Refuse(r) ==
  /\ call' = [call EXCEPT ![r] = NoCall]
  /\ UNCHANGED <<kind, mode, tools, found, copy, step, made, offered>>

(* Mutant: a name that was shown is enough. *)
BoundByName(r, n) == step[r][n] # None /\ Registered(r, n) # None

Bound(r, n) ==
  /\ step[r][n] # None /\ Registered(r, n) # None
  /\ Registered(r, n).adapter = step[r][n].adapter

(* Under the lock: the adapter is the one the step has shown.  A worker     *)
(* holds its parent's lock only while it asks for its source.               *)
CheckBinding(r) ==
  /\ call[r].pc = "gated"
  /\ LET n == call[r].name IN
     IF Bound(r, n) /\ Allowed(r, n)
       THEN /\ call' = [call EXCEPT ![r].pc = "checked", ![r].adapter = Registered(r, n).adapter]
            /\ UNCHANGED <<kind, mode, tools, found, copy, step, made, offered>>
       ELSE Refuse(r)

(* The mode, what is visible, and the schema as it is now.  A schema that    *)
(* changed in the adapter changed in the worker's copy of it too.           *)
Start(r) ==
  /\ call[r].pc = "checked"
  /\ LET n == call[r].name
         current == tools[n] # None /\ tools[n].adapter = call[r].adapter
                      => tools[n].schema = step[r][n].schema
     IN IF ModeAllows(r, n) /\ Visible(n) /\ current
          THEN /\ call' = [call EXCEPT ![r].pc = "running"]
               /\ UNCHANGED <<kind, mode, tools, found, copy, step, made, offered>>
          ELSE Refuse(r)

Return(r) == call[r].pc = "running" /\ Refuse(r)

Next ==
  \/ \E o \in Owners :
       \/ \E n \in Names : Unregister(o, n) \/ \E form \in {"object", "function"} : Register(o, n, form)
       \/ \E names \in SUBSET Names : ReplaceOwned(o, names)
  \/ \E n \in Names : SchemaChanges(n)
  \/ SetMode \/ Derive \/ Activate \/ BeginSearch \/ Propose
  \/ \E r \in Runners :
       \/ CaptureStep(r) \/ CheckBinding(r) \/ Start(r) \/ Return(r)
       \/ \E n \in Names : Begin(r, n)

Spec == Init /\ [][Next]_vars

-----------------------------------------------------------------------------
(* What starts, for the agent or for its worker, is the adapter its step    *)
(* showed with the schema it was shown with, permitted by the mode of the    *)
(* moment and, under discovery, one a search has offered: a promotion never  *)
(* passes to another adapter of the same name.  A worker runs nothing that   *)
(* is for its parent alone.                                                  *)
StartsAsApproved ==
  \A r \in Runners : call[r].pc # "running" /\ call'[r].pc = "running" =>
    LET n == call'[r].name
        a == call'[r].adapter
    IN /\ step[r][n] # None /\ step[r][n].adapter = a
       /\ r = "agent" => tools[n] # None /\ tools[n].adapter = a
                         /\ tools[n].schema = step[r][n].schema
       /\ r = "worker" => n \notin ParentOnly
       /\ ModeAllows(r, n)
       /\ kind = "deferred" /\ n \notin AlwaysVisible => a \in offered
       /\ kind = "sealed" => n \in Sandboxed

-----------------------------------------------------------------------------
(* The strengthening, in parts, while no source changes its tools during a   *)
(* search (~SearchOverlaps).                                                *)

Bindings == [adapter : Nat, schema : {0, 1}]
Adapters == [adapter : Nat, owner : Owners \cup {"builtin"},
             form : {"object", "function"}, schema : {0, 1}]
Snapshots == [Names -> Bindings \cup {None}]
Places == {"idle", "activated", "search", "gated", "checked", "running"}
Calls == [pc : Places, name : Names \cup {None}, adapter : Nat \cup {None},
          seen : SUBSET Names]

TypeOK ==
  /\ mode \in [planning : BOOLEAN, delegate : BOOLEAN, member : BOOLEAN]
  /\ tools \in [Names -> Adapters \cup {None}]
  /\ found \in [promoted : SUBSET Names, pending : SUBSET Names]
  /\ copy \in Snapshots \cup {None}
  /\ step \in [Runners -> Snapshots \cup {None}]
  /\ call \in [Runners -> Calls]
  /\ made \in Nat /\ offered \subseteq Nat

(* What a search has found stands under its name, and was offered.          *)
FoundWasOffered ==
  /\ kind = "deferred" => \A n \in found.promoted \cup found.pending :
       tools[n] # None /\ tools[n].adapter \in offered
  /\ call["agent"].pc = "search" => \A n \in call["agent"].seen : tools[n] # None

WorkerIsConfined == copy # None => \A n \in Names : copy[n] # None => n \notin ParentOnly

(* What a step shows could be shown.                                        *)
StepsAreListed ==
  \A r \in Runners : step[r] # None => \A n \in Names : step[r][n] # None =>
    /\ kind = "deferred" /\ n \notin AlwaysVisible => step[r][n].adapter \in offered
    /\ kind = "sealed" => n \in Sandboxed
    /\ r = "worker" => n \notin ParentOnly

(* What a call was bound to is what its step shows, and the lock keeps it.    *)
CallsAreBound ==
  \A r \in Runners :
    /\ call[r].pc \in {"gated", "checked"} => step[r] # None /\ call[r].name \in Names
    /\ r = "worker" /\ call[r].pc \in {"gated", "checked"} => copy # None
    /\ call[r].pc = "checked" =>
         /\ step[r][call[r].name] # None
         /\ step[r][call[r].name].adapter = call[r].adapter
         /\ r = "agent" => /\ tools[call[r].name] # None
                           /\ tools[call[r].name].adapter = call[r].adapter

IInv == TypeOK /\ FoundWasOffered /\ WorkerIsConfined /\ StepsAreListed /\ CallsAreBound
=============================================================================
