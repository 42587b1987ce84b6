---------------------------- MODULE ModelProfiles ----------------------------
(***************************************************************************)
(* The profiles of models that the settings page edits, and the agents that  *)
(* switch to them.  models.json says where a profile's requests go; its key  *)
(* is in the keychain of the system while that works, else in keys.json.    *)
(* Edits run in threads of their own and take no lock; each file is replaced *)
(* at once.                                                                 *)
(***************************************************************************)
EXTENDS Naturals, FiniteSets

CONSTANTS
  None,
  Names, Routes, Keys,    \* of profiles; model, provider and address; API keys
  Environment,            \* the profiles of MODEL_PROFILES: names to [route, key]
  Legacy,                 \* rows of an old models.json: names to [route, key]
  Writers, Agents,
  Start,                  \* what an agent uses at first: [route, key]
  MaxEdits, MaxSwitches, MaxCrashes    \* bounds

VARIABLES
  works,      \* the keychain: "not yet", "yes", "no longer"
  keychain,
  keyfile,    \* keys.json
  rows,       \* models.json: names to None or [route, key]
  writer,     \* an edit under way
  agent,      \* [cache, llm]: _model_profiles and the client in use
  wanted,     \* for the properties: what the last edit of each name asked for,
  settled,    \*   whether nothing disturbed it,
  edits, switches, crashes

vars == <<works, keychain, keyfile, rows, writer, agent, wanted, settled, edits,
          switches, crashes>>
keys == <<keychain, keyfile>>
ghosts == <<wanted, settled>>
counts == <<edits, switches, crashes>>

Row(table, name) == IF name \in DOMAIN table THEN table[name] ELSE None
Idle == [pc |-> "idle", name |-> None, route |-> None, key |-> None, read |-> None,
         given |-> None, calm |-> TRUE]

Init ==
  /\ works \in {"not yet", "yes"}
  /\ keychain = [n \in Names |-> None] /\ keyfile = [n \in Names |-> None]
  /\ rows = [n \in Names |-> Row(Legacy, n)]
  /\ writer = [w \in Writers |-> Idle]
  /\ agent = [a \in Agents |-> [cache |-> None, llm |-> Start]]
  /\ wanted = rows /\ settled = [n \in Names |-> TRUE]
  /\ edits = 0 /\ switches = 0 /\ crashes = 0

(* The keychain comes up, or goes and stays away.                           *)
KeychainChanges ==
  /\ works # "no longer"
  /\ works' = IF works = "yes" THEN "no longer" ELSE "yes"
  /\ UNCHANGED <<keys, rows, writer, agent, ghosts, counts>>

-----------------------------------------------------------------------------
(* Reading: the keychain before the file, the file before the environment.   *)

InFile(name) == keyfile[name]
Saved == rows

Secret(name) ==
  IF works = "yes" /\ keychain[name] # None THEN keychain[name] ELSE InFile(name)

Loaded(name) ==
  IF Saved[name] = None THEN Row(Environment, name)
  ELSE [Saved[name] EXCEPT !.key = IF @ # None THEN @ ELSE Secret(name)]

-----------------------------------------------------------------------------
(* Editing.                                                                *)

At(w, pc) == writer[w].pc = pc
Goes(w, f) == writer' = [writer EXCEPT ![w] = f]
To(w, pc) == Goes(w, [writer[w] EXCEPT !.pc = pc])

(* Mutant: a name without a new key gives up the one in models.json.         *)
KeyAsGiven(key, name) == key
KeyToStore(key, name) ==
  IF key # None THEN key ELSE IF Saved[name] = None THEN None ELSE Saved[name].key

(* An edit that meets another one is not calm.                              *)
Starts(w, f) ==
  LET others == {x \in Writers \ {w} : ~At(x, "idle")} IN
  /\ At(w, "idle") /\ edits < MaxEdits /\ edits' = edits + 1
  /\ writer' = [x \in Writers |->
       IF x = w THEN [f EXCEPT !.calm = others = {}]
       ELSE IF x \in others THEN [writer[x] EXCEPT !.calm = FALSE] ELSE writer[x]]

Upsert(w, name, route, key) ==
  LET stored == KeyToStore(key, name) IN
  /\ Starts(w, [pc |-> IF stored = None THEN "save" ELSE "secret", name |-> name,
                route |-> route, key |-> stored, read |-> Saved, given |-> None,
                calm |-> TRUE])
  /\ UNCHANGED <<works, keys, rows, agent, ghosts, switches, crashes>>

DeleteProfile(w, name) ==
  /\ Saved[name] # None
  /\ Starts(w, [Idle EXCEPT !.pc = "save", !.name = name, !.read = Saved])
  /\ UNCHANGED <<works, keys, rows, agent, ghosts, switches, crashes>>

Deleting(w) == writer[w].route = None

(* What an edit asks for.  A key that was stored stays with its name.       *)
Asked(w) ==
  LET f == writer[w] IN
  IF Deleting(w) THEN None
  ELSE [route |-> f.route,
        key |-> IF f.key # None \/ wanted[f.name] = None THEN f.key ELSE wanted[f.name].key]

(* An edit without a key does not settle what is not.                       *)
Done(w) ==
  LET f == writer[w] IN
  /\ Goes(w, Idle)
  /\ wanted' = [wanted EXCEPT ![f.name] = Asked(w)]
  /\ settled' = [settled EXCEPT ![f.name] =
                   f.calm /\ (@ \/ (~Deleting(w) /\ f.key # None))]

(* What a file loses or regains of other names by an edit is not settled.    *)
Unsettles(w, old, new) ==
  settled' = [n \in Names |-> settled[n] /\ (n = writer[w].name \/ old[n] = new[n])]

(* Mutant: the copy in keys.json stays when the keychain takes the key.      *)
CopyStays(name) == FALSE
HasCopy(name) == InFile(name) # None

(* set_secret and delete_secret: the keychain, and what becomes of the file.  *)
SetSecret(w) ==
  /\ At(w, "secret")
  /\ LET f == writer[w] IN
     IF works = "yes"
     THEN /\ keychain' = [keychain EXCEPT ![f.name] = f.key]
          /\ Goes(w, IF HasCopy(f.name)
                     THEN [f EXCEPT !.pc = "keys", !.given = [keyfile EXCEPT ![f.name] = None]]
                     ELSE [f EXCEPT !.pc = "save"])
     ELSE /\ UNCHANGED keychain
          /\ Goes(w, [f EXCEPT !.pc = "keys", !.given = [keyfile EXCEPT ![f.name] = f.key]])
  /\ UNCHANGED <<works, keyfile, rows, agent, ghosts, counts>>

(* Mutant: the key in keys.json is left where it is.                        *)
ForgetNothing(w) == FALSE
Forgets(w) == HasCopy(writer[w].name)

DeleteSecret(w) ==
  /\ At(w, "forget")
  /\ LET f == writer[w] IN
     /\ keychain' = IF works = "yes" THEN [keychain EXCEPT ![f.name] = None] ELSE keychain
     /\ IF Forgets(w)
        THEN /\ UNCHANGED ghosts
             /\ Goes(w, [f EXCEPT !.pc = "keys", !.given = [keyfile EXCEPT ![f.name] = None]])
        ELSE Done(w)
  /\ UNCHANGED <<works, keyfile, rows, agent, counts>>

WriteKeys(w) ==
  /\ At(w, "keys") /\ keyfile' = writer[w].given
  /\ IF Deleting(w)
     THEN Done(w)
     ELSE To(w, "save") /\ Unsettles(w, keyfile, writer[w].given) /\ UNCHANGED wanted
  /\ UNCHANGED <<works, keychain, rows, agent, counts>>

Save(w) ==
  /\ At(w, "save")
  /\ LET f == writer[w]
         new == [f.read EXCEPT ![f.name] =
                   IF Deleting(w) THEN None ELSE [route |-> f.route, key |-> None]]
     IN /\ rows' = new
        /\ Unsettles(w, rows, new)
        /\ UNCHANGED wanted
        /\ To(w, IF Deleting(w) THEN "forget" ELSE "return")
  /\ UNCHANGED <<works, keys, agent, counts>>

Return(w) ==
  /\ At(w, "return") /\ Done(w)
  /\ UNCHANGED <<works, keys, rows, agent, counts>>

(* The process ends during an edit, and is started again.                    *)
Crash ==
  /\ \E w \in Writers : ~At(w, "idle")
  /\ crashes < MaxCrashes /\ crashes' = crashes + 1
  /\ settled' = [n \in Names |-> settled[n] /\ \A w \in Writers : writer[w].name # n]
  /\ writer' = [w \in Writers |-> Idle]
  /\ agent' = [a \in Agents |-> [cache |-> None, llm |-> Start]]
  /\ UNCHANGED <<works, keys, rows, wanted, edits, switches>>

-----------------------------------------------------------------------------
(* Switching: the settings handler looks a name up anew, the agent in what it *)
(* has loaded at its first switch; a name it does not find is a model of the *)
(* provider in use.                                                         *)

(* Mutant: the key in use goes before that of the profile.                   *)
KeyInUse(profile, llm) == IF llm.key # None THEN llm.key ELSE profile.key
KeyFor(profile, llm) == IF profile.key # None THEN profile.key ELSE llm.key

Known(a) ==
  IF agent[a].cache # None THEN agent[a].cache ELSE [n \in Names |-> Loaded(n)]

(* A session takes the name of a profile that can be loaded.                *)
Takes(name) == Loaded(name) # None
Current(a) == agent[a].llm

Switch(a, name) ==
  /\ Takes(name)
  /\ switches < MaxSwitches /\ switches' = switches + 1
  /\ LET profile == Known(a)[name]  llm == Current(a) IN
     agent' = [agent EXCEPT ![a] =
       [cache |-> Known(a),
        llm |-> IF profile # None
                THEN [route |-> profile.route, key |-> KeyFor(profile, llm)]
                ELSE [route |-> name, key |-> llm.key]]]
  /\ UNCHANGED <<works, keys, rows, writer, ghosts, edits, crashes>>

Next ==
  \/ KeychainChanges \/ Crash
  \/ \E w \in Writers :
       \/ \E n \in Names : \/ \E r \in Routes, k \in Keys \cup {None} : Upsert(w, n, r, k)
                           \/ DeleteProfile(w, n)
       \/ SetSecret(w) \/ DeleteSecret(w) \/ WriteKeys(w) \/ Save(w) \/ Return(w)
  \/ \E a \in Agents, n \in Names : Switch(a, n)

Spec == Init /\ [][Next]_vars

-----------------------------------------------------------------------------
Resting(name) == settled[name] /\ \A w \in Writers : writer[w].name # name

(* An edit that met no other and no crash stays: its profile resolves to      *)
(* what was asked for, with no key but the one stored last, wherever keys    *)
(* are kept meanwhile; a key is missing only when its keychain is gone.      *)
ProfilesResolve ==
  \A n \in Names : Resting(n) =>
    IF wanted[n] = None THEN rows[n] = None /\ Secret(n) = None
    ELSE /\ Loaded(n) # None /\ Loaded(n).route = wanted[n].route
         /\ \/ Loaded(n).key = wanted[n].key
            \/ works = "no longer" /\ Loaded(n).key = None

(* A switch to a profile that the agent knows as it is now sends the          *)
(* profile's key to the profile's address.                                  *)
SwitchesAreComplete ==
  \A a \in Agents, n \in Names :
    Switch(a, n) /\ Resting(n) /\ wanted[n] # None /\ Known(a)[n] = Loaded(n) =>
      /\ agent'[a].llm.route = wanted[n].route
      /\ \/ agent'[a].llm.key = wanted[n].key
         \/ wanted[n].key = None \/ works = "no longer"
=============================================================================
