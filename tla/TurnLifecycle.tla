--------------------------- MODULE TurnLifecycle ---------------------------
(***************************************************************************)
(* What the durable turn ledger promises to everybody who looks at it from *)
(* outside, with workers, leases, fences, clocks, idempotency keys and     *)
(* retries left out.  A turn walks once along                              *)
(*                                                                         *)
(*     none -> queued -> running -> completed | failed | cancelled         *)
(*                 \-----------------------------------> cancelled         *)
(*                                                                         *)
(* is executed at most once, and every phase it enters is announced in the *)
(* feed of its session, exactly once, at the position after all earlier    *)
(* announcements, in the same step as the change itself.  Deleting a       *)
(* session removes its turns and its feed for good.                        *)
(***************************************************************************)
EXTENDS Naturals

CONSTANTS
  Sessions,   \* identifiers of private sessions
  Turns       \* identifiers of turns (a uuid4 each, never reused)

VARIABLES
  phase,      \* [Turns -> phase]; "none" before submission and after deletion
  spent,      \* turns that were submitted at some time
  feed        \* announcements: [session, seq, turn, state]

vars == <<phase, spent, feed>>

Terminal == {"completed", "failed", "cancelled"}
Phases   == {"none", "queued", "running"} \cup Terminal

(* The edges of the picture, deletion apart. *)
Edges ==
  {<<"none", "queued">>, <<"queued", "running">>, <<"queued", "cancelled">>}
    \cup ({"running"} \X Terminal)

Init ==
  /\ phase = [t \in Turns |-> "none"]
  /\ spent = {}
  /\ feed = {}

(***************************************************************************)
(* A set of turns moves, each along one edge; each move is announced once, *)
(* and the new announcements of a session continue its numbering without a *)
(* gap.  A turn leaves "none" only if it was never submitted before.       *)
(***************************************************************************)
Move(moved) ==
  /\ \A t \in Turns :
       IF t \in moved THEN <<phase[t], phase'[t]>> \in Edges
                      ELSE phase'[t] = phase[t]
  /\ phase' \in [Turns -> Phases]
  /\ \A t \in moved : phase[t] = "none" => t \notin spent
  /\ spent' = spent \cup moved
  /\ feed \subseteq feed'
  /\ \A t \in moved :
       \E a \in feed' \ feed :
         /\ a.turn = t
         /\ a.state = phase'[t]
         /\ \A b \in feed' : b.turn = t /\ b # a => b \in feed
  /\ \A a \in feed' \ feed :
       /\ a.turn \in moved
       /\ \A b \in feed : b.session = a.session => b.seq < a.seq
       /\ \A b \in feed' :
            b.session = a.session /\ b.seq = a.seq => a = b
       /\ a.seq = 1 \/ \E b \in feed' : b.session = a.session /\ b.seq + 1 = a.seq

(* A session disappears: its turns go, and nothing of its feed is left. *)
Drop(s, gone) ==
  /\ phase' = [t \in Turns |-> IF t \in gone THEN "none" ELSE phase[t]]
  /\ feed' = {a \in feed : a.session # s}
  /\ \A a \in feed : a.turn \in gone => a.session = s
  /\ UNCHANGED spent

Next ==
  \/ \E moved \in SUBSET Turns : Move(moved)
  \/ \E s \in Sessions, gone \in SUBSET Turns : Drop(s, gone)

Spec == Init /\ [][Next]_vars
=============================================================================
