------------------------- MODULE EventStream_proofs -------------------------
(***************************************************************************)
(* Proofs about the event journal: whatever the size of the ring and of a  *)
(* batch, however often clients reconnect and the process restarts, a      *)
(* follower receives the journal in order, each event once, and nothing is *)
(* lost without its being told.                                            *)
(***************************************************************************)
EXTENDS EventStream, NaturalsInduction, WellFoundedInduction, TLAPS

----------------------------------------------------------------------------
(* The strengthening, in parts. *)

(* Only SSE tells a client that the process restarted. *)
Honest(f) == transport[f] = "sse" \/ epoch = 1

(* The last event id a client has is of this journal or of an older one, and *)
(* what it got is of this one.                                              *)
IdIsKnown(f) ==
  LET c == client[f]
  IN /\ c.id.epoch <= epoch
     /\ c.id.epoch = 0 => c.id.seq = 0
     /\ c.id.epoch = epoch => c.id.seq <= Latest
     /\ c.got # <<>> => c.id.epoch = epoch
     /\ \A i \in DOMAIN c.got : c.got[i] <= c.id.seq
     /\ \A i, j \in DOMAIN c.got : i < j => c.got[i] < c.got[j]

(* Up to that id a client has what it was not told to go without. *)
HasUpToId(f) ==
  LET c == client[f]
  IN Honest(f) /\ c.id.epoch = epoch =>
       \A q \in (c.from + 1)..c.id.seq : log[q] # "other" => q \in Seen(f)

(* A connection that is being made has the cursor its client had. *)
JoinsAtId(f) ==
  follower[f].state = "joining" =>
    IF follower[f].fresh THEN client[f].id.epoch = 0 ELSE follower[f].raw = client[f].id

(* The entries of a batch follow each other, and the cursor but for a gap. *)
BatchFollows(f) ==
  LET v == follower[f]
  IN v.state = "live" =>
       /\ v.cursor <= Latest
       /\ \A i \in DOMAIN client[f].got : client[f].got[i] <= v.cursor
       /\ v.reset => v.batch = <<>> /\ ~v.gap
       /\ v.gap => v.batch # <<>>
       /\ \A i \in DOMAIN v.batch : v.batch[i] = v.batch[1] + (i - 1) /\ v.batch[i] <= Latest
       /\ v.batch # <<>> =>
            IF v.gap THEN v.batch[1] > v.cursor ELSE v.batch[1] = v.cursor + 1

FInv(f) ==
  /\ IdIsKnown(f) /\ HasUpToId(f) /\ JoinsAtId(f) /\ BatchFollows(f)
  /\ Honest(f) => LostNothing(f)

EInv == TypeOK /\ \A f \in Followers : FInv(f)

----------------------------------------------------------------------------
(* Facts about numbers and sequences. *)

LEMMA LastOfInterval ==
  ASSUME NEW m \in Nat, NEW S \in SUBSET (0..m), S # {}
  PROVE  \E q \in S : \A p \in S : p <= q
<1> DEFINE T == {m - q : q \in S}
<1>1. T \subseteq Nat /\ T # {}
  <2>1. \A q \in S : m - q \in Nat
    OBVIOUS
  <2>2. PICK q \in S : TRUE
    OBVIOUS
  <2>3. m - q \in T
    BY <2>2
  <2>. QED  BY <2>1, <2>3
<1> HIDE DEF T
<1>2. \E x \in T : \A y \in T : ~ (<<y, x>> \in OpToRel(<, Nat))
  BY <1>1, WFMin, NatLessThanWellFounded, Zenon
<1>3. \A x, y \in Nat : x < y => <<x, y>> \in OpToRel(<, Nat)
  BY Zenon DEF OpToRel
<1>4. PICK x \in T : \A y \in T : ~(y < x)
  BY <1>1, <1>2, <1>3, Zenon
<1>5. PICK q \in S : x = m - q
  BY <1>4 DEF T
<1>6. ASSUME NEW p \in S PROVE p <= q
  <2>1. m - p \in T /\ ~(m - p < m - q)
    BY <1>4, <1>5 DEF T
  <2>2. p \in Nat /\ q \in Nat
    OBVIOUS
  <2>. QED  BY <2>1, <2>2
<1>. QED  BY <1>6

LEMMA TailOfSeq ==
  ASSUME NEW S, NEW s \in Seq(S), s # <<>>
  PROVE  /\ Tail(s) \in Seq(S) /\ Len(Tail(s)) = Len(s) - 1
         /\ Len(s) \in Nat /\ Len(s) >= 1 /\ DOMAIN s = 1..Len(s)
         /\ DOMAIN Tail(s) = 1..(Len(s) - 1)
         /\ \A i \in DOMAIN Tail(s) : Tail(s)[i] = s[i + 1]
         /\ Head(s) = s[1]
OBVIOUS

LEMMA AppendToSeq ==
  ASSUME NEW S, NEW s \in Seq(S), NEW x \in S
  PROVE  /\ Append(s, x) \in Seq(S) /\ Len(Append(s, x)) = Len(s) + 1
         /\ Len(s) \in Nat
         /\ DOMAIN s = 1..Len(s) /\ DOMAIN Append(s, x) = 1..(Len(s) + 1)
         /\ \A i \in 1..Len(s) : Append(s, x)[i] = s[i]
         /\ Append(s, x)[Len(s) + 1] = x
OBVIOUS
----------------------------------------------------------------------------
(* Types *)

FollowerState ==
  [state : {"off", "joining", "live"}, raw : Ids, fresh : BOOLEAN,
   busy : BOOLEAN, cursor : 0..MaxSeq, reset : BOOLEAN, gap : BOOLEAN,
   batch : Seq(1..MaxSeq)]
ClientState == [id : Ids, from : 0..MaxSeq, got : Seq(1..MaxSeq)]

LEMMA StreamTypes ==
  ASSUME TypeOK, NEW f \in Followers
  PROVE  /\ follower \in [Followers -> FollowerState] /\ follower[f] \in FollowerState
         /\ client \in [Followers -> ClientState] /\ client[f] \in ClientState
         /\ client[f].id.epoch \in Nat /\ client[f].id.seq \in Nat /\ client[f].from \in Nat
         /\ client[f].id \in Ids /\ client[f].got \in Seq(1..MaxSeq)
         /\ DOMAIN client[f].got = 1..Len(client[f].got) /\ Len(client[f].got) \in Nat
         /\ \A i \in DOMAIN client[f].got : client[f].got[i] \in Nat
         /\ follower[f].cursor \in Nat /\ follower[f].batch \in Seq(1..MaxSeq)
         /\ log \in Seq(EventKinds) /\ Latest \in Nat /\ Latest <= MaxSeq
         /\ DOMAIN log = 1..Latest /\ epoch \in Nat /\ epoch >= 1
         /\ MaxSeq \in Nat /\ Capacity \in Nat /\ Limit \in Nat
<1>1. follower \in [Followers -> FollowerState] /\ client \in [Followers -> ClientState]
  BY DEF TypeOK, FollowerState, ClientState
<1>2. MaxSeq \in Nat /\ Capacity \in Nat /\ Limit \in Nat /\ MaxEpoch \in Nat
  BY StreamAssumption
<1>3. /\ client[f].id \in Ids /\ client[f].from \in 0..MaxSeq /\ client[f].got \in Seq(1..MaxSeq)
      /\ follower[f].cursor \in 0..MaxSeq /\ follower[f].batch \in Seq(1..MaxSeq)
  BY <1>1 DEF ClientState, FollowerState
<1>4. /\ client[f].id.epoch \in Nat /\ client[f].id.seq \in Nat
  BY <1>2, <1>3 DEF Ids
<1>5. /\ DOMAIN client[f].got = 1..Len(client[f].got) /\ Len(client[f].got) \in Nat
      /\ \A i \in DOMAIN client[f].got : client[f].got[i] \in Nat
  BY <1>2, <1>3
<1>6. /\ log \in Seq(EventKinds) /\ Len(log) \in Nat /\ Len(log) <= MaxSeq
      /\ DOMAIN log = 1..Len(log) /\ epoch \in Nat /\ epoch >= 1
  BY <1>2 DEF TypeOK
<1>. QED  BY <1>1, <1>2, <1>3, <1>4, <1>5, <1>6 DEF Latest

LEMMA InitEInv == ASSUME Init PROVE EInv
<1>1. /\ [epoch |-> 0, seq |-> 0] \in Ids /\ <<>> \in Seq(1..MaxSeq) /\ 0 \in 0..MaxSeq
      /\ epoch \in 1..MaxEpoch /\ log \in Seq(EventKinds) /\ Len(log) = 0
  BY StreamAssumption DEF Ids, Init
<1>2. NewClient \in ClientState /\ Off \in FollowerState
  BY <1>1 DEF NewClient, Off, ClientState, FollowerState
<1>3. TypeOK
  BY <1>1, <1>2, StreamAssumption DEF TypeOK, Init, FollowerState, ClientState
<1>4. ASSUME NEW f \in Followers PROVE FInv(f)
  <2>1. follower[f] = Off /\ client[f] = NewClient /\ epoch = 1 /\ Latest = 0
    BY <1>1 DEF Init, Latest
  <2>2. Off.state = "off" /\ NewClient.id.epoch = 0 /\ NewClient.id.seq = 0 /\ NewClient.got = <<>>
    BY DEF Off, NewClient
  <2>3. DOMAIN <<>> = {}
    OBVIOUS
  <2>. QED  BY <2>1, <2>2, <2>3 DEF FInv, IdIsKnown, HasUpToId, JoinsAtId, BatchFollows, LostNothing
<1>. QED  BY <1>3, <1>4 DEF EInv

----------------------------------------------------------------------------
(* The process: events, turns and restarts. *)

LEMMA JournalEInv ==
  ASSUME EInv, AdmitTurn \/ PutTurnEvent \/ BecomeIdle
  PROVE  EInv'
<1>1. /\ UNCHANGED <<epoch, follower, client, transport>>
      /\ turn' \in {"idle", "admitted", "running", "finished"}
      /\ log' = log \/ \E kind \in EventKinds : Latest < MaxSeq /\ log' = Append(log, kind)
  BY DEF EInv, TypeOK, AdmitTurn, PutTurnEvent, BecomeIdle, Put, EventKinds
<1>2. /\ log \in Seq(EventKinds) /\ Latest \in Nat /\ Latest <= MaxSeq /\ MaxSeq \in Nat
      /\ DOMAIN log = 1..Latest
  BY StreamAssumption DEF EInv, TypeOK, Latest
<1>3. /\ log' \in Seq(EventKinds) /\ Latest' \in Nat /\ Latest <= Latest' /\ Latest' <= MaxSeq
      /\ \A q \in 1..Latest : log'[q] = log[q]
  <2>1. CASE log' = log
    BY <1>2, <2>1 DEF Latest
  <2>2. CASE \E kind \in EventKinds : Latest < MaxSeq /\ log' = Append(log, kind)
    <3>1. PICK kind \in EventKinds : Latest < MaxSeq /\ log' = Append(log, kind)
      BY <2>2
    <3>2. /\ log' \in Seq(EventKinds) /\ Len(log') = Len(log) + 1
          /\ \A q \in 1..Len(log) : log'[q] = log[q]
      BY <1>2, <3>1, AppendToSeq
    <3>. QED  BY <1>2, <3>1, <3>2 DEF Latest
  <2>. QED  BY <1>1, <2>1, <2>2
<1>4. TypeOK'
  BY <1>1, <1>3 DEF EInv, TypeOK, Latest
<1>5. ASSUME NEW f \in Followers PROVE FInv(f)'
  <2>1. FInv(f) /\ client[f].id.seq \in Nat /\ client[f].from \in Nat /\ epoch \in Nat
        /\ follower[f].cursor \in Nat /\ client[f].id.epoch \in Nat
    BY StreamTypes DEF EInv
  <2>2. IdIsKnown(f)'
    BY <1>1, <1>2, <1>3, <2>1 DEF FInv, IdIsKnown
  <2>3. HasUpToId(f)'
    BY <1>1, <1>2, <1>3, <2>1 DEF FInv, IdIsKnown, HasUpToId, Seen, Honest
  <2>4. JoinsAtId(f)'
    BY <1>1, <2>1 DEF FInv, JoinsAtId
  <2>5. BatchFollows(f)'
    <3>1. \A i \in DOMAIN follower[f].batch : follower[f].batch[i] \in Nat
      BY <1>2, StreamTypes DEF EInv
    <3>. QED  BY <1>1, <1>2, <1>3, <2>1, <3>1 DEF FInv, BatchFollows
  <2>6. Honest(f)' => LostNothing(f)'
    BY <1>1, <1>2, <1>3, <2>1 DEF FInv, BatchFollows, LostNothing, Seen, Honest
  <2>. QED  BY <2>2, <2>3, <2>4, <2>5, <2>6 DEF FInv
<1>. QED  BY <1>4, <1>5 DEF EInv

LEMMA RestartEInv ==
  ASSUME EInv, Restart
  PROVE  EInv'
<1>0. epoch' = epoch + 1 /\ epoch < MaxEpoch /\ log' = <<>> /\ turn' = "idle" /\ transport' = transport
  BY DEF Restart
<1>1. /\ epoch' = epoch + 1 /\ epoch < MaxEpoch /\ log' = <<>> /\ turn' = "idle"
      /\ transport' = transport /\ follower' = [f \in Followers |-> Off]
      /\ client' = [f \in Followers |-> [client[f] EXCEPT !.from = 0, !.got = <<>>]]
  BY DEF Restart
<1>2. /\ Off \in FollowerState /\ epoch' \in 1..MaxEpoch /\ log' \in Seq(EventKinds)
      /\ Len(log') = 0 /\ <<>> \in Seq(1..MaxSeq) /\ 0 \in 0..MaxSeq /\ MaxSeq \in Nat
      /\ epoch \in Nat
  <2>1. MaxEpoch \in Nat /\ MaxSeq \in Nat /\ epoch \in 1..MaxEpoch
    BY StreamAssumption DEF EInv, TypeOK
  <2>2. epoch \in Nat /\ epoch' \in 1..MaxEpoch
    BY <1>0, <2>1
  <2>3. [epoch |-> 0, seq |-> 0] \in Ids /\ <<>> \in Seq(1..MaxSeq) /\ 0 \in 0..MaxSeq
    BY <2>1 DEF Ids
  <2>4. Off \in FollowerState
    BY <2>3 DEF Off, FollowerState
  <2>5. log' \in Seq(EventKinds) /\ Len(log') = 0
    BY <1>0
  <2>. QED  BY <2>1, <2>2, <2>3, <2>4, <2>5
<1>3. ASSUME NEW f \in Followers
      PROVE  /\ client'[f] \in ClientState /\ client'[f].id = client[f].id
             /\ client'[f].got = <<>> /\ follower'[f] = Off
             /\ client[f].id.epoch \in Nat /\ client[f].id.epoch <= epoch
             /\ client[f].id.epoch = 0 => client[f].id.seq = 0
  <2>1. client[f] \in ClientState
    BY StreamTypes DEF EInv
  <2>2. client'[f] = [client[f] EXCEPT !.from = 0, !.got = <<>>]
    BY <1>1
  <2>3. client'[f] \in ClientState /\ client'[f].id = client[f].id /\ client'[f].got = <<>>
    BY <1>2, <2>1, <2>2 DEF ClientState
  <2>4. FInv(f) /\ client[f].id.epoch \in Nat
    BY StreamTypes DEF EInv
  <2>. QED  BY <1>1, <2>3, <2>4 DEF FInv, IdIsKnown
<1>4. TypeOK'
  <2>1. follower' \in [Followers -> FollowerState] /\ client' \in [Followers -> ClientState]
    BY <1>1, <1>2, <1>3
  <2>2. /\ epoch' \in 1..MaxEpoch /\ log' \in Seq(EventKinds) /\ Len(log') <= MaxSeq
        /\ turn' \in {"idle", "admitted", "running", "finished"}
        /\ transport' \in [Followers -> Transports]
    BY <1>0, <1>2 DEF EInv, TypeOK
  <2>. QED  BY <2>1, <2>2 DEF TypeOK, FollowerState, ClientState
<1>5. ASSUME NEW f \in Followers PROVE FInv(f)'
  <2>3. client[f].id.epoch \in Nat /\ client[f].id.epoch <= epoch /\ client'[f].id = client[f].id
    BY <1>3
  <2>1. client'[f].id.epoch # epoch' /\ client'[f].id.epoch <= epoch'
    BY <1>0, <1>2, <2>3
  <2>2. follower'[f].state = "off" /\ DOMAIN <<>> = {}
    BY <1>3 DEF Off
  <2>. QED
    BY <1>3, <2>1, <2>2 DEF FInv, IdIsKnown, HasUpToId, JoinsAtId, BatchFollows, LostNothing
<1>. QED  BY <1>4, <1>5 DEF EInv

----------------------------------------------------------------------------
(* One follower: what a step changes of it and of its client decides.       *)

LEMMA OthersStand ==
  ASSUME EInv, NEW f \in Followers,
         NEW v \in FollowerState, NEW c \in ClientState,
         UNCHANGED <<epoch, log, turn, transport>>,
         follower' = [follower EXCEPT ![f] = v], client' = [client EXCEPT ![f] = c],
         follower'[f] = v /\ client'[f] = c => FInv(f)'
  PROVE  EInv'
<1>1. /\ follower \in [Followers -> FollowerState] /\ client \in [Followers -> ClientState]
  BY StreamTypes DEF EInv
<1>2. /\ follower' \in [Followers -> FollowerState] /\ client' \in [Followers -> ClientState]
      /\ follower'[f] = v /\ client'[f] = c
      /\ \A g \in Followers \ {f} : follower'[g] = follower[g] /\ client'[g] = client[g]
  BY <1>1
<1>3. TypeOK'
  BY <1>2 DEF EInv, TypeOK, FollowerState, ClientState
<1>4. ASSUME NEW g \in Followers \ {f} PROVE FInv(g)'
  <2>1. follower'[g] = follower[g] /\ client'[g] = client[g] /\ FInv(g)
    BY <1>2 DEF EInv
  <2>. QED
    BY <2>1 DEF FInv, IdIsKnown, HasUpToId, JoinsAtId, BatchFollows, LostNothing, Honest, Seen,
       Latest
<1>. QED  BY <1>2, <1>3, <1>4 DEF EInv

LiveAt(cursor, reset) ==
  [Off EXCEPT !.state = "live", !.cursor = cursor, !.reset = reset]

LEMMA LiveState ==
  ASSUME NEW cursor \in 0..MaxSeq, NEW reset \in BOOLEAN
  PROVE  LET v == LiveAt(cursor, reset)
         IN /\ v \in FollowerState /\ v.state = "live" /\ v.cursor = cursor
            /\ v.reset = reset /\ v.gap = FALSE /\ v.batch = <<>>
<1>1. [epoch |-> 0, seq |-> 0] \in Ids /\ <<>> \in Seq(1..MaxSeq)
  BY StreamAssumption DEF Ids
<1>. QED  BY <1>1 DEF Off, FollowerState, LiveAt

(* A turn is replayed from a place in the journal. *)
LEMMA StartIsKnown ==
  ASSUME TypeOK, NEW busy
  PROVE  Start(busy) \in 0..Latest /\ Start(busy) \in 0..MaxSeq
<1>1. Latest \in Nat /\ Latest <= MaxSeq /\ MaxSeq \in Nat /\ Capacity \in Nat
  BY StreamAssumption DEF TypeOK, Latest
<1>2. Oldest \in Nat /\ Oldest >= 1
  BY <1>1 DEF Oldest
<1> DEFINE starts == {q \in Oldest..Latest : log[q] = "run.started"}
<1>3. ActiveTurnCursor \in 0..Latest
  <2>1. CASE starts = {}
    BY <1>1, <2>1 DEF ActiveTurnCursor
  <2>2. CASE starts # {}
    <3>1. starts \in SUBSET (0..Latest)
      BY <1>1, <1>2
    <3>2. \E q \in starts : \A p \in starts : p <= q
      BY <1>1, <2>2, <3>1, LastOfInterval
    <3> DEFINE last == CHOOSE q \in starts : \A p \in starts : p <= q
    <3>3. last \in starts
      BY <3>2
    <3>4. ActiveTurnCursor = last - 1
      BY <2>2 DEF ActiveTurnCursor
    <3>5. last \in Oldest..Latest
      BY <3>3
    <3>. HIDE DEF last
    <3>. QED  BY <1>1, <1>2, <3>4, <3>5
  <2>. QED  BY <2>1, <2>2
<1>. QED  BY <1>1, <1>3 DEF Start

(* A batch is a run of the journal; only past a gap does it not go on where  *)
(* the cursor is.                                                           *)
LEMMA BatchIsARun ==
  ASSUME TypeOK, NEW after \in 0..Latest, NEW b,
         b = EntriesAfter(after), b # <<>>
  PROVE  /\ b \in Seq(1..MaxSeq)
         /\ \A i \in DOMAIN b : b[i] = b[1] + (i - 1) /\ b[i] <= Latest
         /\ IF GapAfter(after) THEN b[1] > after ELSE b[1] = after + 1
<1>1. Latest \in Nat /\ Latest <= MaxSeq /\ MaxSeq \in Nat /\ Capacity \in Nat /\ Limit \in Nat
  BY StreamAssumption DEF TypeOK, Latest
<1>2. Oldest \in Nat /\ Oldest >= 1
  BY <1>1 DEF Oldest
<1> DEFINE first == IF after + 1 < Oldest THEN Oldest ELSE after + 1
           last  == IF first + Limit - 1 < Latest THEN first + Limit - 1 ELSE Latest
           size  == IF last < first THEN 0 ELSE last - first + 1
<1>3. first \in Nat /\ first >= 1 /\ first > after /\ (~GapAfter(after) => first = after + 1)
  BY <1>1, <1>2 DEF GapAfter
<1>4. b = [i \in 1..size |-> first + i - 1]
  BY DEF EntriesAfter
<1>5. last \in Int /\ last <= Latest
  BY <1>1, <1>3
<1>. HIDE DEF first, last
<1>6. size \in Nat /\ (size > 0 => first + size - 1 = last)
  BY <1>3, <1>5
<1>. HIDE DEF size
<1>7. \A i \in 1..size : first + i - 1 \in 1..MaxSeq /\ first + i - 1 <= Latest
  BY <1>1, <1>3, <1>5, <1>6
<1>8. b \in Seq(1..MaxSeq) /\ DOMAIN b = 1..size
  BY <1>4, <1>6, <1>7
<1>9. size # 0
  <2>1. ASSUME size = 0 PROVE FALSE
    <3>1. b \in Seq(1..MaxSeq) /\ Len(b) = 0
      BY <1>6, <1>8, <2>1
    <3>. QED  BY <3>1
  <2>. QED  BY <2>1
<1>10. b[1] = first
  BY <1>3, <1>4, <1>6, <1>9
<1>11. \A i \in DOMAIN b : b[i] = first + (i - 1) /\ b[i] <= Latest
  BY <1>3, <1>4, <1>6, <1>7, <1>8
<1>. QED  BY <1>3, <1>8, <1>10, <1>11

(* A connection begins or drops: its client keeps what it has. *)
LEMMA ConnectEInv ==
  ASSUME EInv, NEW f \in Followers, Connect(f) \/ Disconnect(f)
  PROVE  EInv'
<1>1. /\ client[f] \in ClientState /\ client \in [Followers -> ClientState]
      /\ client[f].id \in Ids /\ FInv(f) /\ MaxSeq \in Nat /\ MaxEpoch \in Nat
  BY StreamTypes, StreamAssumption DEF EInv
<1>2. /\ UNCHANGED <<epoch, log, turn, transport, client>>
      /\ client' = [client EXCEPT ![f] = client[f]]
  BY <1>1 DEF Connect, Disconnect
<1>3. Off \in FollowerState /\ Off.state = "off"
  <2>1. [epoch |-> 0, seq |-> 0] \in Ids /\ <<>> \in Seq(1..MaxSeq) /\ 0 \in 0..MaxSeq
    BY <1>1 DEF Ids
  <2>. QED  BY <2>1 DEF Off, FollowerState
<1>4. CASE Connect(f)
  <2>1. PICK fresh \in BOOLEAN :
          /\ client[f].id.epoch # 0 => ~fresh
          /\ follower' = [follower EXCEPT ![f] =
               [Off EXCEPT !.state = "joining", !.raw = client[f].id,
                           !.fresh = fresh, !.busy = Busy]]
    BY <1>4 DEF Connect
  <2> DEFINE v == [Off EXCEPT !.state = "joining", !.raw = client[f].id,
                              !.fresh = fresh, !.busy = Busy]
  <2>2. /\ v \in FollowerState /\ v.state = "joining" /\ v.raw = client[f].id
        /\ v.fresh = fresh
    BY <1>1, <1>3 DEF FollowerState, Busy, Off
  <2>3. follower' = [follower EXCEPT ![f] = v]
    BY <2>1
  <2>4. client[f].id.epoch # 0 => ~fresh
    BY <2>1
  <2>. HIDE DEF v
  <2>5. ASSUME follower'[f] = v PROVE FInv(f)'
    BY <1>1, <1>2, <2>2, <2>4, <2>5
       DEF FInv, IdIsKnown, HasUpToId, JoinsAtId, BatchFollows, LostNothing, Honest, Seen, Latest
  <2>. QED  BY <1>1, <1>2, <2>2, <2>3, <2>5, OthersStand
<1>5. CASE Disconnect(f)
  <2>1. follower' = [follower EXCEPT ![f] = Off]
    BY <1>5 DEF Disconnect
  <2>2. ASSUME follower'[f] = Off PROVE FInv(f)'
    BY <1>1, <1>2, <1>3, <2>2
       DEF FInv, IdIsKnown, HasUpToId, JoinsAtId, BatchFollows, LostNothing, Honest, Seen, Latest
  <2>. QED  BY <1>1, <1>2, <1>3, <2>1, <2>2, OthersStand
<1>. QED  BY <1>4, <1>5

(* Without a cursor a client has nothing of this journal yet. *)
LEMMA JoinFreshEInv ==
  ASSUME EInv, NEW f \in Followers, JoinFresh(f)
  PROVE  EInv'
<1> DEFINE cursor == Start(follower[f].busy)
           v == LiveAt(cursor, FALSE)
           c == [client[f] EXCEPT !.from = cursor]
<1>1. /\ client[f] \in ClientState /\ FInv(f) /\ epoch \in Nat /\ epoch >= 1
      /\ client[f].got \in Seq(1..MaxSeq) /\ Latest \in Nat
  BY StreamTypes DEF EInv
<1>2. /\ UNCHANGED <<epoch, log, turn, transport>>
      /\ follower' = [follower EXCEPT ![f] = v] /\ client' = [client EXCEPT ![f] = c]
      /\ follower[f].state = "joining" /\ follower[f].fresh
  BY DEF JoinFresh, Live, LiveAt
<1>3. cursor \in 0..Latest /\ cursor \in 0..MaxSeq
  BY StartIsKnown DEF EInv
<1>4. /\ v \in FollowerState /\ v.state = "live" /\ v.cursor = cursor /\ v.reset = FALSE
      /\ v.gap = FALSE /\ v.batch = <<>>
  BY <1>3, LiveState
<1>5. /\ c \in ClientState /\ c.id = client[f].id /\ c.got = client[f].got /\ c.from = cursor
  BY <1>1, <1>3 DEF ClientState
<1>6. client[f].id.epoch = 0 /\ client[f].got = <<>> /\ client[f].id.seq = 0
  BY <1>1, <1>2 DEF FInv, JoinsAtId, IdIsKnown
<1>. HIDE DEF v, c, cursor
<1>7. ASSUME follower'[f] = v, client'[f] = c PROVE FInv(f)'
  <2>1. DOMAIN <<>> = {} /\ epoch' = epoch /\ Latest' = Latest
    BY <1>2 DEF Latest
  <2>2. /\ client'[f].id.epoch = 0 /\ client'[f].id.seq = 0 /\ client'[f].got = <<>>
        /\ client'[f].from = cursor
        /\ follower'[f].state = "live" /\ follower'[f].cursor = cursor
        /\ follower'[f].batch = <<>> /\ ~follower'[f].gap /\ ~follower'[f].reset
    BY <1>4, <1>5, <1>6, <1>7
  <2>3. IdIsKnown(f)' /\ HasUpToId(f)' /\ JoinsAtId(f)'
    BY <1>1, <2>1, <2>2 DEF IdIsKnown, HasUpToId, JoinsAtId
  <2>4. BatchFollows(f)'
    BY <1>3, <2>1, <2>2 DEF BatchFollows
  <2>5. LostNothing(f)'
    BY <1>1, <1>3, <2>2 DEF LostNothing
  <2>. QED  BY <2>3, <2>4, <2>5 DEF FInv
<1>. QED  BY <1>2, <1>4, <1>5, <1>7, OthersStand

(* A cursor of another journal, or beyond the end of this one, is told so;   *)
(* up to any other the client has everything.                               *)
LEMMA JoinAtEInv ==
  ASSUME EInv, NEW f \in Followers, JoinAt(f)
  PROVE  EInv'
<1>1. /\ client[f] \in ClientState /\ client \in [Followers -> ClientState]
      /\ FInv(f) /\ epoch \in Nat /\ epoch >= 1 /\ client[f].from \in Nat
      /\ client[f].got \in Seq(1..MaxSeq) /\ Latest \in Nat /\ Latest <= MaxSeq /\ MaxSeq \in Nat
      /\ client[f].id.epoch \in Nat /\ client[f].id.seq \in Nat
      /\ \A i \in DOMAIN client[f].got : client[f].got[i] \in Nat
  BY StreamTypes DEF EInv
<1>2. /\ UNCHANGED <<epoch, log, turn, transport, client>>
      /\ client' = [client EXCEPT ![f] = client[f]]
      /\ follower[f].state = "joining" /\ ~follower[f].fresh
  BY <1>1 DEF JoinAt
<1>3. follower[f].raw = client[f].id
  BY <1>1, <1>2 DEF FInv, JoinsAtId
<1>4. /\ client[f].id.epoch <= epoch
      /\ client[f].id.epoch = epoch => client[f].id.seq <= Latest
  BY <1>1 DEF FInv, IdIsKnown
<1>5. ASSUME NEW cursor \in 0..Latest, NEW reset \in BOOLEAN, Live(f, cursor, reset),
             client[f].got = <<>> \/ (client[f].id.epoch = epoch /\ cursor = client[f].id.seq),
             ~reset => cursor = client[f].id.seq /\ ~Foreign(f)
      PROVE  EInv'
  <2> DEFINE v == LiveAt(cursor, reset)
  <2>1. follower' = [follower EXCEPT ![f] = v]
    BY <1>5 DEF Live, LiveAt
  <2>2. /\ v \in FollowerState /\ v.state = "live" /\ v.cursor = cursor /\ v.reset = reset
        /\ v.gap = FALSE /\ v.batch = <<>>
    <3>1. cursor \in 0..MaxSeq
      BY <1>1
    <3>. QED  BY <3>1, LiveState
  <2>. HIDE DEF v
  <2>3. ASSUME follower'[f] = v PROVE FInv(f)'
    <3>1. DOMAIN <<>> = {} /\ epoch' = epoch /\ Latest' = Latest /\ client' = client
      BY <1>2 DEF Latest
    <3>2. /\ follower'[f].state = "live" /\ follower'[f].cursor = cursor
          /\ follower'[f].batch = <<>> /\ ~follower'[f].gap /\ follower'[f].reset = reset
      BY <2>2, <2>3
    <3>3. IdIsKnown(f)' /\ HasUpToId(f)' /\ JoinsAtId(f)'
      BY <1>1, <1>2, <3>1, <3>2 DEF FInv, IdIsKnown, HasUpToId, JoinsAtId, Honest, Seen
    <3>4. \A i \in DOMAIN client[f].got : client[f].got[i] <= cursor
      BY <1>1, <1>5, <3>1 DEF FInv, IdIsKnown
    <3>5. BatchFollows(f)'
      BY <3>1, <3>2, <3>4 DEF BatchFollows
    <3>6. ASSUME Honest(f), ~reset
          PROVE  \A q \in (client[f].from + 1)..cursor :
                   q <= Latest /\ (log[q] # "other" => q \in Seen(f))
      <4>1. client[f].id.epoch = epoch \/ client[f].id.epoch = 0
        BY <1>1, <1>3, <1>4, <1>5, <3>6 DEF Foreign, Honest
      <4>2. CASE client[f].id.epoch = 0
        <5>1. cursor = 0
          BY <1>1, <1>5, <3>6, <4>2 DEF FInv, IdIsKnown
        <5>. QED  BY <1>1, <5>1
      <4>3. CASE client[f].id.epoch = epoch
        BY <1>1, <1>5, <3>6, <4>3 DEF FInv, HasUpToId
      <4>. QED  BY <4>1, <4>2, <4>3
    <3>7. Honest(f)' => LostNothing(f)'
      <4>1. Honest(f)' <=> Honest(f)
        BY <1>2 DEF Honest
      <4>2. Seen(f)' = Seen(f) /\ log' = log
        BY <1>2 DEF Seen
      <4>. QED  BY <3>1, <3>2, <3>6, <4>1, <4>2 DEF LostNothing
    <3>. QED  BY <3>3, <3>5, <3>7 DEF FInv
  <2>. QED  BY <1>1, <1>2, <2>1, <2>2, <2>3, OthersStand
<1>6. client[f].got # <<>> => client[f].id.epoch = epoch
  BY <1>1 DEF FInv, IdIsKnown
<1>7. CASE Foreign(f)
  <2>1. client[f].got = <<>>
    BY <1>3, <1>6, <1>7 DEF Foreign
  <2>2. Live(f, Start(follower[f].busy), TRUE)
    BY <1>7 DEF JoinAt
  <2>3. Start(follower[f].busy) \in 0..Latest
    BY StartIsKnown DEF EInv
  <2>. QED  BY <1>5, <2>1, <2>2, <2>3
<1>8. CASE ~Foreign(f) /\ client[f].id.seq > Latest
  <2>1. client[f].got = <<>>
    BY <1>1, <1>4, <1>6, <1>8
  <2>2. Live(f, Latest, TRUE)
    BY <1>3, <1>8 DEF JoinAt
  <2>3. Latest \in 0..Latest
    BY <1>1
  <2>. QED  BY <1>5, <2>1, <2>2, <2>3
<1>9. CASE ~Foreign(f) /\ ~(client[f].id.seq > Latest)
  <2>1. Live(f, client[f].id.seq, FALSE)
    BY <1>3, <1>9 DEF JoinAt
  <2>2. client[f].id.seq \in 0..Latest
    BY <1>1, <1>9
  <2>. QED  BY <1>5, <1>6, <1>9, <2>1, <2>2
<1>. QED  BY <1>7, <1>8, <1>9

(* stream.reset: what comes next is declared to start behind the cursor. *)
LEMMA SendResetEInv ==
  ASSUME EInv, NEW f \in Followers, SendReset(f)
  PROVE  EInv'
<1> DEFINE cursor == follower[f].cursor
           v == [follower[f] EXCEPT !.reset = FALSE]
           from == IF cursor > client[f].from THEN cursor ELSE client[f].from
           c == [client[f] EXCEPT !.id = [epoch |-> epoch, seq |-> cursor], !.from = from]
<1>1. /\ client[f] \in ClientState /\ client \in [Followers -> ClientState]
      /\ follower[f] \in FollowerState /\ follower \in [Followers -> FollowerState]
      /\ FInv(f) /\ epoch \in Nat /\ epoch >= 1 /\ client[f].from \in Nat /\ MaxSeq \in Nat
      /\ cursor \in Nat /\ Latest \in Nat /\ client[f].got \in Seq(1..MaxSeq)
      /\ \A i \in DOMAIN client[f].got : client[f].got[i] \in Nat
  BY StreamTypes DEF EInv
<1>2. UNCHANGED <<epoch, log, turn, transport>>
  BY DEF SendReset
<1>3. follower' = [follower EXCEPT ![f] = v] /\ client' = [client EXCEPT ![f] = c]
  BY <1>1 DEF SendReset, Reset, Received, ClientState
<1>4. /\ follower[f].state = "live" /\ follower[f].reset
      /\ cursor <= Latest /\ follower[f].batch = <<>> /\ ~follower[f].gap
      /\ \A i \in DOMAIN client[f].got : client[f].got[i] <= cursor
  BY <1>1 DEF SendReset, FInv, BatchFollows
<1>5. [epoch |-> epoch, seq |-> cursor] \in Ids /\ from \in 0..MaxSeq
  BY <1>1 DEF EInv, TypeOK, ClientState, FollowerState, Ids
<1>6. /\ c \in ClientState /\ c.id.epoch = epoch /\ c.id.seq = cursor /\ c.from = from
      /\ c.got = client[f].got
  BY <1>1, <1>5 DEF ClientState
<1>7. /\ v \in FollowerState /\ v.state = "live" /\ v.cursor = cursor /\ ~v.reset
      /\ ~v.gap /\ v.batch = <<>>
  BY <1>1, <1>4 DEF FollowerState
<1>8. from \in Nat /\ from >= cursor
  BY <1>1
<1>. HIDE DEF v, c, from, cursor
<1>9. ASSUME follower'[f] = v, client'[f] = c PROVE FInv(f)'
  <2>1. DOMAIN <<>> = {} /\ epoch' = epoch /\ Latest' = Latest
    BY <1>2 DEF Latest
  <2>2. IdIsKnown(f)'
    BY <1>1, <1>4, <1>6, <1>9, <2>1 DEF FInv, IdIsKnown
  <2>3. \A q \in (from + 1)..cursor : FALSE
    BY <1>1, <1>8
  <2>4. HasUpToId(f)' /\ LostNothing(f)'
    BY <1>6, <1>7, <1>9, <2>3 DEF HasUpToId, LostNothing
  <2>5. JoinsAtId(f)' /\ BatchFollows(f)'
    BY <1>4, <1>6, <1>7, <1>9, <2>1 DEF JoinsAtId, BatchFollows
  <2>. QED  BY <2>2, <2>4, <2>5 DEF FInv
<1>. QED  BY <1>2, <1>3, <1>6, <1>7, <1>9, OthersStand

LEMMA ReadBatchEInv ==
  ASSUME EInv, NEW f \in Followers, ReadBatch(f)
  PROVE  EInv'
<1> DEFINE cursor == follower[f].cursor
           b == EntriesAfter(cursor)
           v == [follower[f] EXCEPT !.gap = GapAfter(cursor), !.batch = b]
<1>1. /\ client[f] \in ClientState /\ client \in [Followers -> ClientState]
      /\ follower[f] \in FollowerState /\ follower \in [Followers -> FollowerState]
      /\ FInv(f) /\ MaxSeq \in Nat /\ cursor \in Nat /\ Latest \in Nat
  BY StreamTypes DEF EInv
<1>2. /\ UNCHANGED <<epoch, log, turn, transport, client>>
      /\ client' = [client EXCEPT ![f] = client[f]]
      /\ follower' = [follower EXCEPT ![f] = v]
  BY <1>1 DEF ReadBatch
<1>3. /\ follower[f].state = "live" /\ ~follower[f].reset /\ b # <<>>
      /\ cursor <= Latest /\ cursor \in 0..Latest
      /\ \A i \in DOMAIN client[f].got : client[f].got[i] <= cursor
  BY <1>1 DEF ReadBatch, FInv, BatchFollows
<1>4. /\ b \in Seq(1..MaxSeq)
      /\ \A i \in DOMAIN b : b[i] = b[1] + (i - 1) /\ b[i] <= Latest
      /\ IF GapAfter(cursor) THEN b[1] > cursor ELSE b[1] = cursor + 1
  BY <1>3, BatchIsARun DEF EInv
<1>5. GapAfter(cursor) \in BOOLEAN
  BY DEF GapAfter
<1>. HIDE DEF b, cursor
<1>6. /\ v \in FollowerState /\ v.state = "live" /\ v.cursor = follower[f].cursor /\ ~v.reset
      /\ v.gap = GapAfter(cursor) /\ v.batch = b
  BY <1>1, <1>3, <1>4, <1>5 DEF FollowerState
<1>7. follower[f].cursor = cursor
  BY DEF cursor
<1>. HIDE DEF v
<1>8. ASSUME follower'[f] = v, client'[f] = client[f] PROVE FInv(f)'
  <2>1. epoch' = epoch /\ Latest' = Latest
    BY <1>2 DEF Latest
  <2>2. IdIsKnown(f)' /\ HasUpToId(f)' /\ JoinsAtId(f)'
    BY <1>1, <1>2, <1>6, <1>8, <2>1 DEF FInv, IdIsKnown, HasUpToId, JoinsAtId, Honest, Seen
  <2>3. Honest(f)' => LostNothing(f)'
    BY <1>1, <1>2, <1>3, <1>6, <1>8, <2>1 DEF FInv, LostNothing, Honest, Seen
  <2>4. BatchFollows(f)'
    BY <1>3, <1>4, <1>6, <1>7, <1>8, <2>1 DEF BatchFollows
  <2>. QED  BY <2>2, <2>3, <2>4 DEF FInv
<1>. QED  BY <1>1, <1>2, <1>6, <1>8, OthersStand

LEMMA SendGapEInv ==
  ASSUME EInv, NEW f \in Followers, SendGap(f)
  PROVE  EInv'
<1> DEFINE b == follower[f].batch
           resume == Head(b) - 1
           v == [follower[f] EXCEPT !.gap = FALSE, !.cursor = resume]
           from == IF resume > client[f].from THEN resume ELSE client[f].from
           c == [client[f] EXCEPT !.id = [epoch |-> epoch, seq |-> resume], !.from = from]
<1>1. /\ client[f] \in ClientState /\ client \in [Followers -> ClientState]
      /\ follower[f] \in FollowerState /\ follower \in [Followers -> FollowerState]
      /\ FInv(f) /\ epoch \in Nat /\ epoch >= 1 /\ client[f].from \in Nat /\ MaxSeq \in Nat
      /\ follower[f].cursor \in Nat /\ Latest \in Nat /\ Latest <= MaxSeq
      /\ client[f].got \in Seq(1..MaxSeq)
      /\ \A i \in DOMAIN client[f].got : client[f].got[i] \in Nat
      /\ b \in Seq(1..MaxSeq)
  BY StreamTypes DEF EInv
<1>2. UNCHANGED <<epoch, log, turn, transport>>
  BY DEF SendGap
<1>3. follower' = [follower EXCEPT ![f] = v] /\ client' = [client EXCEPT ![f] = c]
  BY <1>1 DEF SendGap, Reset, Received, ClientState
<1>4. /\ follower[f].state = "live" /\ ~follower[f].reset /\ b # <<>>
      /\ \A i \in DOMAIN b : b[i] = b[1] + (i - 1) /\ b[i] <= Latest
      /\ b[1] > follower[f].cursor
      /\ \A i \in DOMAIN client[f].got : client[f].got[i] <= follower[f].cursor
  BY <1>1 DEF SendGap, FInv, BatchFollows
<1>5. Head(b) = b[1] /\ 1 \in DOMAIN b /\ b[1] \in 1..MaxSeq
  BY <1>1, <1>4, TailOfSeq
<1>12. /\ b[1] <= Latest /\ b[1] \in Nat /\ b[1] >= 1 /\ b[1] <= MaxSeq
       /\ resume = b[1] - 1 /\ b[1] > follower[f].cursor
  BY <1>1, <1>4, <1>5
<1>13. MaxSeq \in Nat /\ Latest \in Nat /\ follower[f].cursor \in Nat
  BY <1>1
<1>. HIDE DEF resume, b
<1>6. /\ resume \in 0..MaxSeq /\ resume \in Nat /\ resume <= Latest /\ b[1] = resume + 1
      /\ follower[f].cursor <= resume
  BY <1>12, <1>13
<1>7. [epoch |-> epoch, seq |-> resume] \in Ids /\ from \in 0..MaxSeq
  BY <1>1, <1>6 DEF EInv, TypeOK, ClientState, FollowerState, Ids
<1>8. /\ c \in ClientState /\ c.id.epoch = epoch /\ c.id.seq = resume /\ c.from = from
      /\ c.got = client[f].got
  BY <1>1, <1>7 DEF ClientState
<1>9. /\ v \in FollowerState /\ v.state = "live" /\ v.cursor = resume /\ ~v.reset
      /\ ~v.gap /\ v.batch = b
  BY <1>1, <1>4, <1>6 DEF FollowerState, b
<1>10. from \in Nat /\ from >= resume
  BY <1>1, <1>6
<1>. HIDE DEF v, c, from
<1>11. ASSUME follower'[f] = v, client'[f] = c PROVE FInv(f)'
  <2>1. epoch' = epoch /\ Latest' = Latest
    BY <1>2 DEF Latest
  <2>2. \A i \in DOMAIN client[f].got : client[f].got[i] <= resume
    BY <1>1, <1>4, <1>6
  <2>3. IdIsKnown(f)'
    <3>1. IdIsKnown(f)
      BY <1>1 DEF FInv
    <3>2. \A i, j \in DOMAIN client[f].got : i < j => client[f].got[i] < client[f].got[j]
      BY <3>1 DEF IdIsKnown
    <3>3. epoch >= 1 /\ epoch \in Nat
      BY <1>1
    <3>. QED  BY <1>6, <1>8, <1>11, <2>1, <2>2, <3>2, <3>3 DEF IdIsKnown
  <2>4. \A q \in (from + 1)..resume : FALSE
    BY <1>6, <1>10
  <2>5. HasUpToId(f)' /\ LostNothing(f)'
    BY <1>8, <1>9, <1>11, <2>4 DEF HasUpToId, LostNothing
  <2>6. JoinsAtId(f)' /\ BatchFollows(f)'
    BY <1>4, <1>6, <1>8, <1>9, <1>11, <2>1, <2>2 DEF JoinsAtId, BatchFollows
  <2>. QED  BY <2>3, <2>5, <2>6 DEF FInv
<1>. QED  BY <1>2, <1>3, <1>8, <1>9, <1>11, OthersStand

(* An event goes out: its client has it, unless it is one of those that are  *)
(* not sent.                                                                *)
LEMMA SendEntryEInv ==
  ASSUME EInv, NEW f \in Followers, SendEntry(f)
  PROVE  EInv'
<1> DEFINE b == follower[f].batch
           q == Head(b)
           v == [follower[f] EXCEPT !.cursor = q, !.batch = Tail(b)]
<1>1. /\ client[f] \in ClientState /\ client \in [Followers -> ClientState]
      /\ follower[f] \in FollowerState /\ follower \in [Followers -> FollowerState]
      /\ FInv(f) /\ epoch \in Nat /\ epoch >= 1 /\ client[f].from \in Nat /\ MaxSeq \in Nat
      /\ follower[f].cursor \in Nat /\ Latest \in Nat /\ Latest <= MaxSeq
      /\ client[f].got \in Seq(1..MaxSeq)
      /\ \A i \in DOMAIN client[f].got : client[f].got[i] \in Nat
      /\ b \in Seq(1..MaxSeq)
  BY StreamTypes DEF EInv
<1>2. /\ UNCHANGED <<epoch, log, turn, transport>>
      /\ follower' = [follower EXCEPT ![f] = v]
      /\ client' = IF log[q] = "other" THEN client
                   ELSE [client EXCEPT ![f] = [Received(f, q) EXCEPT !.got = Append(@, q)]]
  BY <1>1 DEF SendEntry
<1>3. /\ follower[f].state = "live" /\ ~follower[f].reset /\ ~follower[f].gap /\ b # <<>>
      /\ \A i \in DOMAIN b : b[i] = b[1] + (i - 1) /\ b[i] <= Latest
      /\ b[1] = follower[f].cursor + 1
      /\ \A i \in DOMAIN client[f].got : client[f].got[i] <= follower[f].cursor
  BY <1>1 DEF SendEntry, FInv, BatchFollows
<1>4. /\ Tail(b) \in Seq(1..MaxSeq) /\ Len(b) \in Nat /\ Len(b) >= 1
      /\ DOMAIN b = 1..Len(b) /\ DOMAIN Tail(b) = 1..(Len(b) - 1)
      /\ \A i \in DOMAIN Tail(b) : Tail(b)[i] = b[i + 1]
      /\ q = b[1]
  BY <1>1, <1>3, TailOfSeq
<1>18. 1 \in DOMAIN b /\ b[1] <= Latest /\ b[1] \in 1..MaxSeq
  <2>1. 1 \in DOMAIN b
    BY <1>4
  <2>2. b[1] <= Latest
    BY <1>3, <2>1
  <2>3. b[1] \in 1..MaxSeq
    <3>1. \A i \in DOMAIN b : b[i] \in 1..MaxSeq
      BY <1>1
    <3>. QED  BY <2>1, <3>1
  <2>. QED  BY <2>1, <2>2, <2>3
<1>5. /\ q \in 1..MaxSeq /\ q \in Nat /\ q <= Latest /\ q = follower[f].cursor + 1
  BY <1>1, <1>3, <1>4, <1>18
<1>6. ASSUME NEW i \in DOMAIN Tail(b)
      PROVE  i \in Nat /\ Tail(b)[i] = q + i /\ Tail(b)[i] <= Latest
  <2>1. i \in Nat /\ i + 1 \in DOMAIN b /\ Tail(b)[i] = b[i + 1]
    BY <1>4
  <2>2. b[i + 1] = b[1] + ((i + 1) - 1) /\ b[i + 1] <= Latest
    BY <1>3, <2>1
  <2>. QED  BY <1>4, <1>5, <2>1, <2>2
<1>7. Tail(b) # <<>> => 1 \in DOMAIN Tail(b)
  <2>1. ASSUME Tail(b) # <<>> PROVE 1 \in DOMAIN Tail(b)
    BY <1>4, <2>1, TailOfSeq
  <2>. QED  BY <2>1
<1> DEFINE rest == Tail(b)
<1>8. /\ rest \in Seq(1..MaxSeq) /\ (rest # <<>> => rest[1] = q + 1)
      /\ \A i \in DOMAIN rest : i \in Nat /\ rest[i] = q + i /\ rest[i] <= Latest
      /\ DOMAIN rest = 1..(Len(b) - 1)
  <2>1. \A i \in DOMAIN rest : i \in Nat /\ rest[i] = q + i /\ rest[i] <= Latest
    BY <1>6
  <2>2. rest # <<>> => 1 \in DOMAIN rest
    BY <1>7
  <2>3. rest \in Seq(1..MaxSeq) /\ DOMAIN rest = 1..(Len(b) - 1)
    BY <1>4
  <2>. HIDE DEF rest, q
  <2>. QED  BY <2>1, <2>2, <2>3
<1>. HIDE DEF rest
<1>9. \A i \in DOMAIN rest : rest[i] = rest[1] + (i - 1)
  <2>1. ASSUME NEW i \in DOMAIN rest PROVE rest[i] = rest[1] + (i - 1)
    <3>1. 1 \in DOMAIN rest /\ i \in Nat
      BY <1>4, <1>8
    <3>. QED  BY <1>5, <1>8, <3>1
  <2>. QED  BY <2>1
<1>10. v = [follower[f] EXCEPT !.cursor = q, !.batch = rest]
  BY DEF rest
<1>11. q \in 0..MaxSeq
  BY <1>5
<1>. HIDE DEF q, b
<1>12. /\ v \in FollowerState /\ v.state = "live" /\ v.cursor = q /\ ~v.reset
       /\ ~v.gap /\ v.batch = rest
  <2>. HIDE DEF v
  <2>. QED  BY <1>1, <1>3, <1>8, <1>10, <1>11 DEF FollowerState
<1>. HIDE DEF v
<1>13. /\ epoch' = epoch /\ Latest' = Latest /\ log' = log /\ (Honest(f)' <=> Honest(f))
  BY <1>2 DEF Latest, Honest
<1>14. Honest(f) => \A p \in (client[f].from + 1)..follower[f].cursor :
                      p <= Latest /\ (log[p] # "other" => p \in Seen(f))
  BY <1>1, <1>3 DEF FInv, LostNothing
<1>15. \A p \in (client[f].from + 1)..q : p \in (client[f].from + 1)..follower[f].cursor \/ p = q
  BY <1>1, <1>5
<1>16. CASE log[q] = "other"
  <2>1. client' = client /\ client' = [client EXCEPT ![f] = client[f]]
    BY <1>1, <1>2, <1>16
  <2>2. ASSUME follower'[f] = v, client'[f] = client[f] PROVE FInv(f)'
    <3>1. IdIsKnown(f)' /\ HasUpToId(f)' /\ JoinsAtId(f)'
      BY <1>1, <1>12, <1>13, <2>1, <2>2
         DEF FInv, IdIsKnown, HasUpToId, JoinsAtId, Seen
    <3>2. Honest(f)' => LostNothing(f)'
      <4>1. Seen(f)' = Seen(f)
        BY <2>1 DEF Seen
      <4>. QED
        BY <1>5, <1>12, <1>13, <1>14, <1>15, <1>16, <2>1, <2>2, <4>1 DEF LostNothing
    <3>3. \A i \in DOMAIN client[f].got : client[f].got[i] <= q
      BY <1>1, <1>3, <1>5
    <3>4. BatchFollows(f)'
      BY <1>5, <1>8, <1>9, <1>12, <1>13, <2>2, <3>3 DEF BatchFollows
    <3>. QED  BY <3>1, <3>2, <3>4 DEF FInv
  <2>. QED  BY <1>1, <1>2, <1>12, <2>1, <2>2, OthersStand
<1>17. CASE log[q] # "other"
  <2> DEFINE got == Append(client[f].got, q)
             c == [client[f] EXCEPT !.id = [epoch |-> epoch, seq |-> q], !.got = got]
             n == Len(client[f].got)
  <2>1. client' = [client EXCEPT ![f] = c]
    BY <1>1, <1>2, <1>17 DEF Received, ClientState
  <2>2. /\ got \in Seq(1..MaxSeq) /\ n \in Nat /\ DOMAIN client[f].got = 1..n
        /\ DOMAIN got = 1..(n + 1) /\ got[n + 1] = q
        /\ \A i \in 1..n : got[i] = client[f].got[i]
    BY <1>1, <1>5, AppendToSeq
  <2>3. [epoch |-> epoch, seq |-> q] \in Ids
    BY <1>5, <1>11, StreamAssumption DEF EInv, TypeOK, Ids
  <2>. HIDE DEF got, n
  <2>4. /\ c \in ClientState /\ c.id.epoch = epoch /\ c.id.seq = q /\ c.from = client[f].from
        /\ c.got = got
    BY <1>1, <2>2, <2>3 DEF ClientState
  <2>. HIDE DEF c
  <2>8. ASSUME NEW i \in 1..n PROVE client[f].got[i] \in Nat /\ client[f].got[i] < q
    <3>1. client[f].got[i] \in Nat /\ client[f].got[i] <= follower[f].cursor
      BY <1>1, <1>3, <2>2
    <3>. QED  BY <1>1, <1>5, <3>1
  <2>5. ASSUME NEW i \in DOMAIN got PROVE got[i] \in Nat /\ got[i] <= q
    <3>1. i \in 1..n \/ i = n + 1
      BY <2>2
    <3>. QED  BY <1>5, <2>2, <2>8, <3>1
  <2>6. \A i, j \in DOMAIN got : i < j => got[i] < got[j]
    <3>1. \A i, j \in 1..n : i < j => client[f].got[i] < client[f].got[j]
      BY <1>1, <2>2 DEF FInv, IdIsKnown
    <3>2. \A i \in 1..n : client[f].got[i] < q
      BY <2>8
    <3>. QED  BY <2>2, <3>1, <3>2
  <2>7. ASSUME follower'[f] = v, client'[f] = c PROVE FInv(f)'
    <3>1. IdIsKnown(f)'
      BY <1>1, <1>5, <1>13, <2>4, <2>5, <2>6, <2>7 DEF IdIsKnown
    <3>2. JoinsAtId(f)' /\ BatchFollows(f)'
      BY <1>5, <1>8, <1>9, <1>12, <1>13, <2>4, <2>5, <2>7 DEF JoinsAtId, BatchFollows
    <3>3. Seen(f) \subseteq Seen(f)' /\ q \in Seen(f)'
      BY <2>2, <2>4, <2>7 DEF Seen
    <3>4. Honest(f) => \A p \in (client[f].from + 1)..q :
                         p <= Latest /\ (log[p] # "other" => p \in Seen(f)')
      BY <1>5, <1>14, <1>15, <3>3
    <3>5. Honest(f)' => LostNothing(f)' /\ HasUpToId(f)'
      BY <1>12, <1>13, <2>4, <2>7, <3>4 DEF LostNothing, HasUpToId
    <3>6. HasUpToId(f)'
      BY <3>5 DEF HasUpToId
    <3>. QED  BY <3>1, <3>2, <3>5, <3>6 DEF FInv
  <2>. QED  BY <1>2, <1>12, <2>1, <2>4, <2>7, OthersStand
<1>. QED  BY <1>16, <1>17

LEMMA NextEInv ==
  ASSUME EInv, [Next]_vars PROVE EInv'
<1>1. CASE AdmitTurn \/ PutTurnEvent \/ BecomeIdle
  BY <1>1, JournalEInv
<1>2. CASE Restart
  BY <1>2, RestartEInv
<1>3. ASSUME NEW f \in Followers, Join(f) \/ Follow(f) \/ Disconnect(f) PROVE EInv'
  <2>1. CASE Connect(f) \/ Disconnect(f)
    BY <2>1, ConnectEInv
  <2>2. CASE JoinFresh(f)
    BY <2>2, JoinFreshEInv
  <2>3. CASE JoinAt(f)
    BY <2>3, JoinAtEInv
  <2>4. CASE SendReset(f)
    BY <2>4, SendResetEInv
  <2>5. CASE ReadBatch(f)
    BY <2>5, ReadBatchEInv
  <2>6. CASE SendGap(f)
    BY <2>6, SendGapEInv
  <2>7. CASE SendEntry(f)
    BY <2>7, SendEntryEInv
  <2>. QED  BY <1>3, <2>1, <2>2, <2>3, <2>4, <2>5, <2>6, <2>7 DEF Join, Follow
<1>4. CASE UNCHANGED vars
  <2>1. UNCHANGED <<epoch, log, turn, transport, follower, client>>
    BY <1>4 DEF vars
  <2>. QED
    BY <2>1 DEF EInv, TypeOK, FInv, IdIsKnown, HasUpToId, JoinsAtId, BatchFollows, LostNothing,
       Honest, Seen, Latest
<1>. QED  BY <1>1, <1>2, <1>3, <1>4 DEF Next

----------------------------------------------------------------------------

(* The inductive invariant: a batch follows its cursor but for a gap, a      *)
(* client has what it was not told to miss up to its last event id, and it   *)
(* reconnects with that id, whatever the ring has evicted meanwhile.         *)
THEOREM StreamInvariant ==
  Spec => []EInv
<1>1. Init => EInv
  BY InitEInv
<1>2. EInv /\ [Next]_vars => EInv'
  BY NextEInv
<1>. QED  BY <1>1, <1>2, PTL DEF Spec

(* Through evictions, batches, reconnects with an old event id and, over     *)
(* SSE, restarts of the process, a client receives the journal in order and  *)
(* each event once, and misses none it was not told of by a reset.           *)
THEOREM NothingIsLostSilently ==
  Spec => []FollowsTheJournal
<1>1. EInv => FollowsTheJournal
  BY DEF EInv, FInv, IdIsKnown, Honest, FollowsTheJournal
<1>. QED  BY <1>1, StreamInvariant, PTL
=============================================================================
