---------------------------- MODULE MCStores_proofs ----------------------------
(***************************************************************************)
(* Proofs about two components of MCStores, the controller of the terminal  *)
(* client and the steps of a turn: lemmas about the steps, each of which      *)
(* keeps the inductive invariant, and then the theorem about the property    *)
(* that the run checks.                                                    *)
(***************************************************************************)
EXTENDS MCStores, SequenceTheorems, WellFoundedInduction, TLAPS

-----------------------------------------------------------------------------
(* TerminalView.  The cells are created (x1), deleted (x2), turn (x3), asked   *)
(* (x4), journal (x5), view (x6), epoch (x7), disconnect (x8), sockets (x9),  *)
(* calls (x10), used (x11), drops (x12) and closed (x13).                   *)

(* One event more in the journal of a session, and what its turn does then. *)
LEMMA TerminalTells ==
  ASSUME Terminal!IInv, NEW s \in Members, NEW e \in Terminal!Events,
         NEW t \in {"idle", "running", "asking"}, NEW n \in Nat,
         x5' = [x5 EXCEPT ![s] = Append(@, e)],
         x3' = [x3 EXCEPT ![s] = t], x4' = [x4 EXCEPT ![s] = n],
         UNCHANGED <<x6, x7, x8, x9, x13>>,
         t = "asking" => e = [kind |-> "asked", n |-> n],
         t # "idle" => e.kind = "started" \/ (x3[s] # "idle" /\ e.kind # "started")
  PROVE  /\ x3' \in [Members -> {"idle", "running", "asking"}]
         /\ x4' \in [Members -> Nat] /\ x5' \in [Members -> Seq(Terminal!Events)]
         /\ Terminal!JournalTellsTurn' /\ \A k \in x9' : Terminal!SocketOK(k)'
<1>1. /\ x3' \in [Members -> {"idle", "running", "asking"}] /\ x3'[s] = t
      /\ x4' \in [Members -> Nat] /\ x4'[s] = n
      /\ \A u \in Members : u # s => x3'[u] = x3[u] /\ x4'[u] = x4[u]
  BY DEF Terminal!IInv, Terminal!TypeOK
<1>2. /\ x5[s] \in Seq(Terminal!Events) /\ x5'[s] = Append(x5[s], e)
      /\ \A u \in Members : u # s => x5'[u] = x5[u]
  BY DEF Terminal!IInv, Terminal!TypeOK
<1>3. Len(x5[s]) \in Nat
  BY <1>2, LenProperties
<1>4. /\ Append(x5[s], e) \in Seq(Terminal!Events)
      /\ Len(Append(x5[s], e)) = Len(x5[s]) + 1
      /\ \A i \in 1..Len(x5[s]) : Append(x5[s], e)[i] = x5[s][i]
      /\ Append(x5[s], e)[Len(x5[s]) + 1] = e
  BY <1>2, AppendProperties
<1>5. x5' \in [Members -> Seq(Terminal!Events)]
  BY <1>4 DEF Terminal!IInv, Terminal!TypeOK
<1>6. /\ Len(x5'[s]) = Len(x5[s]) + 1 /\ x5'[s][Len(x5[s]) + 1] = e
      /\ \A i \in 1..Len(x5[s]) : x5'[s][i] = x5[s][i]
  BY <1>2, <1>4
<1>7. Terminal!JournalTellsTurn'
  <2>1. ASSUME NEW u \in Members, u # s
        PROVE  /\ x3'[u] = "asking" =>
                    /\ x5'[u] # <<>>
                    /\ x5'[u][Len(x5'[u])] = [kind |-> "asked", n |-> x4'[u]]
               /\ x3'[u] # "idle" =>
                    \E m \in 0..Len(x5'[u]) - 1 :
                      /\ x5'[u][m + 1].kind = "started"
                      /\ \A i \in m + 2..Len(x5'[u]) : x5'[u][i].kind # "started"
    BY <1>1, <1>2, <2>1 DEF Terminal!IInv, Terminal!JournalTellsTurn
  <2>2. ASSUME t = "asking"
        PROVE  /\ x5'[s] # <<>>
               /\ x5'[s][Len(x5'[s])] = [kind |-> "asked", n |-> x4'[s]]
    BY <1>1, <1>2, <1>3, <1>4, <2>2
  <2>3. ASSUME t # "idle"
        PROVE  \E m \in 0..Len(x5'[s]) - 1 :
                 /\ x5'[s][m + 1].kind = "started"
                 /\ \A i \in m + 2..Len(x5'[s]) : x5'[s][i].kind # "started"
    <3>1. CASE e.kind = "started"
      <4>1. /\ Len(x5[s]) \in 0..Len(x5'[s]) - 1
            /\ Len(x5[s]) + 2..Len(x5'[s]) = {}
        BY <1>3, <1>6
      <4>. QED  BY <1>6, <3>1, <4>1
    <3>2. CASE x3[s] # "idle" /\ e.kind # "started"
      <4>1. PICK m \in 0..Len(x5[s]) - 1 :
              /\ x5[s][m + 1].kind = "started"
              /\ \A i \in m + 2..Len(x5[s]) : x5[s][i].kind # "started"
        BY <3>2 DEF Terminal!IInv, Terminal!JournalTellsTurn
      <4>2. m \in 0..Len(x5'[s]) - 1 /\ m + 1 \in 1..Len(x5[s])
        BY <1>3, <1>6
      <4>3. ASSUME NEW i \in m + 2..Len(x5'[s]) PROVE x5'[s][i].kind # "started"
        <5>1. i = Len(x5[s]) + 1 \/ (i \in 1..Len(x5[s]) /\ i \in m + 2..Len(x5[s]))
          BY <1>3, <1>6, <4>2
        <5>. QED  BY <1>6, <3>2, <4>1, <5>1
      <4>. QED  BY <1>6, <4>1, <4>2, <4>3
    <3>. QED  BY <2>3, <3>1, <3>2
  <2>4. /\ x3'[s] = "asking" =>
             /\ x5'[s] # <<>>
             /\ x5'[s][Len(x5'[s])] = [kind |-> "asked", n |-> x4'[s]]
        /\ x3'[s] # "idle" =>
             \E m \in 0..Len(x5'[s]) - 1 :
               /\ x5'[s][m + 1].kind = "started"
               /\ \A i \in m + 2..Len(x5'[s]) : x5'[s][i].kind # "started"
    BY <1>1, <2>2, <2>3
  <2>5. ASSUME NEW u \in Members
        PROVE  /\ x3'[u] = "asking" =>
                    /\ x5'[u] # <<>>
                    /\ x5'[u][Len(x5'[u])] = [kind |-> "asked", n |-> x4'[u]]
               /\ x3'[u] # "idle" =>
                    \E m \in 0..Len(x5'[u]) - 1 :
                      /\ x5'[u][m + 1].kind = "started"
                      /\ \A i \in m + 2..Len(x5'[u]) : x5'[u][i].kind # "started"
    BY ONLY <2>1, <2>4, u \in Members
  <2>. QED  BY ONLY <2>5 DEF Terminal!JournalTellsTurn
<1>8. ASSUME NEW k \in x9 PROVE Terminal!SocketOK(k)'
  <2>1. Terminal!SocketOK(k) /\ k \in Terminal!Sockets
    BY DEF Terminal!IInv, Terminal!TypeOK
  <2>2. /\ ~x13' /\ k.epoch = x7' /\ x8' = x7' /\ x9' = {k}
        /\ x6'.session \in {None, k.s} /\ (~k.up => k.again = 0)
        /\ k.cursor # None => k.again = 0 /\ (k.up => k.at = k.cursor)
    BY <2>1 DEF Terminal!SocketOK
  <2>3. CASE k.s # s
    BY <1>1, <1>2, <2>1, <2>3 DEF Terminal!SocketOK, Terminal!Sockets
  <2>4. CASE k.s = s
    <3>1. k.at < Len(x5'[s]) /\ (k.cursor # None => k.cursor < Len(x5'[s]))
      BY <1>3, <1>6, <2>1, <2>4 DEF Terminal!SocketOK, Terminal!Sockets
    <3>2. k.at \in Nat /\ k.cursor \in {None} \cup Nat /\ Len(x5'[s]) \in Nat
      BY <1>3, <1>6, <2>1 DEF Terminal!Sockets
    <3>3. k.cursor # Len(x5'[s]) /\ k.at <= Len(x5'[s])
      BY <3>1, <3>2, TerminalAssumption
    <3>. QED  BY <2>2, <2>4, <3>1, <3>2, <3>3 DEF Terminal!SocketOK
  <2>. QED  BY <2>3, <2>4
<1>. QED  BY <1>1, <1>5, <1>7, <1>8

(* A turn that waited goes on. *)
LEMMA TerminalGoesOn ==
  ASSUME Terminal!IInv, NEW s \in Members, x3[s] = "asking", x3' = [x3 EXCEPT ![s] = "running"],
         UNCHANGED <<x6, x7, x8, x9, x13, x4, x5>>
  PROVE  /\ x3' \in [Members -> {"idle", "running", "asking"}]
         /\ Terminal!JournalTellsTurn' /\ \A k \in x9' : Terminal!SocketOK(k)'
<1>1. /\ x3' \in [Members -> {"idle", "running", "asking"}] /\ x3'[s] = "running"
      /\ \A u \in Members : u # s => x3'[u] = x3[u]
  BY DEF Terminal!IInv, Terminal!TypeOK
<1>2. Terminal!JournalTellsTurn'
  <2>1. ASSUME NEW u \in Members
        PROVE  /\ x3'[u] = "asking" => x3[u] = "asking"
               /\ x3'[u] # "idle" => x3[u] # "idle"
    BY <1>1
  <2>2. Terminal!JournalTellsTurn
    BY DEF Terminal!IInv
  <2>. QED  BY <2>1, <2>2 DEF Terminal!JournalTellsTurn
<1>3. ASSUME NEW k \in x9 PROVE Terminal!SocketOK(k)'
  <2>1. Terminal!SocketOK(k) /\ k.s \in Members
    BY DEF Terminal!IInv, Terminal!TypeOK, Terminal!Sockets
  <2>. QED  BY <1>1, <2>1 DEF Terminal!SocketOK
<1>. QED  BY <1>1, <1>2, <1>3

(* A socket is as the view has it while the service and the sockets rest.    *)
LEMMA TerminalSocketsStay ==
  ASSUME Terminal!IInv, UNCHANGED <<x7, x8, x9, x13, x3, x4, x5>>,
         x6'.session \in {None, x6.session},
         \A u \in Members :
           x3[u] = "asking" /\ x6'.session = u => x6'.pending = x6.pending
  PROVE  \A k \in x9' : Terminal!SocketOK(k)'
<1>1. ASSUME NEW k \in x9 PROVE Terminal!SocketOK(k)'
  <2>1. Terminal!SocketOK(k) /\ k.s \in Members
    BY DEF Terminal!IInv, Terminal!TypeOK, Terminal!Sockets
  <2>. QED  BY <2>1, TerminalAssumption DEF Terminal!SocketOK
<1>. QED  BY <1>1

(* The calls stay: an epoch passes, or neither name nor sockets are new, and  *)
(* nobody asks while an answer is under way.                                *)
LEMMA TerminalCallsStay ==
  ASSUME Terminal!IInv, x10' = x10, x11' = x11, x7' \in Nat,
         \/ x7' > x7
         \/ /\ x7' = x7 /\ x13' = x13 /\ x6'.session = x6.session
            /\ x9 = {} => x9' = {},
         \A u \in Members : x3'[u] = "asking" => x3[u] = "asking" \/ ~Terminal!Deciding(u)
  PROVE  \A i \in 1..TerminalCalls : Terminal!CallOK(i)'
<1> SUFFICES ASSUME NEW i \in 1..TerminalCalls, x10[i] # None PROVE Terminal!CallOK(i)'
  BY DEF Terminal!CallOK
<1> DEFINE c == x10[i]
<1>1. Terminal!CallOK(i) /\ c \in Terminal!Requests /\ x7 \in Nat /\ x11 \in Nat
  BY DEF Terminal!IInv, Terminal!TypeOK
<1>2. c.epoch \in Nat /\ c.epoch <= x7 /\ i <= x11
  BY <1>1 DEF Terminal!CallOK, Terminal!Requests
<1>3. c.epoch <= x7'
  BY <1>1, <1>2
<1>4. /\ c.kind \notin {"new", "list"} => c.s \in Members
      /\ c.kind \in {"new", "list"} /\ c.at = "done" => c.got \in {None} \cup Members
      /\ c.kind = "select" /\ c.at = "done" => c.got \in BOOLEAN
  BY <1>1 DEF Terminal!CallOK
<1>5. c.kind = "decide" /\ c.at = "done" => x3'[c.s] # "asking"
  <2> SUFFICES ASSUME c.kind = "decide", c.at = "done" PROVE x3'[c.s] # "asking"
    OBVIOUS
  <2>1. x3[c.s] # "asking" /\ c.s \in Members
    BY <1>1 DEF Terminal!CallOK
  <2>2. i \in 1..x11
    BY <1>1, <1>2
  <2>. QED  BY <2>1, <2>2 DEF Terminal!Deciding
<1>6. ASSUME c.epoch = x7'
      PROVE  /\ x7' = x7 /\ x13' = x13 /\ x6'.session = x6.session
             /\ x9 = {} => x9' = {}
  BY <1>1, <1>2, <1>6
<1>. QED  BY <1>1, <1>2, <1>3, <1>4, <1>5, <1>6 DEF Terminal!CallOK

(* One call becomes another or is forgotten. *)
LEMMA TerminalCallsMove ==
  ASSUME Terminal!IInv, NEW i \in 1..TerminalCalls, NEW r \in {None} \cup Terminal!Requests,
         x10' = [x10 EXCEPT ![i] = r], x11' \in 0..TerminalCalls, x11 <= x11', i <= x11',
         x7' \in Nat,
         \/ x7' > x7
         \/ /\ x7' = x7 /\ x13' = x13 /\ x6'.session \in {None, x6.session}
            /\ \/ x9 = {} => x9' = {}
               \/ x10[i] # None /\ x10[i].kind = "select" /\ x10[i].epoch = x7,
         \A u \in Members : x3'[u] = "asking" => x3[u] = "asking",
         r # None =>
           /\ r.epoch <= x7'
           /\ r.kind \notin {"new", "list"} => r.s \in Members
           /\ r.kind \in {"new", "list"} /\ r.at = "done" => r.got \in {None} \cup Members
           /\ r.kind = "select" /\ r.at = "done" => r.got \in BOOLEAN
           /\ r.kind = "decide" /\ r.at = "done" => x3'[r.s] # "asking"
           /\ r.kind \in {"select", "history", "fork"} /\ r.epoch = x7' /\ ~x13'
                => x6'.session \in {None, r.s}
           /\ r.kind = "select" /\ r.epoch = x7' =>
                /\ x9' = {}
                /\ \/ x7' > x7
                   \/ x10[i] # None /\ x10[i].kind = "select" /\ x10[i].epoch = x7
  PROVE  /\ x10' \in [1..TerminalCalls -> {None} \cup Terminal!Requests]
         /\ \A j \in 1..TerminalCalls : Terminal!CallOK(j)'
<1>1. /\ x10' \in [1..TerminalCalls -> {None} \cup Terminal!Requests] /\ x10'[i] = r
      /\ \A j \in 1..TerminalCalls : j # i => x10'[j] = x10[j]
      /\ x7 \in Nat /\ x11 \in Nat
  BY DEF Terminal!IInv, Terminal!TypeOK
<1>2. ASSUME NEW j \in 1..TerminalCalls, j # i, x10[j] # None
      PROVE  /\ j <= x11' /\ x10[j].epoch <= x7'
             /\ x10[j].kind = "decide" /\ x10[j].at = "done" => x3'[x10[j].s] # "asking"
             /\ x10[j].epoch = x7' => x7' = x7 /\ x13' = x13
                                      /\ x6'.session \in {None, x6.session}
             /\ x10[j].kind = "select" /\ x10[j].epoch = x7' =>
                  /\ x9' = {}
                  /\ ~(x10[i] # None /\ x10[i].kind = "select" /\ x10[i].epoch = x7)
  <2>1. Terminal!CallOK(j) /\ x10[j].epoch \in Nat
    BY <1>2 DEF Terminal!IInv, Terminal!TypeOK, Terminal!Requests
  <2>2. j <= x11 /\ x10[j].epoch <= x7
    BY <1>2, <2>1 DEF Terminal!CallOK
  <2>3. j <= x11' /\ x10[j].epoch <= x7'
    BY <1>1, <2>1, <2>2
  <2>4. x10[j].kind = "decide" /\ x10[j].at = "done" => x3'[x10[j].s] # "asking"
    BY <1>2, <2>1 DEF Terminal!CallOK
  <2>5. x10[j].epoch = x7' =>
          /\ x7' = x7 /\ x13' = x13 /\ x6'.session \in {None, x6.session}
          /\ \/ x9 = {} => x9' = {}
             \/ x10[i] # None /\ x10[i].kind = "select" /\ x10[i].epoch = x7
    BY <1>1, <2>1, <2>2
  <2>6. x10[j].kind = "select" /\ x10[j].epoch = x7 =>
          /\ x9 = {}
          /\ ~(x10[i] # None /\ x10[i].kind = "select" /\ x10[i].epoch = x7)
    BY <1>2, <2>1 DEF Terminal!CallOK
  <2>. QED  BY <2>3, <2>4, <2>5, <2>6
<1>3. ASSUME NEW j \in 1..TerminalCalls, j # i, x10[j] # None PROVE Terminal!CallOK(j)'
  <2>1. Terminal!CallOK(j)
    BY DEF Terminal!IInv
  <2>2. x10[j].kind \in {"select", "history", "fork"} /\ x10[j].epoch = x7' /\ ~x13' =>
          x6'.session \in {None, x10[j].s}
    BY <1>2, <1>3, <2>1 DEF Terminal!CallOK
  <2>3. x10[j].kind = "select" /\ x10[j].epoch = x7' =>
          /\ x9' = {}
          /\ \A k \in 1..TerminalCalls :
               x10'[k] # None /\ x10'[k].kind = "select" /\ x10'[k].epoch = x7' => k = j
    <3> SUFFICES ASSUME x10[j].kind = "select", x10[j].epoch = x7',
                        NEW k \in 1..TerminalCalls, k # j,
                        x10'[k] # None, x10'[k].kind = "select", x10'[k].epoch = x7'
                 PROVE  FALSE
      BY <1>2, <1>3
    <3>1. x7' = x7 /\ ~(x10[i] # None /\ x10[i].kind = "select" /\ x10[i].epoch = x7)
      BY <1>2, <1>3
    <3>2. k # i
      BY <1>1, <3>1
    <3>. QED  BY <1>1, <1>3, <2>1, <3>1, <3>2 DEF Terminal!CallOK
  <2>. QED  BY <1>1, <1>2, <1>3, <2>1, <2>2, <2>3 DEF Terminal!CallOK
<1>4. Terminal!CallOK(i)'
  <2>1. ASSUME r # None, r.kind = "select", r.epoch = x7', NEW k \in 1..TerminalCalls, k # i,
               x10[k] # None, x10[k].kind = "select", x10[k].epoch = x7'
        PROVE  FALSE
    BY <1>1, <1>2, <2>1
  <2>. QED  BY <1>1, <2>1 DEF Terminal!CallOK
<1>5. \A j \in 1..TerminalCalls : j # i /\ x10[j] = None => Terminal!CallOK(j)'
  BY <1>1 DEF Terminal!CallOK
<1>. QED  BY <1>1, <1>3, <1>4, <1>5

(* The service goes on by itself. *)
LEMMA TerminalTurnRuns ==
  ASSUME Terminal!IInv, NEW s \in Members, Terminal!TurnRuns(s) \/ Terminal!WaitTimesOut(s)
  PROVE  Terminal!IInv'
<1>1. /\ UNCHANGED <<x1, x2, x10, x11, x12, x6, x7, x8, x9, x13>>
      /\ x7 \in Nat /\ x4 \in [Members -> Nat]
  BY DEF Terminal!TurnRuns, Terminal!WaitTimesOut, Terminal!client, Terminal!IInv,
         Terminal!TypeOK
<1>2. ASSUME /\ x3' \in [Members -> {"idle", "running", "asking"}]
             /\ x4' \in [Members -> Nat] /\ x5' \in [Members -> Seq(Terminal!Events)]
             /\ Terminal!JournalTellsTurn' /\ \A k \in x9' : Terminal!SocketOK(k)',
             \A u \in Members : x3'[u] = "asking" => x3[u] = "asking" \/ ~Terminal!Deciding(u)
      PROVE  Terminal!IInv'
  <2>1. Terminal!TypeOK'
    BY <1>1, <1>2 DEF Terminal!IInv, Terminal!TypeOK
  <2>2. Terminal!ViewOK'
    BY <1>1 DEF Terminal!IInv, Terminal!ViewOK
  <2>3. \A i \in 1..TerminalCalls : Terminal!CallOK(i)'
    BY <1>1, <1>2, TerminalCallsStay
  <2>. QED  BY <1>2, <2>1, <2>2, <2>3 DEF Terminal!IInv
<1>3. CASE x3[s] = "running" /\ Terminal!Put(s, "text", 0) /\ UNCHANGED <<x3, x4>>
  <2> DEFINE e == [kind |-> "text", n |-> 0]
  <2>1. e \in Terminal!Events /\ e.kind # "started"
    BY DEF Terminal!Events
  <2>2. /\ x5' = [x5 EXCEPT ![s] = Append(@, e)]
        /\ x3' = [x3 EXCEPT ![s] = "running"] /\ x4' = [x4 EXCEPT ![s] = x4[s]]
    BY <1>3 DEF Terminal!Put, Terminal!IInv, Terminal!TypeOK
  <2>3. x4[s] \in Nat /\ x3[s] # "idle"
    BY <1>1, <1>3
  <2>. HIDE DEF e
  <2>. QED  BY <1>1, <1>2, <1>3, <2>1, <2>2, <2>3, TerminalTells
<1>4. CASE /\ x3[s] = "running" /\ ~Terminal!Deciding(s)
           /\ x3' = [x3 EXCEPT ![s] = "asking"] /\ x4' = [x4 EXCEPT ![s] = @ + 1]
           /\ Terminal!Put(s, "asked", x4[s] + 1)
  <2> DEFINE n == x4[s] + 1
             e == [kind |-> "asked", n |-> n]
  <2>1. e \in Terminal!Events /\ e.kind # "started" /\ n \in Nat
    BY <1>1 DEF Terminal!Events
  <2>2. /\ x5' = [x5 EXCEPT ![s] = Append(@, e)]
        /\ x3' = [x3 EXCEPT ![s] = "asking"] /\ x4' = [x4 EXCEPT ![s] = n]
        /\ x3[s] # "idle" /\ e = [kind |-> "asked", n |-> n]
    BY <1>4 DEF Terminal!Put
  <2>3. \A u \in Members : x3'[u] = "asking" => x3[u] = "asking" \/ ~Terminal!Deciding(u)
    BY <1>4 DEF Terminal!IInv, Terminal!TypeOK
  <2>. HIDE DEF e, n
  <2>. QED  BY <1>1, <1>2, <2>1, <2>2, <2>3, TerminalTells
<1>5. CASE /\ x3[s] = "running" /\ x3' = [x3 EXCEPT ![s] = "idle"]
           /\ Terminal!Put(s, "finished", 0) /\ UNCHANGED x4
  <2> DEFINE e == [kind |-> "finished", n |-> 0]
  <2>1. e \in Terminal!Events /\ e.kind # "started"
    BY DEF Terminal!Events
  <2>2. /\ x5' = [x5 EXCEPT ![s] = Append(@, e)]
        /\ x3' = [x3 EXCEPT ![s] = "idle"] /\ x4' = [x4 EXCEPT ![s] = x4[s]]
        /\ x4[s] \in Nat
    BY <1>1, <1>5 DEF Terminal!Put
  <2>3. \A u \in Members : x3'[u] = "asking" => x3[u] = "asking"
    BY <1>5 DEF Terminal!IInv, Terminal!TypeOK
  <2>. HIDE DEF e
  <2>. QED  BY <1>1, <1>2, <2>1, <2>2, <2>3, TerminalTells
<1>6. CASE Terminal!WaitTimesOut(s)
  <2>1. /\ x3[s] = "asking" /\ x3' = [x3 EXCEPT ![s] = "running"]
        /\ UNCHANGED <<x4, x5>>
    BY <1>6 DEF Terminal!WaitTimesOut
  <2>2. \A u \in Members : x3'[u] = "asking" => x3[u] = "asking"
    BY <2>1 DEF Terminal!IInv, Terminal!TypeOK
  <2>3. x4' \in [Members -> Nat] /\ x5' \in [Members -> Seq(Terminal!Events)]
    BY <2>1 DEF Terminal!IInv, Terminal!TypeOK
  <2>. QED  BY <1>1, <1>2, <2>1, <2>2, <2>3, TerminalGoesOn
<1>. QED  BY <1>3, <1>4, <1>5, <1>6, TerminalAssumption DEF Terminal!TurnRuns

(* What a request does to the service. *)
LEMMA TerminalEffect ==
  ASSUME Terminal!IInv, NEW c \in Terminal!Requests,
         c.kind \notin {"new", "list"} => c.s \in Members,
         NEW got, Terminal!Accepts(c), Terminal!Effect(c, got), UNCHANGED Terminal!client
  PROVE  /\ x1' \subseteq Members
         /\ x3' \in [Members -> {"idle", "running", "asking"}]
         /\ x4' \in [Members -> Nat] /\ x5' \in [Members -> Seq(Terminal!Events)]
         /\ Terminal!JournalTellsTurn' /\ \A k \in x9' : Terminal!SocketOK(k)'
         /\ \A u \in Members : x3'[u] = "asking" => x3[u] = "asking"
         /\ c.kind = "decide" => x3'[c.s] # "asking"
         /\ c.kind \in {"new", "list"} => got \in {None} \cup Members
         /\ c.kind = "select" => got \in BOOLEAN
<1>1. UNCHANGED <<x6, x7, x8, x9, x13>>
  BY DEF Terminal!client
<1>2. /\ x3 \in [Members -> {"idle", "running", "asking"}] /\ x1 \subseteq Members
      /\ x4 \in [Members -> Nat] /\ x5 \in [Members -> Seq(Terminal!Events)]
  BY DEF Terminal!IInv, Terminal!TypeOK
<1>3. ASSUME UNCHANGED <<x3, x4, x5>>
      PROVE  Terminal!JournalTellsTurn' /\ \A k \in x9' : Terminal!SocketOK(k)'
  <2>1. Terminal!JournalTellsTurn'
    BY <1>3 DEF Terminal!IInv, Terminal!JournalTellsTurn
  <2>2. x6'.session \in {None, x6.session} /\ x6' = x6
    BY <1>1
  <2>. QED  BY <1>1, <1>3, <2>1, <2>2, TerminalSocketsStay
<1>4. CASE c.kind = "new"
  <2>1. got \in Members /\ x1' = x1 \cup {got} /\ UNCHANGED <<x3, x4, x5>>
    BY <1>4 DEF Terminal!Effect
  <2>. QED  BY <1>2, <1>3, <1>4, <2>1
<1>5. CASE c.kind \in {"list", "select", "history", "fork"}
  <2>1. UNCHANGED <<x1, x3, x4, x5>>
    BY <1>5 DEF Terminal!Effect, Terminal!service
  <2>2. c.kind = "list" => got \in {None} \cup Members
    BY <1>2 DEF Terminal!Effect, Terminal!Present
  <2>3. c.kind = "select" => got \in BOOLEAN
    BY DEF Terminal!Effect
  <2>. QED  BY <1>2, <1>3, <1>5, <2>1, <2>2, <2>3
<1>6. CASE c.kind = "delete"
  <2>1. UNCHANGED <<x1, x3, x4, x5>>
    BY <1>6 DEF Terminal!Effect
  <2>. QED  BY <1>2, <1>3, <1>6, <2>1
<1>7. CASE c.kind = "send"
  <2> DEFINE s == c.s
             e == [kind |-> "started", n |-> 0]
  <2>1. e \in Terminal!Events /\ e.kind = "started" /\ s \in Members
    BY <1>7 DEF Terminal!Events
  <2>2. /\ x5' = [x5 EXCEPT ![s] = Append(@, e)]
        /\ x3' = [x3 EXCEPT ![s] = "running"] /\ x4' = [x4 EXCEPT ![s] = x4[s]]
        /\ UNCHANGED x1 /\ x4[s] \in Nat
    BY <1>2, <1>7, <2>1 DEF Terminal!Effect, Terminal!Put
  <2>3. \A u \in Members : x3'[u] = "asking" => x3[u] = "asking"
    BY <1>2, <2>2
  <2>. HIDE DEF e, s
  <2>. QED  BY <1>1, <1>2, <1>7, <2>1, <2>2, <2>3, TerminalTells
<1>8. CASE c.kind = "decide"
  <2> DEFINE s == c.s
  <2>1. /\ s \in Members /\ x3[s] = "asking" /\ x3' = [x3 EXCEPT ![s] = "running"]
        /\ UNCHANGED <<x1, x4, x5>>
    BY <1>8 DEF Terminal!Accepts, Terminal!Effect
  <2>2. x3'[s] = "running" /\ \A u \in Members : x3'[u] = "asking" => x3[u] = "asking"
    BY <1>2, <2>1
  <2>3. /\ x3' \in [Members -> {"idle", "running", "asking"}]
        /\ Terminal!JournalTellsTurn' /\ \A k \in x9' : Terminal!SocketOK(k)'
    <3>. HIDE DEF s
    <3>. QED  BY <1>1, <2>1, TerminalGoesOn
  <2>. QED  BY <1>2, <1>8, <2>1, <2>2, <2>3
<1>9. CASE c.kind = "interrupt"
  <2> DEFINE s == c.s
             e == [kind |-> "finished", n |-> 0]
  <2>1. e \in Terminal!Events /\ s \in Members
    BY <1>9 DEF Terminal!Events
  <2>2. /\ x5' = [x5 EXCEPT ![s] = Append(@, e)]
        /\ x3' = [x3 EXCEPT ![s] = "idle"] /\ x4' = [x4 EXCEPT ![s] = x4[s]]
        /\ UNCHANGED x1 /\ x4[s] \in Nat
    BY <1>2, <1>9, <2>1 DEF Terminal!Effect, Terminal!Put
  <2>3. \A u \in Members : x3'[u] = "asking" => x3[u] = "asking"
    BY <1>2, <2>2
  <2>. HIDE DEF e, s
  <2>. QED  BY <1>1, <1>2, <1>9, <2>1, <2>2, <2>3, TerminalTells
<1>. QED  BY <1>4, <1>5, <1>6, <1>7, <1>8, <1>9 DEF Terminal!Requests, Terminal!Kinds

(* A request is served, or is not. *)
LEMMA TerminalServe ==
  ASSUME Terminal!IInv, NEW i \in 1..TerminalCalls, Terminal!Serve(i)
  PROVE  Terminal!IInv'
<1> DEFINE c == x10[i]
<1>1. /\ c # None /\ c \in Terminal!Requests /\ c.at = "sent" /\ i <= x11
      /\ x11' = x11 /\ UNCHANGED Terminal!client
      /\ UNCHANGED <<x6, x7, x8, x9, x13>> /\ x7 \in Nat
      /\ x11 \in 0..TerminalCalls
  BY DEF Terminal!Serve, Terminal!client, Terminal!IInv, Terminal!TypeOK
<1>2. Terminal!CallOK(i)
  BY DEF Terminal!IInv
<1>3. c.kind \notin {"new", "list"} => c.s \in Members
  BY <1>1, <1>2 DEF Terminal!CallOK
<1>4. ASSUME NEW r \in Terminal!Requests, x10' = [x10 EXCEPT ![i] = r],
             r.kind = c.kind, r.s = c.s, r.epoch = c.epoch, r.at # "sent",
             /\ x1' \subseteq Members
             /\ x3' \in [Members -> {"idle", "running", "asking"}]
             /\ x4' \in [Members -> Nat] /\ x5' \in [Members -> Seq(Terminal!Events)]
             /\ Terminal!JournalTellsTurn' /\ \A k \in x9' : Terminal!SocketOK(k)'
             /\ \A u \in Members : x3'[u] = "asking" => x3[u] = "asking",
             r.at = "done" =>
               /\ c.kind = "decide" => x3'[c.s] # "asking"
               /\ c.kind \in {"new", "list"} => r.got \in {None} \cup Members
               /\ c.kind = "select" => r.got \in BOOLEAN
      PROVE  Terminal!IInv'
  <2>1. /\ r.epoch <= x7' /\ x6'.session \in {None, x6.session}
        /\ r.kind \in {"select", "history", "fork"} /\ r.epoch = x7' /\ ~x13' =>
             x6'.session \in {None, r.s}
        /\ r.kind = "select" /\ r.epoch = x7' =>
             x9' = {} /\ c # None /\ c.kind = "select" /\ c.epoch = x7
    BY <1>1, <1>2, <1>4 DEF Terminal!CallOK
  <2>2. x11 <= x11' /\ i <= x11' /\ x11' \in 0..TerminalCalls /\ x7' \in Nat
    BY <1>1
  <2>3. /\ x10' \in [1..TerminalCalls -> {None} \cup Terminal!Requests]
        /\ \A j \in 1..TerminalCalls : Terminal!CallOK(j)'
    <3>. HIDE DEF c
    <3>1. /\ r \in {None} \cup Terminal!Requests /\ x7' = x7 /\ x13' = x13
          /\ x9 = {} => x9' = {}
      BY <1>1
    <3>2. /\ r.kind \notin {"new", "list"} => r.s \in Members
          /\ r.kind \in {"new", "list"} /\ r.at = "done" => r.got \in {None} \cup Members
          /\ r.kind = "select" /\ r.at = "done" => r.got \in BOOLEAN
          /\ r.kind = "decide" /\ r.at = "done" => x3'[r.s] # "asking"
      BY <1>3, <1>4
    <3>. QED  BY <1>4, <2>1, <2>2, <3>1, <3>2, TerminalCallsMove DEF c
  <2>4. Terminal!TypeOK'
    BY <1>1, <1>4, <2>3 DEF Terminal!IInv, Terminal!TypeOK
  <2>5. Terminal!ViewOK'
    BY <1>1 DEF Terminal!IInv, Terminal!ViewOK
  <2>. QED  BY <1>4, <2>3, <2>4, <2>5 DEF Terminal!IInv
<1>5. ASSUME NEW got \in Members \cup BOOLEAN \cup {None}, Terminal!Accepts(c),
             Terminal!Effect(c, got),
             NEW r \in Terminal!Requests, x10' = [x10 EXCEPT ![i] = r],
             r.kind = c.kind, r.s = c.s, r.epoch = c.epoch, r.at # "sent",
             r.at = "done" => r.got = got
      PROVE  Terminal!IInv'
  <2>1. /\ x1' \subseteq Members
        /\ x3' \in [Members -> {"idle", "running", "asking"}]
        /\ x4' \in [Members -> Nat] /\ x5' \in [Members -> Seq(Terminal!Events)]
        /\ Terminal!JournalTellsTurn' /\ \A k \in x9' : Terminal!SocketOK(k)'
        /\ \A u \in Members : x3'[u] = "asking" => x3[u] = "asking"
        /\ c.kind = "decide" => x3'[c.s] # "asking"
        /\ c.kind \in {"new", "list"} => got \in {None} \cup Members
        /\ c.kind = "select" => got \in BOOLEAN
    <3>. HIDE DEF c
    <3>. QED  BY <1>1, <1>3, <1>5, TerminalEffect
  <2>. QED  BY <1>4, <1>5, <2>1
<1>6. ASSUME NEW got \in Members \cup BOOLEAN \cup {None}, Terminal!Accepts(c),
             Terminal!Effect(c, got),
             x10' = [x10 EXCEPT ![i].at = "done", ![i].got = got]
      PROVE  Terminal!IInv'
  <2> DEFINE r1 == [c EXCEPT !.at = "done"]
             r == [r1 EXCEPT !.got = got]
  <2>1. r1 \in Terminal!Requests /\ r1.kind = c.kind /\ r1.s = c.s /\ r1.epoch = c.epoch
        /\ r1.at = "done"
    BY <1>1 DEF Terminal!Requests
  <2>2. x10' = [x10 EXCEPT ![i] = r]
    BY <1>6 DEF Terminal!IInv, Terminal!TypeOK
  <2>. HIDE DEF r1
  <2>3. /\ r \in Terminal!Requests /\ r.kind = c.kind /\ r.s = c.s /\ r.epoch = c.epoch
        /\ r.at = "done"
        /\ r.got = got
    BY <2>1 DEF Terminal!Requests
  <2>. HIDE DEF r, c
  <2>. QED  BY <1>5, <1>6, <2>2, <2>3
<1>7. ASSUME x10' = [x10 EXCEPT ![i].at = "failed"],
             \/ \E got \in Members \cup BOOLEAN \cup {None} : Terminal!Accepts(c)
                  /\ Terminal!Effect(c, got)
             \/ UNCHANGED Terminal!service
      PROVE  Terminal!IInv'
  <2> DEFINE r == [c EXCEPT !.at = "failed"]
  <2>1. r \in Terminal!Requests /\ r.kind = c.kind /\ r.s = c.s /\ r.epoch = c.epoch
        /\ r.at = "failed"
    BY <1>1 DEF Terminal!Requests
  <2>2. x10' = [x10 EXCEPT ![i] = r]
    BY <1>7 DEF Terminal!IInv, Terminal!TypeOK
  <2>. HIDE DEF r
  <2>3. CASE \E got \in Members \cup BOOLEAN \cup {None} : Terminal!Accepts(c)
             /\ Terminal!Effect(c, got)
    <3>. HIDE DEF c
    <3>. QED  BY <1>5, <2>1, <2>2, <2>3
  <2>4. CASE UNCHANGED Terminal!service
    <3>1. UNCHANGED <<x1, x3, x4, x5>>
      BY <2>4 DEF Terminal!service
    <3>2. /\ x1' \subseteq Members
          /\ x3' \in [Members -> {"idle", "running", "asking"}]
          /\ x4' \in [Members -> Nat] /\ x5' \in [Members -> Seq(Terminal!Events)]
          /\ \A u \in Members : x3'[u] = "asking" => x3[u] = "asking"
      BY <3>1 DEF Terminal!IInv, Terminal!TypeOK
    <3>3. Terminal!JournalTellsTurn'
      BY <3>1 DEF Terminal!IInv, Terminal!JournalTellsTurn
    <3>4. \A k \in x9' : Terminal!SocketOK(k)'
      <4>1. x6' = x6 /\ x6'.session \in {None, x6.session}
        BY <1>1
      <4>. QED  BY <1>1, <3>1, <4>1, TerminalSocketsStay
    <3>. HIDE DEF c
    <3>. QED  BY <1>4, <2>1, <2>2, <3>2, <3>3, <3>4
  <2>. QED  BY <1>7, <2>3, <2>4
<1>. QED  BY <1>6, <1>7 DEF Terminal!Serve

LEMMA TerminalRequest ==
  ASSUME x7 \in Nat, NEW kind \in Terminal!Kinds, NEW s \in {None} \cup Members, NEW n \in Nat
  PROVE  /\ Terminal!Request(kind, s, n) \in {r \in Terminal!Requests : r.kind = kind /\ r.s = s /\ r.n = n
                                                /\ r.at = "sent" /\ r.epoch = x7}
         /\ Terminal!Selection(s, n) \in {r \in Terminal!Requests : r.kind = "select" /\ r.s = s /\ r.n = n
                                                /\ r.at = "sent" /\ r.epoch = x7 + 1}
<1>1. Terminal!Request(kind, s, n) \in Terminal!Requests
  BY DEF Terminal!Request, Terminal!Requests
<1>2. Terminal!Request("select", s, n) \in Terminal!Requests
  BY DEF Terminal!Request, Terminal!Requests, Terminal!Kinds
<1>3. Terminal!Selection(s, n) = [Terminal!Request("select", s, n) EXCEPT !.epoch = x7 + 1]
  BY DEF Terminal!Selection
<1>4. Terminal!Selection(s, n) \in Terminal!Requests
  BY <1>2, <1>3 DEF Terminal!Requests
<1>. QED  BY <1>1, <1>4 DEF Terminal!Request, Terminal!Selection

(* A command or a reply that begins no selection: the sockets stay, and of    *)
(* the view only what no open question is about.                            *)
LEMMA TerminalMoves ==
  ASSUME Terminal!IInv, NEW i \in 1..TerminalCalls, NEW r \in {None} \cup Terminal!Requests,
         x10' = [x10 EXCEPT ![i] = r], x11' \in 0..TerminalCalls, x11 <= x11', i <= x11',
         UNCHANGED <<x7, x8, x9, x13, x1, x3, x4, x5>>,
         x6' \in Terminal!Views, Terminal!ViewOK', x6'.session \in {None, x6.session},
         \A u \in Members :
           x3[u] = "asking" /\ x6'.session = u => x6'.pending = x6.pending,
         r # None =>
           /\ r.at = "sent" /\ r.epoch = x7 /\ r.kind # "select"
           /\ r.kind \notin {"new", "list"} => r.s \in Members
           /\ r.kind \in {"history", "fork"} => x6'.session \in {None, r.s}
  PROVE  Terminal!IInv'
<1>1. x7' \in Nat /\ x7' = x7 /\ x13' = x13 /\ x9' = x9
  BY DEF Terminal!IInv, Terminal!TypeOK
<1>2. \A k \in x9' : Terminal!SocketOK(k)'
  BY TerminalSocketsStay
<1>3. \A u \in Members : x3'[u] = "asking" => x3[u] = "asking"
  OBVIOUS
<1>4. r # None =>
        /\ r.epoch <= x7' /\ r.at = "sent" /\ r.kind # "select"
        /\ r.kind \notin {"new", "list"} => r.s \in Members
        /\ r.kind \in {"select", "history", "fork"} => x6'.session \in {None, r.s}
  BY <1>1
<1>5. /\ x10' \in [1..TerminalCalls -> {None} \cup Terminal!Requests]
      /\ \A j \in 1..TerminalCalls : Terminal!CallOK(j)'
  BY <1>1, <1>3, <1>4, TerminalCallsMove
<1>6. Terminal!TypeOK'
  BY <1>5 DEF Terminal!IInv, Terminal!TypeOK
<1>7. Terminal!JournalTellsTurn'
  BY DEF Terminal!IInv, Terminal!JournalTellsTurn
<1>. QED  BY <1>2, <1>5, <1>6, <1>7 DEF Terminal!IInv

(* A new epoch: no socket of the old one is left.                           *)
LEMMA TerminalNewEpoch ==
  ASSUME Terminal!IInv, NEW i \in 1..TerminalCalls, NEW r \in {None} \cup Terminal!Requests,
         x10' = [x10 EXCEPT ![i] = r], x11' \in 0..TerminalCalls, x11 <= x11', i <= x11',
         x7' = x7 + 1, x9' = Terminal!Without(x8), x8' = None,
         UNCHANGED <<x13, x1, x3, x4, x5>>, x6' \in Terminal!Views, Terminal!ViewOK',
         r # None =>
           /\ r.at = "sent" /\ r.epoch = x7 + 1
           /\ r.kind \in {"select", "list"}
           /\ r.kind = "select" => r.s \in Members /\ (x13 \/ x6'.session = r.s)
  PROVE  Terminal!IInv'
<1>1. x7' \in Nat /\ x7' > x7
  BY DEF Terminal!IInv, Terminal!TypeOK
<1>2. x9' = {}
  BY DEF Terminal!Without, Terminal!IInv, Terminal!SocketOK
<1>3. \A u \in Members : x3'[u] = "asking" => x3[u] = "asking"
  OBVIOUS
<1>4. r # None =>
        /\ r.epoch <= x7' /\ r.at = "sent" /\ r.kind \in {"select", "list"}
        /\ r.kind \notin {"new", "list"} => r.s \in Members
        /\ r.kind \in {"select", "history", "fork"} /\ ~x13' => x6'.session \in {None, r.s}
  BY <1>1
<1>5. /\ x10' \in [1..TerminalCalls -> {None} \cup Terminal!Requests]
      /\ \A j \in 1..TerminalCalls : Terminal!CallOK(j)'
  BY <1>1, <1>2, <1>3, <1>4, TerminalCallsMove
<1>6. Terminal!TypeOK'
  BY <1>1, <1>2, <1>5 DEF Terminal!IInv, Terminal!TypeOK
<1>7. Terminal!JournalTellsTurn'
  BY DEF Terminal!IInv, Terminal!JournalTellsTurn
<1>. QED  BY <1>2, <1>5, <1>6, <1>7 DEF Terminal!IInv

LEMMA TerminalSelecting ==
  ASSUME Terminal!IInv, NEW s \in Members, NEW n, Terminal!Selecting(s, n)
  PROVE  /\ x7' = x7 + 1 /\ x9' = Terminal!Without(x8) /\ x8' = None
         /\ x6' \in Terminal!Views /\ Terminal!ViewOK' /\ (x13 \/ x6'.session = s)
<1>1. x6 \in Terminal!Views /\ Terminal!ViewOK
  BY DEF Terminal!IInv, Terminal!TypeOK
<1>2. Terminal!EmptyView \in Terminal!Views /\ Terminal!EmptyView.content = {}
      /\ Terminal!EmptyView.pending = None
  BY DEF Terminal!EmptyView, Terminal!Views
<1> DEFINE v == [Terminal!EmptyView EXCEPT !.session = s]
<1>3. v \in Terminal!Views /\ v.content = {} /\ v.pending = None /\ v.session = s
  BY <1>2 DEF Terminal!Views
<1>4. x6' = IF x13 THEN x6 ELSE v
  BY DEF Terminal!Selecting
<1>. HIDE DEF v
<1>5. x6' \in Terminal!Views /\ Terminal!ViewOK' /\ (x13 \/ x6'.session = s)
  BY <1>1, <1>3, <1>4 DEF Terminal!ViewOK
<1>. QED  BY <1>5 DEF Terminal!Selecting

(* What the user does. *)
LEMMA TerminalCommands ==
  ASSUME Terminal!IInv,
         \/ \E s \in Members : Terminal!Select(s)
         \/ Terminal!New \/ Terminal!Submit \/ Terminal!Interrupt
         \/ Terminal!Command("fork") \/ Terminal!Command("delete")
  PROVE  Terminal!IInv'
<1>1. x7 \in Nat /\ x6 \in Terminal!Views /\ Terminal!ViewOK /\ x11 \in 0..TerminalCalls
      /\ TerminalCalls \in Nat
  BY TerminalAssumption DEF Terminal!IInv, Terminal!TypeOK
<1>2. ASSUME NEW r \in Terminal!Requests, Terminal!Issue(r)
      PROVE  /\ x11 + 1 \in 1..TerminalCalls /\ x11' \in 0..TerminalCalls /\ x11 <= x11'
             /\ x11 + 1 <= x11'
             /\ x10' = [x10 EXCEPT ![x11 + 1] = r] /\ ~x13
             /\ UNCHANGED <<x1, x3, x4, x5>>
  BY <1>1, <1>2 DEF Terminal!Issue, Terminal!service
<1>3. ASSUME NEW r \in Terminal!Requests, Terminal!Issue(r), UNCHANGED <<x7, x8, x9, x13>>,
             x6' \in Terminal!Views, Terminal!ViewOK', x6'.session = x6.session,
             x6'.pending = x6.pending,
             r.at = "sent", r.epoch = x7, r.kind # "select",
             r.kind = "new" \/ (r.s \in Members /\ r.s = x6.session)
      PROVE  Terminal!IInv'
  <2>1. /\ x6'.session \in {None, x6.session}
        /\ \A u \in Members :
             x3[u] = "asking" /\ x6'.session = u => x6'.pending = x6.pending
        /\ r.kind \notin {"new", "list"} => r.s \in Members
        /\ r.kind \in {"history", "fork"} => x6'.session \in {None, r.s}
    BY <1>3
  <2>. QED  BY <1>2, <1>3, <2>1, TerminalMoves
<1>4. ASSUME NEW s \in Members, Terminal!Select(s) PROVE Terminal!IInv'
  <2>1. Terminal!Selection(s, 0) \in {r \in Terminal!Requests : r.kind = "select" /\ r.s = s /\ r.n = 0
                                                                  /\ r.at = "sent"
                                                                  /\ r.epoch = x7 + 1}
    BY <1>1, TerminalRequest DEF Terminal!Kinds
  <2>2. Terminal!Issue(Terminal!Selection(s, 0)) /\ Terminal!Selecting(s, 0) /\ UNCHANGED x13
    BY <1>4 DEF Terminal!Select
  <2>3. PICK r \in Terminal!Requests : r = Terminal!Selection(s, 0)
    BY <2>1
  <2>4. r.kind = "select" /\ r.s = s /\ r.at = "sent" /\ r.epoch = x7 + 1 /\ Terminal!Issue(r)
    BY <2>1, <2>2, <2>3
  <2>5. /\ x7' = x7 + 1 /\ x9' = Terminal!Without(x8) /\ x8' = None
        /\ x6' \in Terminal!Views /\ Terminal!ViewOK' /\ (x13 \/ x6'.session = s)
    BY <2>2, TerminalSelecting
  <2>. QED  BY <1>2, <2>2, <2>4, <2>5, TerminalNewEpoch
<1>5. ASSUME UNCHANGED Terminal!client, NEW kind \in Terminal!Kinds \ {"select"},
             NEW s \in {None} \cup Members,
             Terminal!Issue(Terminal!Request(kind, s, 0)),
             kind = "new" \/ (s # None /\ s = x6.session)
      PROVE  Terminal!IInv'
  <2>1. PICK r \in Terminal!Requests : /\ r = Terminal!Request(kind, s, 0) /\ r.kind = kind
                                       /\ r.s = s
                                       /\ r.at = "sent" /\ r.epoch = x7
    BY <1>1, TerminalRequest
  <2>2. UNCHANGED <<x7, x8, x9, x13, x6>>
    BY <1>5 DEF Terminal!client
  <2>3. x6' \in Terminal!Views /\ Terminal!ViewOK' /\ x6'.session = x6.session
        /\ x6'.pending = x6.pending
    BY <1>1, <2>2 DEF Terminal!ViewOK
  <2>4. Terminal!Issue(r) /\ (r.kind = "new" \/ (r.s \in Members /\ r.s = x6.session))
        /\ r.kind # "select"
    BY <1>5, <2>1
  <2>. QED  BY <1>3, <2>1, <2>2, <2>3, <2>4
<1>6. x6.session \in {None} \cup Members
  BY <1>1 DEF Terminal!Views
<1>7. CASE Terminal!New
  BY <1>5, <1>7 DEF Terminal!New, Terminal!Kinds
<1>8. CASE Terminal!Interrupt
  BY <1>5, <1>6, <1>8 DEF Terminal!Interrupt, Terminal!Kinds
<1>9. CASE Terminal!Command("fork") \/ Terminal!Command("delete")
  BY <1>5, <1>6, <1>9 DEF Terminal!Command, Terminal!Kinds
<1>10. CASE Terminal!Submit
  <2>1. x6.session \in Members /\ UNCHANGED <<x7, x8, x9, x13>>
    BY <1>6, <1>10 DEF Terminal!Submit
  <2>2. CASE /\ x6.pending # None /\ UNCHANGED x6
             /\ Terminal!Issue(Terminal!Request("decide", x6.session, x6.pending[2]))
    <3>1. x6.pending[2] \in Nat
      BY <1>1, <2>2 DEF Terminal!Views
    <3>2. PICK r \in Terminal!Requests : /\ r = Terminal!Request("decide", x6.session, x6.pending[2])
                                         /\ r.kind = "decide" /\ r.s = x6.session
                                         /\ r.at = "sent" /\ r.epoch = x7
      BY <1>1, <2>1, <3>1, TerminalRequest DEF Terminal!Kinds
    <3>3. x6' \in Terminal!Views /\ Terminal!ViewOK' /\ x6'.session = x6.session
          /\ x6'.pending = x6.pending
      BY <1>1, <2>2 DEF Terminal!ViewOK
    <3>4. Terminal!Issue(r)
      BY <2>2, <3>2
    <3>. QED  BY <1>3, <2>1, <3>2, <3>3, <3>4
  <2>3. CASE /\ Terminal!Issue(Terminal!Request("send", x6.session, 0))
             /\ x6' = [x6 EXCEPT !.busy = TRUE, !.content = @ \cup {x6.session}]
    <3>1. PICK r \in Terminal!Requests : /\ r = Terminal!Request("send", x6.session, 0)
                                         /\ r.kind = "send" /\ r.s = x6.session
                                         /\ r.at = "sent" /\ r.epoch = x7
      BY <1>1, <2>1, TerminalRequest DEF Terminal!Kinds
    <3> DEFINE v1 == [x6 EXCEPT !.busy = TRUE]
               v == [v1 EXCEPT !.content = @ \cup {x6.session}]
    <3>2. v1 \in Terminal!Views /\ v1.session = x6.session /\ v1.pending = x6.pending
          /\ v1.content = x6.content
      BY <1>1 DEF Terminal!Views
    <3>3. x6' = v
      BY <2>3
    <3>. HIDE DEF v1
    <3>4. v \in Terminal!Views /\ v.session = x6.session /\ v.pending = x6.pending
          /\ v.content = x6.content \cup {x6.session}
      BY <2>1, <3>2 DEF Terminal!Views
    <3>5. x6' \in Terminal!Views /\ Terminal!ViewOK' /\ x6'.session = x6.session
          /\ x6'.pending = x6.pending
      BY <1>1, <3>3, <3>4 DEF Terminal!ViewOK
    <3>6. Terminal!Issue(r)
      BY <2>3, <3>1
    <3>. QED  BY <1>3, <2>1, <3>1, <3>5, <3>6
  <2>. QED  BY <1>10, <2>2, <2>3 DEF Terminal!Submit
<1>. QED  BY <1>4, <1>7, <1>8, <1>9, <1>10

LEMMA TerminalClose == ASSUME Terminal!IInv, Terminal!Close PROVE Terminal!IInv'
<1>1. /\ x13' = TRUE /\ x7' = x7 + 1 /\ x9' = Terminal!Without(x8)
      /\ x8' = None /\ UNCHANGED <<x6, x10, x11>>
      /\ UNCHANGED <<x1, x3, x4, x5>>
  BY DEF Terminal!Close, Terminal!service
<1>2. x7' \in Nat /\ x7' > x7
  BY <1>1 DEF Terminal!IInv, Terminal!TypeOK
<1>3. x9' = {}
  BY <1>1 DEF Terminal!Without, Terminal!IInv, Terminal!SocketOK
<1>4. \A i \in 1..TerminalCalls : Terminal!CallOK(i)'
  BY <1>1, <1>2, TerminalCallsStay
<1>5. Terminal!TypeOK'
  BY <1>1, <1>2, <1>3 DEF Terminal!IInv, Terminal!TypeOK
<1>6. Terminal!JournalTellsTurn' /\ Terminal!ViewOK'
  BY <1>1 DEF Terminal!IInv, Terminal!JournalTellsTurn, Terminal!ViewOK
<1>. QED  BY <1>3, <1>4, <1>5, <1>6 DEF Terminal!IInv

(* A reply to the call i is heard: the parts of Hear.                        *)
LEMMA TerminalHearSelected ==
  ASSUME Terminal!IInv, NEW i \in 1..TerminalCalls, x10[i] # None, x10[i].at = "done",
         x10[i].kind = "select", Terminal!HearSelected(x10[i]), Terminal!Forget(i),
         UNCHANGED <<x11, x12, x13>>, UNCHANGED Terminal!service
  PROVE  Terminal!IInv'
<1> DEFINE c == x10[i]
<1>1. Terminal!CallOK(i) /\ c \in Terminal!Requests /\ x7 \in Nat
      /\ x11 \in 0..TerminalCalls /\ x6 \in Terminal!Views
  BY DEF Terminal!IInv, Terminal!TypeOK
<1>2. c.s \in Members /\ c.got \in BOOLEAN /\ i <= x11
  BY <1>1 DEF Terminal!CallOK
<1>3. /\ x10' = [x10 EXCEPT ![i] = None] /\ None \in {None} \cup Terminal!Requests
      /\ UNCHANGED <<x1, x3, x4, x5>>
      /\ x11' \in 0..TerminalCalls /\ x11 <= x11' /\ i <= x11'
  BY <1>1, <1>2 DEF Terminal!Forget, Terminal!service
<1>4. CASE ~Terminal!Current(c)
  <2>1. x6' = x6 /\ UNCHANGED <<x7, x8, x9>>
    BY <1>4 DEF Terminal!HearSelected, Terminal!KeepStream
  <2>2. /\ x6' \in Terminal!Views /\ Terminal!ViewOK' /\ x6'.session \in {None, x6.session}
        /\ \A u \in Members :
             x3[u] = "asking" /\ x6'.session = u => x6'.pending = x6.pending
    BY <1>1, <2>1 DEF Terminal!IInv, Terminal!ViewOK
  <2>. QED  BY <1>3, <2>1, <2>2, TerminalMoves
<1>5. CASE Terminal!Current(c)
  <2> DEFINE v1 == [x6 EXCEPT !.content = {c.s}]
             v == [v1 EXCEPT !.busy = c.got]
  <2>1. ~x13 /\ c.epoch = x7 /\ x9 = {} /\ x6.session \in {None, c.s}
    BY <1>1, <1>5 DEF Terminal!Current, Terminal!CallOK
  <2>2. PICK k \in Terminal!Sockets :
          /\ k = [s |-> c.s, epoch |-> c.epoch, up |-> FALSE, at |-> 0,
                  cursor |-> IF c.n = 1 THEN 0 ELSE None, again |-> 0]
          /\ k.s = c.s /\ k.epoch = x7 /\ k.up = FALSE /\ k.at = 0
          /\ k.cursor \in {None, 0} /\ k.again = 0
    <3> DEFINE new == [s |-> c.s, epoch |-> c.epoch, up |-> FALSE, at |-> 0,
                       cursor |-> IF c.n = 1 THEN 0 ELSE None, again |-> 0]
    <3>1. new \in Terminal!Sockets
      BY <1>1, <1>2, <2>1 DEF Terminal!Sockets
    <3>2. /\ new.s = c.s /\ new.epoch = x7 /\ new.up = FALSE /\ new.at = 0
          /\ new.cursor \in {None, 0} /\ new.again = 0
      BY <2>1
    <3>. QED  BY <3>1, <3>2
  <2>3. /\ x6' = v /\ x9' = x9 \cup {k} /\ x8' = c.epoch /\ x7' = x7
    BY <1>5, <2>2 DEF Terminal!HearSelected
  <2>4. x9' = {k} /\ x8' = x7 /\ x7' \in Nat
    BY <1>1, <2>1, <2>3
  <2>5. v1 \in Terminal!Views /\ v1.content = {c.s} /\ v1.session = x6.session
        /\ v1.pending = x6.pending
    BY <1>1, <1>2 DEF Terminal!Views
  <2>. HIDE DEF v1
  <2>6. v \in Terminal!Views /\ v.content = {c.s} /\ v.session = x6.session
        /\ v.pending = x6.pending
    BY <1>2, <2>5 DEF Terminal!Views
  <2>. HIDE DEF v
  <2>7. x6' \in Terminal!Views /\ Terminal!ViewOK' /\ x6'.session = x6.session
        /\ x6'.pending = x6.pending
    BY <2>1, <2>3, <2>6 DEF Terminal!IInv, Terminal!ViewOK
  <2>8. Terminal!SocketOK(k)'
    <3>1. /\ ~x13' /\ k.epoch = x7' /\ x8' = x7' /\ x9' = {k}
          /\ x6'.session \in {None, k.s}
      BY <2>1, <2>3, <2>2, <2>4, <2>7
    <3>2. x5'[k.s] \in Seq(Terminal!Events) /\ Len(x5'[k.s]) \in Nat
      <4>1. x5'[k.s] \in Seq(Terminal!Events)
        BY <1>2, <1>3, <2>2 DEF Terminal!IInv, Terminal!TypeOK
      <4>. QED  BY <4>1, LenProperties
    <3>3. x3'[k.s] = "asking" => Len(x5'[k.s]) # 0
      <4>1. x3'[k.s] = "asking" => x5'[k.s] # <<>>
        BY <1>2, <1>3, <2>2 DEF Terminal!IInv, Terminal!JournalTellsTurn
      <4>. QED  BY <3>2, <4>1, EmptySeq
    <3>4. k.at <= Len(x5'[k.s]) /\ (x3'[k.s] = "asking" => k.at < Len(x5'[k.s]))
      BY <2>2, <3>2, <3>3
    <3>5. k.cursor # None => k.cursor <= Len(x5'[k.s]) /\ k.again = 0 /\ k.up = FALSE
      BY <2>2, <3>2
    <3>6. x3'[k.s] = "asking" => k.cursor # Len(x5'[k.s])
      BY <2>2, <3>2, <3>3, TerminalAssumption
    <3>. QED  BY ONLY <2>2, <3>1, <3>4, <3>5, <3>6 DEF Terminal!SocketOK
  <2>9. \A u \in Members : x3'[u] = "asking" => x3[u] = "asking"
    BY <1>3
  <2>10. /\ x10' \in [1..TerminalCalls -> {None} \cup Terminal!Requests]
         /\ \A j \in 1..TerminalCalls : Terminal!CallOK(j)'
    <3>1. /\ x7' = x7 /\ x13' = x13 /\ x6'.session \in {None, x6.session}
          /\ x10[i] # None /\ x10[i].kind = "select" /\ x10[i].epoch = x7
      BY <2>1, <2>3, <2>7
    <3>. HIDE DEF c
    <3>. QED  BY <1>3, <2>4, <2>9, <3>1, TerminalCallsMove
  <2>11. Terminal!TypeOK'
    <3>1. x9' \subseteq Terminal!Sockets /\ x8' \in {None} \cup Nat
      BY <1>1, <2>2, <2>4
    <3>. QED  BY <1>3, <2>4, <2>7, <2>10, <3>1 DEF Terminal!IInv, Terminal!TypeOK
  <2>12. Terminal!JournalTellsTurn'
    BY <1>3 DEF Terminal!IInv, Terminal!JournalTellsTurn
  <2>13. \A l \in x9' : Terminal!SocketOK(l)'
    BY <2>4, <2>8
  <2>. QED  BY <2>7, <2>10, <2>11, <2>12, <2>13 DEF Terminal!IInv
<1>. QED  BY <1>4, <1>5

LEMMA TerminalHear ==
  ASSUME Terminal!IInv, NEW i \in 1..TerminalCalls, Terminal!Hear(i)
  PROVE  Terminal!IInv'
<1> DEFINE c == x10[i]
<1>1. /\ Terminal!CallOK(i) /\ c \in Terminal!Requests /\ c # None /\ x7 \in Nat
      /\ x11 \in 0..TerminalCalls
      /\ x6 \in Terminal!Views /\ Terminal!ViewOK
  BY DEF Terminal!Hear, Terminal!IInv, Terminal!TypeOK
<1>2. /\ i <= x11 /\ x11' \in 0..TerminalCalls /\ x11 <= x11' /\ i <= x11'
      /\ UNCHANGED <<x13, x1, x3, x4, x5>> /\ UNCHANGED Terminal!service
      /\ UNCHANGED <<x11, x12, x13>>
  BY <1>1 DEF Terminal!Hear, Terminal!CallOK, Terminal!service
<1>3. c.kind \notin {"new", "list"} => c.s \in Members
  BY <1>1 DEF Terminal!CallOK
<1>4. ASSUME Terminal!KeepStream, NEW r \in {None} \cup Terminal!Requests,
             x10' = [x10 EXCEPT ![i] = r],
             x6' \in Terminal!Views, Terminal!ViewOK', x6'.session \in {None, x6.session},
             \A u \in Members :
               x3[u] = "asking" /\ x6'.session = u => x6'.pending = x6.pending,
             r # None => r.at = "sent" /\ r.epoch = x7 /\ r.kind = "new"
      PROVE  Terminal!IInv'
  <2>1. UNCHANGED <<x7, x8, x9, x13, x1, x3, x4, x5>>
    BY <1>2, <1>4 DEF Terminal!KeepStream
  <2>2. r # None =>
           /\ r.at = "sent" /\ r.epoch = x7 /\ r.kind # "select"
           /\ r.kind \notin {"new", "list"} => r.s \in Members
           /\ r.kind \in {"history", "fork"} => x6'.session \in {None, r.s}
    BY <1>4
  <2>. HIDE DEF c
  <2>. QED  BY <1>2, <1>4, <2>1, <2>2, TerminalMoves
<1>5. ASSUME Terminal!KeepStream, Terminal!Forget(i), NEW v \in Terminal!Views,
             v.session = x6.session,
             \/ v.pending = x6.pending
             \/ v.pending = None /\ x6.session \in Members /\ x3[x6.session] # "asking",
             v.content = x6.content \/ x6.session = None \/ v.content = {x6.session},
             x6' = v \/ x6' = x6
      PROVE  Terminal!IInv'
  <2>1. x10' = [x10 EXCEPT ![i] = None] /\ None \in {None} \cup Terminal!Requests
    BY <1>5 DEF Terminal!Forget
  <2>2. x6' \in Terminal!Views /\ x6'.session \in {None, x6.session}
    BY <1>1, <1>5
  <2>3. Terminal!ViewOK'
    BY <1>1, <1>5 DEF Terminal!ViewOK
  <2>4. \A u \in Members :
          x3[u] = "asking" /\ x6'.session = u => x6'.pending = x6.pending
    BY <1>5
  <2>. HIDE DEF c
  <2>. QED  BY <1>4, <1>5, <2>1, <2>2, <2>3, <2>4
<1>6. CASE c.at = "failed" /\ Terminal!HearError(c) /\ Terminal!Forget(i)
  <2> DEFINE v == [x6 EXCEPT !.busy = FALSE]
  <2>1. v \in Terminal!Views /\ v.session = x6.session /\ v.pending = x6.pending
        /\ v.content = x6.content
    BY <1>1 DEF Terminal!Views
  <2>2. Terminal!KeepStream /\ (x6' = v \/ x6' = x6)
    BY <1>6 DEF Terminal!HearError, Terminal!Update
  <2>. HIDE DEF v, c
  <2>. QED  BY <1>5, <1>6, <2>1, <2>2
<1>7. CASE c.at = "done" /\ c.kind = "select" /\ Terminal!HearSelected(c) /\ Terminal!Forget(i)
  BY <1>1, <1>2, <1>7, TerminalHearSelected
<1>8. CASE /\ c.at = "done" /\ UNCHANGED x6 /\ Terminal!KeepStream /\ Terminal!Forget(i)
  BY <1>1, <1>5, <1>8
<1>9. CASE /\ c.at = "done" /\ c.kind \in {"new", "list"} /\ ~Terminal!Disposed(c)
           /\ c.got # None
           /\ Terminal!Selecting(c.got, IF c.kind = "new" THEN 1 ELSE 0)
           /\ x10' = [x10 EXCEPT ![i] =
                        Terminal!Selection(c.got, IF c.kind = "new" THEN 1 ELSE 0)]
  <2> DEFINE n == IF c.kind = "new" THEN 1 ELSE 0
             s == c.got
  <2>1. s \in Members /\ n \in Nat
    BY <1>1, <1>9 DEF Terminal!CallOK
  <2>2. PICK r \in Terminal!Requests : r = Terminal!Selection(s, n) /\ r.kind = "select"
                                       /\ r.s = s
                                       /\ r.at = "sent" /\ r.epoch = x7 + 1
    <3>. HIDE DEF c, n, s
    <3>. QED  BY <1>1, <2>1, TerminalRequest DEF Terminal!Kinds
  <2>3. x10' = [x10 EXCEPT ![i] = r] /\ Terminal!Selecting(s, n)
    BY <1>9, <2>2
  <2>. HIDE DEF n, s, c
  <2>4. /\ x7' = x7 + 1 /\ x9' = Terminal!Without(x8) /\ x8' = None
        /\ x6' \in Terminal!Views /\ Terminal!ViewOK' /\ (x13 \/ x6'.session = s)
    BY <2>1, <2>3, TerminalSelecting
  <2>. QED  BY <1>2, <2>1, <2>2, <2>3, <2>4, TerminalNewEpoch
<1>10. CASE /\ c.at = "done" /\ Terminal!KeepStream
            /\ \/ x6' = x6
               \/ x6' = IF x13 THEN x6 ELSE Terminal!EmptyView
            /\ x10' = [x10 EXCEPT ![i] = Terminal!Request("new", None, 0)]
  <2>1. PICK r \in Terminal!Requests : r = Terminal!Request("new", None, 0) /\ r.kind = "new"
                                       /\ r.at = "sent" /\ r.epoch = x7
    <3>. HIDE DEF c
    <3>. QED  BY <1>1, TerminalRequest DEF Terminal!Kinds
  <2>2. Terminal!EmptyView \in Terminal!Views /\ Terminal!EmptyView.session = None
    BY DEF Terminal!EmptyView, Terminal!Views
  <2>3. x6' = x6 \/ x6' = Terminal!EmptyView
    BY <1>10
  <2>4. x6' \in Terminal!Views /\ Terminal!ViewOK' /\ x6'.session \in {None, x6.session}
    BY <1>1, <2>2, <2>3 DEF Terminal!ViewOK
  <2>5. \A u \in Members :
          x3[u] = "asking" /\ x6'.session = u => x6'.pending = x6.pending
    BY <2>2, <2>3, TerminalAssumption
  <2>6. x10' = [x10 EXCEPT ![i] = r] /\ r \in {None} \cup Terminal!Requests
    BY <1>10, <2>1
  <2>. HIDE DEF c
  <2>. QED  BY <1>4, <1>10, <2>1, <2>4, <2>5, <2>6
<1>11. CASE /\ c.at = "done" /\ c.kind = "delete" /\ Terminal!HearDeleted
            /\ x10' = [x10 EXCEPT ![i] = [Terminal!Request("list", None, 1) EXCEPT !.epoch = x7']]
  <2>1. /\ x7' = x7 + 1 /\ x6' = x6 /\ x9' = Terminal!Without(x8)
        /\ x8' = None
    BY <1>11 DEF Terminal!HearDeleted
  <2>2. PICK q \in Terminal!Requests : q = Terminal!Request("list", None, 1)
                                       /\ q.kind = "list" /\ q.at = "sent"
    <3>. HIDE DEF c
    <3>1. "list" \in Terminal!Kinds /\ None \in {None} \cup Members /\ 1 \in Nat
      BY DEF Terminal!Kinds
    <3>2. Terminal!Request("list", None, 1) \in {r \in Terminal!Requests : r.kind = "list" /\ r.s = None /\ r.n = 1
                                                                         /\ r.at = "sent"
                                                                         /\ r.epoch = x7}
      BY <1>1, <3>1, TerminalRequest
    <3>. QED  BY <3>2
  <2> DEFINE r == [q EXCEPT !.epoch = x7']
  <2>3. r \in Terminal!Requests /\ r.kind = "list" /\ r.at = "sent" /\ r.epoch = x7 + 1
    BY <1>1, <2>1, <2>2 DEF Terminal!Requests
  <2>4. x10' = [x10 EXCEPT ![i] = r]
    BY <1>11, <2>2
  <2>5. x6' \in Terminal!Views /\ Terminal!ViewOK'
    BY <1>1, <2>1 DEF Terminal!ViewOK
  <2>. HIDE DEF r, c
  <2>. QED  BY <1>2, <2>1, <2>3, <2>4, <2>5, TerminalNewEpoch
<1>12. CASE /\ c.at = "done" /\ c.kind \in {"fork", "history"} /\ Terminal!KeepStream
            /\ Terminal!Forget(i)
            /\ x6' = IF Terminal!Current(c)
                     THEN [x6 EXCEPT !.content = {c.s},
                                     !.busy = IF c.kind = "fork" THEN FALSE ELSE @]
                     ELSE x6
  <2> DEFINE v1 == [x6 EXCEPT !.content = {c.s}]
             b == IF c.kind = "fork" THEN FALSE ELSE x6.busy
             v == [v1 EXCEPT !.busy = b]
  <2>1. c.s \in Members
    BY <1>3, <1>12
  <2>2. v1 \in Terminal!Views /\ v1.content = {c.s} /\ v1.session = x6.session
        /\ v1.pending = x6.pending
        /\ v1.busy = x6.busy
    BY <1>1, <2>1 DEF Terminal!Views
  <2>3. b \in BOOLEAN
    BY <1>1 DEF Terminal!Views
  <2>4. x6' = IF Terminal!Current(c) THEN v ELSE x6
    BY <1>12
  <2>. HIDE DEF v1, b
  <2>5. v \in Terminal!Views /\ v.content = {c.s} /\ v.session = x6.session
        /\ v.pending = x6.pending
    BY <2>2, <2>3 DEF Terminal!Views
  <2>6. Terminal!Current(c) => x6.session \in {None, c.s}
    BY <1>1, <1>12 DEF Terminal!Current, Terminal!CallOK
  <2>. HIDE DEF v
  <2>7. CASE Terminal!Current(c)
    <3>1. x6' = v /\ (x6.session = None \/ v.content = {x6.session})
      BY <2>4, <2>5, <2>6, <2>7
    <3>. QED  BY <1>5, <1>12, <2>5, <3>1
  <2>8. CASE ~Terminal!Current(c)
    BY <1>1, <1>5, <1>12, <2>4, <2>8
  <2>. QED  BY <2>7, <2>8
<1>13. CASE /\ c.at = "done" /\ c.kind = "decide" /\ Terminal!KeepStream /\ Terminal!Forget(i)
            /\ Terminal!Update(IF c.s = x6.session THEN [x6 EXCEPT !.pending = None] ELSE x6)
  <2> DEFINE v == [x6 EXCEPT !.pending = None]
  <2>1. v \in Terminal!Views /\ v.content = x6.content /\ v.session = x6.session
        /\ v.pending = None
    BY <1>1 DEF Terminal!Views
  <2>2. c.s \in Members /\ x3[c.s] # "asking"
    BY <1>1, <1>13 DEF Terminal!CallOK
  <2>3. (x6' = v /\ c.s = x6.session) \/ x6' = x6
    BY <1>13 DEF Terminal!Update
  <2>. HIDE DEF v
  <2>4. CASE x6' = v /\ c.s = x6.session
    BY <1>5, <1>13, <2>1, <2>2, <2>4
  <2>5. CASE x6' = x6
    BY <1>1, <1>5, <1>13, <2>5
  <2>. QED  BY <2>3, <2>4, <2>5
<1>. QED
  BY <1>6, <1>7, <1>8, <1>9, <1>10, <1>11, <1>12, <1>13 DEF Terminal!Hear, Terminal!Update

(* What an event makes of the view of its own session. *)
LEMMA TerminalProjects ==
  ASSUME NEW v \in Terminal!Views, NEW s \in Members, NEW e \in Terminal!Events,
         v.session \in {None, s},
         v.session # None => /\ v.content \subseteq {v.session}
                             /\ v.pending # None => v.pending[1] = v.session
  PROVE  LET w == Terminal!Projected(v, s, e) IN
         /\ w \in Terminal!Views /\ w.session = v.session
         /\ w.session # None => /\ w.content \subseteq {w.session}
                                /\ w.pending # None => w.pending[1] = w.session
         /\ e.kind = "asked" => w.pending = <<s, e.n>>
<1> DEFINE w == Terminal!Projected(v, s, e)
<1>1. e.kind \in {"started", "text", "asked", "finished"} /\ e.n \in Nat
  BY DEF Terminal!Events
<1>2. CASE e.kind = "started"
  <2>1. w = [v EXCEPT !.busy = TRUE]
    BY <1>2 DEF Terminal!Projected
  <2>. HIDE DEF w
  <2>2. w \in Terminal!Views /\ w.session = v.session /\ w.content = v.content
        /\ w.pending = v.pending
    BY <2>1 DEF Terminal!Views
  <2>. QED  BY <1>2, <2>2 DEF w
<1>3. CASE e.kind = "text"
  <2>1. w = [v EXCEPT !.content = @ \cup {s}]
    BY <1>3 DEF Terminal!Projected
  <2>. HIDE DEF w
  <2>2. /\ w \in Terminal!Views /\ w.session = v.session /\ w.content = v.content \cup {s}
        /\ w.pending = v.pending
    BY <2>1 DEF Terminal!Views
  <2>. QED  BY <1>3, <2>2 DEF w
<1>4. CASE e.kind = "asked"
  <2>1. w = [v EXCEPT !.pending = <<s, e.n>>]
    BY <1>4 DEF Terminal!Projected
  <2>. HIDE DEF w
  <2>2. /\ w \in Terminal!Views /\ w.session = v.session /\ w.content = v.content
        /\ w.pending = <<s, e.n>>
    BY <1>1, <2>1 DEF Terminal!Views
  <2>3. w.pending[1] = s
    BY <2>2
  <2>. QED  BY <1>4, <2>2, <2>3 DEF w
<1>5. CASE e.kind = "finished"
  <2> DEFINE v1 == [v EXCEPT !.busy = FALSE]
  <2>1. w = [v1 EXCEPT !.pending = None]
    BY <1>5 DEF Terminal!Projected
  <2>2. v1 \in Terminal!Views /\ v1.session = v.session /\ v1.content = v.content
    BY DEF Terminal!Views
  <2>. HIDE DEF w, v1
  <2>3. w \in Terminal!Views /\ w.session = v.session /\ w.content = v.content
        /\ w.pending = None
    BY <2>1, <2>2 DEF Terminal!Views
  <2>. QED  BY <1>5, <2>3 DEF w
<1>. QED  BY <1>1, <1>2, <1>3, <1>4, <1>5

(* The socket moves on. *)
LEMMA TerminalSocket ==
  ASSUME Terminal!IInv, NEW k \in x9, NEW l \in Terminal!Sockets, Terminal!Replace(k, l),
         l.s = k.s, l.epoch = k.epoch,
         UNCHANGED <<x7, x8, x13, x1, x3, x4, x5>>,
         x6' \in Terminal!Views, Terminal!ViewOK', x6'.session = x6.session,
         l.at <= Len(x5[l.s]),
         l.cursor # None => /\ l.cursor <= Len(x5[l.s]) /\ l.again = 0
                            /\ l.up => l.at = l.cursor,
         ~l.up => l.again = 0,
         x3[l.s] = "asking" =>
           /\ l.up /\ l.cursor = None => l.at < Len(x5[l.s])
           /\ l.cursor = Len(x5[l.s]) /\ x6'.session = l.s =>
                x6'.pending = <<l.s, x4[l.s]>>,
         x11' \in 0..TerminalCalls,
         x10' \in [1..TerminalCalls -> {None} \cup Terminal!Requests],
         \A j \in 1..TerminalCalls : Terminal!CallOK(j)'
  PROVE  Terminal!IInv'
<1>1. /\ ~x13 /\ k.epoch = x7 /\ x8 = x7 /\ x9 = {k}
      /\ x6.session \in {None, k.s}
  BY DEF Terminal!IInv, Terminal!SocketOK
<1>2. x9' = {l}
  BY <1>1 DEF Terminal!Replace
<1>3. Terminal!SocketOK(l)'
  BY <1>1, <1>2 DEF Terminal!SocketOK
<1>4. \A m \in x9' : Terminal!SocketOK(m)'
  BY <1>2, <1>3
<1>5. x9' \subseteq Terminal!Sockets
  BY <1>2
<1>6. Terminal!TypeOK'
  BY <1>5 DEF Terminal!IInv, Terminal!TypeOK
<1>7. Terminal!JournalTellsTurn'
  BY DEF Terminal!IInv, Terminal!JournalTellsTurn
<1>. QED  BY <1>4, <1>6, <1>7 DEF Terminal!IInv

LEMMA TerminalStreams ==
  ASSUME Terminal!IInv, NEW k \in x9,
         Terminal!Opens(k) \/ Terminal!Deliver(k) \/ Terminal!Drop(k) \/ Terminal!Reset(k)
  PROVE  Terminal!IInv'
<1>1. /\ Terminal!SocketOK(k) /\ k \in Terminal!Sockets /\ x7 \in Nat
      /\ x6 \in Terminal!Views /\ Terminal!ViewOK
      /\ x11 \in 0..TerminalCalls /\ x10 \in [1..TerminalCalls -> {None} \cup Terminal!Requests]
      /\ k.s \in Members /\ x5[k.s] \in Seq(Terminal!Events)
  BY DEF Terminal!IInv, Terminal!TypeOK, Terminal!Sockets
<1>2. /\ ~x13 /\ k.epoch = x7 /\ x6.session \in {None, k.s} /\ x9 = {k}
      /\ k.at <= Len(x5[k.s]) /\ (~k.up => k.again = 0)
      /\ k.cursor # None => /\ k.cursor <= Len(x5[k.s]) /\ k.again = 0
                            /\ k.up => k.at = k.cursor
  BY <1>1 DEF Terminal!SocketOK
<1>3. x3[k.s] = "asking" =>
        /\ k.up /\ k.cursor = None => k.at < Len(x5[k.s])
        /\ k.cursor = Len(x5[k.s]) /\ x6.session = k.s =>
             x6.pending = <<k.s, x4[k.s]>>
  BY <1>1 DEF Terminal!SocketOK
<1>4. /\ Len(x5[k.s]) \in Nat /\ k.at \in Nat /\ k.cursor \in {None} \cup Nat
      /\ k.again \in Nat /\ k.up \in BOOLEAN
  <2>1. Len(x5[k.s]) \in Nat
    BY <1>1, LenProperties
  <2>. QED  BY <1>1, <2>1 DEF Terminal!Sockets
<1>5. ASSUME x10' = x10, x11' = x11, x9' # {},
             UNCHANGED <<x7, x13, x3, x4, x5>>, x6'.session = x6.session
      PROVE  /\ x11' \in 0..TerminalCalls
             /\ x10' \in [1..TerminalCalls -> {None} \cup Terminal!Requests]
             /\ \A j \in 1..TerminalCalls : Terminal!CallOK(j)'
  <2>1. x7' \in Nat
    BY <1>1, <1>5
  <2>2. x9 = {} => x9' = {}
    BY <1>2
  <2>3. \A u \in Members : x3'[u] = "asking" => x3[u] = "asking" \/ ~Terminal!Deciding(u)
    BY <1>5
  <2>4. \A j \in 1..TerminalCalls : Terminal!CallOK(j)'
    BY <1>5, <2>1, <2>2, <2>3, TerminalCallsStay
  <2>. QED  BY <1>1, <1>5, <2>4
<1>6. CASE Terminal!Opens(k) /\ k.cursor # None
  <2> DEFINE m == [k EXCEPT !.up = TRUE]
  <2>1. m \in Terminal!Sockets /\ m.up = TRUE /\ m.s = k.s /\ m.epoch = k.epoch
        /\ m.cursor = k.cursor
        /\ m.again = k.again
    BY <1>1 DEF Terminal!Sockets
  <2>. HIDE DEF m
  <2>2. PICK l \in Terminal!Sockets : /\ l = [m EXCEPT !.at = k.cursor]
                                      /\ l.up = TRUE /\ l.s = k.s /\ l.epoch = k.epoch
                                      /\ l.cursor = k.cursor /\ l.again = k.again
                                      /\ l.at = k.cursor
    <3>1. k.cursor \in Nat
      BY <1>4, <1>6
    <3> DEFINE new == [m EXCEPT !.at = k.cursor]
    <3>2. /\ new \in Terminal!Sockets /\ new.up = TRUE /\ new.s = k.s /\ new.epoch = k.epoch
          /\ new.cursor = k.cursor /\ new.again = k.again /\ new.at = k.cursor
      BY <2>1, <3>1 DEF Terminal!Sockets
    <3>. QED  BY <3>2
  <2>3. Terminal!Replace(k, l) /\ Terminal!KeepClient /\ UNCHANGED <<x6, x10>>
    BY <1>6, <2>2 DEF Terminal!Opens, m
  <2>4. UNCHANGED <<x7, x8, x11, x13, x1, x3, x4, x5, x6, x10>>
    BY <2>3 DEF Terminal!KeepClient, Terminal!service
  <2>5. x9' # {}
    BY <2>3 DEF Terminal!Replace
  <2>6. x6' \in Terminal!Views /\ Terminal!ViewOK' /\ x6'.session = x6.session
    BY <1>1, <2>4 DEF Terminal!ViewOK
  <2>7. /\ x11' \in 0..TerminalCalls
        /\ x10' \in [1..TerminalCalls -> {None} \cup Terminal!Requests]
        /\ \A j \in 1..TerminalCalls : Terminal!CallOK(j)'
    BY <1>5, <2>4, <2>5
  <2>8. /\ l.at <= Len(x5[l.s]) /\ (~l.up => l.again = 0)
        /\ l.cursor # None => /\ l.cursor <= Len(x5[l.s]) /\ l.again = 0
                              /\ l.up => l.at = l.cursor
    BY <1>2, <1>6, <2>2
  <2>9. x3[l.s] = "asking" =>
          /\ l.up /\ l.cursor = None => l.at < Len(x5[l.s])
          /\ l.cursor = Len(x5[l.s]) /\ x6'.session = l.s =>
               x6'.pending = <<l.s, x4[l.s]>>
    BY <1>3, <1>6, <2>2, <2>4
  <2>. QED  BY <2>2, <2>3, <2>4, <2>6, <2>7, <2>8, <2>9, TerminalSocket
<1>7. CASE Terminal!Opens(k) /\ k.cursor = None
  <2>1. /\ Terminal!Begins(k.s) \in Nat /\ Terminal!Begins(k.s) <= Len(x5[k.s])
        /\ x3[k.s] = "asking" => Terminal!Begins(k.s) < Len(x5[k.s])
    <3>1. CASE x3[k.s] = "idle"
      BY <1>4, <3>1 DEF Terminal!Begins
    <3>2. CASE x3[k.s] # "idle"
      <4>1. \E n \in 0..Len(x5[k.s]) - 1 :
              /\ x5[k.s][n + 1].kind = "started"
              /\ \A m \in n + 2..Len(x5[k.s]) : x5[k.s][m].kind # "started"
        BY <1>1, <3>2 DEF Terminal!IInv, Terminal!JournalTellsTurn
      <4>2. Terminal!Begins(k.s) \in 0..Len(x5[k.s]) - 1
        BY <3>2, <4>1 DEF Terminal!Begins
      <4>. QED  BY <1>4, <4>2
    <3>. QED  BY <3>1, <3>2
  <2>2. Terminal!OpenQuestion(k.s) \in Nat
    BY <1>1 DEF Terminal!OpenQuestion, Terminal!IInv, Terminal!TypeOK
  <2> DEFINE m == [k EXCEPT !.up = TRUE]
             o == [m EXCEPT !.at = Terminal!Begins(k.s)]
  <2>3. m \in Terminal!Sockets /\ m.up = TRUE /\ m.s = k.s /\ m.epoch = k.epoch
        /\ m.cursor = k.cursor
    BY <1>1 DEF Terminal!Sockets
  <2>. HIDE DEF m
  <2>4. o \in Terminal!Sockets /\ o.up = TRUE /\ o.s = k.s /\ o.epoch = k.epoch
        /\ o.cursor = k.cursor
        /\ o.at = Terminal!Begins(k.s)
    BY <2>1, <2>3 DEF Terminal!Sockets
  <2>. HIDE DEF o
  <2>5. PICK l \in Terminal!Sockets : /\ l = [o EXCEPT !.again = Terminal!OpenQuestion(k.s)]
                                      /\ l.up = TRUE /\ l.s = k.s /\ l.epoch = k.epoch
                                      /\ l.cursor = k.cursor /\ l.at = Terminal!Begins(k.s)
    <3> DEFINE new == [o EXCEPT !.again = Terminal!OpenQuestion(k.s)]
    <3>1. /\ new \in Terminal!Sockets /\ new.up = TRUE /\ new.s = k.s /\ new.epoch = k.epoch
          /\ new.cursor = k.cursor /\ new.at = Terminal!Begins(k.s)
      BY <2>2, <2>4 DEF Terminal!Sockets
    <3>. QED  BY <3>1
  <2>6. Terminal!Replace(k, l) /\ Terminal!KeepClient /\ UNCHANGED <<x6, x10>>
    BY <1>7, <2>5 DEF Terminal!Opens, m, o
  <2>7. UNCHANGED <<x7, x8, x11, x13, x1, x3, x4, x5, x6, x10>>
    BY <2>6 DEF Terminal!KeepClient, Terminal!service
  <2>8. x9' # {}
    BY <2>6 DEF Terminal!Replace
  <2>9. x6' \in Terminal!Views /\ Terminal!ViewOK' /\ x6'.session = x6.session
    BY <1>1, <2>7 DEF Terminal!ViewOK
  <2>10. /\ x11' \in 0..TerminalCalls
         /\ x10' \in [1..TerminalCalls -> {None} \cup Terminal!Requests]
         /\ \A j \in 1..TerminalCalls : Terminal!CallOK(j)'
    BY <1>5, <2>7, <2>8
  <2>11. /\ l.at <= Len(x5[l.s]) /\ (~l.up => l.again = 0) /\ l.cursor = None
         /\ x3[l.s] = "asking" => l.at < Len(x5[l.s])
    BY <1>7, <2>1, <2>5
  <2>12. l.cursor # Len(x5[l.s])
    BY <1>4, <2>5, <2>11, TerminalAssumption
  <2>. QED  BY <2>5, <2>6, <2>7, <2>9, <2>10, <2>11, <2>12, TerminalSocket
<1>8. CASE Terminal!Drop(k)
  <2> DEFINE m == [k EXCEPT !.up = FALSE]
             o == [m EXCEPT !.at = 0]
  <2>1. m \in Terminal!Sockets /\ m.up = FALSE /\ m.s = k.s /\ m.epoch = k.epoch
        /\ m.cursor = k.cursor
    BY <1>1 DEF Terminal!Sockets
  <2>. HIDE DEF m
  <2>2. o \in Terminal!Sockets /\ o.up = FALSE /\ o.s = k.s /\ o.epoch = k.epoch
        /\ o.cursor = k.cursor
        /\ o.at = 0
    BY <2>1 DEF Terminal!Sockets
  <2>. HIDE DEF o
  <2>3. PICK l \in Terminal!Sockets : /\ l = [o EXCEPT !.again = 0]
                                      /\ l.up = FALSE /\ l.s = k.s /\ l.epoch = k.epoch
                                      /\ l.cursor = k.cursor /\ l.at = 0 /\ l.again = 0
    <3> DEFINE new == [o EXCEPT !.again = 0]
    <3>1. /\ new \in Terminal!Sockets /\ new.up = FALSE /\ new.s = k.s /\ new.epoch = k.epoch
          /\ new.cursor = k.cursor /\ new.at = 0 /\ new.again = 0
      BY <2>2 DEF Terminal!Sockets
    <3>. QED  BY <3>1
  <2>4. /\ Terminal!Replace(k, l)
        /\ UNCHANGED <<x7, x8, x11, x13, x1, x3, x4, x5, x6, x10>>
    BY <1>8, <2>3 DEF Terminal!Drop, Terminal!service, m, o
  <2>5. x9' # {}
    BY <2>4 DEF Terminal!Replace
  <2>6. x6' \in Terminal!Views /\ Terminal!ViewOK' /\ x6'.session = x6.session
    BY <1>1, <2>4 DEF Terminal!ViewOK
  <2>7. /\ x11' \in 0..TerminalCalls
        /\ x10' \in [1..TerminalCalls -> {None} \cup Terminal!Requests]
        /\ \A j \in 1..TerminalCalls : Terminal!CallOK(j)'
    BY <1>5, <2>4, <2>5
  <2>8. /\ l.at <= Len(x5[l.s]) /\ (~l.up => l.again = 0)
        /\ l.cursor # None => /\ l.cursor <= Len(x5[l.s]) /\ l.again = 0
                              /\ l.up => l.at = l.cursor
    BY <1>2, <1>4, <2>3
  <2>9. x3[l.s] = "asking" =>
          /\ l.up /\ l.cursor = None => l.at < Len(x5[l.s])
          /\ l.cursor = Len(x5[l.s]) /\ x6'.session = l.s =>
               x6'.pending = <<l.s, x4[l.s]>>
    BY <1>3, <2>3, <2>4
  <2>. QED  BY <2>3, <2>4, <2>6, <2>7, <2>8, <2>9, TerminalSocket
<1>9. CASE Terminal!Deliver(k) /\ k.again > 0
  <2>1. PICK l \in Terminal!Sockets : /\ l = [k EXCEPT !.again = 0]
                                      /\ l.up = k.up /\ l.s = k.s /\ l.epoch = k.epoch
                                      /\ l.cursor = k.cursor /\ l.at = k.at /\ l.again = 0
    <3> DEFINE new == [k EXCEPT !.again = 0]
    <3>1. /\ new \in Terminal!Sockets /\ new.up = k.up /\ new.s = k.s /\ new.epoch = k.epoch
          /\ new.cursor = k.cursor /\ new.at = k.at /\ new.again = 0
      BY <1>1 DEF Terminal!Sockets
    <3>. QED  BY <3>1
  <2>2. k.cursor = None
    BY <1>2, <1>4, <1>9
  <2>3. PICK e \in Terminal!Events : e = [kind |-> "asked", n |-> k.again]
    BY <1>4 DEF Terminal!Events
  <2>4. x6' = Terminal!Projected(x6, k.s, e)
    BY <1>2, <1>9, <2>3 DEF Terminal!Deliver
  <2>5. /\ x6' \in Terminal!Views /\ x6'.session = x6.session
        /\ x6'.session # None => /\ x6'.content \subseteq {x6'.session}
                                 /\ x6'.pending # None => x6'.pending[1] = x6'.session
    BY <1>1, <1>2, <2>4, TerminalProjects DEF Terminal!ViewOK
  <2>6. Terminal!ViewOK'
    BY <2>5 DEF Terminal!ViewOK
  <2>7. /\ Terminal!Replace(k, l)
        /\ UNCHANGED <<x7, x8, x11, x13, x1, x3, x4, x5, x10>>
    BY <1>9, <2>1 DEF Terminal!Deliver, Terminal!KeepClient, Terminal!service
  <2>8. x9' # {}
    BY <2>7 DEF Terminal!Replace
  <2>9. /\ x11' \in 0..TerminalCalls
        /\ x10' \in [1..TerminalCalls -> {None} \cup Terminal!Requests]
        /\ \A j \in 1..TerminalCalls : Terminal!CallOK(j)'
    BY <1>5, <2>5, <2>7, <2>8
  <2>10. /\ l.at <= Len(x5[l.s]) /\ l.cursor = None /\ l.again = 0
         /\ x3[l.s] = "asking" => (l.up => l.at < Len(x5[l.s]))
    BY <1>2, <1>3, <2>1, <2>2
  <2>11. l.cursor # Len(x5[l.s])
    BY <1>4, <2>1, <2>2, TerminalAssumption
  <2>. QED  BY <2>1, <2>5, <2>6, <2>7, <2>9, <2>10, <2>11, TerminalSocket
<1>10. CASE Terminal!Deliver(k) /\ ~(k.again > 0)
  <2>1. k.up /\ k.again = 0 /\ k.at < Len(x5[k.s]) /\ k.at + 1 \in 1..Len(x5[k.s])
    BY <1>4, <1>10 DEF Terminal!Deliver
  <2> DEFINE m == [k EXCEPT !.at = @ + 1]
  <2>2. m \in Terminal!Sockets /\ m.at = k.at + 1 /\ m.up = k.up /\ m.s = k.s
        /\ m.epoch = k.epoch
        /\ m.again = k.again
    BY <1>1, <1>4 DEF Terminal!Sockets
  <2>. HIDE DEF m
  <2>3. PICK l \in Terminal!Sockets : /\ l = [m EXCEPT !.cursor = k.at + 1]
                                      /\ l.at = k.at + 1 /\ l.cursor = k.at + 1 /\ l.up = k.up
                                      /\ l.s = k.s /\ l.epoch = k.epoch /\ l.again = k.again
    <3>1. k.at + 1 \in Nat
      BY <1>4
    <3> DEFINE new == [m EXCEPT !.cursor = k.at + 1]
    <3>2. /\ new \in Terminal!Sockets /\ new.at = k.at + 1 /\ new.cursor = k.at + 1
          /\ new.up = k.up
          /\ new.s = k.s /\ new.epoch = k.epoch /\ new.again = k.again
      BY <2>2, <3>1 DEF Terminal!Sockets
    <3>. QED  BY <3>2
  <2>4. PICK e \in Terminal!Events : e = x5[k.s][k.at + 1]
    BY <1>1, <2>1, ElementOfSeq
  <2>5. x6' = Terminal!Projected(x6, k.s, e)
    BY <1>2, <1>10, <2>4 DEF Terminal!Deliver
  <2>6. /\ x6' \in Terminal!Views /\ x6'.session = x6.session
        /\ x6'.session # None => /\ x6'.content \subseteq {x6'.session}
                                 /\ x6'.pending # None => x6'.pending[1] = x6'.session
        /\ e.kind = "asked" => x6'.pending = <<k.s, e.n>>
    BY <1>1, <1>2, <2>5, TerminalProjects DEF Terminal!ViewOK
  <2>7. Terminal!ViewOK'
    BY <2>6 DEF Terminal!ViewOK
  <2>8. /\ Terminal!Replace(k, l)
        /\ UNCHANGED <<x7, x8, x11, x13, x1, x3, x4, x5, x10>>
    BY <1>10, <2>3 DEF Terminal!Deliver, Terminal!KeepClient, Terminal!service, m
  <2>9. x9' # {}
    BY <2>8 DEF Terminal!Replace
  <2>10. /\ x11' \in 0..TerminalCalls
         /\ x10' \in [1..TerminalCalls -> {None} \cup Terminal!Requests]
         /\ \A j \in 1..TerminalCalls : Terminal!CallOK(j)'
    BY <1>5, <2>6, <2>8, <2>9
  <2>11. /\ l.at <= Len(x5[l.s]) /\ l.cursor <= Len(x5[l.s]) /\ l.again = 0
         /\ l.at = l.cursor /\ l.up /\ l.cursor \in Nat
    <3>1. k.at + 1 \in Nat /\ k.at + 1 <= Len(x5[k.s])
      BY <1>4, <2>1
    <3>2. l.at = k.at + 1 /\ l.cursor = k.at + 1 /\ l.s = k.s /\ l.again = 0 /\ l.up
      BY <2>1, <2>3
    <3>. QED  BY <3>1, <3>2
  <2>12. ASSUME x3[l.s] = "asking", l.cursor = Len(x5[l.s])
         PROVE  x6'.pending = <<l.s, x4[l.s]>>
    <3>1. x5[k.s][Len(x5[k.s])] = [kind |-> "asked", n |-> x4[k.s]]
      BY <1>1, <2>3, <2>12 DEF Terminal!IInv, Terminal!JournalTellsTurn
    <3>2. e.kind = "asked" /\ e.n = x4[k.s]
      BY <2>3, <2>4, <2>12, <3>1
    <3>. QED  BY <2>3, <2>6, <3>2
  <2>13. l.cursor # None
    BY <2>11, TerminalAssumption
  <2>. QED  BY <2>3, <2>6, <2>7, <2>8, <2>10, <2>11, <2>12, <2>13, TerminalSocket
<1>11. CASE Terminal!Reset(k)
  <2>1. /\ k.up /\ k.again = 0 /\ x11 < TerminalCalls /\ x11' = x11 + 1
        /\ x10' = [x10 EXCEPT ![x11 + 1] = Terminal!Request("history", k.s, 0)]
        /\ UNCHANGED <<x6, x7, x8, x13, x1, x3, x4, x5>>
    BY <1>11 DEF Terminal!Reset, Terminal!service
  <2>2. PICK n \in k.at + 1..Len(x5[k.s]) :
          /\ \A i \in k.at + 1..n : x3[k.s] = "asking" => x5[k.s][i].n # x4[k.s]
          /\ Terminal!Replace(k, [k EXCEPT !.at = n, !.cursor = n])
    BY <1>11 DEF Terminal!Reset
  <2>3. n \in Nat /\ n <= Len(x5[k.s]) /\ n \in k.at + 1..n
    BY <1>4
  <2> DEFINE m == [k EXCEPT !.at = n]
  <2>4. m \in Terminal!Sockets /\ m.at = n /\ m.up = k.up /\ m.s = k.s /\ m.epoch = k.epoch
        /\ m.again = k.again
    BY <1>1, <2>3 DEF Terminal!Sockets
  <2>. HIDE DEF m
  <2>5. PICK l \in Terminal!Sockets : /\ l = [m EXCEPT !.cursor = n]
                                      /\ l.at = n /\ l.cursor = n /\ l.up = k.up
                                      /\ l.s = k.s /\ l.epoch = k.epoch /\ l.again = k.again
    <3> DEFINE new == [m EXCEPT !.cursor = n]
    <3>1. /\ new \in Terminal!Sockets /\ new.at = n /\ new.cursor = n /\ new.up = k.up
          /\ new.s = k.s /\ new.epoch = k.epoch /\ new.again = k.again
      BY <2>3, <2>4 DEF Terminal!Sockets
    <3>. QED  BY <3>1
  <2>6. Terminal!Replace(k, l)
    BY <2>2, <2>5 DEF m
  <2>7. x9' = {l}
    BY <1>2, <2>6 DEF Terminal!Replace
  <2>8. x6' \in Terminal!Views /\ Terminal!ViewOK' /\ x6'.session = x6.session
    BY <1>1, <2>1 DEF Terminal!ViewOK
  <2>9. /\ l.at <= Len(x5[l.s]) /\ l.cursor <= Len(x5[l.s]) /\ l.again = 0
        /\ l.at = l.cursor /\ l.up
    BY <2>1, <2>3, <2>5
  <2>10. l.cursor # None
    BY <2>3, <2>5, TerminalAssumption
  <2>11. ASSUME x3[l.s] = "asking" PROVE l.cursor # Len(x5[l.s])
    <3>1. x5[k.s][Len(x5[k.s])] = [kind |-> "asked", n |-> x4[k.s]]
      BY <1>1, <2>5, <2>11 DEF Terminal!IInv, Terminal!JournalTellsTurn
    <3>2. x5[k.s][n].n # x4[k.s]
      BY <2>2, <2>3, <2>5, <2>11
    <3>. QED  BY <2>5, <3>1, <3>2
  <2>12. /\ x11 + 1 \in 1..TerminalCalls /\ x11' \in 0..TerminalCalls /\ x11 <= x11'
         /\ x11 + 1 <= x11'
         /\ x7' \in Nat
    BY <1>1, <2>1, TerminalAssumption
  <2>13. PICK r \in Terminal!Requests : /\ r = Terminal!Request("history", k.s, 0)
                                        /\ r.kind = "history" /\ r.s = k.s
                                        /\ r.at = "sent" /\ r.epoch = x7
    <3>1. "history" \in Terminal!Kinds /\ k.s \in {None} \cup Members /\ 0 \in Nat
      BY <1>1 DEF Terminal!Kinds
    <3>2. Terminal!Request("history", k.s, 0) \in
            {r \in Terminal!Requests : r.kind = "history" /\ r.s = k.s /\ r.n = 0
                                       /\ r.at = "sent" /\ r.epoch = x7}
      BY <1>1, <3>1, TerminalRequest
    <3>. QED  BY <3>2
  <2>14. /\ x10' \in [1..TerminalCalls -> {None} \cup Terminal!Requests]
         /\ \A j \in 1..TerminalCalls : Terminal!CallOK(j)'
    <3>1. x10' = [x10 EXCEPT ![x11 + 1] = r] /\ r \in {None} \cup Terminal!Requests
      BY <2>1, <2>13
    <3>2. /\ x7' = x7 /\ x13' = x13 /\ x6'.session \in {None, x6.session}
          /\ x9 = {} => x9' = {}
      BY <1>2, <2>1
    <3>3. \A u \in Members : x3'[u] = "asking" => x3[u] = "asking"
      BY <2>1
    <3>4. /\ r.epoch <= x7' /\ r.kind \notin {"new", "list", "select", "decide"}
          /\ r.s \in Members /\ x6'.session \in {None, r.s}
      BY <1>1, <1>2, <2>1, <2>13
    <3>. QED  BY <2>12, <3>1, <3>2, <3>3, <3>4, TerminalCallsMove
  <2>. QED  BY <2>1, <2>5, <2>6, <2>8, <2>9, <2>10, <2>11, <2>12, <2>14, TerminalSocket
<1>. QED  BY <1>6, <1>7, <1>8, <1>9, <1>10, <1>11

LEMMA TerminalInit == Terminal!Init => Terminal!IInv
<1> SUFFICES ASSUME Terminal!Init PROVE Terminal!IInv
  OBVIOUS
<1>1. Terminal!EmptyView \in Terminal!Views /\ Terminal!EmptyView.session = None
  BY DEF Terminal!EmptyView, Terminal!Views
<1>2. PICK r \in Terminal!Requests : r = Terminal!Request("list", None, 0)
                                     /\ r.kind = "list" /\ r.at = "sent"
                                     /\ r.epoch = x7
  <2>1. "list" \in Terminal!Kinds /\ None \in {None} \cup Members /\ 0 \in Nat /\ x7 \in Nat
    BY DEF Terminal!Kinds, Terminal!Init
  <2>2. Terminal!Request("list", None, 0) \in {r \in Terminal!Requests : r.kind = "list" /\ r.s = None /\ r.n = 0
                                                                       /\ r.at = "sent"
                                                                       /\ r.epoch = x7}
    BY <2>1, TerminalRequest
  <2>. QED  BY <2>2
<1>3. x10 = [i \in 1..TerminalCalls |-> IF i = 1 THEN r ELSE None]
  BY <1>2 DEF Terminal!Init
<1>4. x10 \in [1..TerminalCalls -> {None} \cup Terminal!Requests]
  BY <1>3
<1>5. \A i \in 1..TerminalCalls : Terminal!CallOK(i)
  BY <1>2, <1>3 DEF Terminal!CallOK, Terminal!Init
<1>6. x11 \in 0..TerminalCalls
  BY TerminalAssumption DEF Terminal!Init
<1>7. x5 \in [Members -> Seq(Terminal!Events)]
  BY DEF Terminal!Init
<1>8. Terminal!TypeOK
  BY <1>1, <1>4, <1>6, <1>7 DEF Terminal!TypeOK, Terminal!Init
<1>9. Terminal!JournalTellsTurn
  BY DEF Terminal!JournalTellsTurn, Terminal!Init
<1>10. Terminal!ViewOK /\ \A k \in x9 : Terminal!SocketOK(k)
  BY <1>1 DEF Terminal!ViewOK, Terminal!Init
<1>. QED  BY <1>5, <1>8, <1>9, <1>10 DEF Terminal!IInv

LEMMA TerminalNext == ASSUME Terminal!IInv, Terminal!Next PROVE Terminal!IInv'
<1>1. CASE \E s \in Members : Terminal!TurnRuns(s) \/ Terminal!WaitTimesOut(s)
  BY <1>1, TerminalTurnRuns
<1>2. CASE (\E s \in Members : Terminal!Select(s)) \/ Terminal!New \/ Terminal!Submit
           \/ Terminal!Interrupt
           \/ Terminal!Command("fork") \/ Terminal!Command("delete")
  BY <1>2, TerminalCommands
<1>3. CASE Terminal!Close
  BY <1>3, TerminalClose
<1>4. CASE \E i \in 1..TerminalCalls : Terminal!Serve(i) \/ Terminal!Hear(i)
  BY <1>4, TerminalServe, TerminalHear
<1>5. CASE \E k \in x9 : Terminal!Opens(k) \/ Terminal!Deliver(k) \/ Terminal!Drop(k)
           \/ Terminal!Reset(k)
  BY <1>5, TerminalStreams
<1>. QED  BY <1>1, <1>2, <1>3, <1>4, <1>5 DEF Terminal!Next

LEMMA TerminalStutters == ASSUME Terminal!IInv, UNCHANGED Terminal!vars PROVE Terminal!IInv'
<1>1. UNCHANGED <<x1, x3, x4, x5, x6, x7, x8, x9, x10, x11,
                  x13>>
  BY DEF Terminal!vars
<1>2. Terminal!TypeOK' /\ Terminal!JournalTellsTurn' /\ Terminal!ViewOK'
  BY <1>1 DEF Terminal!IInv, Terminal!TypeOK, Terminal!JournalTellsTurn, Terminal!ViewOK
<1>3. \A i \in 1..TerminalCalls : Terminal!CallOK(i)'
  BY <1>1 DEF Terminal!IInv, Terminal!CallOK
<1>4. \A k \in x9' : Terminal!SocketOK(k)'
  BY <1>1 DEF Terminal!IInv, Terminal!SocketOK
<1>. QED  BY <1>2, <1>3, <1>4 DEF Terminal!IInv

LEMMA TerminalShows == Terminal!IInv => Terminal!ShownIsSelected /\ Terminal!QuestionsAreShown
<1> SUFFICES ASSUME Terminal!IInv PROVE Terminal!ShownIsSelected /\ Terminal!QuestionsAreShown
  OBVIOUS
<1>1. Terminal!ShownIsSelected
  BY DEF Terminal!IInv, Terminal!ViewOK, Terminal!SocketOK, Terminal!ShownIsSelected
<1>2. ASSUME NEW k \in x9, k.s = x6.session, k.up, k.at = Len(x5[k.s]),
             x3[k.s] = "asking"
      PROVE  x6.pending = <<k.s, x4[k.s]>>
  <2>1. Terminal!SocketOK(k) /\ k \in Terminal!Sockets /\ k.s \in Members
        /\ x5[k.s] \in Seq(Terminal!Events)
    BY DEF Terminal!IInv, Terminal!TypeOK, Terminal!Sockets
  <2>2. Len(x5[k.s]) \in Nat
    BY <2>1, LenProperties
  <2>3. k.cursor # None
    BY <1>2, <2>1, <2>2 DEF Terminal!SocketOK
  <2>4. k.cursor = Len(x5[k.s])
    BY <1>2, <2>1, <2>3 DEF Terminal!SocketOK
  <2>. QED  BY <1>2, <2>1, <2>4 DEF Terminal!SocketOK
<1>3. Terminal!QuestionsAreShown
  BY <1>2 DEF Terminal!QuestionsAreShown
<1>. QED  BY <1>1, <1>3

(* Whatever order selections, replies and events come in, for any number of    *)
(* sessions, commands, events and lost connections, the terminal shows the    *)
(* messages and the question of the session it names and follows its events   *)
(* alone, none once it was closed (cli app.py: TerminalController and its     *)
(* epoch); a question that a turn waits with is shown.                      *)
THEOREM TerminalIsTrueToItsSession == Spec => []TerminalShowsItsSession
<1> DEFINE Inv == focus = "terminal" => Terminal!IInv
<1>1. Init => Inv
  BY TerminalInit DEF Init
<1>2. Inv /\ [Next]_vars => Inv'
  <2> SUFFICES ASSUME Terminal!IInv, focus = "terminal", [Next]_vars
               PROVE  Terminal!IInv'
    BY DEF Next, vars
  <2>1. CASE Next
    BY <2>1, TerminalNext DEF Next
  <2>2. CASE UNCHANGED vars
    BY <2>2, TerminalStutters DEF vars, Terminal!vars
  <2>. QED  BY <2>1, <2>2
<1>3. Inv => TerminalShowsItsSession
  BY TerminalShows DEF TerminalShowsItsSession
<1>. HIDE DEF Inv
<1>. QED  BY <1>1, <1>2, <1>3, PTL DEF Spec

-----------------------------------------------------------------------------
(* AgentLoop.  The cells are registry (x1), advertised (x2), planning (x3),    *)
(* interrupted (x4), breaker (x5), hooks (x6), owner (x7), work (x8), next    *)
(* (x9), upto (x10) and history (x11).                                     *)

(* Sequences of calls and of items. *)
LEMMA LoopSequences ==
  ASSUME Loop!TypeOK
  PROVE  /\ Len(x8) \in Nat /\ DOMAIN x8 = 1..Len(x8)
         /\ \A i \in 1..Len(x8) : x8[i] \in Loop!Calls
         /\ Len(x11) \in Nat /\ DOMAIN x11 = 1..Len(x11)
         /\ \A i \in 1..Len(x11) : x11[i] \in Loop!Items
<1>1. x8 \in Seq(Loop!Calls) /\ x11 \in Seq(Loop!Items)
  BY DEF Loop!TypeOK
<1>. QED  BY <1>1, LenProperties

LEMMA LoopLeast ==
  ASSUME NEW S \in SUBSET Nat, S # {}
  PROVE  \E x \in S : \A y \in S : x <= y
<1>1. \E x \in S : \A y \in S : ~(<<y, x>> \in OpToRel(<, Nat))
  BY WFMin, NatLessThanWellFounded, Zenon
<1>2. \A x, y \in Nat : x < y => <<x, y>> \in OpToRel(<, Nat)
  BY Zenon DEF OpToRel
<1>3. PICK x \in S : \A y \in S : ~(y < x)
  BY <1>1, <1>2, Zenon
<1>4. \A y \in S : x <= y
  BY <1>3
<1>. QED  BY <1>4

(* Adjacent calls that are safe have an end. *)
LEMMA LoopBatchEnds ==
  ASSUME Loop!TypeOK, x9 <= Len(x8)
  PROVE  Loop!BatchEnds \in x9..Len(x8)
<1> DEFINE Last_(k) == x8[k].safe => k = Len(x8) \/ ~x8[k + 1].safe
           S == {k \in x9..Len(x8) : Last_(k)}
<1>1. Len(x8) \in Nat /\ x9 \in Nat
  BY LoopSequences DEF Loop!TypeOK
<1>2. S \in SUBSET Nat /\ S # {}
  <2>1. Len(x8) \in S
    BY <1>1
  <2>. QED  BY <1>1, <2>1
<1>. HIDE DEF S
<1>3. PICK k \in S : \A i \in S : k <= i
  BY <1>2, LoopLeast
<1>4. k \in x9..Len(x8) /\ Last_(k)
  BY <1>3 DEF S
<1>5. ASSUME NEW i \in x9..k, i # k PROVE x8[i].safe /\ x8[i + 1].safe
  <2>1. i \in x9..Len(x8) /\ ~(k <= i)
    BY <1>1, <1>4, <1>5
  <2>2. i \notin S
    BY <1>3, <2>1
  <2>. QED  BY <2>1, <2>2 DEF S
<1>6. /\ \A i \in x9..k : i = k \/ (x8[i].safe /\ x8[i + 1].safe)
      /\ x8[k].safe => k = Len(x8) \/ ~x8[k + 1].safe
  BY <1>4, <1>5
<1>. QED  BY <1>4, <1>6 DEF Loop!BatchEnds

(* Histories that are paired. *)

LEMMA LoopPairedKeeps ==
  ASSUME NEW m \in Nat, NEW g, NEW h, \A i \in 1..m : h[i] \in Loop!Items /\ g[i] = h[i],
         Loop!PairedTo(h, m)
  PROVE  Loop!PairedTo(g, m)
<1>1. ASSUME NEW i \in 1..m, g[i].kind = "calls"
      PROVE  i + g[i].n <= m /\ \A k \in 1..g[i].n : g[i + k] = Loop!Item("result", k)
  <2>1. g[i] = h[i] /\ h[i].n \in Nat /\ i + h[i].n <= m
    BY <1>1 DEF Loop!PairedTo, Loop!Items
  <2>2. \A k \in 1..h[i].n : i + k \in 1..m /\ h[i + k] = Loop!Item("result", k)
    BY <1>1, <2>1 DEF Loop!PairedTo
  <2>. QED  BY <2>1, <2>2
<1>2. ASSUME NEW i \in 1..m, g[i].kind = "result"
      PROVE  \E j \in 1..(i - 1) : g[j].kind = "calls" /\ i <= j + g[j].n
  <2>1. PICK j \in 1..(i - 1) : h[j].kind = "calls" /\ i <= j + h[j].n
    BY <1>2 DEF Loop!PairedTo
  <2>2. j \in 1..m
    OBVIOUS
  <2>. QED  BY <2>1, <2>2
<1>. QED  BY <1>1, <1>2 DEF Loop!PairedTo

LEMMA LoopPairedMore ==
  ASSUME NEW m \in Nat, NEW h, \A i \in 1..m : h[i] \in Loop!Items,
         Loop!PairedTo(h, m),
         h[m + 1].kind \in {"user", "text"}
  PROVE  Loop!PairedTo(h, m + 1)
<1>1. ASSUME NEW i \in 1..(m + 1), h[i].kind = "calls"
      PROVE  i + h[i].n <= m + 1 /\ \A k \in 1..h[i].n : h[i + k] = Loop!Item("result", k)
  <2>1. i \in 1..m
    BY <1>1
  <2>2. h[i].n \in Nat /\ i + h[i].n <= m
    BY <1>1, <2>1 DEF Loop!PairedTo, Loop!Items
  <2>. QED  BY <1>1, <2>1, <2>2 DEF Loop!PairedTo
<1>2. ASSUME NEW i \in 1..(m + 1), h[i].kind = "result"
      PROVE  \E j \in 1..(i - 1) : h[j].kind = "calls" /\ i <= j + h[j].n
  <2>1. i \in 1..m
    BY <1>2
  <2>. QED  BY <1>2, <2>1 DEF Loop!PairedTo
<1>. QED  BY <1>1, <1>2 DEF Loop!PairedTo

LEMMA LoopPairedCalls ==
  ASSUME NEW m \in Nat, NEW n \in Nat, NEW h, \A i \in 1..m : h[i] \in Loop!Items,
         Loop!PairedTo(h, m),
         h[m + 1] = Loop!Item("calls", n), \A k \in 1..n : h[m + 1 + k] = Loop!Item("result", k)
  PROVE  Loop!PairedTo(h, m + 1 + n)
<1>1. ASSUME NEW i \in 1..(m + 1 + n), i > m + 1
      PROVE  h[i].kind = "result"
  <2>1. i - (m + 1) \in 1..n /\ m + 1 + (i - (m + 1)) = i
    BY <1>1
  <2>2. h[m + 1 + (i - (m + 1))] = Loop!Item("result", i - (m + 1))
    BY <2>1
  <2>. QED  BY <2>1, <2>2 DEF Loop!Item
<1>2. ASSUME NEW i \in 1..(m + 1 + n), h[i].kind = "calls"
      PROVE  i + h[i].n <= m + 1 + n /\ \A k \in 1..h[i].n : h[i + k] = Loop!Item("result", k)
  <2>1. CASE i \in 1..m
    <3>1. h[i].n \in Nat /\ i + h[i].n <= m
      BY <1>2, <2>1 DEF Loop!PairedTo, Loop!Items
    <3>. QED  BY <1>2, <2>1, <3>1 DEF Loop!PairedTo
  <2>2. CASE i = m + 1
    BY <2>2 DEF Loop!Item
  <2>. QED  BY <1>1, <1>2, <2>1, <2>2
<1>3. ASSUME NEW i \in 1..(m + 1 + n), h[i].kind = "result"
      PROVE  \E j \in 1..(i - 1) : h[j].kind = "calls" /\ i <= j + h[j].n
  <2>1. CASE i \in 1..m
    BY <1>3, <2>1 DEF Loop!PairedTo
  <2>2. CASE i > m + 1
    <3>1. m + 1 \in 1..(i - 1) /\ h[m + 1].kind = "calls" /\ h[m + 1].n = n
      BY <2>2 DEF Loop!Item
    <3>2. i <= m + 1 + n
      OBVIOUS
    <3>. QED  BY <3>1, <3>2
  <2>3. i # m + 1
    BY <1>3 DEF Loop!Item
  <2>. QED  BY <2>1, <2>2, <2>3
<1>. QED  BY <1>2, <1>3 DEF Loop!PairedTo

LEMMA LoopPairedCut ==
  ASSUME NEW m \in Nat, NEW n \in 1..m, NEW h, \A i \in 1..m : h[i] \in Loop!Items,
         Loop!PairedTo(h, m),
         h[n].kind \in {"user", "text"}
  PROVE  Loop!PairedTo(h, n)
<1>1. ASSUME NEW i \in 1..n, h[i].kind = "calls"
      PROVE  i + h[i].n <= n /\ \A k \in 1..h[i].n : h[i + k] = Loop!Item("result", k)
  <2>1. i \in 1..m /\ i # n
    BY <1>1
  <2>2. h[i].n \in Nat /\ \A k \in 1..h[i].n : h[i + k] = Loop!Item("result", k)
    BY <1>1, <2>1 DEF Loop!PairedTo, Loop!Items
  <2>3. ~(i + h[i].n > n)
    <3> SUFFICES ASSUME i + h[i].n > n PROVE FALSE
      OBVIOUS
    <3>1. n - i \in 1..h[i].n /\ i + (n - i) = n
      BY <2>1, <2>2
    <3>2. h[i + (n - i)] = Loop!Item("result", n - i)
      BY <2>2, <3>1
    <3>. QED  BY <3>1, <3>2 DEF Loop!Item
  <2>. QED  BY <2>2, <2>3
<1>2. ASSUME NEW i \in 1..n, h[i].kind = "result"
      PROVE  \E j \in 1..(i - 1) : h[j].kind = "calls" /\ i <= j + h[j].n
  BY <1>2 DEF Loop!PairedTo
<1>. QED  BY <1>1, <1>2 DEF Loop!PairedTo

(* What is appended comes behind what there was. *)
LEMMA LoopAppends ==
  ASSUME Loop!TypeOK, NEW e \in Loop!Items
  PROVE  /\ Append(x11, e) \in Seq(Loop!Items)
         /\ Len(Append(x11, e)) = Len(x11) + 1
         /\ Append(x11, e)[Len(x11) + 1] = e
         /\ \A i \in 1..Len(x11) : Append(x11, e)[i] = x11[i]
<1>1. x11 \in Seq(Loop!Items)
  BY DEF Loop!TypeOK
<1>. QED  BY <1>1, AppendProperties

(* Steps.                                                                  *)

LEMMA LoopTypesKept ==
  ASSUME Loop!TypeOK,
         x1' \in [LoopTools -> 0..2], x2' \in [LoopTools -> 0..2],
         x5' \in [LoopTools -> [failures : Nat, open : BOOLEAN]],
         x3' \in BOOLEAN, x4' \in BOOLEAN, x6' = x6,
         x7' \in Loop!Owners, x8' \in Seq(Loop!Calls), x9' \in Nat \ {0}, x10' \in Nat,
         x11' \in Seq(Loop!Items)
  PROVE  Loop!TypeOK'
BY DEF Loop!TypeOK

(* A step between two answers of the model: no call is under way. *)
LEMMA LoopBetween ==
  ASSUME Loop!IInv, Loop!TypeOK', x7.pc \notin {"batch", "tools"}, x7'.pc \notin {"batch", "tools"},
         UNCHANGED <<x8, x9, x10>>, Loop!SafeOnesAreFirst', Loop!PairedTo(x11, Len(x11))'
  PROVE  Loop!IInv'
<1>1. \A i \in DOMAIN x8 : x8[i].pc \in {"waiting", "done"}
  BY DEF Loop!IInv, Loop!BatchStands, Loop!At
<1>2. Loop!BatchStands'
  BY <1>1 DEF Loop!IInv, Loop!BatchStands, Loop!At
<1>3. Loop!CallsAreApart' /\ Loop!BoundAsAdvertised'
  BY <1>1 DEF Loop!CallsAreApart, Loop!BoundAsAdvertised, Loop!At
<1>4. Loop!HistoryStands'
  BY DEF Loop!HistoryStands, Loop!At
<1>. QED  BY <1>2, <1>3, <1>4 DEF Loop!IInv

(* What others do beside the agent. *)
LEMMA LoopAside ==
  ASSUME Loop!IInv, Loop!TypeOK', UNCHANGED <<x2, x3, x7, x8, x9, x10, x11>>,
         Loop!SafeOnesAreFirst'
  PROVE  Loop!IInv'
<1>1. Loop!BatchStands' /\ Loop!CallsAreApart'
  BY DEF Loop!IInv, Loop!BatchStands, Loop!CallsAreApart, Loop!At, Loop!Batch
<1>2. Loop!BoundAsAdvertised'
  BY DEF Loop!IInv, Loop!BoundAsAdvertised, Loop!Permitted
<1>3. Loop!HistoryStands'
  BY DEF Loop!IInv, Loop!HistoryStands, Loop!At
<1>. QED  BY <1>1, <1>2, <1>3 DEF Loop!IInv

LEMMA LoopStartTurn == ASSUME Loop!IInv, Loop!StartTurn PROVE Loop!IInv'
<1>1. Loop!TypeOK /\ x7 \in Loop!Owners /\ x7.pc = "idle"
  BY DEF Loop!IInv, Loop!TypeOK, Loop!StartTurn, Loop!At
<1>2. x7' = [x7 EXCEPT !.pc = "step", !.step = 1, !.turns = @ + 1]
  BY DEF Loop!StartTurn
<1>3. x7' \in Loop!Owners /\ x7'.pc = "step"
  <2> DEFINE n == x7.turns + 1
  <2>1. n \in Nat
    BY <1>1 DEF Loop!Owners
  <2>2. x7' = [x7 EXCEPT !.pc = "step", !.step = 1, !.turns = n]
    BY <1>2
  <2>. HIDE DEF n
  <2>3. \A o \in Loop!Owners : [o EXCEPT !.pc = "step", !.step = 1] \in Loop!Owners
    BY DEF Loop!Owners
  <2>4. \A o \in Loop!Owners : [o EXCEPT !.turns = n] \in Loop!Owners
    BY <2>1 DEF Loop!Owners
  <2>5. x7' = [[x7 EXCEPT !.pc = "step", !.step = 1] EXCEPT !.turns = n]
    BY <2>2
  <2>6. x7' \in Loop!Owners
    BY <1>1, <2>3, <2>4, <2>5
  <2>7. x7'.pc = "step"
    BY <1>1, <2>2 DEF Loop!Owners
  <2>. QED  BY <2>6, <2>7
<1>4. Loop!Item("user", 0) \in Loop!Items /\ Loop!Item("user", 0).kind = "user"
  BY DEF Loop!Item, Loop!Items
<1>5. x11' = Append(x11, Loop!Item("user", 0))
  BY DEF Loop!StartTurn
<1>6. UNCHANGED <<x1, x3, x5, x6, x2, x4, x8, x9, x10>>
  BY DEF Loop!StartTurn, Loop!gates
<1>7. x11' \in Seq(Loop!Items)
  BY <1>1, <1>4, <1>5, LoopAppends
<1>8. Loop!TypeOK'
  BY <1>1, <1>3, <1>6, <1>7, LoopTypesKept DEF Loop!TypeOK
<1>9. Loop!PairedTo(x11', Len(x11'))
  <2> DEFINE m == Len(x11)
  <2>1. m \in Nat /\ \A i \in 1..m : x11[i] \in Loop!Items
    BY <1>1, LoopSequences
  <2>2. Len(x11') = m + 1 /\ x11'[m + 1].kind = "user" /\ \A i \in 1..m : x11'[i] = x11[i]
    BY <1>1, <1>4, <1>5, LoopAppends
  <2>3. Loop!PairedTo(x11, m)
    BY <1>1 DEF Loop!IInv, Loop!HistoryStands, Loop!At
  <2>. HIDE DEF m
  <2>4. Loop!PairedTo(x11', m)
    BY <2>1, <2>2, <2>3, LoopPairedKeeps
  <2>5. Loop!PairedTo(x11', m + 1)
    BY <2>1, <2>2, <2>4, LoopPairedMore
  <2>. QED  BY <2>2, <2>5
<1>10. Loop!SafeOnesAreFirst'
  BY <1>6 DEF Loop!IInv, Loop!SafeOnesAreFirst
<1>. QED  BY <1>1, <1>3, <1>6, <1>8, <1>9, <1>10, LoopBetween

LEMMA LoopStepBegins == ASSUME Loop!IInv, Loop!StepBegins PROVE Loop!IInv'
<1>1. Loop!TypeOK /\ x7 \in Loop!Owners /\ x7.pc = "step"
  BY DEF Loop!IInv, Loop!TypeOK, Loop!StepBegins, Loop!At
<1>2. UNCHANGED <<x1, x3, x5, x6, x4, x8, x9, x10, x11>>
  BY DEF Loop!StepBegins, Loop!gates
<1>3. x7' \in Loop!Owners /\ x7'.pc \in {"finally", "model"}
  BY <1>1 DEF Loop!StepBegins, Loop!Owners
<1>4. \/ x2' = x2
      \/ x2' = [t \in LoopTools |-> IF Loop!Offered(t) THEN x1[t] ELSE 0]
  BY DEF Loop!StepBegins
<1>5. x2' \in [LoopTools -> 0..2]
  BY <1>1, <1>4 DEF Loop!TypeOK
<1>6. Loop!TypeOK'
  BY <1>1, <1>2, <1>3, <1>5, LoopTypesKept DEF Loop!TypeOK
<1>7. Loop!SafeOnesAreFirst'
  BY <1>2, <1>4 DEF Loop!IInv, Loop!SafeOnesAreFirst
<1>8. Loop!PairedTo(x11', Len(x11'))
  BY <1>1, <1>2 DEF Loop!IInv, Loop!HistoryStands, Loop!At
<1>. QED  BY <1>1, <1>2, <1>3, <1>6, <1>7, <1>8, LoopBetween

LEMMA LoopModelEnds == ASSUME Loop!IInv, Loop!ModelEnds PROVE Loop!IInv'
<1>1. Loop!TypeOK /\ x7 \in Loop!Owners /\ x7.pc = "model"
  BY DEF Loop!IInv, Loop!TypeOK, Loop!ModelEnds, Loop!At
<1>2. x7' \in Loop!Owners /\ x7'.pc = "finally"
  BY <1>1 DEF Loop!ModelEnds, Loop!Owners
<1>3. Loop!Item("text", 0) \in Loop!Items /\ Loop!Item("text", 0).kind = "text"
  BY DEF Loop!Item, Loop!Items
<1>4. x11' = x11 \/ x11' = Append(x11, Loop!Item("text", 0))
  BY DEF Loop!ModelEnds
<1>5. UNCHANGED <<x1, x3, x5, x6, x2, x4, x8, x9, x10>>
  BY DEF Loop!ModelEnds, Loop!gates
<1>6. x11' \in Seq(Loop!Items)
  BY <1>1, <1>3, <1>4, LoopAppends DEF Loop!TypeOK
<1>7. Loop!TypeOK'
  BY <1>1, <1>2, <1>5, <1>6, LoopTypesKept DEF Loop!TypeOK
<1>8. Loop!PairedTo(x11', Len(x11'))
  <2> DEFINE m == Len(x11)
  <2>1. m \in Nat /\ \A i \in 1..m : x11[i] \in Loop!Items
    BY <1>1, LoopSequences
  <2>2. Loop!PairedTo(x11, m)
    BY <1>1 DEF Loop!IInv, Loop!HistoryStands, Loop!At
  <2>3. CASE x11' = x11
    BY <2>2, <2>3
  <2>4. CASE x11' = Append(x11, Loop!Item("text", 0))
    <3>1. Len(x11') = m + 1 /\ x11'[m + 1].kind = "text" /\ \A i \in 1..m : x11'[i] = x11[i]
      BY <1>1, <1>3, <2>4, LoopAppends
    <3>. HIDE DEF m
    <3>2. Loop!PairedTo(x11', m)
      BY <2>1, <2>2, <3>1, LoopPairedKeeps
    <3>3. Loop!PairedTo(x11', m + 1)
      BY <2>1, <3>1, <3>2, LoopPairedMore
    <3>. QED  BY <3>1, <3>3
  <2>. QED  BY <1>4, <2>3, <2>4
<1>9. Loop!SafeOnesAreFirst'
  BY <1>5 DEF Loop!IInv, Loop!SafeOnesAreFirst
<1>. QED  BY <1>1, <1>2, <1>5, <1>7, <1>8, <1>9, LoopBetween

LEMMA LoopModelSaysNothing == ASSUME Loop!IInv, Loop!ModelSaysNothing PROVE Loop!IInv'
<1>1. Loop!TypeOK /\ x7 \in Loop!Owners /\ x7.pc = "model"
  BY DEF Loop!IInv, Loop!TypeOK, Loop!ModelSaysNothing, Loop!At
<1>2. x7' \in Loop!Owners /\ x7'.pc = "model"
  BY <1>1 DEF Loop!ModelSaysNothing, Loop!Owners
<1>3. UNCHANGED <<x1, x3, x5, x6, x2, x4, x8, x9, x10, x11>>
  BY DEF Loop!ModelSaysNothing, Loop!gates
<1>4. Loop!TypeOK'
  BY <1>1, <1>2, <1>3, LoopTypesKept DEF Loop!TypeOK
<1>5. Loop!SafeOnesAreFirst' /\ Loop!PairedTo(x11', Len(x11'))
  BY <1>1, <1>3 DEF Loop!IInv, Loop!SafeOnesAreFirst, Loop!HistoryStands, Loop!At
<1>. QED  BY <1>1, <1>2, <1>3, <1>4, <1>5, LoopBetween

LEMMA LoopTurnEnds == ASSUME Loop!IInv, Loop!TurnEnds PROVE Loop!IInv'
<1>1. Loop!TypeOK /\ x7 \in Loop!Owners /\ x7.pc = "finally"
  BY DEF Loop!IInv, Loop!TypeOK, Loop!TurnEnds, Loop!At
<1>2. x7' \in Loop!Owners /\ x7'.pc = "idle"
  BY <1>1 DEF Loop!TurnEnds, Loop!Owners
<1>3. /\ UNCHANGED <<x1, x3, x5, x6, x2, x8, x9, x10, x11>>
      /\ x4' = FALSE
  BY DEF Loop!TurnEnds, Loop!gates
<1>4. Loop!TypeOK'
  BY <1>1, <1>2, <1>3, LoopTypesKept DEF Loop!TypeOK
<1>5. Loop!SafeOnesAreFirst' /\ Loop!PairedTo(x11', Len(x11'))
  BY <1>1, <1>3 DEF Loop!IInv, Loop!SafeOnesAreFirst, Loop!HistoryStands, Loop!At
<1>. QED  BY <1>1, <1>2, <1>3, <1>4, <1>5, LoopBetween

LEMMA LoopFork == ASSUME Loop!IInv, NEW n \in DOMAIN x11, Loop!Fork(n) PROVE Loop!IInv'
<1>1. Loop!TypeOK /\ x7.pc = "idle" /\ x7' = x7
  BY DEF Loop!IInv, Loop!TypeOK, Loop!Fork, Loop!At
<1>2. UNCHANGED <<x1, x3, x5, x6, x2, x4, x7, x8, x9, x10>>
  BY DEF Loop!Fork, Loop!gates
<1> DEFINE m == Len(x11)
           h == SubSeq(x11, 1, n)
<1>3. m \in Nat /\ n \in 1..m /\ \A i \in 1..m : x11[i] \in Loop!Items
  BY <1>1, LoopSequences
<1>4. x11' = h /\ Loop!Whole(h)
  BY DEF Loop!Fork
<1>5. h \in Seq(Loop!Items) /\ Len(h) = n /\ \A i \in 1..n : h[i] = x11[i]
  <2>1. x11 \in Seq(Loop!Items) /\ 1 \in Int /\ n \in Int /\ \A i \in 1..n : x11[i] \in Loop!Items
    BY <1>1, <1>3 DEF Loop!TypeOK
  <2>. QED  BY <1>3, <2>1, SubSeqProperties
<1>6. Loop!PairedTo(x11, m)
  BY <1>1 DEF Loop!IInv, Loop!HistoryStands, Loop!At
<1>. HIDE DEF m, h
<1>7. h[n].kind \in {"user", "text"}
  <2>1. h # <<>> /\ Loop!Last(h) = h[n]
    BY <1>3, <1>5 DEF Loop!Last
  <2>. QED  BY <1>4, <2>1 DEF Loop!Whole
<1>8. Loop!PairedTo(x11, n)
  BY <1>3, <1>5, <1>6, <1>7, LoopPairedCut
<1>9. n \in Nat /\ \A i \in 1..n : x11[i] \in Loop!Items /\ h[i] = x11[i]
  BY <1>3, <1>5
<1>10. Loop!PairedTo(h, n)
  BY <1>8, <1>9, LoopPairedKeeps
<1>11. Loop!TypeOK'
  BY <1>1, <1>2, <1>4, <1>5, LoopTypesKept DEF Loop!TypeOK
<1>12. Loop!SafeOnesAreFirst'
  BY <1>2 DEF Loop!IInv, Loop!SafeOnesAreFirst
<1>13. Loop!PairedTo(x11', Len(x11'))
  BY <1>4, <1>5, <1>10
<1>. QED  BY <1>1, <1>2, <1>11, <1>12, <1>13, LoopBetween

LEMMA LoopOthers ==
  ASSUME Loop!IInv,
         Loop!Interrupt \/ \E t \in LoopTools : Loop!Reregister(t) \/ Loop!CircuitCools(t)
  PROVE  Loop!IInv'
<1>1. Loop!TypeOK
  BY DEF Loop!IInv
<1>2. CASE Loop!Interrupt
  <2>1. /\ UNCHANGED <<x1, x3, x5, x6, x2, x7, x8, x9, x10, x11>>
        /\ x4' = TRUE
    BY <1>2 DEF Loop!Interrupt, Loop!gates
  <2>2. Loop!TypeOK'
    BY <1>1, <2>1, LoopTypesKept DEF Loop!TypeOK
  <2>3. Loop!SafeOnesAreFirst'
    BY <2>1 DEF Loop!IInv, Loop!SafeOnesAreFirst
  <2>. QED  BY <2>1, <2>2, <2>3, LoopAside
<1>3. ASSUME NEW t \in LoopTools, Loop!Reregister(t) PROVE Loop!IInv'
  <2>1. UNCHANGED <<x3, x5, x6, x2, x4, x7, x8, x9, x10, x11>>
    BY <1>3 DEF Loop!Reregister
  <2>2. x1' = [x1 EXCEPT ![t] = IF @ = 1 THEN 0 ELSE 2]
    BY <1>3 DEF Loop!Reregister
  <2>3. x1' \in [LoopTools -> 0..2] /\ \A u \in LoopTools : x1'[u] = 1 => x1[u] = 1
    BY <1>1, <2>2 DEF Loop!TypeOK
  <2>4. Loop!TypeOK'
    BY <1>1, <2>1, <2>3, LoopTypesKept DEF Loop!TypeOK
  <2>5. Loop!SafeOnesAreFirst'
    BY <2>1, <2>3 DEF Loop!IInv, Loop!SafeOnesAreFirst
  <2>. QED  BY <2>1, <2>4, <2>5, LoopAside
<1>4. ASSUME NEW t \in LoopTools, Loop!CircuitCools(t) PROVE Loop!IInv'
  <2>1. UNCHANGED <<x1, x3, x6, x2, x4, x7, x8, x9, x10, x11>>
    BY <1>4 DEF Loop!CircuitCools
  <2>2. x5' \in [LoopTools -> [failures : Nat, open : BOOLEAN]]
    BY <1>1, <1>4 DEF Loop!TypeOK, Loop!CircuitCools
  <2>3. Loop!TypeOK'
    BY <1>1, <2>1, <2>2, LoopTypesKept DEF Loop!TypeOK
  <2>4. Loop!SafeOnesAreFirst'
    BY <2>1 DEF Loop!IInv, Loop!SafeOnesAreFirst
  <2>. QED  BY <2>1, <2>3, <2>4, LoopAside
<1>. QED  BY <1>2, <1>3, <1>4


(* The calls of an answer.                                                 *)

LEMMA LoopMaySafely ==
  ASSUME NEW i, NEW valid, NEW t
  PROVE  (~x6 /\ i \in valid /\ Loop!IsSafe(t, x1[t])) \in BOOLEAN
BY SMT DEF Loop!IsSafe

LEMMA LoopModelCalls ==
  ASSUME Loop!IInv, NEW n \in 1..LoopCalls, NEW names \in [1..n -> LoopTools],
         NEW valid \in SUBSET (1..n), Loop!ModelCalls(names, valid)
  PROVE  Loop!IInv'
<1>1. Loop!TypeOK /\ x7 \in Loop!Owners /\ x7.pc = "model"
  BY DEF Loop!IInv, Loop!TypeOK, Loop!ModelCalls, Loop!At
<1>2. UNCHANGED <<x1, x3, x5, x6, x2, x4>>
  BY DEF Loop!ModelCalls, Loop!gates
<1>3. n \in Nat
  <2>1. LoopCalls \in Nat
    BY LoopAssumption
  <2>. QED  BY <2>1
<1>4. Loop!SafeOnesAreFirst'
  BY <1>2 DEF Loop!IInv, Loop!SafeOnesAreFirst
<1>5. Loop!PairedTo(x11, Len(x11))
  BY <1>1 DEF Loop!IInv, Loop!HistoryStands, Loop!At
<1>6. CASE x4
  <2>1. x7' \in Loop!Owners /\ x7'.pc = "finally" /\ UNCHANGED <<x8, x11, x9, x10>>
    BY <1>1, <1>6 DEF Loop!ModelCalls, Loop!Owners
  <2>2. Loop!TypeOK'
    BY <1>1, <1>2, <2>1, LoopTypesKept DEF Loop!TypeOK
  <2>3. Loop!PairedTo(x11', Len(x11'))
    BY <1>5, <2>1
  <2>. QED  BY <1>1, <1>4, <2>1, <2>2, <2>3, LoopBetween
<1>7. CASE ~x4
  <2>1. /\ x7' = [x7 EXCEPT !.pc = "batch"]
        /\ x11' = Append(x11, Loop!Item("calls", Len(names)))
        /\ x9' = 1 /\ x10' = 0
    BY <1>7 DEF Loop!ModelCalls
  <2>2. x8' = [i \in DOMAIN names |->
               [tool |-> names[i], valid |-> i \in valid, adapter |-> 0, pc |-> "waiting",
                safe |-> ~x6 /\ i \in valid /\ Loop!IsSafe(names[i], x1[names[i]])]]
    BY <1>7 DEF Loop!ModelCalls
  <2>3. names \in Seq(LoopTools) /\ Len(names) = n /\ DOMAIN names = 1..n
    BY <1>3
  <2>4. ASSUME NEW i \in 1..n
        PROVE  x8'[i] \in Loop!Calls /\ x8'[i].pc = "waiting" /\ x8'[i].tool \in LoopTools
    <3>1. x8'[i] = [tool |-> names[i], valid |-> i \in valid, adapter |-> 0, pc |-> "waiting",
                      safe |-> ~x6 /\ i \in valid /\ Loop!IsSafe(names[i], x1[names[i]])]
      BY <2>2, <2>3
    <3>2. names[i] \in LoopTools
      OBVIOUS
    <3>3. \A t \in LoopTools, a, b \in BOOLEAN :
            [tool |-> t, valid |-> a, adapter |-> 0, pc |-> "waiting", safe |-> b] \in Loop!Calls
      <4>1. 0 \in 0..2
        OBVIOUS
      <4>. QED  BY <4>1, Zenon DEF Loop!Calls
    <3>4. (i \in valid) \in BOOLEAN
      OBVIOUS
    <3>5. (~x6 /\ i \in valid /\ Loop!IsSafe(names[i], x1[names[i]])) \in BOOLEAN
      BY LoopMaySafely, Zenon
    <3>6. x8'[i] \in Loop!Calls
      BY <3>1, <3>2, <3>3, <3>4, <3>5, Zenon
    <3>. QED  BY <3>1, <3>2, <3>6
  <2>5. x8' \in Seq(Loop!Calls) /\ Len(x8') = n /\ DOMAIN x8' = 1..n
    <3>1. x8' \in [1..n -> Loop!Calls] /\ DOMAIN x8' = 1..n
      BY <2>2, <2>3, <2>4
    <3>. QED  BY <1>3, <3>1
  <2>6. x7' \in Loop!Owners /\ x7'.pc = "batch"
    BY <1>1, <2>1 DEF Loop!Owners
  <2>7. Loop!Item("calls", n) \in Loop!Items
    BY <1>3 DEF Loop!Item, Loop!Items
  <2>8. /\ x11' \in Seq(Loop!Items) /\ Len(x11') = Len(x11) + 1
        /\ x11'[Len(x11) + 1] = Loop!Item("calls", n)
        /\ \A i \in 1..Len(x11) : x11'[i] = x11[i]
    BY <1>1, <2>1, <2>3, <2>7, LoopAppends
  <2>9. Loop!TypeOK'
    BY <1>1, <1>2, <2>1, <2>5, <2>6, <2>8, LoopTypesKept DEF Loop!TypeOK
  <2>10. Len(x11) \in Nat /\ \A i \in 1..Len(x11) : x11[i] \in Loop!Items
    BY <1>1, LoopSequences
  <2>11. Loop!PairedTo(x11', Len(x11))
    BY <1>5, <2>8, <2>10, LoopPairedKeeps
  <2>12. Loop!HistoryStands'
    <3>1. Len(x11') - x9' = Len(x11)
      BY <2>1, <2>8, <2>10
    <3>. QED  BY <2>1, <2>5, <2>6, <2>8, <2>10, <2>11, <3>1 DEF Loop!HistoryStands, Loop!At
  <2>13. Loop!BatchStands' /\ Loop!CallsAreApart' /\ Loop!BoundAsAdvertised'
    BY <1>3, <2>1, <2>4, <2>5, <2>6
       DEF Loop!BatchStands, Loop!CallsAreApart, Loop!BoundAsAdvertised, Loop!At
  <2>. QED  BY <1>4, <2>9, <2>12, <2>13 DEF Loop!IInv
<1>. QED  BY <1>6, <1>7

(* The results of some calls come behind those that were there. *)
LEMMA LoopResults ==
  ASSUME Loop!IInv, Loop!At("batch") \/ Loop!At("tools"), NEW end \in Nat,
         x9 <= end, end <= Len(x8),
         x11' = x11 \o Loop!Results(end), x9' = end + 1, x8' = x8
  PROVE  /\ x11' \in Seq(Loop!Items)
         /\ LET m == Len(x11') - x9' IN
            /\ m \in Nat /\ Loop!PairedTo(x11', m)
            /\ x11'[m + 1] = Loop!Item("calls", Len(x8'))
            /\ \A k \in 1..(x9' - 1) : x11'[m + 1 + k] = Loop!Item("result", k)
<1> DEFINE l == Len(x11)
           m == l - x9
           r == Loop!Results(end)
<1>1. Loop!TypeOK /\ x11 \in Seq(Loop!Items) /\ l \in Nat /\ x9 \in Nat \ {0}
  BY LoopSequences DEF Loop!IInv, Loop!TypeOK
<1>2. /\ m \in Nat /\ Loop!PairedTo(x11, m) /\ x11[m + 1] = Loop!Item("calls", Len(x8))
      /\ \A k \in 1..(x9 - 1) : x11[m + 1 + k] = Loop!Item("result", k)
  BY DEF Loop!IInv, Loop!HistoryStands
<1>3. end - x9 + 1 \in Nat
  BY <1>1
<1>4. \A k \in 1..(end - x9 + 1) : r[k] = Loop!Item("result", x9 + k - 1) /\ r[k] \in Loop!Items
  <2>1. \A k \in 1..(end - x9 + 1) : x9 + k - 1 \in Nat
    BY <1>1
  <2>. QED  BY <2>1 DEF Loop!Results, Loop!Item, Loop!Items
<1>5. r \in Seq(Loop!Items) /\ Len(r) = end - x9 + 1
  <2>1. r \in [1..(end - x9 + 1) -> Loop!Items]
    BY <1>4 DEF Loop!Results
  <2>. QED  BY <1>3, <2>1
<1>. HIDE DEF r
<1>6. /\ x11' \in Seq(Loop!Items) /\ Len(x11') = l + Len(r)
      /\ \A i \in 1..l : x11'[i] = x11[i]
      /\ \A i \in 1..Len(r) : x11'[l + i] = r[i]
  <2>1. x11' = x11 \o r
    BY DEF r
  <2>2. /\ x11 \o r \in Seq(Loop!Items) /\ Len(x11 \o r) = Len(x11) + Len(r)
        /\ \A i \in 1..(Len(x11) + Len(r)) : (x11 \o r)[i] =
             IF i <= Len(x11) THEN x11[i] ELSE r[i - Len(x11)]
    BY <1>1, <1>5, ConcatProperties
  <2>3. ASSUME NEW i \in 1..l PROVE x11'[i] = x11[i]
    BY <1>1, <1>3, <1>5, <2>1, <2>2
  <2>4. ASSUME NEW i \in 1..Len(r) PROVE x11'[l + i] = r[i]
    <3>1. l + i \in 1..(l + Len(r)) /\ ~(l + i <= l) /\ (l + i) - l = i
      BY <1>1, <1>3, <1>5
    <3>. QED  BY <2>1, <2>2, <3>1
  <2>. QED  BY <2>1, <2>2, <2>3, <2>4
<1>7. Len(x11') - x9' = m
  BY <1>1, <1>5, <1>6
<1>8. m + 1 \in 1..l
  BY <1>1, <1>2
<1>9. x11'[m + 1] = Loop!Item("calls", Len(x8'))
  BY <1>2, <1>6, <1>8
<1>10. Loop!PairedTo(x11', m)
  <2>1. \A i \in 1..m : x11[i] \in Loop!Items /\ x11'[i] = x11[i]
    BY <1>1, <1>2, <1>6, <1>8, LoopSequences
  <2>. QED  BY <1>2, <2>1, LoopPairedKeeps
<1>11. ASSUME NEW k \in 1..end PROVE x11'[m + 1 + k] = Loop!Item("result", k)
  <2>1. CASE k < x9
    <3>1. k \in 1..(x9 - 1) /\ m + 1 + k \in 1..l
      BY <1>1, <1>2, <2>1
    <3>. QED  BY <1>2, <1>6, <3>1
  <2>2. CASE k >= x9
    <3>1. k - x9 + 1 \in 1..Len(r) /\ l + (k - x9 + 1) = m + 1 + k /\ x9 + (k - x9 + 1) - 1 = k
      BY <1>1, <1>5, <2>2
    <3>2. x11'[m + 1 + k] = r[k - x9 + 1]
      BY <1>6, <3>1
    <3>3. r[k - x9 + 1] = Loop!Item("result", k)
      BY <1>4, <1>5, <3>1
    <3>. QED  BY <3>2, <3>3
  <2>3. k \in Nat /\ x9 \in Nat
    BY <1>1
  <2>4. k < x9 \/ k >= x9
    BY <2>3
  <2>. QED  BY <2>1, <2>2, <2>4, Zenon
<1>12. x9' - 1 = end
  OBVIOUS
<1>. QED  BY <1>2, <1>6, <1>7, <1>9, <1>10, <1>11, <1>12

LEMMA LoopBatchIsInterrupted ==
  ASSUME Loop!IInv, Loop!At("batch"), x9 <= Len(x8), Loop!BatchIsInterrupted,
         UNCHANGED <<Loop!gates, x2, x4>>
  PROVE  Loop!IInv'
<1>1. Loop!TypeOK /\ x9 \in Nat \ {0} /\ Len(x8) \in Nat /\ DOMAIN x8 = 1..Len(x8)
  BY LoopSequences DEF Loop!IInv, Loop!TypeOK
<1> DEFINE end == Loop!BatchEnds
<1>2. end \in x9..Len(x8)
  BY <1>1, LoopBatchEnds
<1>3. /\ x11' = x11 \o Loop!Results(end) /\ x9' = end + 1 /\ x10' = end
      /\ UNCHANGED <<x7, x8>>
  BY DEF Loop!BatchIsInterrupted
<1>. HIDE DEF end
<1>4. end \in Nat /\ x9 <= end /\ end <= Len(x8)
  BY <1>1, <1>2
<1>5. UNCHANGED <<x1, x3, x5, x6, x2, x4>>
  BY DEF Loop!gates
<1>6. /\ x11' \in Seq(Loop!Items)
      /\ LET m == Len(x11') - x9' IN
            /\ m \in Nat /\ Loop!PairedTo(x11', m)
            /\ x11'[m + 1] = Loop!Item("calls", Len(x8'))
            /\ \A k \in 1..(x9' - 1) : x11'[m + 1 + k] = Loop!Item("result", k)
  BY <1>3, <1>4, LoopResults
<1>7. Loop!TypeOK'
  BY <1>1, <1>3, <1>4, <1>5, <1>6, LoopTypesKept DEF Loop!TypeOK
<1>8. Loop!HistoryStands'
  BY <1>3, <1>6 DEF Loop!HistoryStands, Loop!At
<1>9. Loop!SafeOnesAreFirst'
  BY <1>5 DEF Loop!IInv, Loop!SafeOnesAreFirst
<1>10. x7'.pc = "batch"
  BY <1>3 DEF Loop!At
<1>11. Loop!CallsAreApart' /\ Loop!BoundAsAdvertised'
  BY <1>3, <1>5, <1>10
     DEF Loop!IInv, Loop!CallsAreApart, Loop!BoundAsAdvertised, Loop!Permitted, Loop!At
<1>12. Loop!BatchStands'
  BY <1>1, <1>3, <1>4, <1>10 DEF Loop!IInv, Loop!BatchStands, Loop!At
<1>. QED  BY <1>7, <1>8, <1>9, <1>11, <1>12 DEF Loop!IInv

(* The calls of a batch.                                                   *)

LEMMA LoopBatchIsPrepared ==
  ASSUME Loop!IInv, Loop!At("batch"), x9 <= Len(x8),
         NEW refused \in SUBSET (x9..Len(x8)), Loop!BatchIsPrepared(refused),
         UNCHANGED <<Loop!gates, x2, x4>>
  PROVE  Loop!IInv'
<1>1. Loop!TypeOK /\ x9 \in Nat \ {0} /\ Len(x8) \in Nat /\ DOMAIN x8 = 1..Len(x8)
      /\ \A i \in 1..Len(x8) : x8[i] \in Loop!Calls
  BY LoopSequences DEF Loop!IInv, Loop!TypeOK
<1> DEFINE end == Loop!BatchEnds
           prep == [i \in DOMAIN x8 |-> IF i \in x9..end THEN Loop!Prepared(x8[i], i \in refused)
                                          ELSE x8[i]]
           par == /\ end > x9
                  /\ \A i \in x9..end :
                       /\ prep[i].pc = "ready" /\ x8[i].safe
                       /\ Loop!IsSafe(x8[i].tool, x1[x8[i].tool])
<1>2. end \in x9..Len(x8)
  BY <1>1, LoopBatchEnds
<1>3. /\ x8' = prep /\ x10' = end /\ x9' = x9 /\ x11' = x11
      /\ x7' = [x7 EXCEPT !.pc = "tools", !.parallel = par]
  BY DEF Loop!BatchIsPrepared
<1>. HIDE DEF end
<1>4. end \in Nat /\ x9 <= end /\ end <= Len(x8)
  BY <1>1, <1>2
<1>5. UNCHANGED <<x1, x3, x5, x6, x2, x4>>
  BY DEF Loop!gates
<1>6. ASSUME NEW i \in 1..Len(x8)
      PROVE  /\ x8'[i] \in Loop!Calls /\ x8'[i].tool = x8[i].tool
             /\ IF i \in x9..end THEN x8'[i].pc \in {"ready", "refused"} ELSE x8'[i] = x8[i]
  <2>1. CASE i \in x9..end
    <3>1. x8'[i] = Loop!Prepared(x8[i], i \in refused)
      BY <1>1, <1>3, <2>1
    <3>2. (i \in refused) \in BOOLEAN /\ x8[i] \in Loop!Calls
      BY <1>1
    <3>. QED  BY <2>1, <3>1, <3>2 DEF Loop!Prepared, Loop!Calls
  <2>2. CASE i \notin x9..end
    <3>1. x8'[i] = x8[i]
      BY <1>1, <1>3, <2>2
    <3>. QED  BY <1>1, <2>2, <3>1
  <2>. QED  BY <2>1, <2>2
<1>7. x8' \in Seq(Loop!Calls) /\ Len(x8') = Len(x8) /\ DOMAIN x8' = 1..Len(x8)
  <2>1. DOMAIN x8' = 1..Len(x8) /\ x8' \in [1..Len(x8) -> Loop!Calls]
    BY <1>1, <1>3, <1>6
  <2>. QED  BY <1>1, <2>1
<1>8. par \in BOOLEAN
  BY Zenon
<1>9. par => \A i \in x9..end :
        /\ x8[i].safe
        /\ Loop!IsSafe(x8[i].tool, x1[x8[i].tool])
  OBVIOUS
<1>. HIDE DEF par, prep
<1>10. x7' \in Loop!Owners /\ x7'.pc = "tools" /\ x7'.parallel = par
  <2>1. x7 \in Loop!Owners
    BY <1>1 DEF Loop!TypeOK
  <2>. QED  BY <1>3, <1>8, <2>1 DEF Loop!Owners
<1>11. Loop!TypeOK'
  BY <1>1, <1>3, <1>4, <1>5, <1>7, <1>10, LoopTypesKept DEF Loop!TypeOK
<1>12. Loop!SafeOnesAreFirst'
  BY <1>5 DEF Loop!IInv, Loop!SafeOnesAreFirst
<1>13. \A i \in 1..Len(x8) :
        /\ x8[i].pc \in {"waiting", "done"}
        /\ i >= x9 => x8[i].pc = "waiting" /\ x8[i].tool \in LoopTools
        /\ x8[i].pc # "done" => x8[i].tool \in LoopTools
  BY <1>1 DEF Loop!IInv, Loop!BatchStands, Loop!At
<1>14. Loop!BatchStands'
  <2>1. x9' <= x10' /\ x10' <= Len(x8')
    BY <1>3, <1>4, <1>7
  <2>2. ASSUME NEW i \in 1..Len(x8)
        PROVE  /\ x8'[i].pc \notin {"waiting", "done"} => i \in x9..end
               /\ x8'[i].pc # "done" => x8'[i].tool \in LoopTools
               /\ i > end => x8'[i].pc = "waiting"
    <3>1. CASE i \in x9..end
      BY <1>1, <1>4, <1>6, <1>13, <3>1
    <3>2. CASE i \notin x9..end
      BY <1>1, <1>4, <1>6, <1>13, <3>2
    <3>. QED  BY <3>1, <3>2
  <2>. QED  BY <1>3, <1>7, <1>10, <2>1, <2>2 DEF Loop!BatchStands, Loop!At, Loop!Batch
<1>15. Loop!CallsAreApart'
  <2>1. ASSUME par, NEW i \in x9..end
        PROVE  x8'[i].tool \in LoopSafe /\ x2'[x8'[i].tool] \in {0, 1}
    <3>1. i \in 1..Len(x8) /\ i >= x9
      BY <1>1, <1>4
    <3>2. x8[i].tool \in LoopSafe /\ x1[x8[i].tool] = 1 /\ x8[i].tool \in LoopTools
      BY <1>9, <1>13, <2>1, <3>1 DEF Loop!IsSafe
    <3>3. x2[x8[i].tool] \in {0, 1}
      BY <3>2 DEF Loop!IInv, Loop!SafeOnesAreFirst
    <3>. QED  BY <1>5, <1>6, <3>1, <3>2, <3>3
  <2>2. ASSUME NEW i \in x9..end
        PROVE  x8'[i].pc \notin Loop!Active
    BY <1>1, <1>4, <1>6 DEF Loop!Active
  <2>. QED  BY <1>3, <1>10, <2>1, <2>2 DEF Loop!CallsAreApart, Loop!At, Loop!Batch
<1>16. Loop!BoundAsAdvertised'
  BY <1>6, <1>7, <1>13 DEF Loop!BoundAsAdvertised
<1>17. Loop!HistoryStands'
  BY <1>3, <1>7, <1>10 DEF Loop!IInv, Loop!HistoryStands, Loop!At
<1>. QED  BY <1>11, <1>12, <1>14, <1>15, <1>16, <1>17 DEF Loop!IInv

LEMMA LoopNextBatch == ASSUME Loop!IInv, Loop!NextBatch PROVE Loop!IInv'
<1>1. Loop!At("batch") /\ x9 <= Len(x8) /\ UNCHANGED <<Loop!gates, x2, x4>>
  BY DEF Loop!NextBatch
<1>2. CASE Loop!BatchIsInterrupted
  BY <1>1, <1>2, LoopBatchIsInterrupted
<1>3. ASSUME NEW refused \in SUBSET (x9..Len(x8)), Loop!BatchIsPrepared(refused) PROVE Loop!IInv'
  BY <1>1, <1>3, LoopBatchIsPrepared
<1>. QED  BY <1>2, <1>3 DEF Loop!NextBatch

LEMMA LoopStepEnds == ASSUME Loop!IInv, Loop!StepEnds PROVE Loop!IInv'
<1>1. Loop!TypeOK /\ x7 \in Loop!Owners /\ x7.pc = "batch"
  BY DEF Loop!IInv, Loop!TypeOK, Loop!StepEnds, Loop!At
<1>2. /\ UNCHANGED <<x1, x3, x5, x6, x2, x4, x11>>
      /\ x8' = <<>> /\ x9' = 1 /\ x10' = 0
      /\ x7' = [x7 EXCEPT !.pc = "step", !.step = @ + 1]
  BY DEF Loop!StepEnds, Loop!gates
<1>3. x7' \in Loop!Owners /\ x7'.pc = "step"
  <2> DEFINE n == x7.step + 1
  <2>1. n \in Nat
    BY <1>1 DEF Loop!Owners
  <2>2. x7' = [x7 EXCEPT !.pc = "step", !.step = n]
    BY <1>2
  <2>. HIDE DEF n
  <2>. QED  BY <1>1, <2>1, <2>2 DEF Loop!Owners
<1>4. Loop!TypeOK'
  <2>1. x8' \in Seq(Loop!Calls)
    BY <1>2
  <2>. QED  BY <1>1, <1>2, <1>3, <2>1, LoopTypesKept DEF Loop!TypeOK
<1>5. x9 = Len(x8) + 1 /\ Len(x8) \in Nat /\ Len(x11) \in Nat
      /\ \A i \in 1..Len(x11) : x11[i] \in Loop!Items
  <2>1. x9 <= Len(x8) + 1 /\ x9 > Len(x8)
    BY <1>1 DEF Loop!IInv, Loop!BatchStands, Loop!StepEnds, Loop!At
  <2>. QED  BY <1>1, <2>1, LoopSequences DEF Loop!TypeOK
<1>6. Loop!PairedTo(x11, Len(x11))
  <2> DEFINE m == Len(x11) - x9
             n == Len(x8)
  <2>1. /\ m \in Nat /\ Loop!PairedTo(x11, m) /\ x11[m + 1] = Loop!Item("calls", n)
        /\ \A k \in 1..(x9 - 1) : x11[m + 1 + k] = Loop!Item("result", k)
    BY <1>1 DEF Loop!IInv, Loop!HistoryStands, Loop!At
  <2>2. \A k \in 1..n : x11[m + 1 + k] = Loop!Item("result", k)
    BY <1>5, <2>1
  <2>3. m + 1 + n = Len(x11) /\ \A i \in 1..m : x11[i] \in Loop!Items
    BY <1>5, <2>1
  <2>. HIDE DEF m, n
  <2>4. n \in Nat
    BY <1>5 DEF n
  <2>5. Loop!PairedTo(x11, m + 1 + n)
    BY <2>1, <2>2, <2>3, <2>4, LoopPairedCalls
  <2>. QED  BY <2>3, <2>5
<1>7. Loop!SafeOnesAreFirst'
  BY <1>2 DEF Loop!IInv, Loop!SafeOnesAreFirst
<1>8. Loop!BatchStands' /\ Loop!CallsAreApart' /\ Loop!BoundAsAdvertised'
  BY <1>2, <1>3 DEF Loop!BatchStands, Loop!CallsAreApart, Loop!BoundAsAdvertised, Loop!At
<1>9. Loop!HistoryStands'
  BY <1>2, <1>3, <1>6 DEF Loop!HistoryStands, Loop!At
<1>. QED  BY <1>4, <1>7, <1>8, <1>9 DEF Loop!IInv

LEMMA LoopCollect == ASSUME Loop!IInv, Loop!Collect PROVE Loop!IInv'
<1>1. Loop!TypeOK /\ x7 \in Loop!Owners /\ x7.pc = "tools" /\ x9 \in Nat \ {0} /\ x10 \in Nat
      /\ Len(x8) \in Nat /\ DOMAIN x8 = 1..Len(x8)
  BY LoopSequences DEF Loop!IInv, Loop!TypeOK, Loop!Collect, Loop!At
<1>2. /\ UNCHANGED <<x1, x3, x5, x6, x2, x4, x8, x10>>
      /\ x11' = x11 \o Loop!Results(x10) /\ x9' = x10 + 1
      /\ x7' = [x7 EXCEPT !.pc = "batch", !.parallel = FALSE]
      /\ \A i \in x9..x10 : x8[i].pc = "done"
  BY DEF Loop!Collect, Loop!gates, Loop!Batch
<1>3. x9 <= x10 /\ x10 <= Len(x8)
  BY <1>1 DEF Loop!IInv, Loop!BatchStands, Loop!At
<1>4. x7' \in Loop!Owners /\ x7'.pc = "batch"
  BY <1>1, <1>2 DEF Loop!Owners
<1>5. /\ x11' \in Seq(Loop!Items)
      /\ LET m == Len(x11') - x9' IN
            /\ m \in Nat /\ Loop!PairedTo(x11', m)
            /\ x11'[m + 1] = Loop!Item("calls", Len(x8'))
            /\ \A k \in 1..(x9' - 1) : x11'[m + 1 + k] = Loop!Item("result", k)
  BY <1>1, <1>2, <1>3, LoopResults DEF Loop!At
<1>6. Loop!TypeOK'
  <2>1. x9' \in Nat \ {0}
    BY <1>1, <1>2
  <2>2. x8' \in Seq(Loop!Calls) /\ x10' \in Nat
    BY <1>1, <1>2 DEF Loop!TypeOK
  <2>. QED  BY <1>1, <1>2, <1>4, <1>5, <2>1, <2>2, LoopTypesKept DEF Loop!TypeOK
<1>7. Loop!HistoryStands'
  BY <1>4, <1>5 DEF Loop!HistoryStands, Loop!At
<1>8. Loop!SafeOnesAreFirst'
  BY <1>2 DEF Loop!IInv, Loop!SafeOnesAreFirst
<1>9. \A i \in 1..Len(x8) :
        /\ x8[i].pc \in {"waiting", "done"}
        /\ i > x10 => x8[i].pc = "waiting"
        /\ x8[i].pc # "done" => x8[i].tool \in LoopTools
  BY <1>1, <1>2 DEF Loop!IInv, Loop!BatchStands, Loop!At, Loop!Batch
<1>10. Loop!CallsAreApart' /\ Loop!BoundAsAdvertised'
  BY <1>1, <1>2, <1>4, <1>9 DEF Loop!CallsAreApart, Loop!BoundAsAdvertised, Loop!At
<1>11. Loop!BatchStands'
  BY <1>1, <1>2, <1>3, <1>4, <1>9 DEF Loop!BatchStands, Loop!At
<1>. QED  BY <1>6, <1>7, <1>8, <1>10, <1>11 DEF Loop!IInv

(* One call of the batch moves. *)
LEMMA LoopCallMoves ==
  ASSUME Loop!IInv, Loop!TypeOK', Loop!At("tools"), NEW i \in Loop!Batch, i \in DOMAIN x8,
         NEW c \in Loop!Calls, x8' = [x8 EXCEPT ![i] = c],
         UNCHANGED <<x1, x2, x7, x9, x10, x11>>,
         x8[i].pc # "done",
         c.pc # "done" => c.tool = x8[i].tool,
         c.pc # "waiting",
         c.pc \in Loop!Active => x7.parallel \/ \A j \in x9..(i - 1) : x8[j].pc = "done",
         c.pc \in {"bound", "running"} => c.adapter = x2[c.tool] /\ c.adapter # 0,
         c.pc = "bound" /\ x3' => c.tool \in LoopPlanTools,
         x3' = x3 \/ \A j \in DOMAIN x8 : j # i => x8[j].pc # "bound"
  PROVE  Loop!IInv'
<1>1. Loop!TypeOK /\ x9 \in Nat \ {0} /\ x10 \in Nat /\ Len(x8) \in Nat /\ DOMAIN x8 = 1..Len(x8)
      /\ x7.pc = "tools"
  BY LoopSequences DEF Loop!IInv, Loop!TypeOK, Loop!At
<1>2. DOMAIN x8' = DOMAIN x8 /\ Len(x8') = Len(x8) /\ x8'[i] = c
      /\ \A j \in DOMAIN x8 : j # i => x8'[j] = x8[j]
  <2>1. x8' \in Seq(Loop!Calls) /\ DOMAIN x8' = DOMAIN x8
    BY <1>1 DEF Loop!TypeOK
  <2>2. Len(x8') = Len(x8)
    BY <1>1, <2>1
  <2>. QED  BY <2>1, <2>2
<1>3. x9 <= x10 /\ x10 <= Len(x8) /\ i \in x9..x10
  BY <1>1 DEF Loop!IInv, Loop!BatchStands, Loop!At, Loop!Batch
<1>4. x8[i].tool \in LoopTools
  BY DEF Loop!IInv, Loop!BatchStands
<1>5. Loop!BatchStands'
  <2>1. ASSUME NEW j \in DOMAIN x8
        PROVE  /\ j > x10 => x8'[j].pc = "waiting"
               /\ x8'[j].pc \notin {"waiting", "done"} => j \in x9..x10
               /\ x8'[j].pc # "done" => x8'[j].tool \in LoopTools
    <3>1. CASE j = i
      BY <1>1, <1>2, <1>3, <1>4, <3>1
    <3>2. CASE j # i
      BY <1>1, <1>2, <3>2 DEF Loop!IInv, Loop!BatchStands, Loop!At, Loop!Batch
    <3>. QED  BY <3>1, <3>2
  <2>. QED  BY <1>1, <1>2, <1>3, <2>1 DEF Loop!BatchStands, Loop!At, Loop!Batch
<1>6. Loop!CallsAreApart'
  <2>1. ASSUME x7.parallel, NEW j \in x9..x10, x8'[j].pc # "done"
        PROVE  x8'[j].tool \in LoopSafe /\ x2[x8'[j].tool] \in {0, 1}
    <3>1. j \in DOMAIN x8 /\ x8[j].pc # "done" /\ x8'[j].tool = x8[j].tool
      BY <1>1, <1>2, <1>3, <2>1
    <3>. QED  BY <1>1, <2>1, <3>1 DEF Loop!IInv, Loop!CallsAreApart, Loop!At, Loop!Batch
  <2>2. ASSUME ~x7.parallel, NEW j \in x9..x10, x8'[j].pc \in Loop!Active, NEW k \in x9..(j - 1)
        PROVE  x8'[k].pc = "done"
    <3>1. j \in DOMAIN x8 /\ k \in DOMAIN x8 /\ k \in x9..x10 /\ k < j
      BY <1>1, <1>3
    <3>2. CASE j = i
      BY <1>1, <1>2, <2>2, <3>1, <3>2
    <3>3. CASE j # i
      <4>1. x8[j].pc \in Loop!Active
        BY <1>2, <2>2, <3>1, <3>3
      <4>2. x8[k].pc = "done"
        BY <1>1, <2>2, <4>1 DEF Loop!IInv, Loop!CallsAreApart, Loop!At, Loop!Batch
      <4>3. k # i
        BY <4>2
      <4>. QED  BY <1>2, <3>1, <4>2, <4>3
    <3>. QED  BY <3>2, <3>3
  <2>. QED  BY <1>1, <2>1, <2>2 DEF Loop!CallsAreApart, Loop!At, Loop!Batch
<1>7. Loop!BoundAsAdvertised'
  <2>1. ASSUME NEW j \in DOMAIN x8, x8'[j].pc \in {"bound", "running"}
        PROVE  /\ x8'[j].adapter = x2[x8'[j].tool] /\ x8'[j].adapter # 0
               /\ x8'[j].pc = "bound" /\ x3' => x8'[j].tool \in LoopPlanTools
    <3>1. CASE j = i
      <4>1. x8'[j] = c
        BY <1>2, <3>1
      <4>. QED  BY <2>1, <4>1
    <3>2. CASE j # i
      <4>1. x8'[j] = x8[j]
        BY <1>2, <3>2
      <4>2. x8[j].pc = "bound" => x3' = x3
        BY <3>2
      <4>. QED  BY <2>1, <4>1, <4>2 DEF Loop!IInv, Loop!BoundAsAdvertised, Loop!Permitted
    <3>. QED  BY <3>1, <3>2
  <2>. QED  BY <1>2, <2>1 DEF Loop!BoundAsAdvertised, Loop!Permitted
<1>8. Loop!SafeOnesAreFirst' /\ Loop!HistoryStands'
  BY <1>1, <1>2 DEF Loop!IInv, Loop!SafeOnesAreFirst, Loop!HistoryStands, Loop!At
<1>. QED  BY <1>5, <1>6, <1>7, <1>8 DEF Loop!IInv

LEMMA LoopGoes ==
  ASSUME Loop!TypeOK, NEW i \in DOMAIN x8,
         NEW pc \in {"dispatched", "running", "done"}, Loop!Goes(i, pc)
  PROVE  \E c \in Loop!Calls :
           /\ x8' = [x8 EXCEPT ![i] = c] /\ c.pc = pc
           /\ pc # "done" => c.tool = x8[i].tool /\ c.adapter = x8[i].adapter
<1>1. x8[i] \in Loop!Calls
  BY LoopSequences
<1>2. CASE pc = "done"
  <2>1. "" \in LoopTools \cup {""} /\ FALSE \in BOOLEAN /\ 0 \in 0..2
    OBVIOUS
  <2>2. Loop!Answered \in Loop!Calls /\ Loop!Answered.pc = "done"
    BY <2>1, Zenon DEF Loop!Answered, Loop!Calls
  <2>3. x8' = [x8 EXCEPT ![i] = Loop!Answered]
    BY <1>2 DEF Loop!Goes
  <2>. QED  BY <1>2, <2>2, <2>3, Zenon
<1>3. CASE pc # "done"
  <2> DEFINE c == [x8[i] EXCEPT !.pc = pc]
  <2>1. c \in Loop!Calls /\ c.pc = pc /\ c.tool = x8[i].tool /\ c.adapter = x8[i].adapter
    BY <1>1 DEF Loop!Calls
  <2>2. x8' = [x8 EXCEPT ![i] = c]
    BY <1>3 DEF Loop!Goes
  <2>. HIDE DEF c
  <2>. QED  BY <2>1, <2>2, Zenon
<1>. QED  BY <1>2, <1>3

LEMMA LoopWorkKept ==
  ASSUME Loop!TypeOK, NEW i \in DOMAIN x8, NEW c \in Loop!Calls, x8' = [x8 EXCEPT ![i] = c]
  PROVE  x8' \in Seq(Loop!Calls)
<1>1. x8 \in Seq(Loop!Calls)
  BY DEF Loop!TypeOK
<1>. QED  BY <1>1, ExceptSeq

LEMMA LoopExecute == ASSUME Loop!IInv, NEW i \in DOMAIN x8, Loop!Execute(i) PROVE Loop!IInv'
<1>1. Loop!TypeOK /\ Loop!At("tools") /\ i \in Loop!Batch /\ x8[i].pc \in {"ready", "refused"}
      /\ (x7.parallel \/ \A j \in x9..(i - 1) : x8[j].pc = "done")
  BY DEF Loop!IInv, Loop!Execute
<1>2. UNCHANGED <<x1, x3, x5, x6, x2, x4, x7, x9, x10, x11>>
  BY DEF Loop!Execute, Loop!gates
<1>3. PICK pc \in {"done", "dispatched"} : Loop!Goes(i, pc)
  BY DEF Loop!Execute
<1>4. PICK c \in Loop!Calls :
        /\ x8' = [x8 EXCEPT ![i] = c] /\ c.pc = pc
        /\ pc # "done" => c.tool = x8[i].tool /\ c.adapter = x8[i].adapter
  BY <1>1, <1>3, LoopGoes
<1>5. x8' \in Seq(Loop!Calls)
  BY <1>1, <1>4, LoopWorkKept
<1>6. Loop!TypeOK'
  BY <1>1, <1>2, <1>5, LoopTypesKept DEF Loop!TypeOK
<1>. QED  BY <1>1, <1>2, <1>4, <1>6, LoopCallMoves

(* A call that is under way had its turn. *)
LEMMA LoopHadItsTurn ==
  ASSUME Loop!IInv, Loop!At("tools"), NEW i \in Loop!Batch, x8[i].pc \in Loop!Active
  PROVE  x7.parallel \/ \A j \in x9..(i - 1) : x8[j].pc = "done"
BY DEF Loop!IInv, Loop!CallsAreApart

LEMMA LoopBind == ASSUME Loop!IInv, NEW i \in DOMAIN x8, Loop!Bind(i) PROVE Loop!IInv'
<1>1. Loop!TypeOK /\ Loop!At("tools") /\ i \in Loop!Batch /\ x8[i].pc = "dispatched"
  BY DEF Loop!IInv, Loop!Bind
<1>2. UNCHANGED <<x1, x3, x5, x6, x2, x4, x7, x9, x10, x11>>
  BY DEF Loop!Bind, Loop!gates
<1>3. x7.parallel \/ \A j \in x9..(i - 1) : x8[j].pc = "done"
  BY <1>1, LoopHadItsTurn DEF Loop!Active
<1>4. x8[i] \in Loop!Calls /\ x8[i].tool \in LoopTools
  BY <1>1, LoopSequences DEF Loop!IInv, Loop!BatchStands
<1>5. CASE Loop!Bound(x8[i].tool)
  <2> DEFINE c == [[x8[i] EXCEPT !.pc = "bound"] EXCEPT !.adapter = x1[x8[i].tool]]
  <2>1. x1[x8[i].tool] \in 0..2
    BY <1>1, <1>4 DEF Loop!TypeOK
  <2>2. [x8[i] EXCEPT !.pc = "bound"] \in Loop!Calls
    BY <1>4 DEF Loop!Calls
  <2>3. \A d \in Loop!Calls, a \in 0..2 :
        /\ [d EXCEPT !.adapter = a] \in Loop!Calls
        /\ [d EXCEPT !.adapter = a].pc = d.pc
        /\ [d EXCEPT !.adapter = a].tool = d.tool
        /\ [d EXCEPT !.adapter = a].adapter = a
    BY DEF Loop!Calls
  <2>4. /\ [x8[i] EXCEPT !.pc = "bound"].pc = "bound"
        /\ [x8[i] EXCEPT !.pc = "bound"].tool = x8[i].tool
    BY <1>4 DEF Loop!Calls
  <2>5. c \in Loop!Calls /\ c.pc = "bound" /\ c.tool = x8[i].tool /\ c.adapter = x1[x8[i].tool]
    BY <2>1, <2>2, <2>3, <2>4
  <2>6. x8' = [x8 EXCEPT ![i] = c]
    BY <1>5 DEF Loop!Bind
  <2>7. /\ x1[x8[i].tool] = x2[x8[i].tool] /\ x2[x8[i].tool] # 0
        /\ x3 => x8[i].tool \in LoopPlanTools
    BY <1>5 DEF Loop!Bound, Loop!Offered, Loop!Permitted
  <2>. HIDE DEF c
  <2>8. Loop!TypeOK'
    <3>1. x8' \in Seq(Loop!Calls)
      BY <1>1, <2>5, <2>6, LoopWorkKept
    <3>. QED  BY <1>1, <1>2, <3>1, LoopTypesKept DEF Loop!TypeOK
  <2>. QED  BY <1>1, <1>2, <1>3, <2>5, <2>6, <2>7, <2>8, LoopCallMoves
<1>6. CASE ~Loop!Bound(x8[i].tool)
  <2>1. Loop!Goes(i, "done")
    BY <1>6 DEF Loop!Bind
  <2>2. PICK c \in Loop!Calls : x8' = [x8 EXCEPT ![i] = c] /\ c.pc = "done"
    BY <1>1, <2>1, LoopGoes
  <2>3. Loop!TypeOK'
    <3>1. x8' \in Seq(Loop!Calls)
      BY <1>1, <2>2, LoopWorkKept
    <3>. QED  BY <1>1, <1>2, <3>1, LoopTypesKept DEF Loop!TypeOK
  <2>. QED  BY <1>1, <1>2, <1>3, <2>2, <2>3, LoopCallMoves DEF Loop!Active
<1>. QED  BY <1>5, <1>6

LEMMA LoopStart == ASSUME Loop!IInv, NEW i \in DOMAIN x8, Loop!Start(i) PROVE Loop!IInv'
<1>1. Loop!TypeOK /\ Loop!At("tools") /\ i \in Loop!Batch /\ x8[i].pc = "bound"
  BY DEF Loop!IInv, Loop!Start
<1>2. UNCHANGED <<x1, x3, x5, x6, x2, x4, x7, x9, x10, x11>>
  BY DEF Loop!Start, Loop!gates
<1>3. x7.parallel \/ \A j \in x9..(i - 1) : x8[j].pc = "done"
  BY <1>1, LoopHadItsTurn DEF Loop!Active
<1>4. x8[i].adapter = x2[x8[i].tool] /\ x8[i].adapter # 0
  BY <1>1 DEF Loop!IInv, Loop!BoundAsAdvertised
<1>5. PICK pc \in {"done", "running"} : Loop!Goes(i, pc)
  BY DEF Loop!Start
<1>6. PICK c \in Loop!Calls :
        /\ x8' = [x8 EXCEPT ![i] = c] /\ c.pc = pc
        /\ pc # "done" => c.tool = x8[i].tool /\ c.adapter = x8[i].adapter
  BY <1>1, <1>5, LoopGoes
<1>7. Loop!TypeOK'
  <2>1. x8' \in Seq(Loop!Calls)
    BY <1>1, <1>6, LoopWorkKept
  <2>. QED  BY <1>1, <1>2, <2>1, LoopTypesKept DEF Loop!TypeOK
<1>. QED  BY <1>1, <1>2, <1>3, <1>4, <1>6, <1>7, LoopCallMoves

(* The plan mode is switched by a call that has the tools for itself. *)
LEMMA LoopRunsAlone ==
  ASSUME Loop!IInv, Loop!At("tools"), NEW i \in DOMAIN x8, x8[i].pc \in Loop!Active,
         x8[i].tool \notin LoopSafe,
         NEW j \in DOMAIN x8, x8[j].pc \in Loop!Active
  PROVE  j = i
<1>1. i \in Loop!Batch /\ j \in Loop!Batch
  BY DEF Loop!IInv, Loop!BatchStands, Loop!Active
<1>2. ~x7.parallel
  BY <1>1 DEF Loop!IInv, Loop!CallsAreApart, Loop!Active
<1>3. /\ \A k \in x9..(i - 1) : x8[k].pc = "done"
      /\ \A k \in x9..(j - 1) : x8[k].pc = "done"
  BY <1>1, <1>2 DEF Loop!IInv, Loop!CallsAreApart
<1>4. x9 \in Nat /\ x10 \in Nat /\ i \in x9..x10 /\ j \in x9..x10
  BY <1>1 DEF Loop!IInv, Loop!TypeOK, Loop!Batch
<1>5. ~(i < j) /\ ~(j < i)
  BY <1>3, <1>4 DEF Loop!Active
<1>. QED  BY <1>4, <1>5

LEMMA LoopRecords ==
  ASSUME Loop!TypeOK, NEW t \in LoopTools, NEW failed \in BOOLEAN, Loop!Record(t, failed)
  PROVE  x5' \in [LoopTools -> [failures : Nat, open : BOOLEAN]]
<1> DEFINE n == x5[t].failures + 1
           o == x5[t].open \/ n >= LoopThreshold
           f == IF n < LoopThreshold THEN n ELSE LoopThreshold
<1>1. x5 \in [LoopTools -> [failures : Nat, open : BOOLEAN]]
  BY DEF Loop!TypeOK
<1>2. n \in Nat /\ f \in Nat /\ 0 \in Nat
  <2>1. x5[t].failures \in Nat /\ LoopThreshold \in Nat
    BY <1>1, LoopAssumption
  <2>. QED  BY <2>1
<1>3. o \in BOOLEAN
  <2>1. CASE n >= LoopThreshold
    <3>1. o = TRUE
      BY <2>1, Zenon
    <3>. QED  BY <3>1, Zenon
  <2>2. CASE ~(n >= LoopThreshold)
    <3>1. o = x5[t].open
      BY <1>1, <2>2
    <3>. QED  BY <1>1, <3>1
  <2>. QED  BY <2>1, <2>2
<1>4. x5' = [x5 EXCEPT ![t] = IF ~failed THEN [failures |-> 0, open |-> FALSE]
                                         ELSE [failures |-> f, open |-> o]]
  BY DEF Loop!Record
<1>. HIDE DEF n, o, f
<1>5. /\ [failures |-> 0, open |-> FALSE] \in [failures : Nat, open : BOOLEAN]
      /\ [failures |-> f, open |-> o] \in [failures : Nat, open : BOOLEAN]
  BY <1>2, <1>3, Zenon
<1>. QED  BY <1>1, <1>4, <1>5

LEMMA LoopAdapterEnds ==
  ASSUME Loop!IInv, NEW i \in DOMAIN x8,
         Loop!NoticesInterrupt(i) \/ \E failed \in BOOLEAN : Loop!AdapterEnds(i, failed)
  PROVE  Loop!IInv'
<1>1. /\ Loop!TypeOK /\ Loop!At("tools") /\ i \in Loop!Batch /\ x8[i].pc = "running"
      /\ Loop!Goes(i, "done")
      /\ UNCHANGED <<x1, x6, x2, x4, x7, x9, x10, x11>>
  BY DEF Loop!IInv, Loop!NoticesInterrupt, Loop!AdapterEnds
<1>2. x8[i].tool \in LoopTools
  BY <1>1 DEF Loop!IInv, Loop!BatchStands
<1>3. \E failed \in BOOLEAN : Loop!Record(x8[i].tool, failed)
  BY DEF Loop!NoticesInterrupt, Loop!AdapterEnds
<1>4. x5' \in [LoopTools -> [failures : Nat, open : BOOLEAN]]
  BY <1>1, <1>2, <1>3, LoopRecords
<1>5. x3' \in BOOLEAN /\ (x3' = x3 \/ x8[i].tool = LoopSwitch)
  BY <1>1 DEF Loop!TypeOK, Loop!NoticesInterrupt, Loop!AdapterEnds
<1>6. PICK c \in Loop!Calls : x8' = [x8 EXCEPT ![i] = c] /\ c.pc = "done"
  BY <1>1, LoopGoes
<1>7. Loop!TypeOK'
  <2>1. x8' \in Seq(Loop!Calls)
    BY <1>1, <1>6, LoopWorkKept
  <2>. QED  BY <1>1, <1>4, <1>5, <2>1, LoopTypesKept DEF Loop!TypeOK
<1>8. x3' = x3 \/ \A j \in DOMAIN x8 : j # i => x8[j].pc # "bound"
  <2>1. ASSUME x8[i].tool = LoopSwitch, NEW j \in DOMAIN x8, j # i PROVE x8[j].pc # "bound"
    BY <1>1, <2>1, LoopRunsAlone, LoopAssumption DEF Loop!Active
  <2>. QED  BY <1>5, <2>1
<1>9. UNCHANGED <<x1, x2, x7, x9, x10, x11>>
  BY <1>1
<1>. QED  BY <1>1, <1>6, <1>7, <1>8, <1>9, LoopCallMoves DEF Loop!Active

LEMMA LoopBegins == ASSUME Loop!Init PROVE Loop!IInv
<1>1. x7 \in Loop!Owners /\ x7.pc = "idle"
  <2>1. x7 = [pc |-> "idle", step |-> 0, turns |-> 0, retried |-> FALSE, parallel |-> FALSE]
    BY DEF Loop!Init
  <2>. QED  BY <2>1 DEF Loop!Owners
<1>2. x5 \in [LoopTools -> [failures : Nat, open : BOOLEAN]]
  <2> DEFINE r == [failures |-> 0, open |-> FALSE]
  <2>1. 0 \in Nat /\ FALSE \in BOOLEAN
    OBVIOUS
  <2>2. r \in [failures : Nat, open : BOOLEAN]
    BY <2>1, Zenon
  <2>3. x5 = [t \in LoopTools |-> r]
    BY DEF Loop!Init
  <2>. HIDE DEF r
  <2>. QED  BY <2>2, <2>3
<1>3. Loop!TypeOK
  <2>1. x1 \in [LoopTools -> 0..2] /\ x2 \in [LoopTools -> 0..2]
    BY DEF Loop!Init
  <2>2. x3 \in BOOLEAN /\ x4 \in BOOLEAN /\ x6 \in BOOLEAN
    BY DEF Loop!Init
  <2>3. x8 \in Seq(Loop!Calls) /\ x9 \in Nat \ {0} /\ x10 \in Nat /\ x11 \in Seq(Loop!Items)
    BY DEF Loop!Init
  <2>. QED  BY <1>1, <1>2, <2>1, <2>2, <2>3 DEF Loop!TypeOK
<1>4. Loop!HistoryStands
  BY <1>1 DEF Loop!Init, Loop!HistoryStands, Loop!PairedTo, Loop!At
<1>5. Loop!BatchStands /\ Loop!CallsAreApart /\ Loop!SafeOnesAreFirst /\ Loop!BoundAsAdvertised
  BY <1>1
     DEF Loop!Init, Loop!BatchStands, Loop!CallsAreApart, Loop!SafeOnesAreFirst,
         Loop!BoundAsAdvertised, Loop!At
<1>. QED  BY <1>3, <1>4, <1>5 DEF Loop!IInv

LEMMA LoopStepsOn == ASSUME Loop!IInv, [Loop!Next]_(Loop!vars) PROVE Loop!IInv'
<1>1. CASE UNCHANGED Loop!vars
  <2>1. UNCHANGED <<x1, x5, x6, x4, x2, x3, x7, x8, x9, x10, x11>>
    BY <1>1 DEF Loop!vars
  <2>2. Loop!TypeOK' /\ Loop!SafeOnesAreFirst'
    BY <2>1 DEF Loop!IInv, Loop!TypeOK, Loop!SafeOnesAreFirst
  <2>. QED  BY <2>1, <2>2, LoopAside
<1>2. CASE Loop!StartTurn \/ Loop!StepBegins \/ Loop!ModelEnds \/ Loop!ModelSaysNothing
  BY <1>2, LoopStartTurn, LoopStepBegins, LoopModelEnds, LoopModelSaysNothing
<1>3. ASSUME NEW n \in 1..LoopCalls, NEW names \in [1..n -> LoopTools], NEW valid \in SUBSET (1..n),
             Loop!ModelCalls(names, valid)
      PROVE  Loop!IInv'
  BY <1>3, LoopModelCalls
<1>4. CASE Loop!NextBatch \/ Loop!StepEnds \/ Loop!Collect \/ Loop!TurnEnds
  BY <1>4, LoopNextBatch, LoopStepEnds, LoopCollect, LoopTurnEnds
<1>5. CASE Loop!Interrupt \/ \E t \in LoopTools : Loop!Reregister(t) \/ Loop!CircuitCools(t)
  BY <1>5, LoopOthers
<1>6. ASSUME NEW i \in DOMAIN x8,
             \/ Loop!Execute(i) \/ Loop!Bind(i) \/ Loop!Start(i) \/ Loop!NoticesInterrupt(i)
             \/ \E failed \in BOOLEAN : Loop!AdapterEnds(i, failed)
      PROVE  Loop!IInv'
  BY <1>6, LoopExecute, LoopBind, LoopStart, LoopAdapterEnds
<1>7. ASSUME NEW n \in DOMAIN x11, Loop!Fork(n) PROVE Loop!IInv'
  BY <1>7, LoopFork
<1>. QED  BY <1>1, <1>2, <1>3, <1>4, <1>5, <1>6, <1>7 DEF Loop!Next

LEMMA LoopIsSound == ASSUME Loop!IInv PROVE Loop!RequestsArePaired /\ Loop!UnsafeToolsRunAlone
<1>1. Loop!RequestsArePaired
  <2>1. DOMAIN x11 = 1..Len(x11)
    BY LoopSequences DEF Loop!IInv
  <2>. QED  BY <2>1
     DEF Loop!IInv, Loop!HistoryStands, Loop!RequestsArePaired, Loop!Paired, Loop!PairedTo,
         Loop!At
<1>2. ASSUME NEW i \in Loop!Running, ~Loop!MayOverlap(x8[i]), NEW j \in Loop!Running PROVE j = i
  <2>1. /\ i \in DOMAIN x8 /\ j \in DOMAIN x8 /\ x8[i].pc = "running" /\ x8[j].pc = "running"
        /\ Loop!At("tools") /\ i \in Loop!Batch
    BY DEF Loop!Running, Loop!IInv, Loop!BatchStands
  <2>2. x8[i].adapter = x2[x8[i].tool] /\ x8[i].adapter # 0
    BY <2>1 DEF Loop!IInv, Loop!BoundAsAdvertised
  <2>3. CASE x8[i].tool \notin LoopSafe
    BY <2>1, <2>3, LoopRunsAlone DEF Loop!Active
  <2>4. CASE x8[i].tool \in LoopSafe
    <3>1. ~x7.parallel
      BY <1>2, <2>1, <2>2, <2>4 DEF Loop!IInv, Loop!CallsAreApart, Loop!MayOverlap
    <3>2. j \in Loop!Batch
      BY <2>1 DEF Loop!IInv, Loop!BatchStands
    <3>3. /\ \A k \in x9..(i - 1) : x8[k].pc = "done"
          /\ \A k \in x9..(j - 1) : x8[k].pc = "done"
      BY <2>1, <3>1, <3>2 DEF Loop!IInv, Loop!CallsAreApart, Loop!Active
    <3>4. x9 \in Nat /\ x10 \in Nat /\ i \in x9..x10 /\ j \in x9..x10
      BY <2>1, <3>2 DEF Loop!IInv, Loop!TypeOK, Loop!Batch
    <3>5. ~(i < j) /\ ~(j < i)
      BY <2>1, <3>3, <3>4
    <3>. QED  BY <3>4, <3>5
  <2>. QED  BY <2>3, <2>4
<1>3. Loop!UnsafeToolsRunAlone
  BY <1>2 DEF Loop!UnsafeToolsRunAlone
<1>. QED  BY <1>1, <1>3

(* What begins. *)
LEMMA LoopStartsOne ==
  ASSUME Loop!TypeOK, NEW i \in DOMAIN x8, NEW c \in Loop!Calls, x8' = [x8 EXCEPT ![i] = c],
         NEW k \in Loop!Running' \ Loop!Running
  PROVE  k = i /\ c.pc = "running" /\ x8'[k] = c
<1>1. x8' \in Seq(Loop!Calls) /\ DOMAIN x8' = DOMAIN x8
  BY LoopWorkKept, LoopSequences
<1>. QED  BY <1>1 DEF Loop!Running

LEMMA LoopNothingStarts ==
  ASSUME \/ x8' = x8
         \/ \A k \in DOMAIN x8' : x8'[k].pc = "running" => k \in DOMAIN x8 /\ x8[k].pc = "running"
  PROVE  Loop!Running' \ Loop!Running = {}
BY DEF Loop!Running

LEMMA LoopStartsAsAdvertised ==
  ASSUME Loop!IInv, [Loop!Next]_(Loop!vars)
  PROVE  Loop!StartsAsAdvertised
<1>. SUFFICES ASSUME NEW k \in Loop!Running' \ Loop!Running
              PROVE  x8'[k].adapter = x2[x8[k].tool] /\ Loop!Permitted(x8[k].tool)
  BY DEF Loop!StartsAsAdvertised
<1>1. Loop!TypeOK
  BY DEF Loop!IInv
<1>2. /\ ~(x8' = x8)
      /\ ~(\A j \in DOMAIN x8' : x8'[j].pc = "running" => j \in DOMAIN x8 /\ x8[j].pc = "running")
  BY LoopNothingStarts
<1>3. ~(\/ UNCHANGED Loop!vars \/ Loop!StartTurn \/ Loop!StepBegins \/ Loop!ModelEnds
        \/ Loop!ModelSaysNothing \/ Loop!Collect \/ Loop!TurnEnds \/ Loop!Interrupt)
  BY <1>2
     DEF Loop!vars, Loop!StartTurn, Loop!StepBegins, Loop!ModelEnds, Loop!ModelSaysNothing,
         Loop!Collect, Loop!TurnEnds, Loop!Interrupt
<1>4. /\ ~(\E t \in LoopTools : Loop!Reregister(t) \/ Loop!CircuitCools(t))
      /\ ~(\E n \in DOMAIN x11 : Loop!Fork(n))
  BY <1>2 DEF Loop!Reregister, Loop!CircuitCools, Loop!Fork
<1>5. ASSUME NEW n \in 1..LoopCalls, NEW names \in [1..n -> LoopTools], NEW valid \in SUBSET (1..n),
             Loop!ModelCalls(names, valid)
      PROVE  FALSE
  <2>1. x8' = [i \in DOMAIN names |->
               [tool |-> names[i], valid |-> i \in valid, adapter |-> 0, pc |-> "waiting",
                safe |-> ~x6 /\ i \in valid /\ Loop!IsSafe(names[i], x1[names[i]])]]
    BY <1>2, <1>5 DEF Loop!ModelCalls
  <2>. QED  BY <1>2, <2>1
<1>6. ~Loop!StepEnds
  BY <1>2 DEF Loop!StepEnds
<1>7. ~Loop!NextBatch
  <2>1. ~Loop!BatchIsInterrupted
    BY <1>2 DEF Loop!BatchIsInterrupted
  <2>2. ASSUME NEW refused \in SUBSET (x9..Len(x8)), Loop!BatchIsPrepared(refused) PROVE FALSE
    <3> DEFINE end == Loop!BatchEnds
    <3>1. x8' = [i \in DOMAIN x8 |-> IF i \in x9..end THEN Loop!Prepared(x8[i], i \in refused)
                                         ELSE x8[i]]
      BY <2>2 DEF Loop!BatchIsPrepared
    <3>. HIDE DEF end
    <3>2. ASSUME NEW j \in DOMAIN x8', x8'[j].pc = "running"
          PROVE  j \in DOMAIN x8 /\ x8[j].pc = "running"
      <4>1. j \in DOMAIN x8 /\ x8[j] \in Loop!Calls
        BY <1>1, <3>1, LoopSequences
      <4>2. CASE j \in x9..end
        <5>1. x8'[j] = Loop!Prepared(x8[j], j \in refused)
          BY <3>1, <4>1, <4>2
        <5>2. Loop!Prepared(x8[j], j \in refused).pc \in {"refused", "ready"}
          BY <4>1 DEF Loop!Prepared, Loop!Calls
        <5>. QED  BY <3>2, <5>1, <5>2
      <4>3. CASE j \notin x9..end
        BY <3>1, <3>2, <4>1, <4>3
      <4>. QED  BY <4>2, <4>3
    <3>. QED  BY <1>2, <3>2
  <2>. QED  BY <2>1, <2>2 DEF Loop!NextBatch
<1>8. ASSUME NEW i \in DOMAIN x8,
             \/ Loop!Execute(i) \/ Loop!Bind(i) \/ Loop!Start(i) \/ Loop!NoticesInterrupt(i)
             \/ \E failed \in BOOLEAN : Loop!AdapterEnds(i, failed)
      PROVE  x8'[k].adapter = x2[x8[k].tool] /\ Loop!Permitted(x8[k].tool)
  <2>1. ASSUME NEW pc \in {"done", "dispatched"}, Loop!Goes(i, pc) PROVE FALSE
    <3>1. PICK c \in Loop!Calls : x8' = [x8 EXCEPT ![i] = c] /\ c.pc = pc
      BY <1>1, <2>1, LoopGoes
    <3>. QED  BY <1>1, <3>1, LoopStartsOne
  <2>2. /\ ~Loop!Execute(i) /\ ~Loop!NoticesInterrupt(i)
        /\ ~(\E failed \in BOOLEAN : Loop!AdapterEnds(i, failed))
    BY <2>1 DEF Loop!Execute, Loop!NoticesInterrupt, Loop!AdapterEnds
  <2>3. ~Loop!Bind(i)
    <3> SUFFICES ASSUME Loop!Bind(i) PROVE FALSE
      OBVIOUS
    <3>1. x8[i].pc = "dispatched" /\ Loop!Bound(x8[i].tool)
      BY <2>1 DEF Loop!Bind
    <3>2. x8' = [x8 EXCEPT ![i].pc = "bound", ![i].adapter = x1[x8[i].tool]]
      BY <3>1 DEF Loop!Bind
    <3>3. x8[i] \in Loop!Calls /\ x8 \in Seq(Loop!Calls)
      BY <1>1, LoopSequences DEF Loop!TypeOK
    <3>4. DOMAIN x8' = DOMAIN x8 /\ \A j \in DOMAIN x8 : j # i => x8'[j] = x8[j]
      BY <3>2
    <3>5. x8'[i].pc = "bound"
      BY <3>2, <3>3 DEF Loop!Calls
    <3>. QED  BY <1>2, <3>4, <3>5
  <2>4. Loop!Start(i)
    BY <1>8, <2>2, <2>3
  <2>5. x8[i].pc = "bound" /\ Loop!Goes(i, "running")
    BY <2>1, <2>4 DEF Loop!Start
  <2>6. PICK c \in Loop!Calls :
        /\ x8' = [x8 EXCEPT ![i] = c] /\ c.pc = "running"
        /\ c.tool = x8[i].tool /\ c.adapter = x8[i].adapter
    BY <1>1, <2>5, LoopGoes
  <2>7. k = i /\ x8'[k] = c
    BY <1>1, <2>6, LoopStartsOne
  <2>8. x8[i].adapter = x2[x8[i].tool] /\ Loop!Permitted(x8[i].tool)
    BY <2>5 DEF Loop!IInv, Loop!BoundAsAdvertised
  <2>. QED  BY <2>6, <2>7, <2>8
<1>. QED  BY <1>3, <1>4, <1>5, <1>6, <1>7, <1>8 DEF Loop!Next

(* However many calls an answer makes, whichever servers come and go, circuits *)
(* open and users interrupt: a model is sent no call without its result, a    *)
(* call that is not safe has the tools for itself, and what begins is the      *)
(* adapter that was advertised in this step (codeAgent.py: the batches;       *)
(* registry.py: execute_tool; agent_loop.py: run).                          *)
THEOREM ToolsAreRunSafely == Spec => ToolCallsAreSafe
<1> DEFINE Inv == focus = "loop" => Loop!IInv
           Sound == focus = "loop" => Loop!RequestsArePaired /\ Loop!UnsafeToolsRunAlone
           Starts == focus = "loop" => Loop!StartsAsAdvertised
<1>1. Init => Inv
  BY LoopBegins DEF Init
<1>2. Inv /\ [Next]_vars => Inv' /\ Starts
  <2> SUFFICES ASSUME Loop!IInv, focus = "loop", [Next]_vars
               PROVE  Loop!IInv' /\ Loop!StartsAsAdvertised
    BY DEF Next, vars
  <2>1. [Loop!Next]_(Loop!vars)
    BY DEF Next, vars, Loop!vars
  <2>. QED  BY <2>1, LoopStepsOn, LoopStartsAsAdvertised
<1>3. Inv => Sound
  BY LoopIsSound
<1>. HIDE DEF Inv, Sound, Starts
<1>4. Spec => []Sound /\ [][Starts]_vars
  BY <1>1, <1>2, <1>3, PTL DEF Spec
<1>. QED  BY <1>4 DEF ToolCallsAreSafe, Sound, Starts
=============================================================================
