----------------------- MODULE RedisAdmission_proofs -----------------------
(***************************************************************************)
(* The sets of one scope agree on who holds a permit, and no set is over   *)
(* its limit, for any scopes, sets, limits and permit length.              *)
(***************************************************************************)
EXTENDS RedisAdmission, FiniteSetTheorems, TLAPS

(* WithinLimits says nothing of a set whose cardinality is not a number. *)
Counted == \A c \in Counters : IsFiniteSet(Live(c)) /\ Cardinality(Live(c)) <= Limit[c]

IInv == Shape /\ CountedEverywhereOrNowhere /\ Counted

LEMMA SetsOfScope == ASSUME NEW s \in Scopes PROVE SetsOf(s) \subseteq Counters
BY AdmissionAssumption DEF SetsOf

LEMMA ExpiryType == TypeOK => Expiry \in Nat /\ Expiry > clock
BY AdmissionAssumption DEF TypeOK, Expiry

(* What is live can only become less when scores fall or time passes. *)
LEMMA FewerLive ==
  ASSUME Counted, NEW c \in Counters, Live(c)' \subseteq Live(c)
  PROVE  IsFiniteSet(Live(c)') /\ Cardinality(Live(c)') <= Limit[c]
<1>1. /\ IsFiniteSet(Live(c)) /\ Cardinality(Live(c)) <= Limit[c]
      /\ Limit[c] \in Nat
  BY AdmissionAssumption DEF Counted
<1>2. IsFiniteSet(Live(c)') /\ Cardinality(Live(c)') <= Cardinality(Live(c))
  BY <1>1, FS_Subset
<1>3. Cardinality(Live(c)') \in Nat /\ Cardinality(Live(c)) \in Nat
  BY <1>1, <1>2, FS_CardinalityType
<1>. QED  BY <1>1, <1>2, <1>3

(* The scan that finds no full set has looked at all of them. *)
LEMMA RoomEverywhere ==
  ASSUME Counted, NEW s \in Scopes, FullAt(s) = {}, NEW c \in SetsOf(s)
  PROVE  Cardinality(Live(c)) < Limit[c]
<1> DEFINE card(i) == Cardinality(Live(CountersOf[s][i]))
           lim(i)  == Limit[CountersOf[s][i]]
<1>1. /\ DOMAIN CountersOf[s] = 1..Len(CountersOf[s])
      /\ Len(CountersOf[s]) \in Nat /\ Len(CountersOf[s]) <= 4
      /\ \A i \in DOMAIN CountersOf[s] : CountersOf[s][i] \in Counters
  BY AdmissionAssumption
<1>2. \A i \in DOMAIN CountersOf[s] : card(i) \in Nat /\ lim(i) \in Nat
  BY <1>1, FS_CardinalityType, AdmissionAssumption DEF Counted
<1>3. \A i \in DOMAIN CountersOf[s] :
        (\A j \in 1..(i - 1) : card(j) < lim(j)) => ~(card(i) >= lim(i))
  BY DEF FullAt
<1> HIDE DEF card, lim
<1>4. \A i \in DOMAIN CountersOf[s] :
        (\A j \in 1..(i - 1) : card(j) < lim(j)) => card(i) < lim(i)
  BY <1>2, <1>3
<1>5. 1 \in DOMAIN CountersOf[s] => card(1) < lim(1)
  BY <1>4
<1>6. 2 \in DOMAIN CountersOf[s] => card(2) < lim(2)
  BY <1>1, <1>4, <1>5
<1>7. 3 \in DOMAIN CountersOf[s] => card(3) < lim(3)
  BY <1>1, <1>4, <1>5, <1>6
<1>8. 4 \in DOMAIN CountersOf[s] => card(4) < lim(4)
  BY <1>1, <1>4, <1>5, <1>6, <1>7
<1>9. \A i \in DOMAIN CountersOf[s] : card(i) < lim(i)
  BY <1>1, <1>5, <1>6, <1>7, <1>8
<1>. QED  BY <1>9 DEF SetsOf, card, lim

----------------------------------------------------------------------------
LEMMA InitIInv == Init => IInv
<1> SUFFICES ASSUME Init PROVE IInv
  OBVIOUS
<1>1. TypeOK
  <2>1. (CHOOSE s \in Scopes : TRUE) \in Scopes
    BY AdmissionAssumption
  <2>. QED  BY <2>1 DEF Init, TypeOK, Permit, PermitStates
<1>2. \A c \in Counters : Live(c) = {}
  BY DEF Init, Live
<1>3. Shape
  BY <1>1, ExpiryType DEF Init, Shape
<1>4. CountedEverywhereOrNowhere
  BY <1>2, SetsOfScope, <1>1 DEF CountedEverywhereOrNowhere, TypeOK, Permit
<1>5. Counted
  <2>1. IsFiniteSet({}) /\ Cardinality({}) = 0
    BY FS_EmptySet
  <2>2. \A c \in Counters : Limit[c] \in Nat
    BY AdmissionAssumption
  <2>. QED  BY <1>2, <2>1, <2>2 DEF Counted
<1>. QED  BY <1>3, <1>4, <1>5 DEF IInv

LEMMA AcquireIInv ==
  ASSUME IInv, NEW s \in Scopes, NEW t \in Tokens, NEW answer \in {"held", "lost"},
         Acquire(s, t, answer)
  PROVE  IInv'
<1>1. TypeOK /\ SetsOf(s) \subseteq Counters /\ Expiry \in Nat /\ Expiry > clock
  BY SetsOfScope, ExpiryType DEF IInv, Shape
<1>2. \A c \in Counters : score'[c] =
        IF c \in SetsOf(s) THEN [Purged(c) EXCEPT ![t] = Expiry] ELSE score[c]
  BY DEF Acquire
<1>3. \A c \in Counters : Purged(c) \in [Tokens -> Nat]
  BY <1>1 DEF Purged, TypeOK
<1>4. \A c \in Counters, u \in Tokens : score'[c][u] =
        IF c \in SetsOf(s)
        THEN IF u = t THEN Expiry ELSE IF u \in Live(c) THEN score[c][u] ELSE 0
        ELSE score[c][u]
  BY <1>2, <1>3 DEF Purged
<1>5. TypeOK'
  <2>1. score' \in [Counters -> [Tokens -> Nat]]
    BY <1>1, <1>3 DEF Acquire, TypeOK
  <2>2. keyUntil' \in [Counters -> Nat]
    BY AdmissionAssumption, <1>1 DEF Acquire, TypeOK, KeyExpiry
  <2>3. permit' \in [Tokens -> Permit]
    BY <1>1 DEF Acquire, TypeOK, Permit, PermitStates
  <2>. QED  BY <1>1, <2>1, <2>2, <2>3 DEF Acquire, TypeOK
<1>6. Shape'
  <2>1. \A c \in Counters : keyUntil'[c] = IF c \in SetsOf(s) THEN KeyExpiry(c) ELSE keyUntil[c]
    BY DEF Acquire
  <2>2. \A c \in Counters, u \in Tokens :
          score'[c][u] <= keyUntil'[c] /\ score'[c][u] <= Expiry'
    <3> SUFFICES ASSUME NEW c \in Counters, NEW u \in Tokens
                 PROVE  score'[c][u] <= keyUntil'[c] /\ score'[c][u] <= Expiry'
      OBVIOUS
    <3>1. Expiry' = Expiry
      BY DEF Acquire, Expiry
    <3>2. /\ score[c][u] \in Nat /\ keyUntil[c] \in Nat
          /\ score[c][u] <= keyUntil[c] /\ score[c][u] <= Expiry
      BY DEF IInv, Shape, TypeOK
    <3>3. KeyExpiry(c) \in Nat /\ Expiry <= KeyExpiry(c)
      BY <1>1, AdmissionAssumption DEF KeyExpiry, Expiry, TypeOK
    <3>. QED  BY <1>1, <1>4, <2>1, <3>1, <3>2, <3>3
  <2>3. \A u \in Tokens : permit'[u].state = "unused" =>
          \A c \in Counters : score'[c][u] = 0
    <3> SUFFICES ASSUME NEW u \in Tokens, permit'[u].state = "unused",
                        NEW c \in Counters
                 PROVE  score'[c][u] = 0
      OBVIOUS
    <3>1. u # t /\ permit[u].state = "unused"
      BY DEF Acquire, IInv, Shape, TypeOK
    <3>2. score[c][u] = 0
      BY <3>1 DEF IInv, Shape
    <3>. QED  BY <1>4, <3>1, <3>2
  <2>. QED  BY <1>5, <2>2, <2>3 DEF Shape
<1>7. \A c \in Counters : c \notin SetsOf(s) => Live(c)' = Live(c)
  BY <1>4 DEF Live, Acquire
<1>8. \A c \in SetsOf(s) : Live(c)' = Live(c) \cup {t}
  BY <1>1, <1>4 DEF Live, Acquire, TypeOK
<1>9. CountedEverywhereOrNowhere'
  <2> SUFFICES ASSUME NEW u \in Tokens, NEW c \in SetsOf(permit'[u].scope),
                      NEW d \in SetsOf(permit'[u].scope), u \in Live(c)'
               PROVE  u \in Live(d)' /\ score'[c][u] = score'[d][u]
    BY DEF CountedEverywhereOrNowhere, SetsOf
  <2>1. CASE u = t
    <3>1. permit'[u].scope = s
      BY <2>1 DEF Acquire, IInv, Shape, TypeOK
    <3>. QED  BY <2>1, <3>1, <1>1, <1>4, <1>8
  <2>2. CASE u # t
    <3>1. permit'[u] = permit[u] /\ permit[u].scope \in Scopes
      BY <2>2 DEF Acquire, IInv, Shape, TypeOK, Permit
    <3>2. c \in Counters /\ d \in Counters
      BY <3>1, SetsOfScope
    <3>3. u \in Live(c)
      BY <2>2, <3>2, <1>7, <1>8
    <3>4. u \in Live(d) /\ score[c][u] = score[d][u]
      BY <3>1, <3>3 DEF IInv, CountedEverywhereOrNowhere
    <3>5. u \in Live(d)'
      BY <3>2, <3>4, <1>7, <1>8
    <3>. QED  BY <2>2, <3>2, <3>3, <3>4, <3>5, <1>4
  <2>. QED  BY <2>1, <2>2
<1>10. Counted'
  <2> SUFFICES ASSUME NEW c \in Counters
               PROVE  IsFiniteSet(Live(c)') /\ Cardinality(Live(c)') <= Limit[c]
    BY DEF Counted
  <2>1. CASE c \notin SetsOf(s)
    BY <2>1, <1>7, FewerLive DEF IInv
  <2>2. CASE c \in SetsOf(s)
    <3>1. FullAt(s) = {}
      BY DEF Acquire
    <3>2. Cardinality(Live(c)) < Limit[c] /\ IsFiniteSet(Live(c))
      BY <2>2, <3>1, RoomEverywhere DEF IInv, Counted
    <3>3. Live(c)' = Live(c) \cup {t}
      BY <2>2, <1>8
    <3>4. Cardinality(Live(c)) \in Nat /\ Limit[c] \in Nat
      BY <3>2, FS_CardinalityType, AdmissionAssumption
    <3>5. /\ IsFiniteSet(Live(c) \cup {t})
          /\ Cardinality(Live(c) \cup {t}) <= Cardinality(Live(c)) + 1
      BY <3>2, <3>4, FS_AddElement
    <3>. QED  BY <3>2, <3>3, <3>4, <3>5, FS_CardinalityType
  <2>. QED  BY <2>1, <2>2
<1>. QED  BY <1>6, <1>9, <1>10 DEF IInv

LEMMA RenewIInv ==
  ASSUME IInv, NEW t \in Tokens, Renew(t)
  PROVE  IInv'
<1> DEFINE sets == SetsOf(permit[t].scope)
<1>1. /\ TypeOK /\ sets \subseteq Counters /\ Expiry \in Nat /\ Expiry > clock
      /\ permit[t].state = "held" /\ \A c \in sets : t \in Live(c)
  BY SetsOfScope, ExpiryType DEF IInv, Shape, TypeOK, Permit, Renew, Renewable
<1>2. \A c \in Counters, u \in Tokens :
        score'[c][u] = IF c \in sets /\ u = t THEN Expiry ELSE score[c][u]
  BY <1>1 DEF Renew, TypeOK
<1>3. \A c \in Counters : keyUntil'[c] = IF c \in sets THEN KeyExpiry(c) ELSE keyUntil[c]
  BY DEF Renew
<1>4. UNCHANGED <<permit, clock>> /\ Expiry' = Expiry
  BY DEF Renew, Expiry
<1>5. TypeOK'
  <2>1. score' \in [Counters -> [Tokens -> Nat]]
    BY <1>1 DEF Renew, TypeOK
  <2>2. keyUntil' \in [Counters -> Nat]
    BY AdmissionAssumption, <1>1 DEF Renew, TypeOK, KeyExpiry
  <2>. QED  BY <1>1, <1>4, <2>1, <2>2 DEF TypeOK
<1>6. Shape'
  <2>1. ASSUME NEW c \in Counters, NEW u \in Tokens
        PROVE  score'[c][u] <= keyUntil'[c] /\ score'[c][u] <= Expiry'
    <3>1. /\ score[c][u] \in Nat /\ keyUntil[c] \in Nat
          /\ score[c][u] <= keyUntil[c] /\ score[c][u] <= Expiry
      BY DEF IInv, Shape, TypeOK
    <3>2. KeyExpiry(c) \in Nat /\ Expiry <= KeyExpiry(c)
      BY <1>1, AdmissionAssumption DEF KeyExpiry, Expiry, TypeOK
    <3>. QED  BY <1>1, <1>2, <1>3, <1>4, <3>1, <3>2
  <2>2. ASSUME NEW u \in Tokens, permit'[u].state = "unused", NEW c \in Counters
        PROVE  score'[c][u] = 0
    <3>1. u # t /\ score[c][u] = 0
      BY <1>1, <1>4, <2>2 DEF IInv, Shape
    <3>. QED  BY <1>2, <3>1
  <2>. QED  BY <1>5, <2>1, <2>2 DEF Shape
<1>7. \A c \in Counters : Live(c)' = Live(c)
  <2> SUFFICES ASSUME NEW c \in Counters, NEW u \in Tokens
               PROVE  score'[c][u] > clock <=> score[c][u] > clock
    BY <1>4 DEF Live
  <2>1. c \in sets => score[c][t] > clock
    BY <1>1 DEF Live
  <2>. QED  BY <1>1, <1>2, <2>1
<1>8. CountedEverywhereOrNowhere'
  <2> SUFFICES ASSUME NEW u \in Tokens, NEW c \in SetsOf(permit[u].scope),
                      NEW d \in SetsOf(permit[u].scope), u \in Live(c)'
               PROVE  u \in Live(d)' /\ score'[c][u] = score'[d][u]
    BY <1>4 DEF CountedEverywhereOrNowhere, SetsOf
  <2>1. c \in Counters /\ d \in Counters
    BY <1>1, SetsOfScope DEF TypeOK, Permit
  <2>2. u \in Live(d) /\ score[c][u] = score[d][u]
    BY <1>7, <2>1 DEF IInv, CountedEverywhereOrNowhere
  <2>3. u = t => c \in sets /\ d \in sets
    OBVIOUS
  <2>. QED  BY <1>2, <1>7, <2>1, <2>2, <2>3
<1>9. Counted'
  BY <1>7 DEF IInv, Counted
<1>. QED  BY <1>6, <1>8, <1>9 DEF IInv

(* The other steps only let scores fall, and what stays live stays in all of *)
(* its sets.                                                                *)
LEMMA ScoresFall ==
  ASSUME IInv, TypeOK', clock' \in {clock, clock + 1},
         \A c \in Counters, u \in Tokens :
           score'[c][u] \in {score[c][u], 0} /\ score'[c][u] <= keyUntil'[c],
         \A u \in Tokens :
           /\ permit'[u].scope = permit[u].scope
           /\ permit'[u].state = "unused" => permit[u].state = "unused",
         \A u \in Tokens : \A c, d \in SetsOf(permit[u].scope) :
           u \in Live(c)' => score'[d][u] = score[d][u]
  PROVE  IInv'
<1>0. TypeOK /\ clock \in Nat /\ Ttl \in Nat
  BY AdmissionAssumption DEF IInv, Shape, TypeOK
<1>1. Expiry \in Nat /\ Expiry' \in Nat /\ Expiry <= Expiry'
  <2>1. Expiry = clock + Ttl /\ Expiry' = clock' + Ttl
    BY DEF Expiry
  <2>2. clock' = clock \/ clock' = clock + 1
    OBVIOUS
  <2>. QED  BY <1>0, <2>1, <2>2
<1>2. \A c \in Counters, u \in Tokens : score[c][u] \in Nat /\ score[c][u] <= Expiry
  BY <1>0 DEF IInv, Shape, TypeOK
<1>3. Shape'
  <2>1. \A c \in Counters, u \in Tokens : score'[c][u] <= Expiry'
    BY <1>1, <1>2
  <2>2. \A u \in Tokens : permit'[u].state = "unused" =>
          \A c \in Counters : score'[c][u] = 0
    BY DEF IInv, Shape
  <2>. QED  BY <2>1, <2>2 DEF Shape
<1>4. ASSUME NEW c \in Counters PROVE Live(c)' \subseteq Live(c)
  <2> SUFFICES ASSUME NEW u \in Tokens, score'[c][u] > clock'
               PROVE  score[c][u] > clock
    BY DEF Live
  <2>. QED  BY <1>0, <1>2
<1>5. CountedEverywhereOrNowhere'
  <2> SUFFICES ASSUME NEW u \in Tokens, NEW c \in SetsOf(permit[u].scope),
                      NEW d \in SetsOf(permit[u].scope), u \in Live(c)'
               PROVE  u \in Live(d)' /\ score'[c][u] = score'[d][u]
    BY DEF CountedEverywhereOrNowhere, SetsOf
  <2>1. c \in Counters /\ d \in Counters
    BY <1>0, SetsOfScope DEF TypeOK, Permit
  <2>2. u \in Live(c)
    BY <1>4, <2>1
  <2>3. score[c][u] = score[d][u]
    BY <2>2 DEF IInv, CountedEverywhereOrNowhere
  <2>4. score'[c][u] = score[c][u] /\ score'[d][u] = score[d][u]
    OBVIOUS
  <2>. QED  BY <2>1, <2>3, <2>4 DEF Live
<1>6. Counted'
  BY <1>4, FewerLive DEF IInv, Counted
<1>. QED  BY <1>3, <1>5, <1>6 DEF IInv

(* A purge takes only what has lapsed, and a lapsed permit has lapsed in all *)
(* of its sets.                                                             *)
LEMMA RefuseIInv ==
  ASSUME IInv, NEW s \in Scopes, Refuse(s)
  PROVE  IInv'
<1>1. PICK scanned : score' = [c \in Counters |->
                       IF c \in scanned THEN Purged(c) ELSE score[c]]
  BY DEF Refuse
<1>2. TypeOK /\ UNCHANGED <<keyUntil, permit, clock>>
  BY DEF IInv, Shape, Refuse
<1>3. \A c \in Counters, u \in Tokens :
        /\ score'[c][u] \in {score[c][u], 0}
        /\ u \in Live(c) => score'[c][u] = score[c][u]
  BY <1>1 DEF Purged
<1>4. \A c \in Counters, u \in Tokens :
        /\ score[c][u] \in Nat /\ keyUntil[c] \in Nat
        /\ score[c][u] <= keyUntil[c]
  BY DEF IInv, Shape, TypeOK
<1>5. TypeOK'
  <2>1. \A c \in Counters : Purged(c) \in [Tokens -> Nat] /\ score[c] \in [Tokens -> Nat]
    BY <1>2 DEF Purged, TypeOK
  <2>2. score' \in [Counters -> [Tokens -> Nat]]
    BY <1>1, <2>1
  <2>. QED  BY <1>2, <2>2 DEF TypeOK
<1>6. ASSUME NEW u \in Tokens, NEW c \in SetsOf(permit[u].scope),
             NEW d \in SetsOf(permit[u].scope), u \in Live(c)'
      PROVE  score'[d][u] = score[d][u]
  <2>1. c \in Counters /\ d \in Counters
    BY <1>2, SetsOfScope DEF TypeOK, Permit
  <2>2. score'[c][u] > clock
    BY <1>2, <1>6 DEF Live
  <2>3. score[c][u] > clock
    BY <1>2, <1>3, <2>1, <2>2 DEF TypeOK
  <2>4. u \in Live(c)
    BY <2>3 DEF Live
  <2>5. u \in Live(d)
    BY <2>4 DEF IInv, CountedEverywhereOrNowhere
  <2>. QED  BY <1>3, <2>1, <2>5
<1>7. \A c \in Counters, u \in Tokens : score'[c][u] <= keyUntil'[c]
  BY <1>2, <1>3, <1>4
<1>. QED  BY <1>2, <1>3, <1>5, <1>6, <1>7, ScoresFall

(* A released token leaves all of its sets at once. *)
LEMMA ReleaseIInv ==
  ASSUME IInv, NEW t \in Tokens, NEW answer \in {"held", "released"},
         Release(t, answer)
  PROVE  IInv'
<1>1. TypeOK /\ UNCHANGED <<keyUntil, clock>> /\ permit[t].state = "held"
  BY DEF IInv, Shape, Release
<1>2. \A c \in Counters, u \in Tokens :
        score'[c][u] = IF c \in SetsOf(permit[t].scope) /\ u = t THEN 0 ELSE score[c][u]
  BY <1>1 DEF Release, ReleasedFrom, TypeOK
<1>3. \A u \in Tokens : /\ permit'[u].scope = permit[u].scope
                        /\ permit'[u].state = "unused" => permit[u].state = "unused"
  BY <1>1 DEF Release, TypeOK, Permit
<1>4. TypeOK'
  <2>1. score' \in [Counters -> [Tokens -> Nat]]
    BY <1>1 DEF Release, TypeOK
  <2>2. permit' \in [Tokens -> Permit]
    BY <1>1 DEF Release, TypeOK, Permit, PermitStates
  <2>. QED  BY <1>1, <2>1, <2>2 DEF TypeOK
<1>5. \A c \in Counters, u \in Tokens : score'[c][u] <= keyUntil'[c]
  <2>1. \A c \in Counters, u \in Tokens :
          keyUntil[c] \in Nat /\ score[c][u] <= keyUntil[c]
    BY DEF IInv, Shape, TypeOK
  <2>. QED  BY <1>1, <1>2, <2>1
<1>6. ASSUME NEW u \in Tokens, NEW c \in SetsOf(permit[u].scope),
             NEW d \in SetsOf(permit[u].scope), u \in Live(c)'
      PROVE  score'[d][u] = score[d][u]
  <2>1. c \in Counters /\ d \in Counters
    BY <1>1, SetsOfScope DEF TypeOK, Permit
  <2>2. score'[c][u] > clock /\ clock \in Nat
    BY <1>1, <1>6 DEF Live, TypeOK
  <2>3. u # t
    BY <1>2, <2>1, <2>2
  <2>. QED  BY <1>2, <2>1, <2>3
<1>. QED  BY <1>1, <1>2, <1>3, <1>4, <1>5, <1>6, ScoresFall

(* Redis drops a set only when every permit in it has lapsed. *)
LEMMA KeyExpiresIInv ==
  ASSUME IInv, NEW k \in Counters, KeyExpires(k)
  PROVE  IInv'
<1>1. TypeOK /\ UNCHANGED <<permit, clock>> /\ keyUntil[k] <= clock
  BY DEF IInv, Shape, KeyExpires
<1>2. \A c \in Counters, u \in Tokens :
        score'[c][u] = IF c = k THEN 0 ELSE score[c][u]
  BY <1>1 DEF KeyExpires, TypeOK
<1>3. \A c \in Counters : keyUntil'[c] = IF c = k THEN 0 ELSE keyUntil[c]
  BY <1>1 DEF KeyExpires, TypeOK
<1>4. TypeOK'
  BY <1>1 DEF KeyExpires, TypeOK
<1>5. \A c \in Counters, u \in Tokens :
        /\ score[c][u] \in Nat /\ keyUntil[c] \in Nat
        /\ score[c][u] <= keyUntil[c]
  BY DEF IInv, Shape, TypeOK
<1>6. \A u \in Tokens : u \notin Live(k)
  BY <1>1, <1>5 DEF Live, TypeOK
<1>7. ASSUME NEW u \in Tokens, NEW c \in SetsOf(permit[u].scope),
             NEW d \in SetsOf(permit[u].scope), u \in Live(c)'
      PROVE  score'[d][u] = score[d][u]
  <2>1. c \in Counters /\ d \in Counters
    BY <1>1, SetsOfScope DEF TypeOK, Permit
  <2>2. score'[c][u] > clock /\ clock \in Nat
    BY <1>1, <1>7 DEF Live, TypeOK
  <2>3. u \in Live(c)
    BY <1>2, <2>1, <2>2 DEF Live
  <2>4. u \in Live(d)
    BY <2>3 DEF IInv, CountedEverywhereOrNowhere
  <2>5. d # k
    BY <1>6, <2>4
  <2>. QED  BY <1>2, <2>1, <2>5
<1>8. \A c \in Counters, u \in Tokens : score'[c][u] <= keyUntil'[c]
  BY <1>2, <1>3, <1>5
<1>. QED  BY <1>1, <1>2, <1>4, <1>7, <1>8, ScoresFall

LEMMA TickIInv ==
  ASSUME IInv, Tick \/ UNCHANGED vars
  PROVE  IInv'
<1>1. TypeOK /\ UNCHANGED <<score, keyUntil, permit>> /\ clock' \in {clock, clock + 1}
  BY DEF IInv, Shape, Tick, admissionVars, vars
<1>2. TypeOK'
  BY <1>1 DEF TypeOK
<1>3. \A c \in Counters, u \in Tokens : score[c][u] <= keyUntil[c]
  BY DEF IInv, Shape
<1>. QED  BY <1>1, <1>2, <1>3, ScoresFall

LEMMA NextIInv == IInv /\ [Next]_vars => IInv'
BY AcquireIInv, RefuseIInv, RenewIInv, ReleaseIInv, KeyExpiresIInv, TickIInv DEF Next

(* IInv in every reachable state: whatever lapses, is lost or is repeated, the *)
(* sets of a scope have the same live permits and no more than their limits,   *)
(* and no entry outlives its set.                                            *)
THEOREM Invariance == Spec => []IInv
BY InitIInv, NextIInv, PTL DEF Spec

----------------------------------------------------------------------------
(* The types hold, a set outlives the permits in it, and a token never      *)
(* handed out is in no set.                                                 *)
THEOREM SetsOutlivePermits == Spec => []Shape
BY Invariance, PTL DEF IInv

(* A permit counts against all of its limits or against none.                *)
THEOREM AllOrNothing == Spec => []CountedEverywhereOrNowhere
BY Invariance, PTL DEF IInv

(* No set of the hierarchy ever holds more live permits than its limit.      *)
THEOREM AdmissionBound == Spec => []WithinLimits
<1>1. IInv => WithinLimits
  BY DEF IInv, Counted, WithinLimits
<1>. QED  BY <1>1, Invariance, PTL

(* A permit that has lapsed from a set stays lapsed: only Acquire and Renew  *)
(* raise a score, the one of a token not handed out, the other of a live one. *)
LEMMA NoRevival ==
  ASSUME IInv, [Next]_vars, NEW t \in Tokens, NEW c \in SetsOf(permit[t].scope),
         permit[t].state # "unused", t \notin Live(c)
  PROVE  t \notin Live(c)'
<1>1. TypeOK /\ c \in Counters
  BY SetsOfScope DEF IInv, Shape, TypeOK, Permit
<1>2. score[c][t] \in Nat /\ clock \in Nat /\ score[c][t] <= clock
  BY <1>1 DEF TypeOK, Live
<1> SUFFICES ~(score'[c][t] > clock')
  BY DEF Live
<1>3. ASSUME NEW s \in Scopes, NEW k \in Tokens, NEW answer \in {"held", "lost"},
             Acquire(s, k, answer)
      PROVE  ~(score'[c][t] > clock')
  <2>1. t # k /\ clock' = clock
    BY <1>3 DEF Acquire
  <2>2. Purged(c) \in [Tokens -> Nat] /\ Purged(c)[t] = 0
    BY <1>1 DEF Purged, TypeOK
  <2>3. score'[c][t] \in {score[c][t], 0}
    BY <1>1, <1>3, <2>1, <2>2 DEF Acquire
  <2>. QED  BY <1>2, <2>1, <2>3
<1>4. ASSUME NEW s \in Scopes, Refuse(s)
      PROVE  ~(score'[c][t] > clock')
  <2>1. Purged(c)[t] = 0
    BY DEF Purged
  <2>2. score'[c][t] \in {score[c][t], 0} /\ clock' = clock
    BY <1>1, <1>4, <2>1 DEF Refuse
  <2>. QED  BY <1>2, <2>2
<1>5. ASSUME NEW k \in Tokens, Renew(k)
      PROVE  ~(score'[c][t] > clock')
  <2>1. k = t => FALSE
    BY <1>5 DEF Renew, Renewable
  <2>2. score'[c][t] = score[c][t] /\ clock' = clock
    BY <1>1, <1>5, <2>1 DEF Renew, TypeOK
  <2>. QED  BY <1>2, <2>2
<1>6. ASSUME NEW k \in Tokens, NEW answer \in {"held", "released"},
             Release(k, answer)
      PROVE  ~(score'[c][t] > clock')
  <2>1. score'[c][t] \in {score[c][t], 0} /\ clock' = clock
    BY <1>1, <1>6 DEF Release, TypeOK
  <2>. QED  BY <1>2, <2>1
<1>7. ASSUME NEW d \in Counters, KeyExpires(d)
      PROVE  ~(score'[c][t] > clock')
  <2>1. score'[c][t] \in {score[c][t], 0} /\ clock' = clock
    BY <1>1, <1>7 DEF KeyExpires, TypeOK
  <2>. QED  BY <1>2, <2>1
<1>8. ASSUME Tick \/ UNCHANGED vars
      PROVE  ~(score'[c][t] > clock')
  <2>1. score'[c][t] = score[c][t] /\ clock' \in {clock, clock + 1}
    BY <1>8 DEF Tick, vars, admissionVars
  <2>. QED  BY <1>2, <2>1
<1>. QED  BY <1>3, <1>4, <1>5, <1>6, <1>7, <1>8 DEF Next

(* A holder cannot renew itself back in beside whoever took its place.       *)
THEOREM NoPermitRevives == Spec => LapsedStaysLapsed
<1>1. IInv /\ [Next]_vars =>
        [\A t \in Tokens : \A c \in SetsOf(permit[t].scope) :
           permit[t].state # "unused" /\ t \notin Live(c) => t \notin Live(c)']_vars
  BY NoRevival
<1>. QED  BY <1>1, Invariance, PTL DEF Spec, LapsedStaysLapsed
=============================================================================
