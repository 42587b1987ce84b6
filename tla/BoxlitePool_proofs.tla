------------------------- MODULE BoxlitePool_proofs -------------------------
(***************************************************************************)
(* Proofs about the pool of micro-VMs, of any callers, scopes, VMs and       *)
(* capacity: the pool never counts more VMs than its capacity and forgets    *)
(* none, a command has a VM that is up for itself, and only a shutdown stops *)
(* one that is waited for.                                                 *)
(*                                                                         *)
(* The invariant is IInv of BoxlitePool.  An action that changes no lease    *)
(* keeps it by PoolQuiet, one that gives a lease back by PoolGivesBack, and   *)
(* the others conjunct by conjunct.                                        *)
(***************************************************************************)
EXTENDS BoxlitePool, FiniteSetTheorems, SequenceTheorems, TLAPS

(* What is asked of the constants. *)
PoolConstants == Capacity \in Nat /\ IsFiniteSet(Scopes) /\ None \notin Lease \cup Boxes

LEMMA PoolTypes == ASSUME IInv PROVE FullTypeOK
BY DEF IInv

(* The list of warm scopes, with one taken out, one put at its end, and       *)
(* without the first of it.                                                 *)
LEMMA PoolWithout ==
  ASSUME warm \in Seq(Scopes), IsInjective(warm), NEW s
  PROVE  /\ Without(s) \in Seq(Scopes) /\ IsInjective(Without(s))
         /\ Range(Without(s)) = Range(warm) \ {s}
<1>1. CASE s \notin Range(warm)
  BY <1>1 DEF Without
<1>2. ASSUME s \in Range(warm)
      PROVE  /\ Without(s) \in Seq(Scopes) /\ IsInjective(Without(s))
             /\ Range(Without(s)) = Range(warm) \ {s}
  <2>1. PICK L \in Nat : Len(warm) = L /\ DOMAIN warm = 1..L /\ \A i \in 1..L : warm[i] \in Scopes
    BY LenProperties
  <2> DEFINE k == CHOOSE i \in DOMAIN warm : warm[i] = s
             a == SubSeq(warm, 1, k - 1)
             b == SubSeq(warm, k + 1, L)
  <2>2. k \in 1..L /\ warm[k] = s
    BY <1>2, <2>1 DEF Range
  <2>. HIDE DEF k
  <2>3. /\ a \in Seq(Scopes) /\ Len(a) = k - 1
        /\ \A i \in 1..(k - 1) : a[i] = warm[i]
    <3>1. \A i \in 1..(k - 1) : warm[i] \in Scopes
      BY <2>1, <2>2
    <3>2. 1 \in Int /\ k - 1 \in Int
      BY <2>2
    <3>. QED  BY <2>2, <3>1, <3>2, SubSeqProperties
  <2>4. /\ b \in Seq(Scopes) /\ Len(b) = L - k
        /\ \A i \in 1..(L - k) : b[i] = warm[k + i]
    <3>1. \A i \in (k + 1)..L : warm[i] \in Scopes
      BY <2>1, <2>2
    <3>2. k + 1 \in Int /\ L \in Int
      BY <2>1, <2>2
    <3>3. /\ b \in Seq(Scopes)
          /\ Len(b) = IF k + 1 <= L THEN L - (k + 1) + 1 ELSE 0
          /\ \A i \in 1..(L - (k + 1) + 1) : b[i] = warm[(k + 1) + i - 1]
      BY <3>1, <3>2, SubSeqProperties
    <3>. HIDE DEF b
    <3>4. L - (k + 1) + 1 = L - k /\ (~(k + 1 <= L) => L - k = 0)
      BY <2>1, <2>2
    <3>5. Len(b) = L - k
      BY <3>3, <3>4
    <3>6. ASSUME NEW i \in 1..(L - k) PROVE b[i] = warm[k + i]
      <4>1. (k + 1) + i - 1 = k + i
        BY <2>1, <2>2
      <4>. QED  BY <3>3, <3>4, <4>1
    <3>. QED  BY <3>3, <3>5, <3>6
  <2>5. Without(s) = a \o b
    BY <1>2, <2>1 DEF Without, RemoveAt, k
  <2>. HIDE DEF a, b
  <2>6. /\ a \o b \in Seq(Scopes) /\ Len(a \o b) = L - 1
        /\ DOMAIN (a \o b) = 1..(L - 1)
    <3>1. a \o b \in Seq(Scopes) /\ Len(a \o b) = Len(a) + Len(b)
      BY <2>3, <2>4, ConcatProperties
    <3>2. DOMAIN (a \o b) = 1..Len(a \o b)
      BY <3>1, LenProperties
    <3>3. Len(a) + Len(b) = L - 1
      BY <2>1, <2>2, <2>3, <2>4
    <3>. QED  BY <3>1, <3>2, <3>3
  <2>7. \A i \in 1..(L - 1) :
          (a \o b)[i] = IF i < k THEN warm[i] ELSE warm[i + 1]
    <3> SUFFICES ASSUME NEW i \in 1..(L - 1)
                 PROVE  (a \o b)[i] = IF i < k THEN warm[i] ELSE warm[i + 1]
      OBVIOUS
    <3>1. i \in 1..(Len(a) + Len(b))
      BY <2>1, <2>2, <2>3, <2>4
    <3>2. (a \o b)[i] = IF i <= Len(a) THEN a[i] ELSE b[i - Len(a)]
      BY <2>3, <2>4, <3>1, ConcatProperties
    <3>3. CASE i < k
      <4>1. i <= Len(a) /\ i \in 1..(k - 1)
        BY <2>2, <2>3, <3>3
      <4>. QED  BY <2>3, <3>2, <3>3, <4>1
    <3>4. CASE i >= k
      <4>1. ~(i <= Len(a)) /\ i - Len(a) \in 1..(L - k) /\ k + (i - Len(a)) = i + 1 /\ ~(i < k)
        BY <2>1, <2>2, <2>3, <3>4
      <4>. QED  BY <2>4, <3>2, <4>1
    <3>5. i \in Nat /\ k \in Nat
      BY <2>1, <2>2
    <3>6. i < k \/ i >= k
      BY <3>5
    <3>. QED  BY <3>3, <3>4, <3>6
  <2>. DEFINE v == a \o b
  <2>. HIDE DEF v
  <2>8. /\ DOMAIN v = 1..(L - 1)
        /\ \A i \in 1..(L - 1) : v[i] = IF i < k THEN warm[i] ELSE warm[i + 1]
    BY <2>6, <2>7 DEF v
  <2>9. \A i, j \in 1..L : warm[i] = warm[j] => i = j
    BY <2>1 DEF IsInjective
  <2>10. IsInjective(v)
    <3> SUFFICES ASSUME NEW i \in 1..(L - 1), NEW j \in 1..(L - 1), v[i] = v[j]
                 PROVE  i = j
      BY <2>8 DEF IsInjective
    <3>1. /\ i \in 1..L /\ i + 1 \in 1..L
          /\ j \in 1..L /\ j + 1 \in 1..L
      BY <2>1
    <3>2. CASE i < k /\ j < k
      BY <2>8, <2>9, <3>1, <3>2
    <3>3. CASE i < k /\ ~(j < k)
      <4>1. i = j + 1
        BY <2>8, <2>9, <3>1, <3>3
      <4>. QED  BY <2>2, <3>3, <4>1
    <3>4. CASE ~(i < k) /\ j < k
      <4>1. i + 1 = j
        BY <2>8, <2>9, <3>1, <3>4
      <4>. QED  BY <2>2, <3>4, <4>1
    <3>5. CASE ~(i < k) /\ ~(j < k)
      <4>1. i + 1 = j + 1
        BY <2>8, <2>9, <3>1, <3>5
      <4>. QED  BY <4>1
    <3>. QED  BY <3>2, <3>3, <3>4, <3>5
  <2>11. ASSUME NEW t \in Range(v) PROVE t \in Range(warm) \ {s}
    <3>1. PICK i \in 1..(L - 1) : t = v[i]
      BY <2>8 DEF Range
    <3>2. PICK j \in 1..L : t = warm[j] /\ j # k
      <4>1. i \in 1..L /\ i + 1 \in 1..L
        BY <2>1
      <4>2. CASE i < k
        BY <2>2, <2>8, <3>1, <4>1, <4>2
      <4>3. CASE ~(i < k)
        <5>1. i + 1 # k /\ t = warm[i + 1]
          BY <2>2, <2>8, <3>1, <4>3
        <5>. QED  BY <4>1, <5>1
      <4>. QED  BY <4>2, <4>3
    <3>. QED  BY <2>1, <2>2, <2>9, <3>2 DEF Range
  <2>12. ASSUME NEW t \in Range(warm) \ {s} PROVE t \in Range(v)
    <3>1. PICK i \in 1..L : t = warm[i] /\ i # k
      BY <2>1, <2>2 DEF Range
    <3>2. CASE i < k
      <4>1. i \in 1..(L - 1)
        BY <2>1, <2>2, <3>2
      <4>2. v[i] = t
        BY <2>8, <3>1, <3>2, <4>1
      <4>. QED  BY <2>8, <4>1, <4>2 DEF Range
    <3>3. CASE i > k
      <4>1. i - 1 \in 1..(L - 1) /\ ~(i - 1 < k) /\ (i - 1) + 1 = i
        BY <2>1, <2>2, <3>3
      <4>2. v[i - 1] = t
        BY <2>8, <3>1, <4>1
      <4>. QED  BY <2>8, <4>1, <4>2 DEF Range
    <3>. QED  BY <2>1, <2>2, <3>1, <3>2, <3>3
  <2>. QED  BY <2>5, <2>6, <2>10, <2>11, <2>12 DEF v
<1>. QED  BY <1>1, <1>2

LEMMA PoolPutLast ==
  ASSUME NEW w \in Seq(Scopes), IsInjective(w), NEW s \in Scopes, s \notin Range(w)
  PROVE  /\ Append(w, s) \in Seq(Scopes) /\ IsInjective(Append(w, s))
         /\ Range(Append(w, s)) = Range(w) \cup {s}
<1> DEFINE v == Append(w, s)
<1>1. /\ v \in Seq(Scopes) /\ Len(v) = Len(w) + 1 /\ v[Len(w) + 1] = s
      /\ \A i \in 1..Len(w) : v[i] = w[i]
  BY AppendProperties
<1>2. Len(w) \in Nat /\ DOMAIN w = 1..Len(w) /\ DOMAIN v = 1..(Len(w) + 1)
  BY <1>1, LenProperties
<1>. HIDE DEF v
<1>3. \A i \in 1..Len(w) : w[i] # s
  BY <1>2 DEF Range
<1>4. IsInjective(v)
  BY <1>1, <1>2, <1>3 DEF IsInjective
<1>5. Range(v) = Range(w) \cup {s}
  BY <1>1, <1>2 DEF Range
<1>. QED  BY <1>1, <1>4, <1>5 DEF v

LEMMA PoolRest ==
  ASSUME warm \in Seq(Scopes), IsInjective(warm), NEW n \in 1..Len(warm)
  PROVE  LET w == SubSeq(warm, n + 1, Len(warm)) IN
         /\ w \in Seq(Scopes) /\ IsInjective(w)
         /\ \A s : s \in Range(w) <=> s \in Range(warm) /\ \A i \in 1..n : warm[i] # s
<1> DEFINE w == SubSeq(warm, n + 1, Len(warm))
<1>1. PICK L \in Nat : Len(warm) = L /\ DOMAIN warm = 1..L
  BY LenProperties
<1>2. \A i \in (n + 1)..L : warm[i] \in Scopes
  BY <1>1
<1>3. /\ w \in Seq(Scopes)
      /\ Len(w) = IF n + 1 <= L THEN L - (n + 1) + 1 ELSE 0
      /\ \A i \in 1..(L - (n + 1) + 1) : w[i] = warm[(n + 1) + i - 1]
  BY <1>1, <1>2, SubSeqProperties
<1>. HIDE DEF w
<1>4. /\ DOMAIN w = 1..(L - n)
      /\ \A i \in 1..(L - n) : w[i] = warm[n + i]
  <2>1. Len(w) = L - n /\ L - (n + 1) + 1 = L - n
    BY <1>1, <1>3
  <2>2. DOMAIN w = 1..Len(w)
    BY <1>3, LenProperties
  <2>3. ASSUME NEW i \in 1..(L - n) PROVE w[i] = warm[n + i]
    <3>1. (n + 1) + i - 1 = n + i
      BY <1>1
    <3>. QED  BY <1>3, <2>1, <3>1
  <2>. QED  BY <2>1, <2>2, <2>3
<1>5. IsInjective(w)
  BY <1>1, <1>4 DEF IsInjective
<1>6. ASSUME NEW s \in Range(w) PROVE s \in Range(warm) /\ \A i \in 1..n : warm[i] # s
  <2>1. PICK j \in 1..(L - n) : s = warm[n + j]
    BY <1>4 DEF Range
  <2>. QED  BY <1>1, <2>1 DEF Range, IsInjective
<1>7. ASSUME NEW s \in Range(warm), \A i \in 1..n : warm[i] # s PROVE s \in Range(w)
  <2>1. PICK j \in 1..L : s = warm[j]
    BY <1>1 DEF Range
  <2>2. j > n
    BY <1>1, <1>7, <2>1
  <2>3. j - n \in 1..(L - n) /\ n + (j - n) = j
    BY <1>1, <2>2
  <2>4. w[j - n] = s
    BY <1>4, <2>1, <2>3
  <2>. QED  BY <1>4, <2>3, <2>4 DEF Range
<1>. QED  BY <1>3, <1>5, <1>6, <1>7 DEF w

-----------------------------------------------------------------------------
(* The places: nobody takes one but by an acquire that has just begun.       *)
LEMMA PoolPlacesKept ==
  ASSUME PoolConstants, IInv, Leased' \subseteq Leased,
         \A d \in Callers :
           /\ caller'[d].pc \in Filling => caller[d].pc \in Filling
           /\ caller'[d].pc \in Filling \cup {"acquired", "fail"} =>
                /\ caller[d].pc \in Filling \cup {"acquired", "fail"}
                /\ caller'[d].scope = caller[d].scope /\ caller[d].scope \in pending'
  PROVE  PlacesAreFilledOnce' /\ PlacesAreCounted'
<1>1. PlacesAreFilledOnce'
  BY DEF IInv, PlacesAreFilledOnce, Filling
<1>2. Taken' \subseteq Taken
  BY DEF Taken
<1>3. Taken \subseteq Scopes
  BY DEF Taken, Leased, IInv, FullTypeOK, Filling
<1>4. IsFiniteSet(Taken)
  BY <1>3, FS_Subset DEF PoolConstants
<1>5. Cardinality(Taken') \in Nat /\ Cardinality(Taken) \in Nat /\ Cardinality(Taken') <= Cardinality(Taken)
  BY <1>2, <1>4, FS_Subset, FS_CardinalityType
<1>6. Cardinality(Taken) <= Capacity
  BY DEF IInv, PlacesAreCounted
<1>7. Cardinality(Taken') <= Capacity
  BY <1>5, <1>6 DEF PoolConstants
<1>. QED  BY <1>1, <1>7 DEF PlacesAreCounted

(* The VMs that are new stay somebody's alone, when callers and sweepers get  *)
(* none but leased ones.                                                    *)
LEMMA PoolFreshKept ==
  ASSUME PoolConstants, IInv, closed => closed',
         \A d \in Callers : caller'[d].box \in {caller[d].box, None} \cup Rented,
         \A w \in Sweepers : doomed'[w] \subseteq doomed[w] \cup Rented,
         \A d \in Callers : caller'[d].pc \in Fresh =>
           /\ caller[d].pc \in Fresh /\ caller'[d].box = caller[d].box
           /\ caller[d].box \in dirty' => caller[d].box \in dirty
           /\ caller'[d].pc = "publish" => vm'[caller[d].box] = "up"
  PROVE  FreshIsSole'
<1> SUFFICES ASSUME NEW c \in Callers, caller'[c].pc \in Fresh
             PROVE  /\ \A d \in Callers \ {c} : caller'[d].box # caller'[c].box
                    /\ \A w \in Sweepers : caller'[c].box \notin doomed'[w]
                    /\ caller'[c].pc = "publish" => vm'[caller'[c].box] = "up"
                    /\ ~closed' => caller'[c].box \notin dirty'
  BY DEF FreshIsSole
<1>1. caller[c].pc \in Fresh /\ caller'[c].box = caller[c].box
  OBVIOUS
<1>2. caller[c].pc \in Holds /\ caller[c].pc \notin Runs /\ caller[c].box \in Boxes
  BY <1>1 DEF Fresh, Holds, Runs, IInv, FullTypeOK
<1>3. caller[c].box \notin Rented /\ caller[c].box # None
  BY <1>2 DEF IInv, LeaseIsSole, Rented, PoolConstants
<1>4. /\ \A d \in Callers \ {c} : caller[d].box # caller[c].box
      /\ \A w \in Sweepers : caller[c].box \notin doomed[w]
      /\ ~closed => caller[c].box \notin dirty
  BY <1>1 DEF IInv, FreshIsSole
<1>. QED  BY <1>1, <1>3, <1>4

(* The leases and what runs, when the tables stay and no caller that runs a   *)
(* command, or has a leased VM, does anything.                              *)
LEMMA PoolLeasesKept ==
  ASSUME IInv, UNCHANGED <<lease, warm, closed>>, dirty' \subseteq dirty, poisoned => poisoned',
         \A w \in Sweepers : doomed'[w] \subseteq doomed[w],
         \A s \in Leased : vm'[lease[s].box] = "up",
         \A d \in Callers : caller[d].pc \in Runs /\ (\/ vm[caller[d].box] = "none"
                                                        \/ caller[d].box \in doomed["shutdown"]) =>
             \/ vm'[caller[d].box] = "none" \/ caller[d].box \in doomed'["shutdown"] \/ poisoned',
         \A d \in Callers :
           \/ caller'[d] = caller[d]
           \/ /\ caller[d].pc \notin Runs /\ caller'[d].pc \notin Runs
              /\ caller'[d].pc \in Holds => caller'[d].box \notin Rented
  PROVE  LeaseIsSole' /\ CommandIsLeased' /\ ClosedIsEmpty'
<1>1. Leased' = Leased
  BY DEF Leased
<1>2. LeaseIsSole'
  <2> SUFFICES ASSUME NEW s \in Leased
               PROVE  /\ vm'[lease[s].box] = "up"
                      /\ s \in Range(warm) => ~lease[s].executing
                      /\ \A t \in Leased \ {s} : lease[t].box # lease[s].box
                      /\ \A w \in Sweepers : lease[s].box \notin doomed'[w]
                      /\ \A c \in Callers : caller'[c].pc \in Holds /\ caller'[c].box = lease[s].box =>
                           caller'[c].pc \in Runs /\ caller'[c].scope = s /\ lease[s].executing
                      /\ lease[s].box \in dirty' =>
                           \E c \in Callers : /\ caller'[c].pc = "ended" /\ caller'[c].bad
                                             /\ caller'[c].scope = s /\ caller'[c].box = lease[s].box
    BY <1>1 DEF LeaseIsSole, Range
  <2>1. lease[s].box \in Rented
    BY DEF Rented
  <2>2. /\ s \in Range(warm) => ~lease[s].executing
        /\ \A t \in Leased \ {s} : lease[t].box # lease[s].box
        /\ \A w \in Sweepers : lease[s].box \notin doomed[w]
        /\ \A c \in Callers : caller[c].pc \in Holds /\ caller[c].box = lease[s].box =>
             caller[c].pc \in Runs /\ caller[c].scope = s /\ lease[s].executing
        /\ lease[s].box \in dirty =>
             \E c \in Callers : /\ caller[c].pc = "ended" /\ caller[c].bad
                               /\ caller[c].scope = s /\ caller[c].box = lease[s].box
    BY DEF IInv, LeaseIsSole
  <2>3. \A c \in Callers : caller'[c].pc \in Holds /\ caller'[c].box = lease[s].box =>
          caller'[c].pc \in Runs /\ caller'[c].scope = s /\ lease[s].executing
    BY <2>1, <2>2
  <2>4. lease[s].box \in dirty' =>
          \E c \in Callers : /\ caller'[c].pc = "ended" /\ caller'[c].bad
                            /\ caller'[c].scope = s /\ caller'[c].box = lease[s].box
    BY <2>2 DEF Runs
  <2>. QED  BY <2>2, <2>3, <2>4
<1>3. CommandIsLeased'
  <2>1. ASSUME NEW d \in Callers, caller'[d].pc \in Runs
        PROVE  caller'[d] = caller[d] /\ caller[d].pc \in Runs
    BY <2>1
  <2>. QED  BY <1>1, <2>1 DEF IInv, CommandIsLeased
<1>4. ClosedIsEmpty'
  BY <1>1 DEF IInv, ClosedIsEmpty, Sweepers
<1>. QED  BY <1>2, <1>3, <1>4

(* Stopping a VM that nobody has leased and that is not new: what it leaves.  *)
LEMMA PoolDisposes ==
  ASSUME IInv, NEW b \in Boxes, b \notin Rented, Disposed(b)
  PROVE  /\ vm' \in [Boxes -> {"none", "starting", "cancelled", "up"}]
         /\ dirty' \subseteq dirty /\ lost' \subseteq lost
         /\ poisoned' \in BOOLEAN /\ (poisoned => poisoned')
         /\ \A s \in Leased : vm'[lease[s].box] = "up"
         /\ \A a \in Boxes : vm[a] = "none" => vm'[a] = "none"
         /\ \A a \in Boxes \ {b} : vm'[a] = vm[a] /\ (a \in lost => a \in lost')
         /\ vm'[b] = "none" \/ poisoned'
         /\ closed' = closed => AbandonedIsUp'
<1>1. /\ \A s \in Leased : lease[s].box \in Boxes /\ lease[s].box # b /\ vm[lease[s].box] = "up"
      /\ vm \in [Boxes -> {"none", "starting", "cancelled", "up"}] /\ dirty \subseteq Boxes
      /\ poisoned \in BOOLEAN
      /\ ~closed => \A a \in dirty : vm[a] = "up"
  BY DEF IInv, FullTypeOK, TypeOK, Leased, LeaseIsSole, Rented, AbandonedIsUp
<1>2. CASE loop /\ vm' = [vm EXCEPT ![b] = "none"] /\ dirty' = dirty \ {b} /\ lost' = lost \ {b}
           /\ poisoned' = poisoned
  BY <1>1, <1>2 DEF AbandonedIsUp
<1>3. CASE poisoned' = TRUE /\ UNCHANGED <<vm, dirty, lost>>
  BY <1>1, <1>3 DEF AbandonedIsUp
<1>. QED  BY <1>2, <1>3 DEF Disposed

(* A caller that stops a VM has it, and it is neither leased nor new.        *)
LEMMA PoolStops ==
  ASSUME IInv, NEW c \in Callers, caller[c].pc \in Holds \ Runs
  PROVE  /\ caller[c].box \in Boxes /\ caller[c].box \notin Rented
         /\ \A d \in Callers \ {c} : caller[d].pc \in Fresh => caller[d].box # caller[c].box
<1>1. caller[c].box \in Boxes
  BY DEF IInv, FullTypeOK
<1>2. caller[c].box \notin Rented
  BY DEF IInv, LeaseIsSole, Rented
<1>3. \A d \in Callers \ {c} : caller[d].pc \in Fresh => caller[d].box # caller[c].box
  BY DEF IInv, FreshIsSole
<1>. QED  BY <1>1, <1>2, <1>3

(* What a caller does that neither takes a place or a VM nor runs a command.   *)
Quietly(d) ==
  \/ caller'[d] = caller[d]
  \/ /\ caller[d].pc \notin Runs \cup {"idle"} /\ caller'[d].pc \notin Runs \cup {"acquired"}
     /\ caller'[d].pc # "idle" => caller'[d].scope = caller[d].scope
     /\ caller'[d].pc \in Filling => caller[d].pc \in Filling
     /\ caller'[d].pc = "fail" => caller[d].pc \in Filling \cup {"fail"}
     /\ caller'[d].pc \in Fresh => caller[d].pc \in Fresh
     /\ caller'[d].pc \in Holds => caller[d].pc \in Holds /\ caller'[d].box = caller[d].box
     /\ caller'[d].box \in {None, caller[d].box}

(* When callers act so and the tables stay, no VM that is leased goes down and *)
(* none that is down comes up, all is kept but what concerns the other VMs.    *)
LEMMA PoolQuiet ==
  ASSUME PoolConstants, IInv, UNCHANGED <<keepWarm, lease, warm, closed>>,
         pending' \subseteq pending, loop' \in BOOLEAN, poisoned' \in BOOLEAN, poisoned => poisoned',
         vm' \in [Boxes -> {"none", "starting", "cancelled", "up"}],
         dirty' \subseteq dirty, lost' \subseteq Boxes,
         doomed' \in [Sweepers -> SUBSET Boxes], \A w \in Sweepers : doomed'[w] \subseteq doomed[w],
         caller' \in [Callers -> CallerStates], \A d \in Callers : Quietly(d),
         \A d \in Callers : caller'[d].pc \in Filling \cup {"acquired", "fail"} => caller[d].scope \in pending',
         \A d \in Callers : caller'[d].pc = "publish" => vm'[caller[d].box] = "up",
         \A s \in Leased : vm'[lease[s].box] = "up",
         \A b \in Boxes : vm[b] = "none" => vm'[b] = "none",
         \A b \in doomed["shutdown"] : b \in doomed'["shutdown"] \/ vm'[b] = "none" \/ poisoned'
  PROVE  /\ FullTypeOK' /\ PlacesAreFilledOnce' /\ PlacesAreCounted' /\ FreshIsSole' /\ LeaseIsSole'
         /\ CommandIsLeased' /\ ClosedIsEmpty'
<1>1. FullTypeOK /\ Leased' = Leased
  BY PoolTypes DEF Leased
<1>2. FullTypeOK'
  <2>1. TypeOK'
    BY <1>1 DEF FullTypeOK, TypeOK, Range, IsInjective
  <2>2. ASSUME NEW d \in Callers
        PROVE  /\ caller'[d].pc # "idle" => caller'[d].scope \in Scopes
               /\ caller'[d].pc \in Holds \cup {"acquired"} => caller'[d].box \in Boxes
    <3>1. CASE caller'[d] = caller[d]
      BY <1>1, <3>1 DEF FullTypeOK
    <3>2. CASE caller'[d] # caller[d]
      BY <1>1, <3>2 DEF FullTypeOK, Quietly, Holds, Runs
    <3>. QED  BY <3>1, <3>2
  <2>. QED  BY <1>1, <2>1, <2>2 DEF FullTypeOK
<1>3. PlacesAreFilledOnce' /\ PlacesAreCounted'
  <2>1. ASSUME NEW d \in Callers
        PROVE  /\ caller'[d].pc \in Filling => caller[d].pc \in Filling
               /\ caller'[d].pc \in Filling \cup {"acquired", "fail"} =>
                    /\ caller[d].pc \in Filling \cup {"acquired", "fail"}
                    /\ caller'[d].scope = caller[d].scope /\ caller[d].scope \in pending'
    BY DEF Quietly, Filling
  <2>. QED  BY <1>1, <2>1, PoolPlacesKept
<1>4. FreshIsSole'
  <2>1. ASSUME NEW d \in Callers PROVE caller'[d].box \in {caller[d].box, None} \cup Rented
    BY DEF Quietly
  <2>2. ASSUME NEW d \in Callers, caller'[d].pc \in Fresh
        PROVE  caller[d].pc \in Fresh /\ caller'[d].box = caller[d].box
    BY <2>2 DEF Quietly, Fresh, Holds
  <2>. QED  BY <2>1, <2>2, PoolFreshKept
<1>5. LeaseIsSole' /\ CommandIsLeased' /\ ClosedIsEmpty'
  <2>1. ASSUME NEW d \in Callers
        PROVE  \/ caller'[d] = caller[d]
               \/ /\ caller[d].pc \notin Runs /\ caller'[d].pc \notin Runs
                  /\ caller'[d].pc \in Holds => caller'[d].box \notin Rented
    <3>1. caller[d].pc \in Holds \ Runs => caller[d].box \notin Rented
      BY PoolStops
    <3>. QED  BY <3>1 DEF Quietly
  <2>2. ASSUME NEW d \in Callers, caller[d].pc \in Runs,
               vm[caller[d].box] = "none" \/ caller[d].box \in doomed["shutdown"]
        PROVE  vm'[caller[d].box] = "none" \/ caller[d].box \in doomed'["shutdown"] \/ poisoned'
    <3>1. caller[d].box \in Boxes
      BY <1>1, <2>2 DEF FullTypeOK, Holds
    <3>. QED  BY <2>2, <3>1
  <2>. QED  BY <2>1, <2>2, PoolLeasesKept
<1>. QED  BY <1>2, <1>3, <1>4, <1>5

(* A VM stays used while its callers keep it and nobody else lets it go.       *)
LEMMA PoolStillUsed ==
  ASSUME IInv, UNCHANGED <<lease, doomed>>, NEW a, Used(a),
         \A d \in Callers : caller[d].pc \in Holds /\ caller[d].box = a =>
           caller'[d].pc \in Holds /\ caller'[d].box = a
  PROVE  Used(a)'
BY DEF Used, Rented, Leased

(* A caller that has stopped its VM. *)
LEMMA PoolCallerDisposes ==
  ASSUME PoolConstants, IInv, NEW c \in Callers, caller[c].pc \in Holds \ Runs, Disposed(caller[c].box),
         UNCHANGED <<keepWarm, lease, warm, pending, closed, loop, doomed>>,
         caller' \in [Callers -> CallerStates], caller'[c].box = None,
         caller'[c].pc \in {"start", "fail", "release", "idle"},
         caller'[c].pc # "idle" => caller'[c].scope = caller[c].scope,
         caller'[c].pc \in {"start", "fail"} => caller[c].pc \in Filling,
         \A d \in Callers : d # c => caller'[d] = caller[d]
  PROVE  IInv'
<1> DEFINE b == caller[c].box
<1>1. FullTypeOK /\ b \in Boxes /\ b \notin Rented
      /\ \A d \in Callers \ {c} : caller[d].pc \in Fresh => caller[d].box # b
  BY PoolTypes, PoolStops
<1>2. /\ vm' \in [Boxes -> {"none", "starting", "cancelled", "up"}]
      /\ dirty' \subseteq dirty /\ lost' \subseteq lost
      /\ poisoned' \in BOOLEAN /\ (poisoned => poisoned')
      /\ \A s \in Leased : vm'[lease[s].box] = "up"
      /\ \A a \in Boxes : vm[a] = "none" => vm'[a] = "none"
      /\ \A a \in Boxes \ {b} : vm'[a] = vm[a] /\ (a \in lost => a \in lost')
      /\ vm'[b] = "none" \/ poisoned'
      /\ AbandonedIsUp'
  BY <1>1, PoolDisposes
<1>. HIDE DEF b
<1>3. ASSUME NEW d \in Callers PROVE Quietly(d)
  BY <1>1, PoolStops DEF Quietly, Runs, Holds, Filling, Fresh
<1>4. ASSUME NEW d \in Callers, caller'[d].pc \in Filling \cup {"acquired", "fail"}
      PROVE  caller[d].scope \in pending'
  BY <1>4 DEF IInv, PlacesAreFilledOnce, Filling
<1>5. ASSUME NEW d \in Callers, caller'[d].pc = "publish" PROVE vm'[caller[d].box] = "up"
  <2>1. d # c /\ caller[d].pc = "publish"
    BY <1>5
  <2>2. caller[d].box \in Boxes \ {b} /\ vm[caller[d].box] = "up"
    BY <1>1, <2>1 DEF FullTypeOK, Holds, Fresh, IInv, FreshIsSole
  <2>. QED  BY <1>2, <2>2
<1>6. /\ FullTypeOK' /\ PlacesAreFilledOnce' /\ PlacesAreCounted' /\ FreshIsSole' /\ LeaseIsSole'
      /\ CommandIsLeased' /\ ClosedIsEmpty'
  <2>1. lost' \subseteq Boxes /\ loop' \in BOOLEAN /\ doomed' \in [Sweepers -> SUBSET Boxes]
    BY <1>1, <1>2 DEF FullTypeOK, TypeOK
  <2>2. \A x \in doomed["shutdown"] : x \in doomed'["shutdown"]
    OBVIOUS
  <2>. QED  BY <1>2, <1>3, <1>4, <1>5, <2>1, <2>2, PoolQuiet
<1>7. NoneIsForgotten'
  <2> SUFFICES ASSUME ~poisoned', NEW a \in Boxes, vm'[a] # "none"
               PROVE  Used(a)' \/ a \in lost'
    BY DEF NoneIsForgotten
  <2>1. a # b /\ vm[a] # "none" /\ ~poisoned
    BY <1>2
  <2>2. Used(a) \/ a \in lost
    BY <2>1 DEF IInv, NoneIsForgotten
  <2>3. Used(a) => Used(a)'
    BY <2>1, PoolStillUsed DEF b
  <2>. QED  BY <1>2, <2>1, <2>2, <2>3
<1>. QED  BY <1>2, <1>6, <1>7 DEF IInv

-----------------------------------------------------------------------------
(* The steps of an acquire. *)
LEMMA PoolEvict == ASSUME PoolConstants, IInv, NEW c \in Callers, Evict(c) PROVE IInv'
<1>1. FullTypeOK /\ caller[c].pc = "evict"
      /\ UNCHANGED <<keepWarm, lease, warm, pending, closed, loop, doomed>>
  BY PoolTypes DEF Evict, At, tables
<1>2. /\ caller' \in [Callers -> CallerStates]
      /\ caller'[c].pc \in {"start", "fail"} /\ caller'[c].scope = caller[c].scope
      /\ caller'[c].box = None
      /\ \A d \in Callers : d # c => caller'[d] = caller[d]
  BY <1>1 DEF Evict, FullTypeOK, CallerStates
<1>3. caller[c].pc \in Holds \ Runs /\ caller[c].pc \in Filling /\ Disposed(caller[c].box)
  BY <1>1 DEF Evict, Holds, Runs, Filling
<1>. QED  BY <1>1, <1>2, <1>3, PoolCallerDisposes

LEMMA PoolDiscard == ASSUME PoolConstants, IInv, NEW c \in Callers, Discard(c) PROVE IInv'
<1>1. FullTypeOK /\ caller[c].pc = "discard"
      /\ UNCHANGED <<keepWarm, lease, warm, pending, closed, loop, doomed>>
  BY PoolTypes DEF Discard, At, tables
<1>2. /\ caller' \in [Callers -> CallerStates]
      /\ caller'[c].pc = "fail" /\ caller'[c].scope = caller[c].scope
      /\ caller'[c].box = None
      /\ \A d \in Callers : d # c => caller'[d] = caller[d]
  BY <1>1 DEF Discard, FullTypeOK, CallerStates
<1>3. caller[c].pc \in Holds \ Runs /\ caller[c].pc \in Filling /\ Disposed(caller[c].box)
  BY <1>1 DEF Discard, Holds, Runs, Filling
<1>. QED  BY <1>1, <1>2, <1>3, PoolCallerDisposes

LEMMA PoolInvalidate == ASSUME PoolConstants, IInv, NEW c \in Callers, Invalidate(c) PROVE IInv'
<1>1. FullTypeOK /\ caller[c].pc \in {"invalidate", "drop"}
      /\ UNCHANGED <<keepWarm, lease, warm, pending, closed, loop, doomed>>
  BY PoolTypes DEF Invalidate, At, tables
<1>2. /\ caller' \in [Callers -> CallerStates]
      /\ \/ caller'[c].pc = "release" /\ caller'[c].scope = caller[c].scope
         \/ caller'[c].pc = "idle"
      /\ caller'[c].box = None
      /\ \A d \in Callers : d # c => caller'[d] = caller[d]
  <2>1. CASE caller' = [caller EXCEPT ![c] = NoCaller]
    BY <1>1, <2>1 DEF FullTypeOK, CallerStates, NoCaller
  <2>2. CASE caller' = [caller EXCEPT ![c].pc = "release", ![c].box = None]
    BY <1>1, <2>2 DEF FullTypeOK, CallerStates
  <2>. QED  BY <2>1, <2>2 DEF Invalidate, Leave
<1>3. caller[c].pc \in Holds \ Runs /\ Disposed(caller[c].box)
  BY <1>1 DEF Invalidate, Holds, Runs
<1>. QED  BY <1>1, <1>2, <1>3, PoolCallerDisposes

LEMMA PoolStart == ASSUME PoolConstants, IInv, NEW c \in Callers, Start(c) PROVE IInv'
<1>1. /\ FullTypeOK /\ caller[c].pc = "start" /\ Leased' = Leased
      /\ UNCHANGED <<keepWarm, lease, warm, pending, closed, poisoned, loop, dirty, lost, doomed>>
  BY PoolTypes DEF Start, At, tables, Leased
<1>2. CASE ~loop /\ Go(c, "fail") /\ UNCHANGED vm
  <2>1. /\ caller' \in [Callers -> CallerStates]
        /\ caller'[c].pc = "fail" /\ caller'[c].scope = caller[c].scope /\ caller'[c].box = caller[c].box
        /\ \A d \in Callers : d # c => caller'[d] = caller[d]
    BY <1>1, <1>2 DEF Go, FullTypeOK, CallerStates
  <2>2. ASSUME NEW d \in Callers PROVE Quietly(d)
    BY <1>1, <2>1 DEF Quietly, Runs, Holds, Filling, Fresh
  <2>3. ASSUME NEW d \in Callers, caller'[d].pc \in Filling \cup {"acquired", "fail"}
        PROVE  caller[d].scope \in pending'
    BY <1>1, <2>1, <2>3 DEF IInv, PlacesAreFilledOnce, Filling
  <2>4. ASSUME NEW d \in Callers, caller'[d].pc = "publish" PROVE vm'[caller[d].box] = "up"
    BY <1>2, <2>1, <2>4 DEF IInv, FreshIsSole, Fresh
  <2>5. /\ \A s \in Leased : vm'[lease[s].box] = "up"
        /\ \A b \in Boxes : vm[b] = "none" => vm'[b] = "none"
        /\ vm' \in [Boxes -> {"none", "starting", "cancelled", "up"}] /\ lost' \subseteq Boxes
        /\ loop' \in BOOLEAN /\ poisoned' \in BOOLEAN /\ doomed' \in [Sweepers -> SUBSET Boxes]
    BY <1>1, <1>2 DEF IInv, LeaseIsSole, FullTypeOK, TypeOK
  <2>6. /\ FullTypeOK' /\ PlacesAreFilledOnce' /\ PlacesAreCounted' /\ FreshIsSole' /\ LeaseIsSole'
        /\ CommandIsLeased' /\ ClosedIsEmpty'
    BY <1>1, <2>1, <2>2, <2>3, <2>4, <2>5, PoolQuiet
  <2>7. AbandonedIsUp'
    BY <1>1, <1>2 DEF IInv, AbandonedIsUp
  <2>8. NoneIsForgotten'
    <3>1. ASSUME NEW a \in Boxes, Used(a) PROVE Used(a)'
      BY <1>1, <2>1, <3>1, PoolStillUsed DEF Holds, Runs
    <3>. QED  BY <1>1, <1>2, <3>1 DEF IInv, NoneIsForgotten
  <2>. QED  BY <2>6, <2>7, <2>8 DEF IInv
<1>3. ASSUME NEW b \in Boxes, Unused(b), vm' = [vm EXCEPT ![b] = "starting"],
             caller' = [caller EXCEPT ![c].pc = "starting", ![c].box = b]
      PROVE  IInv'
  <2>1. /\ caller' \in [Callers -> CallerStates]
        /\ caller'[c].pc = "starting" /\ caller'[c].scope = caller[c].scope /\ caller'[c].box = b
        /\ \A d \in Callers : d # c => caller'[d] = caller[d]
    BY <1>1, <1>3 DEF FullTypeOK, CallerStates, Holds
  <2>2. /\ vm[b] = "none" /\ vm'[b] = "starting" /\ \A a \in Boxes \ {b} : vm'[a] = vm[a]
        /\ vm' \in [Boxes -> {"none", "starting", "cancelled", "up"}]
        /\ \A d \in Callers : caller[d].box # b
        /\ b \notin Rented /\ \A w \in Sweepers : b \notin doomed[w]
    BY <1>1, <1>3 DEF Unused, FullTypeOK, TypeOK, Rented
  <2>3. FullTypeOK'
    <3>1. TypeOK'
      BY <1>1, <2>2 DEF FullTypeOK, TypeOK, Range, IsInjective
    <3>2. \A d \in Callers : /\ caller'[d].pc # "idle" => caller'[d].scope \in Scopes
                            /\ caller'[d].pc \in Holds \cup {"acquired"} => caller'[d].box \in Boxes
      BY <1>1, <2>1 DEF FullTypeOK
    <3>. QED  BY <1>1, <2>1, <3>1, <3>2 DEF FullTypeOK
  <2>4. PlacesAreFilledOnce' /\ PlacesAreCounted'
    <3>1. ASSUME NEW d \in Callers
          PROVE  /\ caller'[d].pc \in Filling => caller[d].pc \in Filling
                 /\ caller'[d].pc \in Filling \cup {"acquired", "fail"} =>
                      /\ caller[d].pc \in Filling \cup {"acquired", "fail"}
                      /\ caller'[d].scope = caller[d].scope /\ caller[d].scope \in pending'
      BY <1>1, <2>1 DEF Filling, IInv, PlacesAreFilledOnce
    <3>. QED  BY <1>1, <3>1, PoolPlacesKept
  <2>5. FreshIsSole'
    <3>1. ~closed => b \notin dirty
      BY <2>2 DEF IInv, AbandonedIsUp
    <3>2. ASSUME NEW d \in Callers, d # c, caller[d].pc \in Fresh
          PROVE  /\ caller[d].box \in Boxes \ {b}
                 /\ \A e \in Callers \ {d} : caller[e].box # caller[d].box
                 /\ \A w \in Sweepers : caller[d].box \notin doomed[w]
                 /\ caller[d].pc = "publish" => vm[caller[d].box] = "up"
                 /\ ~closed => caller[d].box \notin dirty
      BY <1>1, <2>2, <3>2 DEF FullTypeOK, Fresh, Holds, IInv, FreshIsSole
    <3>. QED  BY <1>1, <2>1, <2>2, <3>1, <3>2 DEF FreshIsSole
  <2>6. LeaseIsSole' /\ CommandIsLeased' /\ ClosedIsEmpty'
    <3>1. ASSUME NEW s \in Leased PROVE vm'[lease[s].box] = "up"
      <4>1. lease[s].box \in Boxes \ {b} /\ vm[lease[s].box] = "up"
        BY <1>1, <2>2 DEF Leased, FullTypeOK, TypeOK, IInv, LeaseIsSole, Rented
      <4>. QED  BY <2>2, <4>1
    <3>2. ASSUME NEW d \in Callers, caller[d].pc \in Runs,
                 vm[caller[d].box] = "none" \/ caller[d].box \in doomed["shutdown"]
          PROVE  vm'[caller[d].box] = "none" \/ caller[d].box \in doomed'["shutdown"] \/ poisoned'
      <4>1. caller[d].box \in Boxes \ {b}
        BY <1>1, <2>2, <3>2 DEF FullTypeOK, Holds
      <4>. QED  BY <1>1, <2>2, <3>2, <4>1
    <3>3. ASSUME NEW d \in Callers
          PROVE  \/ caller'[d] = caller[d]
                 \/ /\ caller[d].pc \notin Runs /\ caller'[d].pc \notin Runs
                    /\ caller'[d].pc \in Holds => caller'[d].box \notin Rented
      BY <1>1, <2>1, <2>2 DEF Runs
    <3>. QED  BY <1>1, <3>1, <3>2, <3>3, PoolLeasesKept
  <2>7. AbandonedIsUp'
    BY <1>1, <2>2 DEF IInv, AbandonedIsUp, FullTypeOK, TypeOK
  <2>8. NoneIsForgotten'
    <3>1. ASSUME NEW a \in Boxes, Used(a) PROVE Used(a)'
      BY <1>1, <2>1, <3>1, PoolStillUsed DEF Holds, Runs
    <3>2. Used(b)'
      BY <2>1 DEF Used, Holds
    <3>. QED  BY <1>1, <2>2, <3>1, <3>2 DEF IInv, NoneIsForgotten
  <2>. QED  BY <2>3, <2>4, <2>5, <2>6, <2>7, <2>8 DEF IInv
<1>. QED  BY <1>2, <1>3 DEF Start

(* A VM that nobody has leased is started, gives up or goes; it is not lost     *)
(* from sight unless it is down.                                            *)
LEMMA PoolMoves ==
  ASSUME PoolConstants, IInv, NEW b \in Boxes, b \notin Rented, vm[b] = "none" => vm'[b] = "none",
         vm' \in [Boxes -> {"none", "starting", "cancelled", "up"}],
         vm[b] = "up" => vm'[b] = "up", \A a \in Boxes \ {b} : vm'[a] = vm[a],
         UNCHANGED <<keepWarm, lease, warm, pending, closed, poisoned, loop, dirty, doomed>>,
         lost' \subseteq Boxes, \A a \in Boxes \ {b} : a \in lost => a \in lost',
         vm'[b] = "none" \/ b \in lost' \/ (caller' = caller /\ lost' = lost),
         caller' \in [Callers -> CallerStates], \A d \in Callers : Quietly(d),
         \A d \in Callers : caller'[d].pc = "publish" => caller'[d] = caller[d],
         \A d \in Callers : caller[d].box # b => caller'[d] = caller[d]
  PROVE  IInv'
<1>1. FullTypeOK
  BY PoolTypes
<1>2. ASSUME NEW s \in Leased PROVE vm'[lease[s].box] = "up"
  <2>1. lease[s].box \in Boxes \ {b} /\ vm[lease[s].box] = "up"
    BY <1>1 DEF Leased, FullTypeOK, TypeOK, IInv, LeaseIsSole, Rented
  <2>. QED  BY <2>1
<1>3. ASSUME NEW d \in Callers, caller'[d].pc = "publish" PROVE vm'[caller[d].box] = "up"
  <2>1. caller[d].pc \in Fresh /\ caller[d].box \in Boxes /\ vm[caller[d].box] = "up"
    BY <1>1, <1>3 DEF Fresh, Holds, FullTypeOK, IInv, FreshIsSole
  <2>. QED  BY <2>1
<1>4. ASSUME NEW d \in Callers, caller'[d].pc \in Filling \cup {"acquired", "fail"}
      PROVE  caller[d].scope \in pending'
  BY <1>4 DEF IInv, PlacesAreFilledOnce, Filling, Quietly
<1>5. /\ FullTypeOK' /\ PlacesAreFilledOnce' /\ PlacesAreCounted' /\ FreshIsSole' /\ LeaseIsSole'
      /\ CommandIsLeased' /\ ClosedIsEmpty'
  <2>1. /\ loop' \in BOOLEAN /\ poisoned' \in BOOLEAN /\ doomed' \in [Sweepers -> SUBSET Boxes]
        /\ \A x \in Boxes : vm[x] = "none" => vm'[x] = "none"
    BY <1>1 DEF FullTypeOK, TypeOK
  <2>. QED  BY <1>2, <1>3, <1>4, <2>1, PoolQuiet
<1>6. AbandonedIsUp'
  BY <1>1 DEF IInv, AbandonedIsUp, FullTypeOK, TypeOK
<1>7. NoneIsForgotten'
  <2> SUFFICES ASSUME ~poisoned, NEW a \in Boxes, vm'[a] # "none"
               PROVE  Used(a)' \/ a \in lost'
    BY DEF NoneIsForgotten
  <2>1. vm[a] # "none"
    BY <1>1
  <2>2. Used(a) \/ a \in lost
    BY <2>1 DEF IInv, NoneIsForgotten
  <2>3. CASE a # b
    <3>1. Used(a) => Used(a)'
      BY <2>3, PoolStillUsed
    <3>. QED  BY <2>2, <2>3, <3>1
  <2>4. CASE a = b /\ caller' = caller /\ lost' = lost
    <3>1. Used(a) => Used(a)'
      BY <2>4, PoolStillUsed
    <3>. QED  BY <2>2, <2>4, <3>1
  <2>. QED  BY <2>3, <2>4
<1>. QED  BY <1>5, <1>6, <1>7 DEF IInv

(* A VM that does not run is not leased. *)
LEMMA PoolDownIsFree ==
  ASSUME IInv, NEW b, vm[b] # "up" PROVE b \notin Rented
BY DEF IInv, LeaseIsSole, Rented

LEMMA PoolVmUp == ASSUME PoolConstants, IInv, NEW b \in Boxes, VmUp(b) PROVE IInv'
<1>1. FullTypeOK /\ b \notin Rented /\ vm[b] = "starting" /\ vm' = [vm EXCEPT ![b] = "up"]
      /\ UNCHANGED <<keepWarm, lease, warm, pending, closed, poisoned, loop, dirty, lost, doomed, caller>>
  BY PoolTypes, PoolDownIsFree DEF VmUp, tables
<1>2. /\ vm' \in [Boxes -> {"none", "starting", "cancelled", "up"}] /\ vm'[b] = "up"
      /\ \A a \in Boxes \ {b} : vm'[a] = vm[a]
      /\ caller' \in [Callers -> CallerStates] /\ lost' \subseteq Boxes
  BY <1>1 DEF FullTypeOK, TypeOK
<1>3. ASSUME NEW d \in Callers PROVE Quietly(d)
  BY <1>1 DEF Quietly
<1>. QED  BY <1>1, <1>2, <1>3, PoolMoves

LEMMA PoolCancelledEnds ==
  ASSUME PoolConstants, IInv, NEW b \in Boxes, CancelledStartEnds(b) PROVE IInv'
<1>1. FullTypeOK /\ b \notin Rented /\ vm[b] = "cancelled"
      /\ UNCHANGED <<keepWarm, lease, warm, pending, closed, poisoned, loop, dirty, doomed, caller>>
  BY PoolTypes, PoolDownIsFree DEF CancelledStartEnds, tables
<1>2. /\ vm' \in [Boxes -> {"none", "starting", "cancelled", "up"}]
      /\ \A a \in Boxes \ {b} : vm'[a] = vm[a] /\ (a \in lost => a \in lost')
      /\ vm'[b] = "none" \/ lost' = lost
      /\ caller' \in [Callers -> CallerStates] /\ lost' \subseteq Boxes
  BY <1>1 DEF CancelledStartEnds, FullTypeOK, TypeOK
<1>3. ASSUME NEW d \in Callers PROVE Quietly(d)
  BY <1>1 DEF Quietly
<1>. QED  BY <1>1, <1>2, <1>3, PoolMoves

(* The caller whose start fails, or is given up, has the VM alone.           *)
LEMMA PoolStarting ==
  ASSUME IInv, NEW c \in Callers, caller[c].pc = "starting"
  PROVE  /\ caller[c].box \in Boxes /\ caller[c].box \notin Rented
         /\ \A d \in Callers \ {c} : caller[d].box # caller[c].box
BY PoolStops DEF Holds, Runs, Fresh, IInv, FreshIsSole

LEMMA PoolStartFails == ASSUME PoolConstants, IInv, NEW c \in Callers, StartFails(c) PROVE IInv'
<1> DEFINE b == caller[c].box
<1>1. FullTypeOK /\ caller[c].pc = "starting" /\ vm[b] = "starting" /\ LeftBehind(b)
      /\ UNCHANGED <<keepWarm, lease, warm, pending, closed, poisoned, loop, dirty, doomed>>
  BY PoolTypes DEF StartFails, At, tables
<1>2. b \in Boxes /\ b \notin Rented /\ \A d \in Callers \ {c} : caller[d].box # b
  BY <1>1, PoolStarting
<1>3. /\ caller' \in [Callers -> CallerStates]
      /\ caller'[c].pc = "fail" /\ caller'[c].scope = caller[c].scope /\ caller'[c].box = None
      /\ \A d \in Callers : d # c => caller'[d] = caller[d]
  BY <1>1 DEF StartFails, FullTypeOK, CallerStates
<1>. HIDE DEF b
<1>4. /\ vm' \in [Boxes -> {"none", "starting", "cancelled", "up"}]
      /\ \A a \in Boxes \ {b} : vm'[a] = vm[a] /\ (a \in lost => a \in lost')
      /\ vm'[b] = "none" \/ b \in lost'
      /\ lost' \subseteq Boxes
  BY <1>1, <1>2 DEF LeftBehind, FullTypeOK, TypeOK
<1>5. ASSUME NEW d \in Callers PROVE Quietly(d)
  BY <1>1, <1>3 DEF Quietly, Runs, Holds, Filling, Fresh
<1>6. /\ \A d \in Callers : caller'[d].pc = "publish" => caller'[d] = caller[d]
      /\ \A d \in Callers : caller[d].box # b => caller'[d] = caller[d]
  BY <1>3 DEF b
<1>. QED  BY <1>1, <1>2, <1>3, <1>4, <1>5, <1>6, PoolMoves

LEMMA PoolStartGivenUp == ASSUME PoolConstants, IInv, NEW c \in Callers, StartGivenUp(c) PROVE IInv'
<1> DEFINE b == caller[c].box
<1>1. FullTypeOK /\ caller[c].pc = "starting"
      /\ vm' = [vm EXCEPT ![b] = IF @ = "starting" THEN "cancelled" ELSE @] /\ lost' = lost \cup {b}
      /\ UNCHANGED <<keepWarm, lease, warm, pending, closed, poisoned, loop, dirty, doomed>>
  BY PoolTypes DEF StartGivenUp, At, tables
<1>2. b \in Boxes /\ b \notin Rented /\ \A d \in Callers \ {c} : caller[d].box # b
  BY <1>1, PoolStarting
<1>3. /\ caller' \in [Callers -> CallerStates]
      /\ caller'[c].pc = "fail" /\ caller'[c].scope = caller[c].scope /\ caller'[c].box = None
      /\ \A d \in Callers : d # c => caller'[d] = caller[d]
  BY <1>1 DEF StartGivenUp, FullTypeOK, CallerStates
<1>. HIDE DEF b
<1>4. /\ vm' \in [Boxes -> {"none", "starting", "cancelled", "up"}]
      /\ \A a \in Boxes \ {b} : vm'[a] = vm[a] /\ (a \in lost => a \in lost')
      /\ vm[b] = "up" => vm'[b] = "up"
      /\ vm[b] = "none" => vm' = vm
      /\ b \in lost' /\ lost' \subseteq Boxes
  BY <1>1, <1>2 DEF FullTypeOK, TypeOK
<1>5. ASSUME NEW d \in Callers PROVE Quietly(d)
  BY <1>1, <1>3 DEF Quietly, Runs, Holds, Filling, Fresh
<1>6. /\ \A d \in Callers : caller'[d].pc = "publish" => caller'[d] = caller[d]
      /\ \A d \in Callers : caller[d].box # b => caller'[d] = caller[d]
  BY <1>3 DEF b
<1>7. vm[b] = "none" => vm'[b] = "none"
  BY <1>4
<1>. QED  BY <1>1, <1>2, <1>3, <1>4, <1>5, <1>6, <1>7, PoolMoves

(* A caller goes on, or leaves, with nothing but its place changed.            *)
LEMMA PoolCallerMoves ==
  ASSUME PoolConstants, IInv, NEW c \in Callers,
         UNCHANGED <<keepWarm, lease, warm, closed, poisoned, loop, vm, dirty, lost, doomed>>,
         pending' \subseteq pending, caller' \in [Callers -> CallerStates],
         Quietly(c), \A d \in Callers : d # c => caller'[d] = caller[d],
         \A d \in Callers : caller'[d].pc \in Filling \cup {"acquired", "fail"} => caller[d].scope \in pending',
         caller[c].pc \in Holds => caller'[c].pc \in Holds /\ caller'[c].box = caller[c].box,
         caller'[c].pc = "publish" => vm[caller[c].box] = "up"
  PROVE  IInv'
<1>1. FullTypeOK
  BY PoolTypes
<1>2. ASSUME NEW d \in Callers PROVE Quietly(d)
  BY DEF Quietly
<1>3. ASSUME NEW d \in Callers, caller'[d].pc = "publish" PROVE vm'[caller[d].box] = "up"
  BY <1>3 DEF IInv, FreshIsSole, Fresh
<1>4. /\ \A s \in Leased : vm'[lease[s].box] = "up"
      /\ vm' \in [Boxes -> {"none", "starting", "cancelled", "up"}] /\ lost' \subseteq Boxes
      /\ loop' \in BOOLEAN /\ poisoned' \in BOOLEAN /\ doomed' \in [Sweepers -> SUBSET Boxes]
  BY <1>1 DEF IInv, LeaseIsSole, FullTypeOK, TypeOK
<1>5. /\ FullTypeOK' /\ PlacesAreFilledOnce' /\ PlacesAreCounted' /\ FreshIsSole' /\ LeaseIsSole'
      /\ CommandIsLeased' /\ ClosedIsEmpty'
  BY <1>2, <1>3, <1>4, PoolQuiet
<1>6. AbandonedIsUp'
  BY DEF IInv, AbandonedIsUp
<1>7. NoneIsForgotten'
  <2>1. ASSUME NEW a \in Boxes, Used(a) PROVE Used(a)'
    BY <2>1, PoolStillUsed
  <2>. QED  BY <2>1 DEF IInv, NoneIsForgotten
<1>. QED  BY <1>5, <1>6, <1>7 DEF IInv

LEMMA PoolStarted == ASSUME PoolConstants, IInv, NEW c \in Callers, Started(c) PROVE IInv'
<1>1. /\ FullTypeOK /\ caller[c].pc = "starting" /\ vm[caller[c].box] = "up"
      /\ UNCHANGED <<keepWarm, lease, warm, pending, closed, poisoned, loop, vm, dirty, lost, doomed>>
  BY PoolTypes DEF Started, At, tables
<1>2. /\ caller' \in [Callers -> CallerStates]
      /\ caller'[c].pc = "publish" /\ caller'[c].scope = caller[c].scope /\ caller'[c].box = caller[c].box
      /\ \A d \in Callers : d # c => caller'[d] = caller[d]
  BY <1>1 DEF Started, Go, FullTypeOK, CallerStates, Holds
<1>3. Quietly(c) /\ caller'[c].pc \in Holds
  BY <1>1, <1>2 DEF Quietly, Runs, Holds, Filling, Fresh
<1>4. ASSUME NEW d \in Callers, caller'[d].pc \in Filling \cup {"acquired", "fail"}
      PROVE  caller[d].scope \in pending'
  BY <1>1, <1>2, <1>4 DEF IInv, PlacesAreFilledOnce, Filling
<1>. QED  BY <1>1, <1>2, <1>3, <1>4, PoolCallerMoves

LEMMA PoolSettle == ASSUME PoolConstants, IInv, NEW c \in Callers, Settle(c) PROVE IInv'
<1>1. /\ FullTypeOK /\ caller[c].pc \in {"acquired", "fail"} /\ pending' = pending \ {caller[c].scope}
      /\ UNCHANGED <<keepWarm, lease, warm, closed, poisoned, loop, vm, dirty, lost, doomed>>
  BY PoolTypes DEF Settle
<1>2. /\ caller' \in [Callers -> CallerStates]
      /\ \/ caller[c].pc = "acquired" /\ caller'[c].pc = "ready" /\ caller'[c].scope = caller[c].scope
         \/ caller'[c].pc = "idle"
      /\ caller'[c].box = None
      /\ \A d \in Callers : d # c => caller'[d] = caller[d]
  <2>1. CASE caller' = [caller EXCEPT ![c] = NoCaller]
    BY <1>1, <2>1 DEF FullTypeOK, CallerStates, NoCaller
  <2>2. CASE At(c, "acquired") /\ caller' = [caller EXCEPT ![c].pc = "ready", ![c].box = None]
    BY <1>1, <2>2 DEF FullTypeOK, CallerStates, At
  <2>. QED  BY <2>1, <2>2 DEF Settle, Leave
<1>3. Quietly(c) /\ caller[c].pc \notin Holds
  BY <1>1, <1>2 DEF Quietly, Runs, Holds, Filling, Fresh
<1>4. ASSUME NEW d \in Callers, caller'[d].pc \in Filling \cup {"acquired", "fail"}
      PROVE  caller[d].scope \in pending'
  <2>1. d # c
    BY <1>2, <1>4 DEF Filling
  <2>. QED  BY <1>1, <1>2, <1>4, <2>1 DEF IInv, PlacesAreFilledOnce
<1>. QED  BY <1>1, <1>2, <1>3, <1>4, PoolCallerMoves

LEMMA PoolPublish == ASSUME PoolConstants, IInv, NEW c \in Callers, Publish(c) PROVE IInv'
<1> DEFINE s == caller[c].scope
           b == caller[c].box
<1>1. /\ FullTypeOK /\ caller[c].pc = "publish"
      /\ UNCHANGED <<keepWarm, warm, pending, closed, poisoned, loop, vm, dirty, lost, doomed>>
  BY PoolTypes DEF Publish, At
<1>2. CASE closed
  <2>1. Go(c, "discard") /\ lease' = lease
    BY <1>2 DEF Publish
  <2>2. /\ caller' \in [Callers -> CallerStates]
        /\ caller'[c].pc = "discard" /\ caller'[c].scope = caller[c].scope /\ caller'[c].box = caller[c].box
        /\ \A d \in Callers : d # c => caller'[d] = caller[d]
    BY <1>1, <2>1 DEF Go, FullTypeOK, CallerStates, Holds
  <2>3. Quietly(c) /\ caller'[c].pc \in Holds
    BY <1>1, <2>2 DEF Quietly, Runs, Holds, Filling, Fresh
  <2>4. ASSUME NEW d \in Callers, caller'[d].pc \in Filling \cup {"acquired", "fail"}
        PROVE  caller[d].scope \in pending'
    BY <1>1, <2>2, <2>4 DEF IInv, PlacesAreFilledOnce, Filling
  <2>. QED  BY <1>1, <2>1, <2>2, <2>3, <2>4, PoolCallerMoves
<1>3. CASE ~closed
  <2>1. /\ lease' = [lease EXCEPT ![s] = [box |-> b, executing |-> FALSE]]
        /\ Go(c, "acquired")
    BY <1>3 DEF Publish
  <2>2. /\ caller' \in [Callers -> CallerStates]
        /\ caller'[c].pc = "acquired" /\ caller'[c].scope = s /\ caller'[c].box = b
        /\ \A d \in Callers : d # c => caller'[d] = caller[d]
    BY <1>1, <2>1 DEF Go, FullTypeOK, CallerStates
  <2>3. /\ s \in Scopes /\ b \in Boxes /\ s \notin Leased /\ s \in pending
        /\ b \notin Rented /\ vm[b] = "up" /\ b \notin dirty
        /\ \A d \in Callers \ {c} : caller[d].box # b
        /\ \A w \in Sweepers : b \notin doomed[w]
    <3>1. /\ caller[c].pc \in Filling /\ caller[c].pc \in Fresh
          /\ caller[c].pc \in Holds /\ caller[c].pc \in Holds \ Runs
      BY <1>1 DEF Filling, Fresh, Holds, Runs
    <3>2. b \notin Rented
      BY <3>1, PoolStops
    <3>. QED  BY <1>1, <1>3, <3>1, <3>2 DEF FullTypeOK, IInv, PlacesAreFilledOnce, FreshIsSole
  <2>. HIDE DEF s, b
  <2>4. /\ lease'[s] = [box |-> b, executing |-> FALSE] /\ lease'[s] \in Lease /\ lease'[s] # None
        /\ lease'[s].box = b /\ lease'[s].executing = FALSE
        /\ \A t \in Scopes : t # s => lease'[t] = lease[t]
        /\ lease' \in [Scopes -> {None} \cup [box : Boxes, executing : BOOLEAN]]
    <3> DEFINE r == [box |-> b, executing |-> FALSE]
    <3>1. r \in Lease /\ r.box = b /\ r.executing = FALSE
      BY <2>3 DEF Lease
    <3>2. r # None
      BY <3>1 DEF PoolConstants
    <3>3. lease \in [Scopes -> {None} \cup Lease] /\ lease' = [lease EXCEPT ![s] = r]
      BY <1>1, <2>1 DEF FullTypeOK, TypeOK, Lease
    <3>. HIDE DEF r
    <3>4. /\ lease'[s] = r /\ \A t \in Scopes : t # s => lease'[t] = lease[t]
          /\ lease' \in [Scopes -> {None} \cup Lease]
      BY <2>3, <3>1, <3>3
    <3>5. [Scopes -> {None} \cup Lease] = [Scopes -> {None} \cup [box : Boxes, executing : BOOLEAN]]
      BY DEF Lease
    <3>6. lease'[s] = [box |-> b, executing |-> FALSE]
      BY <3>4 DEF r
    <3>. QED  BY <3>1, <3>2, <3>4, <3>5, <3>6
  <2>5. Leased' = Leased \cup {s}
    BY <2>3, <2>4 DEF Leased
  <2>6. FullTypeOK'
    <3>1. TypeOK'
      BY <1>1, <2>4, <2>5 DEF FullTypeOK, TypeOK, Range, IsInjective
    <3>2. ASSUME NEW d \in Callers
          PROVE  /\ caller'[d].pc # "idle" => caller'[d].scope \in Scopes
                 /\ caller'[d].pc \in Holds \cup {"acquired"} => caller'[d].box \in Boxes
      BY <1>1, <2>2, <2>3 DEF FullTypeOK
    <3>. QED  BY <1>1, <2>2, <3>1, <3>2 DEF FullTypeOK
  <2>7. PlacesAreFilledOnce'
    <3>1. ASSUME NEW d \in Callers, d # c, caller[d].pc \in Filling \cup {"acquired", "fail"}
          PROVE  /\ caller[d].scope \in pending /\ caller[d].scope # s
                 /\ \A e \in Callers \ {d} : caller[e].pc \in Filling \cup {"acquired", "fail"} =>
                      caller[e].scope # caller[d].scope
                 /\ caller[d].pc \in Filling => caller[d].scope \notin Leased
      BY <1>1, <3>1 DEF IInv, PlacesAreFilledOnce, Filling, s
    <3>2. "acquired" \notin Filling
      BY DEF Filling
    <3>. QED  BY <1>1, <2>2, <2>3, <2>5, <3>1, <3>2 DEF PlacesAreFilledOnce
  <2>8. PlacesAreCounted'
    <3>1. Taken' = Taken
      BY <1>1, <2>2, <2>5 DEF Taken, Filling, s
    <3>. QED  BY <3>1 DEF IInv, PlacesAreCounted
  <2>9. FreshIsSole'
    <3>1. "acquired" \notin Fresh
      BY DEF Fresh
    <3>2. ASSUME NEW d \in Callers, d # c, caller[d].pc \in Fresh
          PROVE  /\ \A e \in Callers \ {d} : caller[e].box # caller[d].box
                 /\ \A w \in Sweepers : caller[d].box \notin doomed[w]
                 /\ caller[d].pc = "publish" => vm[caller[d].box] = "up"
                 /\ ~closed => caller[d].box \notin dirty
      BY <3>2 DEF IInv, FreshIsSole
    <3>. QED  BY <1>1, <2>2, <3>1, <3>2 DEF FreshIsSole, b
  <2>10. LeaseIsSole'
    <3>1. "acquired" \notin Holds /\ "acquired" # "ended"
      BY DEF Holds, Runs
    <3>2. ASSUME NEW t \in Leased
          PROVE  /\ t \in Scopes /\ t # s /\ lease[t].box # b
                 /\ vm[lease[t].box] = "up"
                 /\ t \in Range(warm) => ~lease[t].executing
                 /\ \A u \in Leased \ {t} : lease[u].box # lease[t].box
                 /\ \A w \in Sweepers : lease[t].box \notin doomed[w]
                 /\ \A d \in Callers : caller[d].pc \in Holds /\ caller[d].box = lease[t].box =>
                      caller[d].pc \in Runs /\ caller[d].scope = t /\ lease[t].executing
                 /\ lease[t].box \in dirty =>
                      \E d \in Callers : /\ d # c /\ caller[d].pc = "ended" /\ caller[d].bad
                                        /\ caller[d].scope = t /\ caller[d].box = lease[t].box
      BY <1>1, <2>3 DEF IInv, LeaseIsSole, Leased, Rented
    <3>3. s \notin Range(warm)
      BY <1>1, <2>3 DEF FullTypeOK, TypeOK
    <3>4. Range(warm)' = Range(warm)
      BY <1>1 DEF Range
    <3>5. ASSUME NEW t \in Leased
          PROVE  /\ vm'[lease'[t].box] = "up"
                 /\ t \in Range(warm)' => ~lease'[t].executing
                 /\ \A u \in Leased' \ {t} : lease'[u].box # lease'[t].box
                 /\ \A w \in Sweepers : lease'[t].box \notin doomed'[w]
                 /\ \A d \in Callers : caller'[d].pc \in Holds /\ caller'[d].box = lease'[t].box =>
                      caller'[d].pc \in Runs /\ caller'[d].scope = t /\ lease'[t].executing
                 /\ lease'[t].box \in dirty' =>
                      \E d \in Callers : /\ caller'[d].pc = "ended" /\ caller'[d].bad
                                        /\ caller'[d].scope = t /\ caller'[d].box = lease'[t].box
      <4>1. lease'[t] = lease[t]
        BY <2>4, <3>2
      <4>2. \A u \in Leased' \ {t} : lease'[u].box # lease'[t].box
        BY <2>4, <2>5, <3>2
      <4>3. /\ \A d \in Callers : caller'[d].pc \in Holds /\ caller'[d].box = lease[t].box =>
                 caller'[d].pc \in Runs /\ caller'[d].scope = t /\ lease[t].executing
            /\ lease[t].box \in dirty =>
                 \E d \in Callers : /\ caller'[d].pc = "ended" /\ caller'[d].bad
                                   /\ caller'[d].scope = t /\ caller'[d].box = lease[t].box
        BY <2>2, <3>1, <3>2
      <4>. QED  BY <1>1, <3>2, <3>4, <4>1, <4>2, <4>3
    <3>6. /\ vm'[b] = "up" /\ s \notin Range(warm)'
          /\ \A u \in Leased' \ {s} : lease'[u].box # b
          /\ \A w \in Sweepers : b \notin doomed'[w]
          /\ \A d \in Callers : caller'[d].pc \in Holds => caller'[d].box # b
          /\ b \notin dirty'
      BY <1>1, <2>2, <2>3, <2>4, <2>5, <3>1, <3>2, <3>3, <3>4
    <3>. QED  BY <2>4, <2>5, <3>5, <3>6 DEF LeaseIsSole
  <2>11. CommandIsLeased'
    <3>1. "acquired" \notin Runs
      BY DEF Runs
    <3>2. ASSUME NEW d \in Callers, d # c, caller[d].pc \in Runs
          PROVE  /\ \A e \in Callers \ {d} : caller[e].pc \in Runs => caller[e].box # caller[d].box
                 /\ caller[d].scope \in Leased /\ caller[d].scope # s /\ caller[d].scope \in Scopes
                 /\ lease[caller[d].scope].box = caller[d].box
      BY <1>3, <2>3, <3>2 DEF IInv, CommandIsLeased, Leased
    <3>. QED  BY <2>2, <2>4, <2>5, <3>1, <3>2 DEF CommandIsLeased
  <2>12. AbandonedIsUp' /\ ClosedIsEmpty'
    BY <1>1, <1>3 DEF IInv, AbandonedIsUp, ClosedIsEmpty
  <2>13. NoneIsForgotten'
    <3>1. b \in Rented'
      BY <2>4, <2>5 DEF Rented
    <3>2. Rented \subseteq Rented'
      BY <2>3, <2>4, <2>5 DEF Rented, Leased
    <3>3. ASSUME NEW a \in Boxes, Used(a) PROVE Used(a)'
      <4>1. CASE a \in Rented \/ \E w \in Sweepers : a \in doomed[w]
        BY <1>1, <3>2, <4>1 DEF Used
      <4>2. ASSUME NEW d \in Callers, caller[d].pc \in Holds, caller[d].box = a PROVE Used(a)'
        BY <2>2, <3>1, <4>2 DEF Used, b
      <4>. QED  BY <3>3, <4>1, <4>2 DEF Used
    <3>. QED  BY <1>1, <3>3 DEF IInv, NoneIsForgotten
  <2>. QED  BY <2>6, <2>7, <2>8, <2>9, <2>10, <2>11, <2>12, <2>13 DEF IInv
<1>. QED  BY <1>2, <1>3

-----------------------------------------------------------------------------
(* execute *)

(* A lease whose flag is set or cleared.                                      *)
LEMMA PoolFlag ==
  ASSUME FullTypeOK, NEW s \in Leased, NEW x \in BOOLEAN,
         lease' = [lease EXCEPT ![s].executing = x], PoolConstants
  PROVE  /\ lease' \in [Scopes -> {None} \cup [box : Boxes, executing : BOOLEAN]]
         /\ lease'[s].executing = x
         /\ \A t \in Leased : lease'[t].box = lease[t].box
         /\ \A t \in Scopes : t # s => lease'[t] = lease[t]
         /\ Leased' = Leased /\ Rented' = Rented
<1>1. lease \in [Scopes -> {None} \cup Lease] /\ s \in Scopes /\ lease[s] \in Lease
  BY DEF FullTypeOK, TypeOK, Lease, Leased
<1> DEFINE r == [lease[s] EXCEPT !.executing = x]
<1>2. r \in Lease /\ r.executing = x /\ r.box = lease[s].box
  BY <1>1 DEF Lease
<1>3. r # None
  BY <1>2 DEF PoolConstants
<1>4. lease' = [lease EXCEPT ![s] = r]
  OBVIOUS
<1>. HIDE DEF r
<1>5. /\ lease'[s] = r /\ \A t \in Scopes : t # s => lease'[t] = lease[t]
      /\ lease' \in [Scopes -> {None} \cup Lease]
  BY <1>1, <1>2, <1>4
<1>6. Leased' = Leased
  BY <1>3, <1>5 DEF Leased
<1>7. \A t \in Leased : lease'[t].box = lease[t].box
  BY <1>2, <1>5 DEF Leased
<1>8. Rented' = Rented
  BY <1>6, <1>7 DEF Rented
<1>9. lease' \in [Scopes -> {None} \cup [box : Boxes, executing : BOOLEAN]]
  BY <1>5 DEF Lease
<1>. QED  BY <1>2, <1>5, <1>6, <1>7, <1>8, <1>9

(* What a lease promises of the callers, in one place.                        *)
LeaseOf(s) ==
  /\ vm[lease[s].box] = "up"
  /\ s \in Range(warm) => ~lease[s].executing
  /\ \A t \in Leased \ {s} : lease[t].box # lease[s].box
  /\ \A w \in Sweepers : lease[s].box \notin doomed[w]
  /\ \A c \in Callers : caller[c].pc \in Holds /\ caller[c].box = lease[s].box =>
       caller[c].pc \in Runs /\ caller[c].scope = s /\ lease[s].executing
  /\ lease[s].box \in dirty =>
       \E c \in Callers : /\ caller[c].pc = "ended" /\ caller[c].bad
                         /\ caller[c].scope = s /\ caller[c].box = lease[s].box

LEMMA PoolLeaseOf == LeaseIsSole <=> \A s \in Leased : LeaseOf(s)
BY DEF LeaseIsSole, LeaseOf

LEMMA PoolExecute == ASSUME PoolConstants, IInv, NEW c \in Callers, Execute(c) PROVE IInv'
<1> DEFINE s == caller[c].scope
           b == lease[s].box
<1>1. /\ FullTypeOK /\ caller[c].pc = "ready"
      /\ UNCHANGED <<keepWarm, warm, pending, closed, poisoned, loop, vm, dirty, lost, doomed>>
  BY PoolTypes DEF Execute, At
<1>2. CASE Go(c, "release") /\ UNCHANGED lease
  <2>1. /\ caller' \in [Callers -> CallerStates]
        /\ caller'[c].pc = "release" /\ caller'[c].scope = caller[c].scope /\ caller'[c].box = caller[c].box
        /\ \A d \in Callers : d # c => caller'[d] = caller[d]
    BY <1>1, <1>2 DEF Go, FullTypeOK, CallerStates
  <2>2. Quietly(c) /\ caller[c].pc \notin Holds
    BY <1>1, <2>1 DEF Quietly, Runs, Holds, Filling, Fresh
  <2>3. ASSUME NEW d \in Callers, caller'[d].pc \in Filling \cup {"acquired", "fail"}
        PROVE  caller[d].scope \in pending'
    BY <1>1, <2>1, <2>3 DEF IInv, PlacesAreFilledOnce, Filling
  <2>. QED  BY <1>1, <1>2, <2>1, <2>2, <2>3, PoolCallerMoves
<1>3. ASSUME ~closed, s \in Leased, s \notin Range(warm), ~lease[s].executing,
             lease' = [lease EXCEPT ![s].executing = TRUE],
             caller' = [caller EXCEPT ![c].pc = "running", ![c].box = b]
      PROVE  IInv'
  <2>1. b \in Boxes /\ s \in Scopes /\ b \in Rented
    BY <1>1, <1>3 DEF FullTypeOK, TypeOK, Leased, Rented
  <2>2. /\ caller' \in [Callers -> CallerStates]
        /\ caller'[c].pc = "running" /\ caller'[c].scope = s /\ caller'[c].box = b
        /\ \A d \in Callers : d # c => caller'[d] = caller[d]
    <3>1. "running" \in Holds
      BY DEF Holds, Runs
    <3>. QED  BY <1>1, <1>3, <2>1, <3>1 DEF FullTypeOK, CallerStates
  <2>3. /\ lease' \in [Scopes -> {None} \cup [box : Boxes, executing : BOOLEAN]]
        /\ lease'[s].executing = TRUE
        /\ \A t \in Leased : lease'[t].box = lease[t].box
        /\ \A t \in Scopes : t # s => lease'[t] = lease[t]
        /\ Leased' = Leased /\ Rented' = Rented
    BY <1>1, <1>3, PoolFlag
  <2>4. \A t \in Leased : LeaseOf(t)
    BY PoolLeaseOf DEF IInv
  <2>5. /\ \A d \in Callers : caller[d].pc \in Holds => caller[d].box # b
        /\ b \notin dirty
    BY <1>3, <2>4 DEF LeaseOf, Holds, Runs
  <2>6. s \in Leased /\ caller[c].scope = s /\ lease[s].box = b
    BY <1>3
  <2>. HIDE DEF s, b
  <2>7. FullTypeOK'
    <3>1. TypeOK'
      BY <1>1, <2>3 DEF FullTypeOK, TypeOK, Range, IsInjective
    <3>2. ASSUME NEW d \in Callers
          PROVE  /\ caller'[d].pc # "idle" => caller'[d].scope \in Scopes
                 /\ caller'[d].pc \in Holds \cup {"acquired"} => caller'[d].box \in Boxes
      BY <1>1, <2>1, <2>2 DEF FullTypeOK
    <3>. QED  BY <1>1, <2>2, <3>1, <3>2 DEF FullTypeOK
  <2>8. PlacesAreFilledOnce' /\ PlacesAreCounted'
    <3>1. ASSUME NEW d \in Callers
          PROVE  /\ caller'[d].pc \in Filling => caller[d].pc \in Filling
                 /\ caller'[d].pc \in Filling \cup {"acquired", "fail"} =>
                      /\ caller[d].pc \in Filling \cup {"acquired", "fail"}
                      /\ caller'[d].scope = caller[d].scope /\ caller[d].scope \in pending'
      BY <1>1, <2>2 DEF Filling, IInv, PlacesAreFilledOnce
    <3>. QED  BY <2>3, <3>1, PoolPlacesKept
  <2>9. FreshIsSole'
    <3>1. ASSUME NEW d \in Callers PROVE caller'[d].box \in {caller[d].box, None} \cup Rented
      BY <2>1, <2>2
    <3>2. ASSUME NEW d \in Callers, caller'[d].pc \in Fresh
          PROVE  /\ caller[d].pc \in Fresh /\ caller'[d].box = caller[d].box
                 /\ caller[d].box \in dirty' => caller[d].box \in dirty
                 /\ caller'[d].pc = "publish" => vm'[caller[d].box] = "up"
      BY <1>1, <2>2, <3>2 DEF Fresh, IInv, FreshIsSole
    <3>. QED  BY <1>1, <3>1, <3>2, PoolFreshKept
  <2>10. LeaseIsSole'
    <3>1. ASSUME NEW t \in Leased, t # s PROVE LeaseOf(t)'
      <4>1. LeaseOf(t) /\ lease'[t] = lease[t] /\ lease[t].box # b
        BY <2>3, <2>4, <2>6, <3>1 DEF LeaseOf, Leased
      <4>2. \A d \in Callers : caller'[d].pc \in Holds /\ caller'[d].box = lease[t].box =>
              caller'[d].pc \in Runs /\ caller'[d].scope = t /\ lease[t].executing
        BY <2>2, <4>1 DEF LeaseOf
      <4>3. lease[t].box \in dirty =>
              \E d \in Callers : /\ caller'[d].pc = "ended" /\ caller'[d].bad
                                /\ caller'[d].scope = t /\ caller'[d].box = lease[t].box
        BY <1>1, <2>2, <4>1 DEF LeaseOf
      <4>. QED  BY <1>1, <2>3, <4>1, <4>2, <4>3 DEF LeaseOf, Range
    <3>2. ASSUME NEW t \in Leased, t = s PROVE LeaseOf(t)'
      <4>1. LeaseOf(t) /\ lease[t].box = b /\ lease'[t].box = b /\ lease'[t].executing = TRUE
        BY <2>3, <2>4, <2>6, <3>2
      <4>2. \A d \in Callers : caller'[d].pc \in Holds /\ caller'[d].box = b =>
              caller'[d].pc \in Runs /\ caller'[d].scope = t /\ lease'[t].executing
        BY <2>2, <2>5, <3>2, <4>1 DEF Runs
      <4>3. t \notin Range(warm)
        BY <1>3, <3>2 DEF s
      <4>. QED  BY <1>1, <2>3, <2>5, <4>1, <4>2, <4>3 DEF LeaseOf, Range
    <3>3. LeaseIsSole' <=> \A t \in Leased' : LeaseOf(t)'
      BY DEF LeaseIsSole, LeaseOf
    <3>. QED  BY <2>3, <3>1, <3>2, <3>3
  <2>11. CommandIsLeased'
    <3>1. ASSUME NEW d \in Callers, d # c, caller[d].pc \in Runs
          PROVE  /\ \A e \in Callers \ {d} : caller[e].pc \in Runs => caller[e].box # caller[d].box
                 /\ caller[d].box # b
                 /\ caller[d].scope \in Leased /\ lease[caller[d].scope].box = caller[d].box
      BY <1>3, <2>5, <3>1 DEF IInv, CommandIsLeased, Holds
    <3>. QED  BY <2>2, <2>3, <2>6, <3>1 DEF CommandIsLeased
  <2>12. AbandonedIsUp' /\ ClosedIsEmpty'
    BY <1>1, <1>3 DEF IInv, AbandonedIsUp, ClosedIsEmpty
  <2>13. NoneIsForgotten'
    <3>1. ASSUME NEW a \in Boxes, Used(a) PROVE Used(a)'
      BY <1>1, <2>2, <2>3, <3>1 DEF Used, Holds, Runs
    <3>. QED  BY <1>1, <3>1 DEF IInv, NoneIsForgotten
  <2>. QED  BY <2>7, <2>8, <2>9, <2>10, <2>11, <2>12, <2>13 DEF IInv
<1>. QED  BY <1>2, <1>3 DEF Execute, Active

LEMMA PoolCommandEnds == ASSUME PoolConstants, IInv, NEW c \in Callers, CommandEnds(c) PROVE IInv'
<1> DEFINE s == caller[c].scope
           b == caller[c].box
<1>1. /\ FullTypeOK /\ caller[c].pc = "running" /\ Leased' = Leased /\ Rented' = Rented
      /\ UNCHANGED <<keepWarm, lease, warm, pending, closed, poisoned, loop, vm, lost, doomed>>
  BY PoolTypes DEF CommandEnds, At, tables, Leased, Rented
<1>2. PICK bad \in BOOLEAN :
        /\ dirty' = IF bad THEN dirty \cup {b} ELSE dirty
        /\ caller' = [caller EXCEPT ![c].pc = "ended", ![c].bad = bad]
  BY DEF CommandEnds
<1>3. /\ caller' \in [Callers -> CallerStates]
      /\ caller'[c].pc = "ended" /\ caller'[c].bad = bad /\ caller'[c].scope = s /\ caller'[c].box = b
      /\ \A d \in Callers : d # c => caller'[d] = caller[d]
  <2>1. "ended" \in Holds
    BY DEF Holds, Runs
  <2>. QED  BY <1>1, <1>2, <2>1 DEF FullTypeOK, CallerStates
<1>4. b \in Boxes /\ s \in Scopes /\ caller[c].pc \in Runs /\ caller[c].pc \in Holds /\ "ended" \in Runs
  BY <1>1 DEF FullTypeOK, Holds, Runs
<1>5. \A t \in Leased : LeaseOf(t)
  BY PoolLeaseOf DEF IInv
<1>6. caller[c].scope = s /\ caller[c].box = b
  OBVIOUS
<1>7. dirty \subseteq dirty' /\ dirty' \subseteq dirty \cup {b} /\ (~bad => dirty' = dirty)
  BY <1>2
<1>. HIDE DEF s, b
<1>8. FullTypeOK'
  <2>1. TypeOK'
    BY <1>1, <1>4, <1>7 DEF FullTypeOK, TypeOK, Range, IsInjective
  <2>2. ASSUME NEW d \in Callers
        PROVE  /\ caller'[d].pc # "idle" => caller'[d].scope \in Scopes
               /\ caller'[d].pc \in Holds \cup {"acquired"} => caller'[d].box \in Boxes
    BY <1>1, <1>3, <1>4 DEF FullTypeOK
  <2>. QED  BY <1>1, <1>3, <2>1, <2>2 DEF FullTypeOK
<1>9. PlacesAreFilledOnce' /\ PlacesAreCounted'
  <2>1. ASSUME NEW d \in Callers
        PROVE  /\ caller'[d].pc \in Filling => caller[d].pc \in Filling
               /\ caller'[d].pc \in Filling \cup {"acquired", "fail"} =>
                    /\ caller[d].pc \in Filling \cup {"acquired", "fail"}
                    /\ caller'[d].scope = caller[d].scope /\ caller[d].scope \in pending'
    BY <1>1, <1>3 DEF Filling, IInv, PlacesAreFilledOnce
  <2>. QED  BY <1>1, <2>1, PoolPlacesKept
<1>10. FreshIsSole'
  <2>1. ASSUME NEW d \in Callers PROVE caller'[d].box \in {caller[d].box, None} \cup Rented
    BY <1>3, <1>6
  <2>2. ASSUME NEW d \in Callers, caller'[d].pc \in Fresh
        PROVE  /\ caller[d].pc \in Fresh /\ caller'[d].box = caller[d].box
               /\ caller[d].box \in dirty' => caller[d].box \in dirty
               /\ caller'[d].pc = "publish" => vm'[caller[d].box] = "up"
    <3>1. d # c /\ caller[d].pc \in Fresh
      BY <1>3, <2>2 DEF Fresh
    <3>2. caller[d].box # b /\ (caller[d].pc = "publish" => vm[caller[d].box] = "up")
      BY <1>6, <3>1 DEF IInv, FreshIsSole
    <3>. QED  BY <1>1, <1>3, <1>7, <3>1, <3>2
  <2>. QED  BY <1>1, <2>1, <2>2, PoolFreshKept
<1>11. LeaseIsSole'
  <2>1. ASSUME NEW t \in Leased PROVE LeaseOf(t)'
    <3>1. LeaseOf(t)
      BY <1>5
    <3>2. lease[t].box = b => s = t /\ lease[t].executing
      BY <1>4, <1>6, <3>1 DEF LeaseOf
    <3>3. \A d \in Callers : caller'[d].pc \in Holds /\ caller'[d].box = lease[t].box =>
            caller'[d].pc \in Runs /\ caller'[d].scope = t /\ lease[t].executing
      BY <1>3, <1>4, <3>1, <3>2 DEF LeaseOf
    <3>4. lease[t].box \in dirty' =>
            \E d \in Callers : /\ caller'[d].pc = "ended" /\ caller'[d].bad
                              /\ caller'[d].scope = t /\ caller'[d].box = lease[t].box
      <4>1. CASE lease[t].box = b /\ bad
        BY <1>3, <3>2, <4>1
      <4>2. CASE lease[t].box \in dirty
        <5>1. PICK d \in Callers : /\ caller[d].pc = "ended" /\ caller[d].bad
                                   /\ caller[d].scope = t /\ caller[d].box = lease[t].box
          BY <3>1, <4>2 DEF LeaseOf
        <5>2. d # c
          BY <1>1, <5>1
        <5>. QED  BY <1>3, <5>1, <5>2
      <4>. QED  BY <1>7, <4>1, <4>2
    <3>. QED  BY <1>1, <3>1, <3>3, <3>4 DEF LeaseOf, Range
  <2>2. LeaseIsSole' <=> \A t \in Leased' : LeaseOf(t)'
    BY DEF LeaseIsSole, LeaseOf
  <2>. QED  BY <1>1, <2>1, <2>2
<1>12. CommandIsLeased'
  <2>1. ASSUME NEW d \in Callers, caller'[d].pc \in Runs
        PROVE  caller[d].pc \in Runs /\ caller'[d].box = caller[d].box /\ caller'[d].scope = caller[d].scope
    BY <1>3, <1>4, <1>6, <2>1
  <2>. QED  BY <1>1, <2>1 DEF IInv, CommandIsLeased
<1>13. AbandonedIsUp' /\ ClosedIsEmpty'
  <2>1. ~closed => vm[b] = "up"
    <3>1. ~closed => s \in Leased /\ lease[s].box = b
      BY <1>4, <1>6 DEF IInv, CommandIsLeased
    <3>. QED  BY <1>5, <3>1 DEF LeaseOf
  <2>. QED  BY <1>1, <1>7, <2>1 DEF IInv, AbandonedIsUp, ClosedIsEmpty
<1>14. NoneIsForgotten'
  <2>1. ASSUME NEW a \in Boxes, Used(a) PROVE Used(a)'
    BY <1>1, <1>3, <1>6, <2>1, PoolStillUsed DEF Holds, Runs
  <2>. QED  BY <1>1, <2>1 DEF IInv, NoneIsForgotten
<1>. QED  BY <1>8, <1>9, <1>10, <1>11, <1>12, <1>13, <1>14 DEF IInv

(* A lease that is given back.                                                *)
LEMMA PoolUnleased ==
  ASSUME FullTypeOK, NEW s \in Leased, lease' = [lease EXCEPT ![s] = None]
  PROVE  /\ lease' \in [Scopes -> {None} \cup [box : Boxes, executing : BOOLEAN]]
         /\ Leased' = Leased \ {s} /\ \A t \in Leased \ {s} : lease'[t] = lease[t]
         /\ \A a \in Rented : a # lease[s].box => a \in Rented'
<1>1. /\ lease' \in [Scopes -> {None} \cup [box : Boxes, executing : BOOLEAN]]
      /\ lease'[s] = None /\ \A t \in Scopes : t # s => lease'[t] = lease[t]
  BY DEF FullTypeOK, TypeOK, Leased
<1>2. Leased' = Leased \ {s} /\ \A t \in Leased \ {s} : lease'[t] = lease[t]
  BY <1>1 DEF Leased
<1>3. \A a \in Rented : a # lease[s].box => a \in Rented'
  BY <1>2 DEF Rented
<1>. QED  BY <1>1, <1>2, <1>3

(* A caller that gives a lease back and has its VM.                            *)
LEMMA PoolGivesBack ==
  ASSUME PoolConstants, IInv, NEW c \in Callers, NEW s \in Leased, s \notin Range(warm),
         lease' = [lease EXCEPT ![s] = None],
         UNCHANGED <<keepWarm, warm, pending, closed, poisoned, loop, vm, dirty, lost, doomed>>,
         caller[c].pc \in {"release", "ended"}, caller[c].scope = s,
         caller' \in [Callers -> CallerStates],
         caller'[c].pc \in {"invalidate", "drop"}, caller'[c].scope = s, caller'[c].box = lease[s].box,
         \A d \in Callers : d # c => caller'[d] = caller[d],
         \A d \in Callers : caller[d].pc \in Runs /\ caller[d].box = lease[s].box => d = c
  PROVE  IInv'
<1> DEFINE b == lease[s].box
<1>1. FullTypeOK
  BY PoolTypes
<1>2. /\ lease' \in [Scopes -> {None} \cup [box : Boxes, executing : BOOLEAN]]
      /\ Leased' = Leased \ {s} /\ \A t \in Leased \ {s} : lease'[t] = lease[t]
      /\ \A a \in Rented : a # b => a \in Rented'
  BY <1>1, PoolUnleased
<1>3. \A t \in Leased : LeaseOf(t)
  BY PoolLeaseOf DEF IInv
<1>4. b \in Boxes /\ s \in Scopes /\ b \in Rented
  BY <1>1 DEF FullTypeOK, TypeOK, Leased, Rented
<1>5. /\ caller'[c].pc \notin Runs \cup Filling \cup Fresh \cup {"idle", "acquired", "fail", "publish", "ended"}
      /\ caller'[c].pc \in Holds
  BY DEF Runs, Filling, Fresh, Holds
<1>6. /\ caller'[c].box = b
      /\ \A d \in Callers : caller[d].pc \in Runs /\ caller[d].box = b => d = c
      /\ \A t \in Leased \ {s} : lease[t].box # b
  BY <1>3 DEF LeaseOf
<1>. HIDE DEF b
<1>7. FullTypeOK'
  <2>1. TypeOK'
    BY <1>1, <1>2 DEF FullTypeOK, TypeOK, Range, IsInjective
  <2>2. ASSUME NEW d \in Callers
        PROVE  /\ caller'[d].pc # "idle" => caller'[d].scope \in Scopes
               /\ caller'[d].pc \in Holds \cup {"acquired"} => caller'[d].box \in Boxes
    BY <1>1, <1>4, <1>6 DEF FullTypeOK
  <2>. QED  BY <1>1, <2>1, <2>2 DEF FullTypeOK
<1>8. PlacesAreFilledOnce' /\ PlacesAreCounted'
  <2>1. ASSUME NEW d \in Callers
        PROVE  /\ caller'[d].pc \in Filling => caller[d].pc \in Filling
               /\ caller'[d].pc \in Filling \cup {"acquired", "fail"} =>
                    /\ caller[d].pc \in Filling \cup {"acquired", "fail"}
                    /\ caller'[d].scope = caller[d].scope /\ caller[d].scope \in pending'
    BY <1>5 DEF IInv, PlacesAreFilledOnce
  <2>. QED  BY <1>2, <2>1, PoolPlacesKept
<1>9. FreshIsSole'
  <2>1. ASSUME NEW d \in Callers PROVE caller'[d].box \in {caller[d].box, None} \cup Rented
    BY <1>4, <1>6
  <2>2. ASSUME NEW d \in Callers, caller'[d].pc \in Fresh
        PROVE  /\ caller[d].pc \in Fresh /\ caller'[d].box = caller[d].box
               /\ caller[d].box \in dirty' => caller[d].box \in dirty
               /\ caller'[d].pc = "publish" => vm'[caller[d].box] = "up"
    BY <1>5, <2>2 DEF IInv, FreshIsSole
  <2>. QED  BY <2>1, <2>2, PoolFreshKept
<1>10. LeaseIsSole'
  <2>1. ASSUME NEW t \in Leased \ {s} PROVE LeaseOf(t)'
    <3>1. LeaseOf(t) /\ lease'[t] = lease[t] /\ lease[t].box # b
      BY <1>2, <1>3, <1>6
    <3>2. \A d \in Callers : caller'[d].pc \in Holds /\ caller'[d].box = lease[t].box =>
            caller'[d].pc \in Runs /\ caller'[d].scope = t /\ lease[t].executing
      BY <1>6, <3>1 DEF LeaseOf
    <3>3. lease[t].box \in dirty =>
            \E d \in Callers : /\ caller'[d].pc = "ended" /\ caller'[d].bad
                              /\ caller'[d].scope = t /\ caller'[d].box = lease[t].box
      BY <3>1 DEF LeaseOf
    <3>. QED  BY <1>2, <3>1, <3>2, <3>3 DEF LeaseOf, Range
  <2>2. LeaseIsSole' <=> \A t \in Leased' : LeaseOf(t)'
    BY DEF LeaseIsSole, LeaseOf
  <2>. QED  BY <1>2, <2>1, <2>2
<1>11. CommandIsLeased'
  <2>1. ASSUME NEW d \in Callers, caller'[d].pc \in Runs
        PROVE  d # c /\ caller'[d] = caller[d] /\ caller[d].pc \in Runs /\ caller[d].box # b
    BY <1>5, <1>6, <2>1
  <2>2. ASSUME NEW d \in Callers, d # c, caller[d].pc \in Runs, caller[d].scope \in Leased,
               lease[caller[d].scope].box = caller[d].box, caller[d].box # b
        PROVE  caller[d].scope \in Leased' /\ lease'[caller[d].scope].box = caller[d].box
    BY <1>2, <2>2 DEF b
  <2>. QED  BY <2>1, <2>2 DEF IInv, CommandIsLeased
<1>12. AbandonedIsUp' /\ ClosedIsEmpty'
  BY <1>2 DEF IInv, AbandonedIsUp, ClosedIsEmpty
<1>13. NoneIsForgotten'
  <2>1. ASSUME NEW a \in Boxes, a = b PROVE Used(a)'
    BY <1>5, <1>6, <2>1 DEF Used
  <2>2. ASSUME NEW a \in Boxes, Used(a), a # b PROVE Used(a)'
    <3>1. CASE a \in Rented
      BY <1>2, <2>2, <3>1 DEF Used
    <3>2. CASE \E w \in Sweepers : a \in doomed[w]
      BY <3>2 DEF Used
    <3>3. ASSUME NEW d \in Callers, caller[d].pc \in Holds, caller[d].box = a PROVE Used(a)'
      <4>1. CASE d # c
        BY <3>3, <4>1 DEF Used
      <4>2. CASE d = c
        <5>1. caller[c].pc \in Runs
          BY <3>3, <4>2 DEF Runs, Holds
        <5>2. closed \/ lease[s].box = a
          BY <3>3, <4>2, <5>1 DEF IInv, CommandIsLeased
        <5>. QED  BY <2>2, <5>2 DEF b, IInv, ClosedIsEmpty
      <4>. QED  BY <4>1, <4>2
    <3>. QED  BY <2>2, <3>1, <3>2, <3>3 DEF Used
  <2>. QED  BY <2>1, <2>2 DEF IInv, NoneIsForgotten
<1>. QED  BY <1>7, <1>8, <1>9, <1>10, <1>11, <1>12, <1>13 DEF IInv

(* The command of a caller whose lease is gone leaves a pool that is closed.    *)
LEMMA PoolAfterLost ==
  ASSUME PoolConstants, IInv, NEW c \in Callers, caller[c].pc = "ended",
         ~(caller[c].scope \in Leased /\ lease[caller[c].scope].box = caller[c].box),
         UNCHANGED <<keepWarm, lease, warm, pending, closed, poisoned, loop, vm, dirty, lost, doomed>>,
         caller' \in [Callers -> CallerStates],
         caller'[c].pc \in {"invalidate", "release"}, caller'[c].scope = caller[c].scope,
         caller'[c].box = caller[c].box,
         \A d \in Callers : d # c => caller'[d] = caller[d]
  PROVE  IInv'
<1>1. FullTypeOK /\ Leased' = Leased
  BY PoolTypes DEF Leased
<1>2. /\ closed /\ Leased = {} /\ Rented = {}
      /\ \/ caller[c].box \in doomed["shutdown"]
         \/ vm[caller[c].box] = "none" \/ poisoned
  BY DEF IInv, CommandIsLeased, Runs, ClosedIsEmpty, Rented
<1>3. caller'[c].pc \notin Runs \cup Filling \cup Fresh \cup {"idle", "acquired", "fail", "publish", "ended"}
  BY DEF Runs, Filling, Fresh, Holds
<1>4. FullTypeOK'
  <2>1. TypeOK'
    BY <1>1 DEF FullTypeOK, TypeOK, Range, IsInjective
  <2>2. caller[c].box \in Boxes /\ caller[c].scope \in Scopes
    BY <1>1 DEF FullTypeOK, Holds, Runs
  <2>3. ASSUME NEW d \in Callers
        PROVE  /\ caller'[d].pc # "idle" => caller'[d].scope \in Scopes
               /\ caller'[d].pc \in Holds \cup {"acquired"} => caller'[d].box \in Boxes
    BY <1>1, <2>2 DEF FullTypeOK
  <2>. QED  BY <1>1, <2>1, <2>3 DEF FullTypeOK
<1>5. PlacesAreFilledOnce' /\ PlacesAreCounted'
  <2>1. ASSUME NEW d \in Callers
        PROVE  /\ caller'[d].pc \in Filling => caller[d].pc \in Filling
               /\ caller'[d].pc \in Filling \cup {"acquired", "fail"} =>
                    /\ caller[d].pc \in Filling \cup {"acquired", "fail"}
                    /\ caller'[d].scope = caller[d].scope /\ caller[d].scope \in pending'
    BY <1>3 DEF IInv, PlacesAreFilledOnce
  <2>. QED  BY <1>1, <2>1, PoolPlacesKept
<1>6. FreshIsSole'
  <2>1. ASSUME NEW d \in Callers PROVE caller'[d].box \in {caller[d].box, None} \cup Rented
    OBVIOUS
  <2>2. ASSUME NEW d \in Callers, caller'[d].pc \in Fresh
        PROVE  /\ caller[d].pc \in Fresh /\ caller'[d].box = caller[d].box
               /\ caller[d].box \in dirty' => caller[d].box \in dirty
               /\ caller'[d].pc = "publish" => vm'[caller[d].box] = "up"
    BY <1>3, <2>2 DEF IInv, FreshIsSole
  <2>. QED  BY <2>1, <2>2, PoolFreshKept
<1>7. LeaseIsSole' /\ ClosedIsEmpty'
  BY <1>1, <1>2 DEF LeaseIsSole, ClosedIsEmpty
<1>8. CommandIsLeased'
  <2>1. ASSUME NEW d \in Callers, caller'[d].pc \in Runs
        PROVE  d # c /\ caller'[d] = caller[d] /\ caller[d].pc \in Runs
    BY <1>3, <2>1
  <2>. QED  BY <1>1, <2>1 DEF IInv, CommandIsLeased
<1>9. AbandonedIsUp'
  BY DEF IInv, AbandonedIsUp
<1>10. NoneIsForgotten'
  <2> SUFFICES ASSUME ~poisoned, NEW a \in Boxes, vm[a] # "none"
               PROVE  Used(a)' \/ a \in lost
    BY DEF NoneIsForgotten
  <2>1. Used(a) \/ a \in lost
    BY DEF IInv, NoneIsForgotten
  <2>2. ASSUME Used(a) PROVE Used(a)'
    <3>1. CASE a = caller[c].box
      BY <1>2, <3>1 DEF Used, Sweepers
    <3>2. CASE a # caller[c].box
      BY <1>2, <2>2, <3>2 DEF Used
    <3>. QED  BY <3>1, <3>2
  <2>. QED  BY <2>1, <2>2
<1>. QED  BY <1>4, <1>5, <1>6, <1>7, <1>8, <1>9, <1>10 DEF IInv

LEMMA PoolAfterCommand == ASSUME PoolConstants, IInv, NEW c \in Callers, AfterCommand(c) PROVE IInv'
<1> DEFINE s == caller[c].scope
           b == caller[c].box
           mine == s \in Leased /\ lease[s].box = b
<1>1. /\ FullTypeOK /\ caller[c].pc = "ended" /\ Go(c, IF caller[c].bad THEN "invalidate" ELSE "release")
      /\ lease' = [lease EXCEPT ![s] = IF ~mine THEN @ ELSE IF caller[c].bad THEN None
                                       ELSE [@ EXCEPT !.executing = FALSE]]
      /\ UNCHANGED <<keepWarm, warm, pending, closed, poisoned, loop, vm, dirty, lost, doomed>>
  BY PoolTypes DEF AfterCommand, At
<1>2. s \in Scopes /\ b \in Boxes /\ caller[c].pc \in Runs /\ caller[c].pc \in Holds
  BY <1>1 DEF FullTypeOK, Holds, Runs
<1>3. /\ caller' \in [Callers -> CallerStates]
      /\ caller'[c].pc = (IF caller[c].bad THEN "invalidate" ELSE "release")
      /\ caller'[c].scope = s /\ caller'[c].box = b
      /\ \A d \in Callers : d # c => caller'[d] = caller[d]
  <2>1. \A p \in {"invalidate", "release"} :
          caller' = [caller EXCEPT ![c].pc = p] => caller' \in [Callers -> CallerStates]
    BY <1>1 DEF FullTypeOK, CallerStates, Holds
  <2>. QED  BY <1>1, <2>1 DEF Go, FullTypeOK, CallerStates
<1>4. CASE ~mine
  <2>1. lease' = lease
    BY <1>1, <1>4 DEF FullTypeOK, TypeOK
  <2>2. /\ caller'[c].pc \in {"invalidate", "release"} /\ ~(s \in Leased /\ lease[s].box = b)
        /\ caller'[c].scope = caller[c].scope /\ caller'[c].box = caller[c].box
    BY <1>3, <1>4
  <2>. QED  BY <1>1, <1>3, <2>1, <2>2, PoolAfterLost
<1>5. \A t \in Leased : LeaseOf(t)
  BY PoolLeaseOf DEF IInv
<1>6. /\ \A d \in Callers : caller[d].pc \in Runs /\ caller[d].box = b => d = c
      /\ mine => /\ lease[s].executing /\ s \notin Range(warm)
                 /\ \A d \in Callers : caller[d].pc \in Holds /\ caller[d].box = b => d = c
  <2>1. \A d \in Callers : caller[d].pc \in Runs /\ caller[d].box = b => d = c
    BY <1>2 DEF IInv, CommandIsLeased
  <2>. QED  BY <1>2, <1>5, <2>1 DEF LeaseOf
<1>7. CASE mine /\ caller[c].bad
  <2>1. lease' = [lease EXCEPT ![s] = None]
    BY <1>1, <1>7
  <2>2. s \in Leased /\ caller[c].scope = s /\ lease[s].box = b /\ s \notin Range(warm)
    BY <1>6, <1>7
  <2>3. /\ caller[c].pc \in {"release", "ended"} /\ caller'[c].pc \in {"invalidate", "drop"}
        /\ caller'[c].scope = s /\ caller'[c].box = lease[s].box
        /\ \A d \in Callers : caller[d].pc \in Runs /\ caller[d].box = lease[s].box => d = c
    BY <1>1, <1>3, <1>6, <1>7
  <2>. HIDE DEF s, b, mine
  <2>. QED  BY <1>1, <1>3, <2>1, <2>2, <2>3, PoolGivesBack
<1>8. CASE mine /\ ~caller[c].bad
  <2>1. lease' = [lease EXCEPT ![s].executing = FALSE]
    BY <1>1, <1>8
  <2>2. /\ lease' \in [Scopes -> {None} \cup [box : Boxes, executing : BOOLEAN]]
        /\ lease'[s].executing = FALSE
        /\ \A t \in Leased : lease'[t].box = lease[t].box
        /\ \A t \in Scopes : t # s => lease'[t] = lease[t]
        /\ Leased' = Leased /\ Rented' = Rented
    BY <1>1, <1>8, <2>1, PoolFlag
  <2>3. /\ s \in Leased /\ caller[c].scope = s /\ caller[c].box = b /\ lease[s].box = b
        /\ lease[s].executing /\ s \notin Range(warm) /\ b \in Rented
        /\ \A d \in Callers : caller[d].pc \in Holds /\ caller[d].box = b => d = c
        /\ caller'[c].pc = "release" /\ caller'[c].scope = s /\ caller'[c].box = b
    BY <1>3, <1>6, <1>8 DEF Rented
  <2>. HIDE DEF s, b, mine
  <2>4. FullTypeOK'
    <3>1. TypeOK'
      BY <1>1, <2>2 DEF FullTypeOK, TypeOK, Range, IsInjective
    <3>2. ASSUME NEW d \in Callers
          PROVE  /\ caller'[d].pc # "idle" => caller'[d].scope \in Scopes
                 /\ caller'[d].pc \in Holds \cup {"acquired"} => caller'[d].box \in Boxes
      BY <1>1, <1>2, <1>3, <2>3 DEF FullTypeOK
    <3>. QED  BY <1>1, <1>3, <3>1, <3>2 DEF FullTypeOK
  <2>5. "release" \notin Runs \cup Filling \cup Fresh \cup Holds \cup {"acquired", "fail"}
    BY DEF Runs, Filling, Fresh, Holds
  <2>6. PlacesAreFilledOnce' /\ PlacesAreCounted'
    <3>1. ASSUME NEW d \in Callers
          PROVE  /\ caller'[d].pc \in Filling => caller[d].pc \in Filling
                 /\ caller'[d].pc \in Filling \cup {"acquired", "fail"} =>
                      /\ caller[d].pc \in Filling \cup {"acquired", "fail"}
                      /\ caller'[d].scope = caller[d].scope /\ caller[d].scope \in pending'
      BY <1>1, <1>3, <2>3, <2>5 DEF IInv, PlacesAreFilledOnce
    <3>. QED  BY <2>2, <3>1, PoolPlacesKept
  <2>7. FreshIsSole'
    <3>1. ASSUME NEW d \in Callers PROVE caller'[d].box \in {caller[d].box, None} \cup Rented
      BY <1>3, <2>3
    <3>2. ASSUME NEW d \in Callers, caller'[d].pc \in Fresh
          PROVE  /\ caller[d].pc \in Fresh /\ caller'[d].box = caller[d].box
                 /\ caller[d].box \in dirty' => caller[d].box \in dirty
                 /\ caller'[d].pc = "publish" => vm'[caller[d].box] = "up"
      BY <1>1, <1>3, <2>3, <2>5, <3>2 DEF IInv, FreshIsSole
    <3>. QED  BY <1>1, <3>1, <3>2, PoolFreshKept
  <2>8. LeaseIsSole'
    <3>1. ASSUME NEW t \in Leased PROVE LeaseOf(t)'
      <4>1. LeaseOf(t) /\ lease'[t].box = lease[t].box
        BY <1>5, <2>2
      <4>2. t # s => lease[t].box # b /\ lease'[t] = lease[t]
        BY <2>2, <2>3, <4>1 DEF LeaseOf, Leased
      <4>3. \A d \in Callers : caller'[d].pc \in Holds /\ caller'[d].box = lease[t].box =>
              caller'[d].pc \in Runs /\ caller'[d].scope = t /\ lease'[t].executing
        BY <1>3, <2>3, <2>5, <4>1, <4>2 DEF LeaseOf
      <4>4. lease[t].box \in dirty =>
              \E d \in Callers : /\ caller'[d].pc = "ended" /\ caller'[d].bad
                                /\ caller'[d].scope = t /\ caller'[d].box = lease[t].box
        <5> SUFFICES ASSUME lease[t].box \in dirty
                     PROVE  \E d \in Callers : /\ caller'[d].pc = "ended" /\ caller'[d].bad
                                              /\ caller'[d].scope = t /\ caller'[d].box = lease[t].box
          OBVIOUS
        <5>1. PICK d \in Callers : /\ caller[d].pc = "ended" /\ caller[d].bad
                                   /\ caller[d].scope = t /\ caller[d].box = lease[t].box
          BY <4>1 DEF LeaseOf
        <5>2. d # c
          BY <1>8, <5>1
        <5>. QED  BY <1>3, <5>1, <5>2
      <4>5. t \in Range(warm) => ~lease'[t].executing
        BY <2>2, <2>3, <4>1, <4>2 DEF LeaseOf
      <4>. QED  BY <1>1, <2>2, <4>1, <4>3, <4>4, <4>5 DEF LeaseOf, Range
    <3>2. LeaseIsSole' <=> \A t \in Leased' : LeaseOf(t)'
      BY DEF LeaseIsSole, LeaseOf
    <3>. QED  BY <2>2, <3>1, <3>2
  <2>9. CommandIsLeased'
    <3>1. ASSUME NEW d \in Callers, caller'[d].pc \in Runs
          PROVE  d # c /\ caller'[d] = caller[d] /\ caller[d].pc \in Runs
      BY <1>3, <2>3, <2>5, <3>1
    <3>. QED  BY <1>1, <2>2, <3>1 DEF IInv, CommandIsLeased
  <2>10. AbandonedIsUp' /\ ClosedIsEmpty'
    BY <1>1, <2>2 DEF IInv, AbandonedIsUp, ClosedIsEmpty
  <2>11. NoneIsForgotten'
    <3>1. ASSUME NEW a \in Boxes, Used(a) PROVE Used(a)'
      <4>1. CASE a \in Rented \/ \E w \in Sweepers : a \in doomed[w]
        BY <1>1, <2>2, <4>1 DEF Used
      <4>2. ASSUME NEW d \in Callers, caller[d].pc \in Holds, caller[d].box = a PROVE Used(a)'
        BY <1>3, <2>2, <2>3, <4>2 DEF Used
      <4>. QED  BY <3>1, <4>1, <4>2 DEF Used
    <3>. QED  BY <1>1, <3>1 DEF IInv, NoneIsForgotten
  <2>. QED  BY <2>4, <2>6, <2>7, <2>8, <2>9, <2>10, <2>11 DEF IInv
<1>. QED  BY <1>4, <1>7, <1>8

LEMMA PoolRelease == ASSUME PoolConstants, IInv, NEW c \in Callers, Release(c) PROVE IInv'
<1> DEFINE s == caller[c].scope
<1>1. /\ FullTypeOK /\ caller[c].pc = "release"
      /\ UNCHANGED <<keepWarm, pending, closed, poisoned, loop, vm, dirty, lost, doomed>>
  BY PoolTypes DEF Release, At
<1>2. \A t \in Leased : LeaseOf(t)
  BY PoolLeaseOf DEF IInv
<1>3. ASSUME Leave(c)
      PROVE  /\ caller' \in [Callers -> CallerStates] /\ caller'[c].pc = "idle" /\ caller'[c].box = None
             /\ \A d \in Callers : d # c => caller'[d] = caller[d]
             /\ Quietly(c) /\ caller[c].pc \notin Holds
             /\ \A d \in Callers : caller'[d].pc \in Filling \cup {"acquired", "fail"} =>
                  caller[d].scope \in pending'
  <2>1. /\ caller' \in [Callers -> CallerStates] /\ caller'[c].pc = "idle" /\ caller'[c].box = None
        /\ \A d \in Callers : d # c => caller'[d] = caller[d]
    BY <1>1, <1>3 DEF Leave, NoCaller, FullTypeOK, CallerStates
  <2>2. Quietly(c) /\ caller[c].pc \notin Holds
    BY <1>1, <2>1 DEF Quietly, Runs, Holds, Filling, Fresh
  <2>3. ASSUME NEW d \in Callers, caller'[d].pc \in Filling \cup {"acquired", "fail"}
        PROVE  caller[d].scope \in pending'
    BY <1>1, <2>1, <2>3 DEF IInv, PlacesAreFilledOnce, Filling
  <2>. QED  BY <2>1, <2>2, <2>3
<1>4. CASE Leave(c) /\ UNCHANGED <<lease, warm>>
  BY <1>1, <1>3, <1>4, PoolCallerMoves
<1>5. ASSUME s \in Leased, ~lease[s].executing, keepWarm, warm' = Append(Without(s), s), Leave(c),
             lease' = lease
      PROVE  IInv'
  <2>1. s \in Scopes /\ Leased' = Leased /\ Rented' = Rented
    BY <1>5 DEF Leased, Rented
  <2>2. warm' \in Seq(Scopes) /\ IsInjective(warm') /\ Range(warm') = Range(warm) \cup {s}
    <3>1. /\ Without(s) \in Seq(Scopes) /\ IsInjective(Without(s))
          /\ Range(Without(s)) = Range(warm) \ {s}
      BY <1>1, PoolWithout DEF FullTypeOK, TypeOK
    <3> DEFINE w == Without(s)
    <3>2. w \in Seq(Scopes) /\ IsInjective(w) /\ Range(w) = Range(warm) \ {s} /\ s \notin Range(w)
      BY <3>1
    <3>3. warm' = Append(w, s)
      BY <1>5
    <3>. HIDE DEF w, s
    <3>4. /\ Append(w, s) \in Seq(Scopes) /\ IsInjective(Append(w, s))
          /\ Range(Append(w, s)) = Range(w) \cup {s}
      BY <2>1, <3>2, PoolPutLast
    <3>5. warm' \in Seq(Scopes) /\ IsInjective(warm') /\ Range(warm') = Range(w) \cup {s}
      BY <3>3, <3>4
    <3>. QED  BY <3>2, <3>5
  <2>3. FullTypeOK'
    <3>1. TypeOK'
      BY <1>1, <1>5, <2>1, <2>2 DEF FullTypeOK, TypeOK
    <3>2. ASSUME NEW d \in Callers
          PROVE  /\ caller'[d].pc # "idle" => caller'[d].scope \in Scopes
                 /\ caller'[d].pc \in Holds \cup {"acquired"} => caller'[d].box \in Boxes
      BY <1>1, <1>3, <1>5 DEF FullTypeOK, Holds, Runs
    <3>. QED  BY <1>1, <1>3, <1>5, <2>2, <3>1, <3>2 DEF FullTypeOK
  <2>4. "idle" \notin Runs \cup Filling \cup Fresh \cup Holds \cup {"acquired", "fail"}
    BY DEF Runs, Filling, Fresh, Holds
  <2>5. PlacesAreFilledOnce' /\ PlacesAreCounted'
    <3>1. ASSUME NEW d \in Callers
          PROVE  /\ caller'[d].pc \in Filling => caller[d].pc \in Filling
                 /\ caller'[d].pc \in Filling \cup {"acquired", "fail"} =>
                      /\ caller[d].pc \in Filling \cup {"acquired", "fail"}
                      /\ caller'[d].scope = caller[d].scope /\ caller[d].scope \in pending'
      BY <1>1, <1>3, <1>5, <2>4 DEF IInv, PlacesAreFilledOnce
    <3>. QED  BY <2>1, <3>1, PoolPlacesKept
  <2>6. FreshIsSole'
    <3>1. ASSUME NEW d \in Callers PROVE caller'[d].box \in {caller[d].box, None} \cup Rented
      BY <1>3, <1>5
    <3>2. ASSUME NEW d \in Callers, caller'[d].pc \in Fresh
          PROVE  /\ caller[d].pc \in Fresh /\ caller'[d].box = caller[d].box
                 /\ caller[d].box \in dirty' => caller[d].box \in dirty
                 /\ caller'[d].pc = "publish" => vm'[caller[d].box] = "up"
      BY <1>1, <1>3, <1>5, <2>4, <3>2 DEF IInv, FreshIsSole
    <3>. QED  BY <1>1, <3>1, <3>2, PoolFreshKept
  <2>7. LeaseIsSole'
    <3>1. ASSUME NEW t \in Leased PROVE LeaseOf(t)'
      <4>1. LeaseOf(t) /\ lease' = lease
        BY <1>2, <1>5
      <4>2. \A d \in Callers : caller'[d].pc \in Holds /\ caller'[d].box = lease[t].box =>
              caller'[d].pc \in Runs /\ caller'[d].scope = t /\ lease[t].executing
        BY <1>3, <1>5, <2>4, <4>1 DEF LeaseOf
      <4>3. lease[t].box \in dirty =>
              \E d \in Callers : /\ caller'[d].pc = "ended" /\ caller'[d].bad
                                /\ caller'[d].scope = t /\ caller'[d].box = lease[t].box
        BY <1>1, <1>3, <1>5, <4>1 DEF LeaseOf
      <4>4. t \in Range(warm)' => ~lease[t].executing
        <5>1. Range(warm)' = Range(warm')
          BY DEF Range
        <5>. QED  BY <1>5, <2>2, <4>1, <5>1 DEF LeaseOf
      <4>. QED  BY <1>1, <2>1, <4>1, <4>2, <4>3, <4>4 DEF LeaseOf
    <3>2. LeaseIsSole' <=> \A t \in Leased' : LeaseOf(t)'
      BY DEF LeaseIsSole, LeaseOf
    <3>. QED  BY <2>1, <3>1, <3>2
  <2>8. CommandIsLeased'
    <3>1. ASSUME NEW d \in Callers, caller'[d].pc \in Runs
          PROVE  d # c /\ caller'[d] = caller[d] /\ caller[d].pc \in Runs
      BY <1>3, <1>5, <2>4, <3>1
    <3>. QED  BY <1>1, <1>5, <2>1, <3>1 DEF IInv, CommandIsLeased
  <2>9. AbandonedIsUp' /\ ClosedIsEmpty'
    BY <1>1, <2>1 DEF IInv, AbandonedIsUp, ClosedIsEmpty
  <2>10. NoneIsForgotten'
    <3>1. ASSUME NEW a \in Boxes, Used(a) PROVE Used(a)'
      BY <1>1, <1>3, <1>5, <3>1, PoolStillUsed
    <3>. QED  BY <1>1, <3>1 DEF IInv, NoneIsForgotten
  <2>. QED  BY <2>3, <2>5, <2>6, <2>7, <2>8, <2>9, <2>10 DEF IInv
<1>6. ASSUME s \in Leased, ~lease[s].executing, ~keepWarm, lease' = [lease EXCEPT ![s] = None],
             caller' = [caller EXCEPT ![c].pc = "drop", ![c].box = lease[s].box], warm' = warm
      PROVE  IInv'
  <2>1. warm = <<>>
    BY <1>1, <1>6 DEF FullTypeOK
  <2>2. Range(warm) = {}
    BY <2>1 DEF Range
  <2>3. lease[s].box \in Boxes /\ caller[c].scope = s /\ s \notin Range(warm)
    BY <1>1, <1>6, <2>2 DEF FullTypeOK, TypeOK, Leased
  <2>4. /\ caller' \in [Callers -> CallerStates]
        /\ caller'[c].pc = "drop" /\ caller'[c].scope = s /\ caller'[c].box = lease[s].box
        /\ \A d \in Callers : d # c => caller'[d] = caller[d]
    <3>1. "drop" \in Holds
      BY DEF Holds
    <3>. QED  BY <1>1, <1>6, <2>3, <3>1 DEF FullTypeOK, CallerStates
  <2>5. \A d \in Callers : caller[d].pc \in Runs /\ caller[d].box = lease[s].box => d = c
    BY <1>2, <1>6 DEF LeaseOf, Runs, Holds
  <2>6. caller[c].pc \in {"release", "ended"} /\ caller'[c].pc \in {"invalidate", "drop"}
    BY <1>1, <2>4
  <2>7. /\ s \in Leased /\ lease' = [lease EXCEPT ![s] = None]
        /\ UNCHANGED <<keepWarm, warm, pending, closed, poisoned, loop, vm, dirty, lost, doomed>>
    BY <1>1, <1>6
  <2>8. caller'[c].pc \in {"invalidate", "drop"} /\ caller[c].pc \in {"release", "ended"}
    BY <2>6
  <2>. HIDE DEF s
  <2>. QED  BY <2>3, <2>4, <2>5, <2>7, <2>8, PoolGivesBack
<1>. QED  BY <1>4, <1>5, <1>6 DEF Release

-----------------------------------------------------------------------------
(* The reaper and the shutdown. *)
LEMMA PoolSweep ==
  ASSUME PoolConstants, IInv, NEW w \in Sweepers, NEW b \in Boxes, Sweep(w, b) PROVE IInv'
<1>1. /\ FullTypeOK /\ b \in doomed[w] /\ Disposed(b) /\ doomed' = [doomed EXCEPT ![w] = @ \ {b}]
      /\ UNCHANGED <<keepWarm, lease, warm, pending, closed, loop, caller>>
  BY PoolTypes DEF Sweep, tables
<1>2. b \notin Rented /\ \A d \in Callers : caller[d].pc \in Fresh => caller[d].box # b
  BY <1>1 DEF IInv, LeaseIsSole, Rented, FreshIsSole
<1>3. /\ vm' \in [Boxes -> {"none", "starting", "cancelled", "up"}]
      /\ dirty' \subseteq dirty /\ lost' \subseteq lost
      /\ poisoned' \in BOOLEAN /\ (poisoned => poisoned')
      /\ \A s \in Leased : vm'[lease[s].box] = "up"
      /\ \A a \in Boxes : vm[a] = "none" => vm'[a] = "none"
      /\ \A a \in Boxes \ {b} : vm'[a] = vm[a] /\ (a \in lost => a \in lost')
      /\ vm'[b] = "none" \/ poisoned'
      /\ AbandonedIsUp'
  BY <1>1, <1>2, PoolDisposes
<1>4. /\ doomed' \in [Sweepers -> SUBSET Boxes]
      /\ \A x \in Sweepers : doomed'[x] \subseteq doomed[x] /\ doomed[x] \subseteq doomed'[x] \cup {b}
  BY <1>1 DEF FullTypeOK
<1>5. ASSUME NEW d \in Callers PROVE Quietly(d)
  BY <1>1 DEF Quietly
<1>6. ASSUME NEW d \in Callers, caller'[d].pc \in Filling \cup {"acquired", "fail"}
      PROVE  caller[d].scope \in pending'
  BY <1>1, <1>6 DEF IInv, PlacesAreFilledOnce, Filling
<1>7. ASSUME NEW d \in Callers, caller'[d].pc = "publish" PROVE vm'[caller[d].box] = "up"
  <2>1. caller[d].box \in Boxes \ {b} /\ vm[caller[d].box] = "up"
    BY <1>1, <1>2, <1>7 DEF FullTypeOK, Holds, Fresh, IInv, FreshIsSole
  <2>. QED  BY <1>3, <2>1
<1>8. /\ FullTypeOK' /\ PlacesAreFilledOnce' /\ PlacesAreCounted' /\ FreshIsSole' /\ LeaseIsSole'
      /\ CommandIsLeased' /\ ClosedIsEmpty'
  <2>1. lost' \subseteq Boxes /\ loop' \in BOOLEAN /\ caller' \in [Callers -> CallerStates]
    BY <1>1, <1>3 DEF FullTypeOK, TypeOK
  <2>2. \A x \in doomed["shutdown"] : x \in doomed'["shutdown"] \/ vm'[x] = "none" \/ poisoned'
    BY <1>3, <1>4 DEF Sweepers
  <2>3. \A x \in Sweepers : doomed'[x] \subseteq doomed[x]
    BY <1>4
  <2>. QED  BY <1>1, <1>3, <1>4, <1>5, <1>6, <1>7, <2>1, <2>2, <2>3, PoolQuiet
<1>9. NoneIsForgotten'
  <2> SUFFICES ASSUME ~poisoned', NEW a \in Boxes, vm'[a] # "none" PROVE Used(a)' \/ a \in lost'
    BY DEF NoneIsForgotten
  <2>1. a # b /\ vm[a] # "none" /\ ~poisoned
    BY <1>3
  <2>2. Used(a) \/ a \in lost
    BY <2>1 DEF IInv, NoneIsForgotten
  <2>3. Used(a) => Used(a)'
    BY <1>1, <1>4, <2>1 DEF Used, Rented, Leased
  <2>. QED  BY <1>3, <2>1, <2>2, <2>3
<1>. QED  BY <1>3, <1>8, <1>9 DEF IInv

LEMMA PoolReap == ASSUME PoolConstants, IInv, Reap PROVE IInv'
<1>1. /\ FullTypeOK /\ ~closed /\ doomed["reaper"] = {}
      /\ UNCHANGED <<keepWarm, pending, closed, poisoned, loop, vm, dirty, lost, caller>>
  BY PoolTypes DEF Reap
<1>2. PICK n \in 1..Len(warm) :
        /\ doomed' = [doomed EXCEPT !["reaper"] = {lease[warm[i]].box : i \in 1..n}]
        /\ lease' = [s \in Scopes |-> IF \E i \in 1..n : warm[i] = s THEN None ELSE lease[s]]
        /\ warm' = SubSeq(warm, n + 1, Len(warm))
  BY DEF Reap
<1>3. /\ warm' \in Seq(Scopes) /\ IsInjective(warm')
      /\ \A s : s \in Range(warm') <=> s \in Range(warm) /\ \A i \in 1..n : warm[i] # s
  BY <1>1, <1>2, PoolRest DEF FullTypeOK, TypeOK
<1>4. \A i \in 1..n : warm[i] \in Range(warm) /\ warm[i] \in Leased
  <2>1. PICK L \in Nat : Len(warm) = L /\ DOMAIN warm = 1..L
    BY <1>1, LenProperties DEF FullTypeOK
  <2>2. \A i \in 1..n : warm[i] \in Range(warm)
    BY <1>2, <2>1 DEF Range
  <2>. QED  BY <1>1, <2>2 DEF FullTypeOK, TypeOK
<1>5. keepWarm
  <2>1. PICK L \in Nat : Len(warm) = L /\ n \in 1..L
    BY <1>1, <1>2, LenProperties DEF FullTypeOK
  <2>2. warm # <<>>
    BY <2>1
  <2>. QED  BY <1>1, <2>2 DEF FullTypeOK
<1>6. /\ \A t \in Leased : t \in Leased' <=> \A i \in 1..n : warm[i] # t
      /\ Leased' \subseteq Leased /\ \A t \in Leased' : lease'[t] = lease[t]
      /\ lease' \in [Scopes -> {None} \cup [box : Boxes, executing : BOOLEAN]]
  BY <1>1, <1>2 DEF Leased, FullTypeOK, TypeOK
<1>7. /\ doomed'["reaper"] = {lease[warm[i]].box : i \in 1..n}
      /\ doomed'["shutdown"] = doomed["shutdown"]
      /\ \A i \in 1..n : lease[warm[i]].box \in Rented /\ lease[warm[i]].box \in Boxes
  BY <1>1, <1>2, <1>4 DEF FullTypeOK, TypeOK, Sweepers, Rented, Leased
<1>8. \A t \in Leased : LeaseOf(t)
  BY PoolLeaseOf DEF IInv
<1>9. FullTypeOK'
  <2>1. Range(warm)' = Range(warm') /\ IsInjective(warm)' = IsInjective(warm')
    BY DEF Range, IsInjective
  <2>2. Range(warm') \subseteq Leased'
    BY <1>1, <1>3, <1>6 DEF FullTypeOK, TypeOK
  <2>3. TypeOK'
    BY <1>1, <1>3, <1>6, <2>1, <2>2 DEF FullTypeOK, TypeOK
  <2>4. doomed' \in [Sweepers -> SUBSET Boxes]
    <3>1. {lease[warm[i]].box : i \in 1..n} \subseteq Boxes
      BY <1>7
    <3>. QED  BY <1>1, <1>2, <3>1 DEF FullTypeOK
  <2>. QED  BY <1>1, <1>3, <1>5, <2>3, <2>4 DEF FullTypeOK
<1>10. PlacesAreFilledOnce' /\ PlacesAreCounted'
  <2>1. ASSUME NEW d \in Callers, caller[d].pc \in Filling \cup {"acquired", "fail"}
        PROVE  caller[d].scope \in pending'
    BY <1>1, <2>1 DEF IInv, PlacesAreFilledOnce
  <2>. QED  BY <1>1, <1>6, <2>1, PoolPlacesKept
<1>11. FreshIsSole'
  <2>1. ASSUME NEW w \in Sweepers PROVE doomed'[w] \subseteq doomed[w] \cup Rented
    BY <1>7 DEF Sweepers
  <2>2. \A d \in Callers : caller[d].pc = "publish" => vm[caller[d].box] = "up"
    BY DEF IInv, FreshIsSole, Fresh
  <2>. QED  BY <1>1, <2>1, <2>2, PoolFreshKept
<1>12. LeaseIsSole'
  <2>1. ASSUME NEW t \in Leased' PROVE LeaseOf(t)'
    <3>1. t \in Leased /\ LeaseOf(t) /\ lease'[t] = lease[t] /\ \A i \in 1..n : warm[i] # t
      BY <1>6, <1>8
    <3>2. \A w \in Sweepers : lease[t].box \notin doomed'[w]
      <4>1. lease[t].box \notin doomed'["shutdown"]
        BY <1>7, <3>1 DEF LeaseOf, Sweepers
      <4>2. \A i \in 1..n : lease[warm[i]].box # lease[t].box
        BY <1>4, <3>1 DEF LeaseOf
      <4>. QED  BY <1>7, <4>1, <4>2 DEF Sweepers
    <3>3. t \in Range(warm)' => ~lease[t].executing
      <4>1. Range(warm)' = Range(warm')
        BY DEF Range
      <4>. QED  BY <1>3, <3>1, <4>1 DEF LeaseOf
    <3>4. \A u \in Leased' \ {t} : lease'[u].box # lease[t].box
      BY <1>6, <3>1 DEF LeaseOf
    <3>. QED  BY <1>1, <3>1, <3>2, <3>3, <3>4 DEF LeaseOf
  <2>2. LeaseIsSole' <=> \A t \in Leased' : LeaseOf(t)'
    BY DEF LeaseIsSole, LeaseOf
  <2>. QED  BY <2>1, <2>2
<1>13. CommandIsLeased'
  <2>1. ASSUME NEW d \in Callers, caller[d].pc \in Runs
        PROVE  caller[d].scope \in Leased' /\ lease'[caller[d].scope].box = caller[d].box
    <3>1. caller[d].scope \in Leased /\ lease[caller[d].scope].box = caller[d].box
      BY <1>1, <2>1 DEF IInv, CommandIsLeased
    <3>2. caller[d].scope \notin Range(warm)
      BY <1>8, <2>1, <3>1 DEF LeaseOf, Holds
    <3>. QED  BY <1>4, <1>6, <3>1, <3>2
  <2>. QED  BY <1>1, <2>1 DEF IInv, CommandIsLeased
<1>14. AbandonedIsUp' /\ ClosedIsEmpty'
  BY <1>1, <1>7 DEF IInv, AbandonedIsUp, ClosedIsEmpty
<1>15. NoneIsForgotten'
  <2>1. ASSUME NEW a \in Boxes, Used(a) PROVE Used(a)'
    <3>1. CASE a \in Rented
      <4>1. PICK t \in Leased : a = lease[t].box
        BY <3>1 DEF Rented
      <4>2. CASE t \in Leased'
        BY <1>6, <4>1, <4>2 DEF Used, Rented
      <4>3. CASE t \notin Leased'
        <5>1. a \in doomed'["reaper"]
          BY <1>6, <1>7, <4>1, <4>3
        <5>. QED  BY <5>1 DEF Used, Sweepers
      <4>. QED  BY <4>2, <4>3
    <3>2. CASE \E w \in Sweepers : a \in doomed[w]
      BY <1>1, <1>7, <3>2 DEF Used, Sweepers
    <3>3. CASE \E d \in Callers : caller[d].pc \in Holds /\ caller[d].box = a
      BY <1>1, <3>3 DEF Used
    <3>. QED  BY <2>1, <3>1, <3>2, <3>3 DEF Used
  <2>. QED  BY <1>1, <2>1 DEF IInv, NoneIsForgotten
<1>. QED  BY <1>9, <1>10, <1>11, <1>12, <1>13, <1>14, <1>15 DEF IInv

LEMMA PoolShutdown == ASSUME PoolConstants, IInv, Shutdown PROVE IInv'
<1>1. /\ FullTypeOK /\ ~closed /\ closed' = TRUE
      /\ doomed' = [doomed EXCEPT !["shutdown"] = Rented]
      /\ lease' = [s \in Scopes |-> None] /\ warm' = <<>>
      /\ UNCHANGED <<keepWarm, pending, poisoned, loop, vm, dirty, lost, caller>>
  BY PoolTypes DEF Shutdown, Rented
<1>2. Leased' = {} /\ Leased \subseteq Scopes /\ Rented \subseteq Boxes
  BY <1>1 DEF Leased, Rented, FullTypeOK, TypeOK
<1>3. /\ doomed'["shutdown"] = Rented /\ doomed'["reaper"] = doomed["reaper"]
      /\ doomed["shutdown"] = {} /\ doomed' \in [Sweepers -> SUBSET Boxes]
  BY <1>1, <1>2 DEF FullTypeOK, Sweepers, IInv, ClosedIsEmpty
<1>4. FullTypeOK'
  <2>1. Range(warm)' = {} /\ IsInjective(warm)' /\ warm' \in Seq(Scopes)
    BY <1>1 DEF Range, IsInjective
  <2>2. TypeOK'
    BY <1>1, <2>1 DEF FullTypeOK, TypeOK
  <2>. QED  BY <1>1, <1>3, <2>1, <2>2 DEF FullTypeOK
<1>5. PlacesAreFilledOnce' /\ PlacesAreCounted'
  <2>1. ASSUME NEW d \in Callers, caller[d].pc \in Filling \cup {"acquired", "fail"}
        PROVE  caller[d].scope \in pending'
    BY <1>1, <2>1 DEF IInv, PlacesAreFilledOnce
  <2>. QED  BY <1>1, <1>2, <2>1, PoolPlacesKept
<1>6. FreshIsSole'
  <2>1. ASSUME NEW w \in Sweepers PROVE doomed'[w] \subseteq doomed[w] \cup Rented
    BY <1>3 DEF Sweepers
  <2>2. \A d \in Callers : caller[d].pc = "publish" => vm[caller[d].box] = "up"
    BY DEF IInv, FreshIsSole, Fresh
  <2>. QED  BY <1>1, <2>1, <2>2, PoolFreshKept
<1>7. LeaseIsSole' /\ ClosedIsEmpty' /\ AbandonedIsUp'
  BY <1>1, <1>2 DEF LeaseIsSole, ClosedIsEmpty, AbandonedIsUp
<1>8. CommandIsLeased'
  <2>1. ASSUME NEW d \in Callers, caller[d].pc \in Runs PROVE caller[d].box \in doomed'["shutdown"]
    <3>1. caller[d].scope \in Leased /\ lease[caller[d].scope].box = caller[d].box
      BY <1>1, <2>1 DEF IInv, CommandIsLeased
    <3>. QED  BY <1>3, <3>1 DEF Rented
  <2>. QED  BY <1>1, <2>1 DEF IInv, CommandIsLeased
<1>9. NoneIsForgotten'
  <2>1. ASSUME NEW a \in Boxes, Used(a) PROVE Used(a)'
    BY <1>1, <1>3, <2>1 DEF Used, Sweepers
  <2>. QED  BY <1>1, <2>1 DEF IInv, NoneIsForgotten
<1>. QED  BY <1>4, <1>5, <1>6, <1>7, <1>8, <1>9 DEF IInv

LEMMA PoolStopLoop == ASSUME PoolConstants, IInv, StopLoop PROVE IInv'
<1>1. /\ FullTypeOK /\ closed /\ loop' = FALSE
      /\ vm' = [b \in Boxes |-> IF vm[b] = "starting" THEN "cancelled" ELSE vm[b]]
      /\ UNCHANGED <<keepWarm, lease, warm, pending, closed, poisoned, dirty, lost, doomed, caller>>
  BY PoolTypes DEF StopLoop, tables
<1>2. /\ vm' \in [Boxes -> {"none", "starting", "cancelled", "up"}]
      /\ \A b \in Boxes : (vm[b] = "up" => vm'[b] = "up") /\ (vm[b] = "none" <=> vm'[b] = "none")
  BY <1>1 DEF FullTypeOK, TypeOK
<1>3. ASSUME NEW d \in Callers PROVE Quietly(d)
  BY <1>1 DEF Quietly
<1>4. ASSUME NEW d \in Callers, caller'[d].pc \in Filling \cup {"acquired", "fail"}
      PROVE  caller[d].scope \in pending'
  BY <1>1, <1>4 DEF IInv, PlacesAreFilledOnce, Filling
<1>5. ASSUME NEW d \in Callers, caller'[d].pc = "publish" PROVE vm'[caller[d].box] = "up"
  <2>1. caller[d].box \in Boxes /\ vm[caller[d].box] = "up"
    BY <1>1, <1>5 DEF FullTypeOK, Holds, Fresh, IInv, FreshIsSole
  <2>. QED  BY <1>2, <2>1
<1>6. /\ FullTypeOK' /\ PlacesAreFilledOnce' /\ PlacesAreCounted' /\ FreshIsSole' /\ LeaseIsSole'
      /\ CommandIsLeased' /\ ClosedIsEmpty'
  <2>1. /\ lost' \subseteq Boxes /\ loop' \in BOOLEAN /\ poisoned' \in BOOLEAN
        /\ doomed' \in [Sweepers -> SUBSET Boxes] /\ caller' \in [Callers -> CallerStates]
    BY <1>1 DEF FullTypeOK, TypeOK
  <2>2. \A s \in Leased : vm'[lease[s].box] = "up"
    BY <1>1 DEF IInv, ClosedIsEmpty
  <2>. QED  BY <1>1, <1>2, <1>3, <1>4, <1>5, <2>1, <2>2, PoolQuiet
<1>7. AbandonedIsUp'
  BY <1>1 DEF AbandonedIsUp
<1>8. NoneIsForgotten'
  <2>1. ASSUME NEW a \in Boxes, Used(a) PROVE Used(a)'
    BY <1>1, <2>1, PoolStillUsed
  <2>. QED  BY <1>1, <1>2, <2>1 DEF IInv, NoneIsForgotten
<1>. QED  BY <1>6, <1>7, <1>8 DEF IInv

-----------------------------------------------------------------------------
(* acquire *)
LEMMA PoolAcquireWarm ==
  ASSUME PoolConstants, IInv, NEW c \in Callers, NEW s \in Scopes,
         caller[c].pc = "idle", s \in Range(warm), warm' = Without(s),
         caller' = [caller EXCEPT ![c] = [@ EXCEPT !.pc = "ready", !.scope = s]],
         UNCHANGED <<keepWarm, lease, pending, closed, poisoned, loop, vm, dirty, lost, doomed>>
  PROVE  IInv'
<1>1. FullTypeOK /\ Leased' = Leased /\ Rented' = Rented
  BY PoolTypes DEF Leased, Rented
<1>2. warm' \in Seq(Scopes) /\ IsInjective(warm') /\ Range(warm') = Range(warm) \ {s}
  BY <1>1, PoolWithout DEF FullTypeOK, TypeOK
<1>3. keepWarm
  <2>1. Range(<<>>) = {}
    BY DEF Range
  <2>. QED  BY <1>1, <2>1 DEF FullTypeOK
<1>4. /\ caller' \in [Callers -> CallerStates]
      /\ caller'[c].pc = "ready" /\ caller'[c].scope = s /\ caller'[c].box = caller[c].box
      /\ \A d \in Callers : d # c => caller'[d] = caller[d]
  BY <1>1 DEF FullTypeOK, CallerStates
<1>5. "ready" \notin Runs \cup Filling \cup Fresh \cup Holds \cup {"idle", "acquired", "fail"}
  BY DEF Runs, Filling, Fresh, Holds
<1>6. FullTypeOK'
  <2>1. Range(warm)' = Range(warm') /\ IsInjective(warm)' = IsInjective(warm')
    BY DEF Range, IsInjective
  <2>2. TypeOK'
    BY <1>1, <1>2, <2>1 DEF FullTypeOK, TypeOK
  <2>3. ASSUME NEW d \in Callers
        PROVE  /\ caller'[d].pc # "idle" => caller'[d].scope \in Scopes
               /\ caller'[d].pc \in Holds \cup {"acquired"} => caller'[d].box \in Boxes
    BY <1>1, <1>4, <1>5 DEF FullTypeOK
  <2>. QED  BY <1>1, <1>2, <1>3, <1>4, <2>2, <2>3 DEF FullTypeOK
<1>7. PlacesAreFilledOnce' /\ PlacesAreCounted'
  <2>1. ASSUME NEW d \in Callers
        PROVE  /\ caller'[d].pc \in Filling => caller[d].pc \in Filling
               /\ caller'[d].pc \in Filling \cup {"acquired", "fail"} =>
                    /\ caller[d].pc \in Filling \cup {"acquired", "fail"}
                    /\ caller'[d].scope = caller[d].scope /\ caller[d].scope \in pending'
    BY <1>4, <1>5 DEF IInv, PlacesAreFilledOnce
  <2>. QED  BY <1>1, <2>1, PoolPlacesKept
<1>8. FreshIsSole'
  <2>1. ASSUME NEW d \in Callers PROVE caller'[d].box \in {caller[d].box, None} \cup Rented
    BY <1>4
  <2>2. ASSUME NEW d \in Callers, caller'[d].pc \in Fresh
        PROVE  /\ caller[d].pc \in Fresh /\ caller'[d].box = caller[d].box
               /\ caller[d].box \in dirty' => caller[d].box \in dirty
               /\ caller'[d].pc = "publish" => vm'[caller[d].box] = "up"
    BY <1>4, <1>5, <2>2 DEF IInv, FreshIsSole
  <2>. QED  BY <2>1, <2>2, PoolFreshKept
<1>9. LeaseIsSole'
  <2>1. ASSUME NEW t \in Leased PROVE LeaseOf(t)'
    <3>1. LeaseOf(t)
      BY PoolLeaseOf DEF IInv
    <3>2. \A d \in Callers : caller'[d].pc \in Holds /\ caller'[d].box = lease[t].box =>
            caller'[d].pc \in Runs /\ caller'[d].scope = t /\ lease[t].executing
      BY <1>4, <1>5, <3>1 DEF LeaseOf
    <3>3. lease[t].box \in dirty =>
            \E d \in Callers : /\ caller'[d].pc = "ended" /\ caller'[d].bad
                              /\ caller'[d].scope = t /\ caller'[d].box = lease[t].box
      BY <1>4, <3>1 DEF LeaseOf
    <3>4. t \in Range(warm)' => ~lease[t].executing
      <4>1. Range(warm)' = Range(warm')
        BY DEF Range
      <4>. QED  BY <1>2, <3>1, <4>1 DEF LeaseOf
    <3>. QED  BY <1>1, <3>1, <3>2, <3>3, <3>4 DEF LeaseOf
  <2>2. LeaseIsSole' <=> \A t \in Leased' : LeaseOf(t)'
    BY DEF LeaseIsSole, LeaseOf
  <2>. QED  BY <1>1, <2>1, <2>2
<1>10. CommandIsLeased'
  <2>1. ASSUME NEW d \in Callers, caller'[d].pc \in Runs
        PROVE  d # c /\ caller'[d] = caller[d] /\ caller[d].pc \in Runs
    BY <1>4, <1>5, <2>1
  <2>. QED  BY <1>1, <2>1 DEF IInv, CommandIsLeased
<1>11. AbandonedIsUp' /\ ClosedIsEmpty'
  BY <1>1 DEF IInv, AbandonedIsUp, ClosedIsEmpty
<1>12. NoneIsForgotten'
  <2>1. ASSUME NEW a \in Boxes, Used(a) PROVE Used(a)'
    BY <1>4, <2>1, PoolStillUsed DEF Holds, Runs
  <2>. QED  BY <2>1 DEF IInv, NoneIsForgotten
<1>. QED  BY <1>6, <1>7, <1>8, <1>9, <1>10, <1>11, <1>12 DEF IInv

(* A caller that takes a place: nobody fills it and it has no lease.            *)
LEMMA PoolPlaceTaken ==
  ASSUME IInv, NEW c \in Callers, NEW s \in Scopes, s \notin Leased, s \notin pending,
         Leased' \subseteq Leased, pending' = pending \cup {s},
         caller[c].pc = "idle", caller'[c].pc \in Filling, caller'[c].scope = s,
         \A d \in Callers : d # c => caller'[d] = caller[d]
  PROVE  /\ PlacesAreFilledOnce'
         /\ Taken' = Leased' \cup (Taken \ Leased) \cup {s}
         /\ s \notin Taken /\ Taken \ Leased \subseteq pending
<1>1. ASSUME NEW d \in Callers, d # c, caller[d].pc \in Filling \cup {"acquired", "fail"}
      PROVE  /\ caller[d].scope \in pending /\ caller[d].scope # s
             /\ \A e \in Callers \ {d} : caller[e].pc \in Filling \cup {"acquired", "fail"} =>
                  caller[e].scope # caller[d].scope
             /\ caller[d].pc \in Filling => caller[d].scope \notin Leased
  BY <1>1 DEF IInv, PlacesAreFilledOnce
<1>2. PlacesAreFilledOnce'
  BY <1>1 DEF PlacesAreFilledOnce
<1>3. caller[c].pc \notin Filling
  BY DEF Filling
<1>4. Taken \ Leased = {caller[d].scope : d \in {e \in Callers : caller[e].pc \in Filling}}
  BY <1>1, <1>3 DEF Taken
<1>5. {caller'[d].scope : d \in {e \in Callers : caller'[e].pc \in Filling}}
        = {caller[d].scope : d \in {e \in Callers : caller[e].pc \in Filling}} \cup {s}
  BY <1>3
<1>6. Taken' = Leased' \cup (Taken \ Leased) \cup {s}
  BY <1>4, <1>5 DEF Taken
<1>7. Taken \ Leased \subseteq pending
  BY <1>1, <1>3, <1>4
<1>. QED  BY <1>2, <1>6, <1>7

LEMMA PoolAcquireNew ==
  ASSUME PoolConstants, IInv, NEW c \in Callers, NEW s \in Scopes,
         caller[c].pc = "idle", s \notin Leased, s \notin pending, ~Full,
         pending' = pending \cup {s},
         caller' = [caller EXCEPT ![c] = [@ EXCEPT !.pc = "start", !.scope = s]],
         UNCHANGED <<keepWarm, lease, warm, closed, poisoned, loop, vm, dirty, lost, doomed>>
  PROVE  IInv'
<1>1. FullTypeOK /\ Leased' = Leased /\ Rented' = Rented
  BY PoolTypes DEF Leased, Rented
<1>2. /\ caller' \in [Callers -> CallerStates]
      /\ caller'[c].pc = "start" /\ caller'[c].scope = s /\ caller'[c].box = caller[c].box
      /\ \A d \in Callers : d # c => caller'[d] = caller[d]
  BY <1>1 DEF FullTypeOK, CallerStates
<1>3. /\ "start" \notin Runs \cup Fresh \cup Holds \cup {"idle", "acquired", "fail", "publish"}
      /\ "start" \in Filling
  BY DEF Runs, Filling, Fresh, Holds
<1>4. FullTypeOK'
  <2>1. TypeOK'
    BY <1>1 DEF FullTypeOK, TypeOK, Range, IsInjective
  <2>2. ASSUME NEW d \in Callers
        PROVE  /\ caller'[d].pc # "idle" => caller'[d].scope \in Scopes
               /\ caller'[d].pc \in Holds \cup {"acquired"} => caller'[d].box \in Boxes
    BY <1>1, <1>2, <1>3 DEF FullTypeOK
  <2>. QED  BY <1>1, <1>2, <2>1, <2>2 DEF FullTypeOK
<1>5. /\ PlacesAreFilledOnce'
      /\ Taken' = Leased' \cup (Taken \ Leased) \cup {s}
      /\ s \notin Taken /\ Taken \ Leased \subseteq pending
  BY <1>1, <1>2, <1>3, PoolPlaceTaken
<1>6. PlacesAreCounted'
  <2>1. Leased \subseteq Scopes /\ pending \subseteq Scopes
    BY <1>1 DEF Leased, FullTypeOK, TypeOK
  <2>2. IsFiniteSet(Leased) /\ IsFiniteSet(pending)
    BY <2>1, FS_Subset DEF PoolConstants
  <2>3. IsFiniteSet(Leased \cup pending) /\ IsFiniteSet(Leased \cap pending)
    BY <2>2, FS_Union, FS_Subset
  <2>4. Cardinality(Leased \cup pending) <= Cardinality(Leased) + Cardinality(pending)
    <3>1. Cardinality(Leased \cup pending)
            = Cardinality(Leased) + Cardinality(pending) - Cardinality(Leased \cap pending)
      BY <2>2, FS_Union
    <3>2. /\ Cardinality(Leased) \in Nat /\ Cardinality(pending) \in Nat
          /\ Cardinality(Leased \cap pending) \in Nat
      BY <2>2, <2>3, FS_CardinalityType
    <3>. QED  BY <3>1, <3>2
  <2>5. Taken \subseteq Leased \cup pending
    BY <1>5
  <2>6. IsFiniteSet(Taken) /\ Cardinality(Taken) <= Cardinality(Leased \cup pending)
    BY <2>3, <2>5, FS_Subset
  <2>7. Cardinality(Leased) + Cardinality(pending) < Capacity
    <3>1. /\ Cardinality(Leased) \in Nat /\ Cardinality(pending) \in Nat
      BY <2>2, FS_CardinalityType
    <3>2. ~(Cardinality(Leased) + Cardinality(pending) >= Capacity)
      BY DEF Full
    <3>. QED  BY <3>1, <3>2 DEF PoolConstants
  <2>8. Taken' = Taken \cup {s}
    BY <1>1, <1>5 DEF Taken
  <2>9. Cardinality(Taken \cup {s}) = Cardinality(Taken) + 1
    BY <1>5, <2>6, FS_AddElement
  <2>10. /\ Cardinality(Taken) \in Nat /\ Cardinality(Leased) \in Nat /\ Cardinality(pending) \in Nat
         /\ Cardinality(Leased \cup pending) \in Nat
    BY <2>2, <2>3, <2>6, FS_CardinalityType
  <2>11. Cardinality(Taken \cup {s}) <= Capacity
    BY <2>4, <2>6, <2>7, <2>9, <2>10 DEF PoolConstants
  <2>. QED  BY <2>8, <2>11 DEF PlacesAreCounted
<1>7. FreshIsSole'
  <2>1. ASSUME NEW d \in Callers PROVE caller'[d].box \in {caller[d].box, None} \cup Rented
    BY <1>2
  <2>2. ASSUME NEW d \in Callers, caller'[d].pc \in Fresh
        PROVE  /\ caller[d].pc \in Fresh /\ caller'[d].box = caller[d].box
               /\ caller[d].box \in dirty' => caller[d].box \in dirty
               /\ caller'[d].pc = "publish" => vm'[caller[d].box] = "up"
    BY <1>2, <1>3, <2>2 DEF IInv, FreshIsSole
  <2>. QED  BY <2>1, <2>2, PoolFreshKept
<1>8. LeaseIsSole' /\ CommandIsLeased' /\ ClosedIsEmpty'
  <2>1. ASSUME NEW d \in Callers
        PROVE  \/ caller'[d] = caller[d]
               \/ /\ caller[d].pc \notin Runs /\ caller'[d].pc \notin Runs
                  /\ caller'[d].pc \in Holds => caller'[d].box \notin Rented
    BY <1>2, <1>3 DEF Runs
  <2>2. \A t \in Leased : vm'[lease[t].box] = "up"
    BY DEF IInv, LeaseIsSole
  <2>. QED  BY <2>1, <2>2, PoolLeasesKept
<1>9. AbandonedIsUp'
  BY DEF IInv, AbandonedIsUp
<1>10. NoneIsForgotten'
  <2>1. ASSUME NEW a \in Boxes, Used(a) PROVE Used(a)'
    BY <1>2, <2>1, PoolStillUsed DEF Holds, Runs
  <2>. QED  BY <2>1 DEF IInv, NoneIsForgotten
<1>. QED  BY <1>4, <1>5, <1>6, <1>7, <1>8, <1>9, <1>10 DEF IInv

LEMMA PoolAcquireEvicts ==
  ASSUME PoolConstants, IInv, NEW c \in Callers, NEW s \in Scopes,
         caller[c].pc = "idle", ~closed, s \notin Leased, s \notin pending, warm # <<>>,
         pending' = pending \cup {s}, lease' = [lease EXCEPT ![Head(warm)] = None],
         warm' = Tail(warm),
         caller' = [caller EXCEPT ![c] =
           [@ EXCEPT !.pc = "evict", !.scope = s, !.box = lease[Head(warm)].box]],
         UNCHANGED <<keepWarm, closed, poisoned, loop, vm, dirty, lost, doomed>>
  PROVE  IInv'
<1> DEFINE h == Head(warm)
           b == lease[h].box
<1>1. FullTypeOK /\ keepWarm
  BY PoolTypes DEF FullTypeOK
<1>2. /\ h \in Range(warm) /\ h \in Leased /\ warm' \in Seq(Scopes) /\ IsInjective(warm')
      /\ \A t : t \in Range(warm') => t \in Range(warm) /\ t # h
  <2>1. PICK L \in Nat : Len(warm) = L /\ DOMAIN warm = 1..L
    BY <1>1, LenProperties DEF FullTypeOK
  <2>2. 1 \in 1..Len(warm) /\ h = warm[1] /\ h \in Range(warm)
    <3>1. L # 0
      BY <1>1, <2>1, EmptySeq DEF FullTypeOK
    <3>2. 1 \in 1..L
      BY <3>1
    <3>. QED  BY <2>1, <3>2 DEF Range
  <2>3. warm' = SubSeq(warm, 1 + 1, Len(warm))
    BY <1>1, TailIsSubSeq DEF FullTypeOK
  <2>4. LET w == SubSeq(warm, 1 + 1, Len(warm)) IN
         /\ w \in Seq(Scopes) /\ IsInjective(w)
         /\ \A t : t \in Range(w) <=> t \in Range(warm) /\ \A i \in 1..1 : warm[i] # t
    BY <1>1, <2>2, PoolRest DEF FullTypeOK, TypeOK
  <2>5. /\ warm' \in Seq(Scopes) /\ IsInjective(warm')
        /\ \A t : t \in Range(warm') <=> t \in Range(warm) /\ \A i \in 1..1 : warm[i] # t
    BY <2>3, <2>4
  <2>6. h \in Leased /\ 1 \in 1..1
    BY <1>1, <2>2 DEF FullTypeOK, TypeOK
  <2>. HIDE DEF h
  <2>. QED  BY <2>2, <2>5, <2>6
<1>3. /\ lease' \in [Scopes -> {None} \cup [box : Boxes, executing : BOOLEAN]]
      /\ Leased' = Leased \ {h} /\ \A t \in Leased \ {h} : lease'[t] = lease[t]
      /\ \A a \in Rented : a # b => a \in Rented'
  BY <1>1, <1>2, PoolUnleased
<1>4. \A t \in Leased : LeaseOf(t)
  BY PoolLeaseOf DEF IInv
<1>5. b \in Boxes /\ h \in Scopes /\ b \in Rented /\ ~lease[h].executing
  BY <1>1, <1>2, <1>4 DEF FullTypeOK, TypeOK, Leased, Rented, LeaseOf
<1>6. /\ caller' \in [Callers -> CallerStates]
      /\ caller'[c].pc = "evict" /\ caller'[c].scope = s /\ caller'[c].box = b
      /\ \A d \in Callers : d # c => caller'[d] = caller[d]
  <2>1. "evict" \in Holds
    BY DEF Holds
  <2>. QED  BY <1>1, <1>5, <2>1 DEF FullTypeOK, CallerStates
<1>7. /\ "evict" \notin Runs \cup Fresh \cup {"idle", "acquired", "fail", "publish", "ended"}
      /\ "evict" \in Filling /\ "evict" \in Holds
  BY DEF Runs, Filling, Fresh, Holds
<1>8. \A t \in Leased \ {h} : lease[t].box # b
  BY <1>2, <1>4 DEF LeaseOf
<1>. HIDE DEF h, b
<1>9. FullTypeOK'
  <2>1. Range(warm)' = Range(warm') /\ IsInjective(warm)' = IsInjective(warm')
    BY DEF Range, IsInjective
  <2>2. Range(warm') \subseteq Leased'
    BY <1>1, <1>2, <1>3 DEF FullTypeOK, TypeOK
  <2>3. TypeOK'
    BY <1>1, <1>2, <1>3, <2>1, <2>2 DEF FullTypeOK, TypeOK
  <2>4. ASSUME NEW d \in Callers
        PROVE  /\ caller'[d].pc # "idle" => caller'[d].scope \in Scopes
               /\ caller'[d].pc \in Holds \cup {"acquired"} => caller'[d].box \in Boxes
    BY <1>1, <1>5, <1>6 DEF FullTypeOK
  <2>. QED  BY <1>1, <1>2, <1>6, <2>3, <2>4 DEF FullTypeOK
<1>10. /\ PlacesAreFilledOnce'
       /\ Taken' = Leased' \cup (Taken \ Leased) \cup {s}
       /\ s \notin Taken /\ Taken \ Leased \subseteq pending
  BY <1>3, <1>6, <1>7, PoolPlaceTaken
<1>11. PlacesAreCounted'
  <2>1. Taken' = (Taken \ {h}) \cup {s} /\ h \in Taken
    BY <1>2, <1>3, <1>10 DEF Taken
  <2>2. Taken \subseteq Scopes
    BY <1>1, <1>10 DEF Leased, FullTypeOK, TypeOK
  <2>3. IsFiniteSet(Taken) /\ Cardinality(Taken) \in Nat
    BY <2>2, FS_Subset, FS_CardinalityType DEF PoolConstants
  <2>4. IsFiniteSet(Taken \ {h}) /\ Cardinality(Taken \ {h}) = Cardinality(Taken) - 1
    BY <2>1, <2>3, FS_RemoveElement
  <2>5. s \notin Taken \ {h}
    BY <1>10
  <2>6. Cardinality((Taken \ {h}) \cup {s}) = Cardinality(Taken \ {h}) + 1
    BY <2>4, <2>5, FS_AddElement
  <2>7. Cardinality(Taken) <= Capacity
    BY DEF IInv, PlacesAreCounted
  <2>8. Cardinality((Taken \ {h}) \cup {s}) <= Capacity
    BY <2>3, <2>4, <2>6, <2>7 DEF PoolConstants
  <2>. QED  BY <2>1, <2>8 DEF PlacesAreCounted
<1>12. FreshIsSole'
  <2>1. ASSUME NEW d \in Callers PROVE caller'[d].box \in {caller[d].box, None} \cup Rented
    BY <1>5, <1>6
  <2>2. ASSUME NEW d \in Callers, caller'[d].pc \in Fresh
        PROVE  /\ caller[d].pc \in Fresh /\ caller'[d].box = caller[d].box
               /\ caller[d].box \in dirty' => caller[d].box \in dirty
               /\ caller'[d].pc = "publish" => vm'[caller[d].box] = "up"
    BY <1>6, <1>7, <2>2 DEF IInv, FreshIsSole
  <2>. QED  BY <2>1, <2>2, PoolFreshKept
<1>13. LeaseIsSole'
  <2>1. ASSUME NEW t \in Leased \ {h} PROVE LeaseOf(t)'
    <3>1. LeaseOf(t) /\ lease'[t] = lease[t] /\ lease[t].box # b
      BY <1>3, <1>4, <1>8
    <3>2. \A d \in Callers : caller'[d].pc \in Holds /\ caller'[d].box = lease[t].box =>
            caller'[d].pc \in Runs /\ caller'[d].scope = t /\ lease[t].executing
      BY <1>6, <3>1 DEF LeaseOf
    <3>3. lease[t].box \in dirty =>
            \E d \in Callers : /\ caller'[d].pc = "ended" /\ caller'[d].bad
                              /\ caller'[d].scope = t /\ caller'[d].box = lease[t].box
      BY <1>6, <3>1 DEF LeaseOf
    <3>4. t \in Range(warm)' => ~lease[t].executing
      <4>1. Range(warm)' = Range(warm')
        BY DEF Range
      <4>. QED  BY <1>2, <3>1, <4>1 DEF LeaseOf
    <3>. QED  BY <1>3, <3>1, <3>2, <3>3, <3>4 DEF LeaseOf
  <2>2. LeaseIsSole' <=> \A t \in Leased' : LeaseOf(t)'
    BY DEF LeaseIsSole, LeaseOf
  <2>. QED  BY <1>3, <2>1, <2>2
<1>14. CommandIsLeased'
  <2>1. ASSUME NEW d \in Callers, caller'[d].pc \in Runs
        PROVE  d # c /\ caller'[d] = caller[d] /\ caller[d].pc \in Runs
    BY <1>6, <1>7, <2>1
  <2>2. ASSUME NEW d \in Callers, caller[d].pc \in Runs
        PROVE  caller[d].scope \in Leased \ {h} /\ lease[caller[d].scope].box = caller[d].box
    <3>1. caller[d].scope \in Leased /\ lease[caller[d].scope].box = caller[d].box
      BY <2>2 DEF IInv, CommandIsLeased
    <3>2. lease[caller[d].scope].executing
      BY <1>4, <2>2, <3>1 DEF LeaseOf, Holds
    <3>. QED  BY <1>5, <3>1, <3>2
  <2>. QED  BY <1>3, <2>1, <2>2 DEF IInv, CommandIsLeased
<1>15. AbandonedIsUp' /\ ClosedIsEmpty'
  BY DEF IInv, AbandonedIsUp, ClosedIsEmpty
<1>16. NoneIsForgotten'
  <2>1. ASSUME NEW a \in Boxes, Used(a) PROVE Used(a)'
    <3>1. CASE a = b
      BY <1>6, <1>7, <3>1 DEF Used
    <3>2. CASE a \in Rented /\ a # b
      BY <1>3, <3>2 DEF Used
    <3>3. CASE \E w \in Sweepers : a \in doomed[w]
      BY <3>3 DEF Used
    <3>4. CASE \E d \in Callers : caller[d].pc \in Holds /\ caller[d].box = a
      <4>1. "idle" \notin Holds
        BY DEF Holds, Runs
      <4>. QED  BY <1>6, <3>4, <4>1 DEF Used
    <3>. QED  BY <2>1, <3>1, <3>2, <3>3, <3>4 DEF Used
  <2>. QED  BY <2>1 DEF IInv, NoneIsForgotten
<1>. QED  BY <1>9, <1>10, <1>11, <1>12, <1>13, <1>14, <1>15, <1>16 DEF IInv

LEMMA PoolAcquire ==
  ASSUME PoolConstants, IInv, NEW c \in Callers, NEW s \in Scopes, Acquire(c, s) PROVE IInv'
<1>1. caller[c].pc = "idle" /\ ~closed
      /\ UNCHANGED <<keepWarm, closed, poisoned, loop, vm, dirty, lost, doomed>>
  BY DEF Acquire, At
<1>2. CASE /\ s \in Range(warm) /\ warm' = Without(s)
           /\ caller' = [caller EXCEPT ![c] = [@ EXCEPT !.pc = "ready", !.scope = s]]
           /\ UNCHANGED <<lease, pending>>
  BY <1>1, <1>2, PoolAcquireWarm
<1>3. CASE /\ s \notin Leased \cup pending /\ ~Full /\ pending' = pending \cup {s}
           /\ caller' = [caller EXCEPT ![c] = [@ EXCEPT !.pc = "start", !.scope = s]]
           /\ UNCHANGED <<lease, warm>>
  BY <1>1, <1>3, PoolAcquireNew
<1>4. CASE /\ s \notin Leased \cup pending /\ warm # <<>> /\ pending' = pending \cup {s}
           /\ lease' = [lease EXCEPT ![Head(warm)] = None] /\ warm' = Tail(warm)
           /\ caller' = [caller EXCEPT ![c] =
                [@ EXCEPT !.pc = "evict", !.scope = s, !.box = lease[Head(warm)].box]]
  BY <1>1, <1>4, PoolAcquireEvicts
<1>. QED  BY <1>2, <1>3, <1>4 DEF Acquire

-----------------------------------------------------------------------------
(* At first there is nothing. *)
LEMMA PoolInit == ASSUME PoolConstants, Init PROVE IInv
<1>1. /\ Leased = {} /\ Range(<<>>) = {} /\ warm = <<>> /\ warm \in Seq(Scopes)
      /\ IsInjective(<<>>)
  BY DEF Init, Leased, Range, IsInjective
<1>2. TypeOK
  BY <1>1 DEF Init, TypeOK
<1>3. /\ NoCaller \in CallerStates /\ NoCaller.pc = "idle"
      /\ "idle" \notin Holds \cup Filling \cup Fresh \cup Runs \cup {"acquired", "fail"}
  BY DEF NoCaller, CallerStates, Holds, Filling, Fresh, Runs
<1>4. \A c \in Callers : caller[c] = NoCaller
  BY DEF Init
<1>5. FullTypeOK
  BY <1>1, <1>2, <1>3, <1>4 DEF Init, FullTypeOK
<1>6. PlacesAreFilledOnce /\ FreshIsSole /\ CommandIsLeased
  BY <1>3, <1>4 DEF PlacesAreFilledOnce, FreshIsSole, CommandIsLeased
<1>7. PlacesAreCounted
  <2>1. Taken = {}
    BY <1>1, <1>3, <1>4 DEF Taken
  <2>2. Cardinality({}) = 0
    BY FS_EmptySet
  <2>. QED  BY <2>1, <2>2 DEF PlacesAreCounted, PoolConstants
<1>8. LeaseIsSole /\ AbandonedIsUp /\ ClosedIsEmpty
  BY <1>1 DEF Init, LeaseIsSole, AbandonedIsUp, ClosedIsEmpty, Sweepers
<1>9. NoneIsForgotten
  BY DEF Init, NoneIsForgotten
<1>. QED  BY <1>5, <1>6, <1>7, <1>8, <1>9 DEF IInv

(* Every step keeps it. *)
LEMMA PoolCalls == ASSUME PoolConstants, IInv, NEW c \in Callers, Call(c) PROVE IInv'
<1>1. CASE \E s \in Scopes : Acquire(c, s)
  BY <1>1, PoolAcquire
<1>2. CASE Evict(c) \/ Start(c) \/ Started(c) \/ StartFails(c) \/ StartGivenUp(c)
  BY <1>2, PoolEvict, PoolStart, PoolStarted, PoolStartFails, PoolStartGivenUp
<1>3. CASE Publish(c) \/ Discard(c) \/ Settle(c)
  BY <1>3, PoolPublish, PoolDiscard, PoolSettle
<1>4. CASE Execute(c) \/ CommandEnds(c) \/ AfterCommand(c) \/ Invalidate(c) \/ Release(c)
  BY <1>4, PoolExecute, PoolCommandEnds, PoolAfterCommand, PoolInvalidate, PoolRelease
<1>. QED  BY <1>1, <1>2, <1>3, <1>4 DEF Call

LEMMA PoolStutters == ASSUME IInv, UNCHANGED vars PROVE IInv'
<1>1. /\ FullTypeOK' /\ PlacesAreFilledOnce' /\ PlacesAreCounted'
  BY DEF IInv, vars, FullTypeOK, TypeOK, Leased, Range, IsInjective, PlacesAreFilledOnce,
     PlacesAreCounted,
         Taken
<1>2. FreshIsSole' /\ LeaseIsSole' /\ CommandIsLeased'
  BY DEF IInv, vars, FreshIsSole, LeaseIsSole, CommandIsLeased, Leased, Range
<1>3. AbandonedIsUp' /\ NoneIsForgotten' /\ ClosedIsEmpty'
  BY DEF IInv, vars, AbandonedIsUp, NoneIsForgotten, Used, Rented, Leased, ClosedIsEmpty
<1>. QED  BY <1>1, <1>2, <1>3 DEF IInv

LEMMA PoolStep == ASSUME PoolConstants, IInv, [Next]_vars PROVE IInv'
<1>1. CASE \E c \in Callers : Call(c)
  BY <1>1, PoolCalls
<1>2. CASE \E b \in Boxes : VmUp(b) \/ CancelledStartEnds(b)
  BY <1>2, PoolVmUp, PoolCancelledEnds
<1>3. CASE \E b \in Boxes, w \in Sweepers : Sweep(w, b)
  BY <1>3, PoolSweep
<1>4. CASE Reap \/ Shutdown \/ StopLoop
  BY <1>4, PoolReap, PoolShutdown, PoolStopLoop
<1>5. CASE UNCHANGED vars
  BY <1>5, PoolStutters
<1>. QED  BY <1>1, <1>2, <1>3, <1>4, <1>5 DEF Next

(* What is counted has a place each, and what is up is of somebody.            *)
LEMMA PoolHoldsCapacity == ASSUME PoolConstants, IInv PROVE CapacityHolds
<1>1. TypeOK /\ FullTypeOK
  BY DEF IInv, FullTypeOK
<1> DEFINE f == [s \in Taken |-> IF s \in Leased THEN lease[s].box
                                 ELSE caller[CHOOSE c \in Callers : caller[c].pc \in Filling
                                                                   /\ caller[c].scope = s].box]
           T == {f[s] : s \in Taken}
<1>2. IsFiniteSet(Taken) /\ Cardinality(Taken) \in Nat
  <2>1. Taken \subseteq Scopes
    BY <1>1 DEF Taken, Leased, FullTypeOK, Filling
  <2>. QED  BY <2>1, FS_Subset, FS_CardinalityType DEF PoolConstants
<1>3. IsFiniteSet(T) /\ Cardinality(T) <= Cardinality(Taken)
  <2>1. f \in Surjection(Taken, T)
    BY DEF Surjection
  <2>. HIDE DEF f, T
  <2>. QED  BY <1>2, <2>1, FS_Surjection
<1>4. Counted \subseteq T
  <2>1. ASSUME NEW s \in Leased PROVE lease[s].box \in T
    <3>1. s \in Taken /\ f[s] = lease[s].box
      BY DEF Taken
    <3>. HIDE DEF f
    <3>. QED  BY <3>1
  <2>2. ASSUME NEW c \in Callers, caller[c].pc \in Acquiring PROVE caller[c].box \in T
    <3>1. caller[c].pc \in Filling
      BY <2>2 DEF Filling, Acquiring
    <3> DEFINE s == caller[c].scope
               d == CHOOSE e \in Callers : caller[e].pc \in Filling /\ caller[e].scope = s
    <3>2. s \in Taken /\ s \notin Leased
      BY <3>1 DEF Taken, IInv, PlacesAreFilledOnce
    <3>3. d \in Callers /\ caller[d].pc \in Filling /\ caller[d].scope = s
      BY <3>1
    <3>4. d = c
      <4>. HIDE DEF d
      <4>. QED  BY <3>1, <3>3 DEF IInv, PlacesAreFilledOnce
    <3>5. f[s] = caller[d].box
      BY <3>2
    <3>. HIDE DEF f, d, s
    <3>. QED  BY <3>2, <3>4, <3>5
  <2>. HIDE DEF T
  <2>. QED  BY <2>1, <2>2 DEF Counted
<1>. HIDE DEF T, f
<1>5. Cardinality(Counted) <= Capacity
  <2>1. IsFiniteSet(Counted) /\ Cardinality(Counted) <= Cardinality(T)
    BY <1>3, <1>4, FS_Subset
  <2>2. Cardinality(Counted) \in Nat /\ Cardinality(T) \in Nat
    BY <1>3, <2>1, FS_CardinalityType
  <2>3. Cardinality(Taken) <= Capacity
    BY DEF IInv, PlacesAreCounted
  <2>. QED  BY <1>2, <1>3, <2>1, <2>2, <2>3 DEF PoolConstants
<1>6. Live \subseteq Counted \cup GoingDown \cup lost \/ poisoned
  <2>1. ASSUME NEW b \in Boxes, Used(b) PROVE b \in Counted \cup GoingDown
    <3>1. CASE b \in Rented
      BY <3>1 DEF Rented, Counted
    <3>2. CASE \E w \in Sweepers : b \in doomed[w]
      BY <3>2 DEF Sweepers, GoingDown
    <3>3. ASSUME NEW c \in Callers, caller[c].pc \in Holds, caller[c].box = b
          PROVE  b \in Counted \cup GoingDown
      BY <3>3 DEF Holds, Runs, Counted, Acquiring, GoingDown
    <3>. QED  BY <2>1, <3>1, <3>2, <3>3 DEF Used
  <2>. QED  BY <2>1 DEF IInv, NoneIsForgotten, Live
<1>. QED  BY <1>1, <1>5, <1>6 DEF CapacityHolds

(* The steps: a command gets a VM of its own, and keeps it while it is waited  *)
(* for.                                                                     *)
LEMMA PoolStartsAlone ==
  ASSUME PoolConstants, IInv, [Next]_vars PROVE CommandStartsAlone
<1> SUFFICES ASSUME NEW c \in Callers, At(c, "ready"), caller'[c].pc = "running"
             PROVE  /\ vm[caller'[c].box] = "up" /\ caller'[c].box \notin dirty
                    /\ \A d \in Callers \ {c} : At(d, "running") => caller[d].box # caller'[c].box
  BY DEF CommandStartsAlone
<1>1. FullTypeOK /\ caller[c].pc = "ready"
  BY PoolTypes DEF At
<1>2. Execute(c)
  <2>1. ASSUME NEW d \in Callers, d # c, Call(d) PROVE caller'[c] = caller[c]
    BY <1>1, <2>1 DEF Call, Acquire, Evict, Start, Started, StartFails, StartGivenUp, Publish,
       Discard,
       Settle, Execute, CommandEnds, AfterCommand, Invalidate, Release, Go, Leave, FullTypeOK
  <2>2. ASSUME Call(c) PROVE Execute(c)
    BY <1>1, <2>2 DEF Call, Acquire, Evict, Start, Started, StartFails, StartGivenUp, Publish,
       Discard,
       Settle, CommandEnds, AfterCommand, Invalidate, Release, At
  <2>3. CASE \E b \in Boxes : VmUp(b) \/ CancelledStartEnds(b) \/ \E w \in Sweepers : Sweep(w, b)
    BY <1>1, <2>3 DEF VmUp, CancelledStartEnds, Sweep
  <2>4. CASE Reap \/ Shutdown \/ StopLoop \/ UNCHANGED vars
    BY <1>1, <2>4 DEF Reap, Shutdown, StopLoop, vars
  <2>5. CASE \E d \in Callers : Call(d)
    BY <1>1, <2>1, <2>2, <2>5
  <2>. QED  BY <2>3, <2>4, <2>5 DEF Next
<1> DEFINE s == caller[c].scope
<1>3. s \in Leased /\ s \notin Range(warm) /\ ~lease[s].executing /\ caller'[c].box = lease[s].box
  BY <1>1, <1>2 DEF Execute, Active, Go, FullTypeOK, CallerStates
<1>4. LeaseOf(s)
  BY <1>3, PoolLeaseOf DEF IInv
<1>. HIDE DEF s
<1>. QED  BY <1>3, <1>4 DEF LeaseOf, Holds, Runs, At

(* A running caller goes on running its VM, or its command ends.               *)
LEMMA PoolRunsOn ==
  ASSUME IInv, [Next]_vars, NEW c \in Callers, caller[c].pc = "running"
  PROVE  caller'[c].pc \in Runs /\ caller'[c].box = caller[c].box /\ caller'[c].scope = caller[c].scope
<1>1. FullTypeOK /\ "running" \in Runs /\ "ended" \in Runs
  BY PoolTypes DEF Runs
<1>2. ASSUME NEW d \in Callers, d # c, Call(d) PROVE caller'[c] = caller[c]
  BY <1>1, <1>2 DEF Call, Acquire, Evict, Start, Started, StartFails, StartGivenUp, Publish,
     Discard,
     Settle, Execute, CommandEnds, AfterCommand, Invalidate, Release, Go, Leave, FullTypeOK
<1>3. ASSUME Call(c) PROVE CommandEnds(c)
  BY <1>1, <1>3 DEF Call, Acquire, Evict, Start, Started, StartFails, StartGivenUp, Publish,
     Discard,
     Settle, Execute, AfterCommand, Invalidate, Release, At
<1>4. CASE CommandEnds(c)
  BY <1>1, <1>4 DEF CommandEnds, FullTypeOK, CallerStates
<1>5. CASE \E b \in Boxes : VmUp(b) \/ CancelledStartEnds(b) \/ \E w \in Sweepers : Sweep(w, b)
  BY <1>1, <1>5 DEF VmUp, CancelledStartEnds, Sweep
<1>6. CASE Reap \/ Shutdown \/ StopLoop \/ UNCHANGED vars
  BY <1>1, <1>6 DEF Reap, Shutdown, StopLoop, vars
<1>7. CASE \E d \in Callers : Call(d)
  BY <1>1, <1>2, <1>3, <1>4, <1>7
<1>. QED  BY <1>5, <1>6, <1>7 DEF Next

LEMMA PoolStopsNone ==
  ASSUME PoolConstants, IInv, [Next]_vars PROVE StopsNoWaitedCommand
<1> SUFFICES ASSUME NEW c \in Callers, caller[c].pc = "running", vm'[caller[c].box] = "none", ~closed
             PROVE  FALSE
  BY DEF StopsNoWaitedCommand, At
<1>1. IInv'
  BY PoolStep
<1>2. caller'[c].pc \in Runs /\ caller'[c].box = caller[c].box /\ caller'[c].scope = caller[c].scope
  BY PoolRunsOn
<1>3. CASE ~closed'
  <2>1. caller'[c].scope \in Leased' /\ lease'[caller'[c].scope].box = caller[c].box
    BY <1>1, <1>2, <1>3 DEF IInv, CommandIsLeased
  <2>2. vm'[lease'[caller'[c].scope].box] = "up"
    BY <1>1, <2>1 DEF IInv, LeaseIsSole
  <2>. QED  BY <2>1, <2>2
<1>4. CASE closed'
  <2>1. Shutdown
    BY <1>4 DEF Next, vars, Call, Acquire, Evict, Start, Started, StartFails, StartGivenUp,
       Publish, Discard,
       Settle, Execute, CommandEnds, AfterCommand, Invalidate, Release, VmUp, CancelledStartEnds, Sweep,
       Reap, StopLoop
  <2>2. vm' = vm
    BY <2>1 DEF Shutdown
  <2>3. caller[c].scope \in Leased /\ lease[caller[c].scope].box = caller[c].box
    BY DEF IInv, CommandIsLeased, Runs
  <2>4. vm[lease[caller[c].scope].box] = "up"
    BY <2>3 DEF IInv, LeaseIsSole
  <2>. QED  BY <2>2, <2>3, <2>4
<1>. QED  BY <1>3, <1>4

(* Whatever callers start, evict, invalidate and release at the same time,     *)
(* beside the reaper and a shutdown: the capacity holds and no VM is          *)
(* forgotten, and a command has its VM, up and for itself, until a shutdown.  *)
THEOREM PoolIsHardCapped ==
  ASSUME PoolConstants PROVE Spec => []CapacityHolds /\ [][CommandOwnsItsVm]_vars
<1>1. Init => IInv
  BY PoolInit
<1>2. IInv /\ [Next]_vars => IInv'
  BY PoolStep
<1>3. IInv => CapacityHolds
  BY PoolHoldsCapacity
<1>4. IInv /\ [Next]_vars => CommandOwnsItsVm
  BY PoolStartsAlone, PoolStopsNone DEF CommandOwnsItsVm
<1>. QED  BY <1>1, <1>2, <1>3, <1>4, PTL DEF Spec
=============================================================================
