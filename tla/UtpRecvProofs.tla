---------------------------- MODULE UtpRecvProofs ----------------------------
(***************************************************************************)
(* Proofs about the receive half: what its reorder buffer holds, for every  *)
(* modulus, ring size, window and order of arrival.                         *)
(***************************************************************************)
EXTENDS UtpRecv, ArithLemmas, FiniteSetTheorems, SequenceTheorems, TLAPS

-----------------------------------------------------------------------------
(* Slots and sequence numbers. *)

\* A power of two divides the modulus.
LEMMA PowerType ==
  ASSUME NEW n \in PowersOfTwo
  PROVE  n \in Nat \ {0} /\ n <= SeqMod /\ \E k \in 1 .. SeqMod : SeqMod = k * n
<1>1. n \in 1 .. SeqMod /\ \E k \in 1 .. SeqMod : SeqMod = k * n
  BY Zenon DEF PowersOfTwo
<1>2. n \in Nat \ {0} /\ n <= SeqMod
  <2>1. n \in 1 .. SeqMod
    BY <1>1
  <2> QED BY <2>1, SeqModAssumption
<1> QED BY <1>1, <1>2

\* The slot of a number survives a turn of the sequence space.
LEMMA WrapSlot ==
  ASSUME NEW n \in PowersOfTwo, NEW a \in Int
  PROVE  (a + SeqMod) % n = a % n /\ (a - SeqMod) % n = a % n
<1>1. n \in Nat \ {0} /\ SeqMod \in Nat
  BY PowerType, SeqModAssumption
<1>2. PICK k \in 1 .. SeqMod : SeqMod = k * n
  BY PowerType
<1>3. k \in Int /\ -k \in Int /\ (-k) * n = -(k * n)
  BY <1>1, <1>2
<1>4. a + SeqMod \in Int /\ a - SeqMod \in Int /\ (a + SeqMod) - a = k * n /\ (a - SeqMod) - a = (-k) * n
  BY <1>1, <1>2, <1>3
<1>5. (a + SeqMod) % n = a % n
  BY <1>1, <1>3, <1>4, MultipleApart
<1>6. (a - SeqMod) % n = a % n
  BY <1>1, <1>3, <1>4, MultipleApart
<1> QED BY <1>5, <1>6

\* Two numbers less than n apart that share a slot are the same.
LEMMA NearSlots ==
  ASSUME NEW n \in Nat \ {0}, NEW a \in Int, NEW b \in Int, a % n = b % n, a - b < n, b - a < n
  PROVE  a = b
<1>1. PICK j \in Int : a - b = j * n
  BY SameSlot
<1>2. PICK i \in Int : b - a = i * n
  BY SameSlot
<1>3. n \in Nat
  OBVIOUS
<1>4. ~(j * n > 0)
  BY <1>1, <1>3, NoMultipleBetween
<1>5. ~(i * n > 0)
  BY <1>2, <1>3, NoMultipleBetween
<1> QED BY <1>1, <1>2, <1>4, <1>5

\* The slot of the packet j places after isn, wrapped or not.
LEMMA SeqSlot ==
  ASSUME NEW n \in PowersOfTwo, NEW s \in SeqNr, NEW j \in Nat, NEW c \in Int
  PROVE  (wrapping_add(s, j) + c) % n = (s + j + c) % n
<1>1. s \in Int /\ SeqMod \in Int /\ s + j + c \in Int
  BY SeqModAssumption DEF SeqNr
<1>2. CASE s + j >= SeqMod
  <2>1. wrapping_add(s, j) + c = (s + j + c) - SeqMod
    BY <1>1, <1>2 DEF wrapping_add
  <2> QED BY <1>1, <2>1, WrapSlot
<1>3. CASE ~(s + j >= SeqMod)
  BY <1>3 DEF wrapping_add
<1> QED BY <1>2, <1>3

-----------------------------------------------------------------------------
(* What the ring holds: the packets K, each at its own slot, all of them    *)
(* ahead of the position p and less than a ring length away from it.        *)

Holds(b, p, K) ==
  /\ DOMAIN b = {"size", "slots"}
  /\ b.size \in PowersOfTwo
  /\ DOMAIN b.slots = 0 .. b.size - 1
  /\ \A j \in K : j \in 1 .. Packets /\ j - p \in 2 .. b.size - 1
  /\ \A j \in K : b.slots[(isn + j) % b.size] = j
  /\ \A s \in 0 .. b.size - 1 : b.slots[s] # None =>
       b.slots[s] \in K /\ s = (isn + b.slots[s]) % b.size

HoldsType == isn \in SeqNr

\* Types that follow from it.
LEMMA HoldsTypes ==
  ASSUME NEW b, NEW p \in Int, NEW K, Holds(b, p, K)
  PROVE  /\ b.size \in PowersOfTwo /\ b.size \in Nat \ {0} /\ b.size <= SeqMod
         /\ \A j \in K : j \in Nat /\ j # None /\ p + 2 <= j /\ j < p + b.size /\ 1 <= j /\ j <= Packets
<1>1. b.size \in PowersOfTwo
  BY DEF Holds
<1>2. b.size \in Nat \ {0} /\ b.size <= SeqMod
  BY <1>1, PowerType
<1>3. \A j \in K : j \in 1 .. Packets /\ j - p \in 2 .. b.size - 1
  BY DEF Holds
<1>4. ASSUME NEW j \in K
      PROVE  j \in Nat /\ j # None /\ p + 2 <= j /\ j < p + b.size /\ 1 <= j /\ j <= Packets
  <2>1. j \in 1 .. Packets /\ j - p \in 2 .. b.size - 1
    BY <1>3
  <2>2. j \in Nat
    BY <2>1, RecvAssumption
  <2> QED BY <1>2, <2>1, <2>2, RecvAssumption
<1> QED BY <1>1, <1>2, <1>4

\* Nothing but packet p + c is found in the slot of packet p + c.
LEMMA Lookup ==
  ASSUME NEW b, NEW p \in Int, NEW K, Holds(b, p, K), HoldsType,
         NEW c \in Int, c >= 1, c <= b.size + 1, get(b, isn + p + c) # None
  PROVE  p + c \in K /\ get(b, isn + p + c) = p + c
<1> DEFINE s == (isn + p + c) % b.size
           j == b.slots[s]
<1>0. isn \in Int
  BY SeqModAssumption DEF HoldsType, SeqNr
<1>1. b.size \in Nat \ {0}
  BY HoldsTypes
<1>2. s \in 0 .. b.size - 1
  <2>1. isn + p + c \in Int
    BY <1>0
  <2> QED BY <1>1, <2>1
<1>3. j # None
  BY DEF get
<1>4. j \in K /\ s = (isn + j) % b.size
  BY <1>2, <1>3 DEF Holds
<1>5. j \in Nat /\ p + 2 <= j /\ j < p + b.size
  BY <1>4, HoldsTypes
<1> HIDE DEF j
<1>6. isn + p + c = isn + j
  <2>1. isn + p + c \in Int /\ isn + j \in Int
    BY <1>0, <1>5
  <2>2. (isn + p + c) - (isn + j) < b.size /\ (isn + j) - (isn + p + c) < b.size
    BY <1>0, <1>1, <1>5
  <2> QED BY <1>1, <1>4, <2>1, <2>2, NearSlots
<1>7. p + c = j
  BY <1>0, <1>5, <1>6
<1> QED BY <1>4, <1>7 DEF get, j

\* K is what the slots hold.
LEMMA HoldsHeld ==
  ASSUME NEW b, NEW p \in Int, NEW K, Holds(b, p, K), HoldsType
  PROVE  {b.slots[s] : s \in DOMAIN b.slots} \ {None} = K
<1>1. b.size \in Nat \ {0} /\ \A j \in K : j \in Nat /\ j # None
  BY HoldsTypes
<1>2. DOMAIN b.slots = 0 .. b.size - 1
  BY DEF Holds
<1>3. ASSUME NEW s \in DOMAIN b.slots, b.slots[s] # None PROVE b.slots[s] \in K
  BY <1>2, <1>3 DEF Holds
<1>4. ASSUME NEW j \in K PROVE j # None /\ \E s \in DOMAIN b.slots : b.slots[s] = j
  <2> DEFINE s == (isn + j) % b.size
  <2>1. isn + j \in Int
    BY <1>1, SeqModAssumption DEF HoldsType, SeqNr
  <2>2. s \in 0 .. b.size - 1
    BY <1>1, <2>1
  <2>3. b.slots[s] = j
    BY DEF Holds
  <2> QED BY <1>1, <1>2, <2>2, <2>3
<1> QED BY <1>3, <1>4

\* There are fewer of them than slots.
LEMMA HoldsFinite ==
  ASSUME NEW b, NEW p \in Int, NEW K, Holds(b, p, K)
  PROVE  /\ IsFiniteSet(K) /\ Cardinality(K) \in Nat
         /\ Cardinality(K) > 0 => Cardinality(K) <= b.size - 2
<1>1. b.size \in Nat \ {0} /\ \A j \in K : j \in Nat /\ p + 2 <= j /\ j < p + b.size
  BY HoldsTypes
<1> DEFINE I == (p + 2) .. (p + b.size - 1)
<1>2. K \subseteq I
  BY <1>1
<1>3. IsFiniteSet(I) /\ Cardinality(I) = IF p + 2 > p + b.size - 1 THEN 0 ELSE b.size - 2
  <2>1. p + 2 \in Int /\ p + b.size - 1 \in Int
    BY <1>1
  <2>2. /\ IsFiniteSet(I)
        /\ Cardinality(I) = IF p + 2 > p + b.size - 1 THEN 0 ELSE (p + b.size - 1) - (p + 2) + 1
    BY <2>1, FS_Interval
  <2> QED BY <1>1, <2>2
<1>4. IsFiniteSet(K) /\ Cardinality(K) <= Cardinality(I)
  BY <1>2, <1>3, FS_Subset
<1>5. Cardinality(K) \in Nat
  BY <1>4, FS_CardinalityType
<1> QED BY <1>1, <1>3, <1>4, <1>5

-----------------------------------------------------------------------------
(* The operations of the ring. *)

\* Taking out the n packets after p + 1 leaves the others where they are; the
\* position may then move past them when the next one is not there.
LEMMA TakeHolds ==
  ASSUME NEW b, NEW p \in Nat, NEW K, Holds(b, p, K), HoldsType, NEW n \in Nat,
         p < SeqMod,
         \A c \in 2 .. n + 1 : p + c \in K, p + n + 2 \notin K
  PROVE  Holds(take(b, wrapping_add(isn, p) + 2 .. wrapping_add(isn, p) + n + 1), p + n + 1,
               K \ (p + 2 .. p + n + 1))
<1> DEFINE a == wrapping_add(isn, p)
           X == a + 2 .. a + n + 1
           L == K \ (p + 2 .. p + n + 1)
           v == take(b, X)
<1>0. isn \in Int /\ isn \in SeqNr /\ a \in Int /\ p \in Int
  BY SeqModAssumption DEF HoldsType, SeqNr, wrapping_add
<1>1. /\ b.size \in PowersOfTwo /\ b.size \in Nat \ {0}
      /\ \A j \in K : j \in Nat /\ j # None /\ p + 2 <= j /\ j < p + b.size /\ 1 <= j /\ j <= Packets
  BY <1>0, HoldsTypes
<1>2. /\ DOMAIN b = {"size", "slots"} /\ DOMAIN b.slots = 0 .. b.size - 1
      /\ \A j \in K : b.slots[(isn + j) % b.size] = j
      /\ \A s \in 0 .. b.size - 1 : b.slots[s] # None =>
           b.slots[s] \in K /\ s = (isn + b.slots[s]) % b.size
  BY DEF Holds
<1>3. /\ DOMAIN v = {"size", "slots"} /\ v.size = b.size
      /\ v.slots = [s \in 0 .. b.size - 1 |->
                     IF \E x \in X : x % b.size = s THEN None ELSE b.slots[s]]
  BY <1>2 DEF take
<1> HIDE DEF v
<1>4. \A c \in Int : (a + c) % b.size = (isn + p + c) % b.size
  BY <1>0, <1>1, SeqSlot
<1> HIDE DEF a
<1>5. ASSUME NEW j \in K
      PROVE  /\ (isn + j) % b.size \in 0 .. b.size - 1
             /\ (\E x \in X : x % b.size = (isn + j) % b.size) <=> j \in p + 2 .. p + n + 1
  <2>1. isn + j \in Int /\ j \in Int
    BY <1>0, <1>1
  <2>2. (isn + j) % b.size \in 0 .. b.size - 1
    BY <1>1, <2>1
  <2>3. ASSUME NEW x \in X, x % b.size = (isn + j) % b.size PROVE j \in p + 2 .. p + n + 1
    <3> DEFINE c == x - a
    <3>1. c \in Int /\ c \in 2 .. n + 1 /\ x = a + c
      BY <1>0
    <3>2. (isn + p + c) % b.size = (isn + j) % b.size
      BY <1>4, <2>3, <3>1
    <3>3. p + c \in K
      BY <3>1
    <3>4. isn + (p + c) = isn + p + c
      BY <1>0, <3>1
    <3>5. b.slots[(isn + (p + c)) % b.size] = p + c /\ b.slots[(isn + j) % b.size] = j
      BY <1>2, <3>3
    <3>6. p + c = j
      BY <3>2, <3>4, <3>5
    <3> QED BY <1>0, <3>1, <3>6
  <2>4. ASSUME j \in p + 2 .. p + n + 1 PROVE \E x \in X : x % b.size = (isn + j) % b.size
    <3> DEFINE c == j - p
    <3>1. c \in Int /\ a + c \in X /\ isn + p + c = isn + j
      BY <1>0, <2>1, <2>4
    <3>2. (a + c) % b.size = (isn + j) % b.size
      BY <1>4, <3>1
    <3> QED BY <3>1, <3>2
  <2> QED BY <2>2, <2>3, <2>4
<1>6. ASSUME NEW j \in L
      PROVE  /\ j \in 1 .. Packets /\ j - (p + n + 1) \in 2 .. b.size - 1
             /\ v.slots[(isn + j) % b.size] = j
  <2>1. j \in K /\ j \notin p + 2 .. p + n + 1 /\ j # p + n + 2
    OBVIOUS
  <2>2. j \in Nat /\ p + 2 <= j /\ j < p + b.size /\ 1 <= j /\ j <= Packets
    BY <1>1, <2>1
  <2>3. j \in 1 .. Packets /\ j - (p + n + 1) \in 2 .. b.size - 1
    <3>1. Packets \in Nat /\ b.size \in Nat
      BY <1>1, RecvAssumption
    <3>2. j >= p + n + 3
      BY <2>1, <2>2
    <3> HIDE DEF L, X
    <3> QED BY <2>2, <3>1, <3>2
  <2>4. v.slots[(isn + j) % b.size] = j
    <3>1. /\ (isn + j) % b.size \in 0 .. b.size - 1
          /\ ~(\E x \in X : x % b.size = (isn + j) % b.size)
      BY <1>5, <2>1, Zenon
    <3>2. v.slots[(isn + j) % b.size] = b.slots[(isn + j) % b.size]
      <4> HIDE DEF X
      <4> QED BY <1>3, <3>1, Zenon
    <3> QED BY <1>2, <2>1, <3>2, Zenon
  <2> QED BY <2>3, <2>4
<1>7. ASSUME NEW s \in 0 .. b.size - 1, v.slots[s] # None
      PROVE  v.slots[s] \in L /\ s = (isn + v.slots[s]) % b.size
  <2>1. v.slots[s] = b.slots[s] /\ ~(\E x \in X : x % b.size = s)
    BY <1>3, <1>7
  <2>2. b.slots[s] \in K /\ s = (isn + b.slots[s]) % b.size
    BY <1>2, <1>7, <2>1
  <2>3. b.slots[s] \notin p + 2 .. p + n + 1
    BY <1>5, <2>1, <2>2
  <2> QED BY <2>1, <2>2, <2>3
<1>8. Holds(v, p + n + 1, L)
  <2>1. DOMAIN v.slots = 0 .. v.size - 1
    BY <1>3
  <2>2. \A j \in L : j \in 1 .. Packets /\ j - (p + n + 1) \in 2 .. v.size - 1
    BY <1>3, <1>6
  <2>3. \A j \in L : v.slots[(isn + j) % v.size] = j
    BY <1>3, <1>6
  <2>4. \A s \in 0 .. v.size - 1 : v.slots[s] # None =>
          v.slots[s] \in L /\ s = (isn + v.slots[s]) % v.size
    BY <1>3, <1>7
  <2> HIDE DEF L
  <2> QED BY <1>1, <1>3, <2>1, <2>2, <2>3, <2>4 DEF Holds
<1> QED BY <1>8 DEF v, a

\* Putting a packet in its empty slot.
LEMMA PutHolds ==
  ASSUME NEW b, NEW p \in Nat, NEW K, Holds(b, p, K), HoldsType,
         NEW i \in 1 .. Packets, i - p \in 2 .. b.size - 1, get(b, Seq_nr(i)) = None
  PROVE  i \notin K /\ Holds(put(b, Seq_nr(i), i), p, K \cup {i})
<1> DEFINE v == put(b, Seq_nr(i), i)
           t == (isn + i) % b.size
           L == K \cup {i}
<1>0. isn \in Int /\ isn \in SeqNr /\ p \in Int /\ i \in Nat /\ i # None
  BY SeqModAssumption, RecvAssumption DEF HoldsType, SeqNr
<1>1. /\ b.size \in PowersOfTwo /\ b.size \in Nat \ {0}
      /\ \A j \in K : j \in Nat /\ j # None
  BY <1>0, HoldsTypes
<1>2. /\ DOMAIN b = {"size", "slots"} /\ DOMAIN b.slots = 0 .. b.size - 1
      /\ \A j \in K : j \in 1 .. Packets /\ j - p \in 2 .. b.size - 1
      /\ \A j \in K : b.slots[(isn + j) % b.size] = j
      /\ \A s \in 0 .. b.size - 1 : b.slots[s] # None =>
           b.slots[s] \in K /\ s = (isn + b.slots[s]) % b.size
  BY DEF Holds
<1>3. Seq_nr(i) % b.size = t
  <2>1. (wrapping_add(isn, i) + 0) % b.size = (isn + i + 0) % b.size
    BY <1>0, <1>1, SeqSlot
  <2>2. wrapping_add(isn, i) \in Int
    BY <1>0, SeqModAssumption DEF wrapping_add
  <2> QED BY <1>0, <2>1, <2>2 DEF Seq_nr
<1>4. t \in 0 .. b.size - 1
  BY <1>0, <1>1
<1>5. b.slots[t] = None
  BY <1>3 DEF get
<1> HIDE DEF t
<1>6. /\ DOMAIN v = {"size", "slots"} /\ v.size = b.size
      /\ DOMAIN v.slots = 0 .. b.size - 1
      /\ v.slots[t] = i
      /\ \A s \in 0 .. b.size - 1 : s # t => v.slots[s] = b.slots[s]
  <2>1. v = [b EXCEPT !.slots = [@ EXCEPT ![t] = i]]
    BY <1>3 DEF put
  <2>2. v.slots = [b.slots EXCEPT ![t] = i] /\ DOMAIN v = {"size", "slots"} /\ v.size = b.size
    BY <1>2, <2>1
  <2> HIDE DEF v
  <2> QED BY <1>2, <1>4, <2>2
<1> HIDE DEF v
<1>7. \A j \in K : (isn + j) % b.size # t
  BY <1>1, <1>2, <1>5
<1>8. i \notin K
  BY <1>7 DEF t
<1>9. \A j \in L : v.slots[(isn + j) % b.size] = j
  <2>1. \A j \in K : (isn + j) % b.size \in 0 .. b.size - 1
    BY <1>0, <1>1
  <2> QED BY <1>2, <1>6, <1>7, <2>1 DEF t
<1>10. \A s \in 0 .. b.size - 1 : v.slots[s] # None =>
         v.slots[s] \in L /\ s = (isn + v.slots[s]) % b.size
  BY <1>2, <1>6 DEF t
<1>11. \A j \in L : j \in 1 .. Packets /\ j - p \in 2 .. b.size - 1
  BY <1>2
<1> HIDE DEF L
<1>12. Holds(v, p, L)
  BY <1>1, <1>6, <1>9, <1>10, <1>11 DEF Holds
<1> QED BY <1>8, <1>12 DEF v, L

\* Growing the ring keeps every packet, and makes room for distance index.
LEMMA GrowHolds ==
  ASSUME NEW b, NEW p \in Nat, NEW K, Holds(b, p, K), HoldsType, NEW item \in Int, NEW index \in Nat,
         index >= b.size, index < SeqMod,
         item - index = isn + p + 1 \/ item - index = isn + p + 1 - SeqMod
  PROVE  Holds(grow(b, item, index), p, K) /\ index < grow(b, item, index).size
<1> DEFINE size == GrownSize(b, index)
           start == item - index
           live == start .. start + b.size - 1
           v == grow(b, item, index)
<1>0. isn \in Int /\ isn \in SeqNr /\ p \in Int /\ start \in Int /\ SeqMod \in Nat
  BY SeqModAssumption DEF HoldsType, SeqNr
<1>1. /\ b.size \in PowersOfTwo /\ b.size \in Nat \ {0}
      /\ \A j \in K : j \in Nat /\ j # None /\ p + 2 <= j /\ j < p + b.size
  BY <1>0, HoldsTypes
<1>2. \A j \in K : j \in 1 .. Packets /\ j - p \in 2 .. b.size - 1 /\ b.slots[(isn + j) % b.size] = j
  BY DEF Holds
<1>3. size \in PowersOfTwo /\ b.size < size /\ index < size /\ size \in Nat \ {0}
  <2> DEFINE S == {n \in PowersOfTwo : b.size < n /\ index < n}
  <2>1. SeqMod \in PowersOfTwo
    <3>1. SeqMod \in 1 .. SeqMod /\ 1 \in 1 .. SeqMod /\ SeqMod = 1 * SeqMod
      BY SeqModAssumption
    <3> QED BY <3>1, Zenon DEF PowersOfTwo
  <2>2. SeqMod \in S
    BY <1>0, <1>1, <2>1
  <2>3. S \subseteq Nat
    BY PowerType
  <2>4. Min(S) \in S
    BY <2>2, <2>3, NatMin
  <2>5. size \in S
    BY <2>4 DEF GrownSize
  <2> QED BY <2>5, PowerType
<1>4. /\ DOMAIN v = {"size", "slots"} /\ v.size = size
      /\ v.slots = [s \in 0 .. size - 1 |->
                     IF \E x \in live : x % size = s
                     THEN get(b, CHOOSE x \in live : x % size = s) ELSE None]
  BY DEF grow
<1> HIDE DEF v, size
\* A number of the live window and the packet it stands for share their slots.
<1>5. ASSUME NEW c \in Int
      PROVE  /\ (start + c) % size = (isn + p + 1 + c) % size
             /\ (start + c) % b.size = (isn + p + 1 + c) % b.size
  <2>1. isn + p + 1 + c \in Int
    BY <1>0
  <2>2. CASE start = isn + p + 1
    BY <2>2
  <2>3. CASE start = isn + p + 1 - SeqMod
    <3>1. start + c = (isn + p + 1 + c) - SeqMod
      BY <1>0, <2>3
    <3> QED BY <1>1, <1>3, <2>1, <3>1, WrapSlot
  <2> QED BY <2>2, <2>3
<1> HIDE DEF start
<1>6. ASSUME NEW x \in live, NEW y \in live, x % size = y % size PROVE x = y
  <2>1. x \in Int /\ y \in Int /\ x - y < size /\ y - x < size
    BY <1>0, <1>1, <1>3
  <2> QED BY <1>3, <1>6, <2>1, NearSlots
<1>7. ASSUME NEW j \in K PROVE v.slots[(isn + j) % size] = j
  <2> DEFINE c == j - p - 1
             x == start + c
             s == (isn + j) % size
  <2>1. c \in Int /\ x \in live /\ isn + p + 1 + c = isn + j /\ isn + j \in Int
    BY <1>0, <1>1
  <2>2. x % size = s /\ x % b.size = (isn + j) % b.size
    BY <1>5, <2>1
  <2>3. s \in 0 .. size - 1
    BY <1>3, <2>1
  <2> HIDE DEF x, s
  <2>4. (CHOOSE y \in live : y % size = s) = x
    <3> DEFINE y == CHOOSE y \in live : y % size = s
    <3>1. y \in live /\ y % size = s
      BY <2>1, <2>2
    <3> QED BY <1>6, <2>1, <2>2, <3>1
  <2>5. v.slots[s] = get(b, x)
    BY <1>4, <2>1, <2>2, <2>3, <2>4
  <2>6. get(b, x) = j
    BY <1>2, <2>2 DEF get
  <2> QED BY <2>5, <2>6 DEF s
<1>8. ASSUME NEW s \in 0 .. size - 1, v.slots[s] # None
      PROVE  v.slots[s] \in K /\ s = (isn + v.slots[s]) % size
  <2>1. \E x \in live : x % size = s
    BY <1>4, <1>8
  <2> DEFINE x == CHOOSE x \in live : x % size = s
             c == x - start
  <2>2. x \in live /\ x % size = s /\ v.slots[s] = get(b, x)
    BY <1>4, <2>1
  <2> HIDE DEF x
  <2>3. c \in Int /\ c >= 0 /\ c < b.size /\ x = start + c /\ c + 1 \in Int /\ c + 1 >= 1 /\ c + 1 <= b.size + 1
    BY <1>0, <1>1, <2>2
  <2>4. x % size = (isn + p + (c + 1)) % size /\ x % b.size = (isn + p + (c + 1)) % b.size
    <3>1. isn + p + 1 + c = isn + p + (c + 1)
      BY <1>0, <2>3
    <3> QED BY <1>5, <2>3, <3>1
  <2> HIDE DEF c
  <2>5. get(b, x) = get(b, isn + p + (c + 1))
    BY <2>4 DEF get
  <2>6. p + (c + 1) \in K /\ get(b, isn + p + (c + 1)) = p + (c + 1)
    BY <1>0, <1>8, <2>2, <2>3, <2>5, Lookup
  <2>7. isn + p + (c + 1) = isn + (p + (c + 1))
    BY <1>0, <2>3
  <2> QED BY <2>2, <2>4, <2>5, <2>6, <2>7
<1>9. \A j \in K : j \in 1 .. Packets /\ j - p \in 2 .. size - 1
  BY <1>0, <1>1, <1>2, <1>3
<1>10. Holds(v, p, K)
  BY <1>3, <1>4, <1>7, <1>8, <1>9 DEF Holds
<1> QED BY <1>3, <1>4, <1>10 DEF v

-----------------------------------------------------------------------------
(* What an ack says. *)

\* Every packet of S is received in order or in the ring.
Kept(S, p, K) == \A i \in S : i \in 1 .. Packets /\ (i <= p \/ i \in K)

\* An ack of position p, or of one packet less as a keep-alive sends it, with
\* mask bits for occupied slots, covers only packets that are here.
LEMMA CoveredKept ==
  ASSUME HoldsType, NEW b, NEW p \in 0 .. Packets, NEW K, Holds(b, p, K), NEW e \in {0, 1},
         NEW t, t.ack_nr = wrapping_sub(wrapping_add(isn, p), e),
         \A m \in t.mask : m \in 0 .. b.size - 1 /\ get(b, t.ack_nr + m + 2) # None
  PROVE  Kept(Covered(t), p, K)
<1> DEFINE a == wrapping_add(isn, p)
<1> SUFFICES ASSUME NEW i \in Covered(t) PROVE i \in 1 .. Packets /\ (i <= p \/ i \in K)
  BY DEF Kept
<1>0. /\ isn \in Nat /\ isn < SeqMod /\ SeqMod \in Nat /\ SeqMod >= 2 /\ isn \in SeqNr
      /\ Packets \in Nat /\ 2 * Packets < SeqMod
      /\ p \in Nat /\ p \in Int /\ p <= Packets /\ e \in Int /\ e >= 0 /\ e <= 1
  BY SeqModAssumption, RecvAssumption DEF HoldsType, SeqNr
<1>1. i \in 1 .. Packets /\ i \in Nat /\ i >= 1 /\ i <= Packets
  BY <1>0 DEF Covered
<1>2. \/ wrapping_sub(t.ack_nr, Seq_nr(i)) < SeqMod \div 2
      \/ \E m \in t.mask : Seq_nr(i) = wrapping_add(t.ack_nr, m + 2)
  BY DEF Covered
<1>3. CASE wrapping_sub(t.ack_nr, Seq_nr(i)) < SeqMod \div 2
  <2>1. i <= p
    BY <1>0, <1>1, <1>3 DEF wrapping_sub, wrapping_add, Seq_nr
  <2> QED BY <1>1, <2>1
<1>4. CASE \E m \in t.mask : Seq_nr(i) = wrapping_add(t.ack_nr, m + 2)
  <2>1. PICK m \in t.mask : Seq_nr(i) = wrapping_add(t.ack_nr, m + 2)
    BY <1>4
  <2> DEFINE c == m + 2 - e
  <2>2. b.size \in PowersOfTwo /\ b.size \in Nat \ {0} /\ b.size <= SeqMod
    BY <1>0, HoldsTypes
  <2>3. m \in 0 .. b.size - 1 /\ get(b, t.ack_nr + m + 2) # None
    OBVIOUS
  <2>4. m \in Nat /\ c \in Int /\ c >= 1 /\ c <= b.size + 1 /\ m < b.size
    BY <1>0, <2>2, <2>3
  <2>5. (t.ack_nr + m + 2) % b.size = (isn + p + c) % b.size
    <3>1. (a + c) % b.size = (isn + p + c) % b.size
      BY <1>0, <2>2, <2>4, SeqSlot
    <3>2. a \in Int /\ a + c \in Int
      BY <1>0, <2>4 DEF wrapping_add
    <3>3. t.ack_nr + m + 2 = a + c \/ t.ack_nr + m + 2 = (a + c) + SeqMod
      BY <1>0, <2>4, <3>2 DEF wrapping_sub
    <3> HIDE DEF a, c
    <3> QED BY <2>2, <3>1, <3>2, <3>3, WrapSlot
  <2>6. get(b, isn + p + c) # None
    BY <2>3, <2>5 DEF get
  <2> HIDE DEF c
  <2>7. p + c \in K
    BY <1>0, <2>4, <2>6, Lookup
  <2>8. p + c <= Packets
    BY <1>0, <2>7, HoldsTypes
  <2>9. i = p + c
    BY <1>0, <1>1, <2>1, <2>2, <2>4, <2>8 DEF wrapping_sub, wrapping_add, Seq_nr, c
  <2> QED BY <1>1, <2>7, <2>9
<1> QED BY <1>2, <1>3, <1>4

\* The acks the engine builds: with the mask of the ring, or with none.
LEMMA AcksKept ==
  ASSUME HoldsType, NEW b, NEW p \in 0 .. Packets, NEW K, Holds(b, p, K),
         NEW e \in {0, 1}, NEW ack, ack = wrapping_sub(wrapping_add(isn, p), e)
  PROVE  /\ \A count, reached : Kept(Covered(AckRecord(ack, b, count, reached)), p, K)
         /\ Kept(Covered([ack_nr |-> ack, mask |-> {}]), p, K)
<1>0. b.size \in Nat \ {0}
  <2>1. p \in Int
    BY RecvAssumption
  <2> QED BY <2>1, HoldsTypes
<1>1. ASSUME NEW count, NEW reached
      PROVE  Kept(Covered(AckRecord(ack, b, count, reached)), p, K)
  <2> DEFINE t == AckRecord(ack, b, count, reached)
  <2>1. t.ack_nr = ack /\ t.mask = eack_mask(ack, b, count, reached)
    BY DEF AckRecord
  <2>2. ASSUME NEW m \in t.mask PROVE m \in 0 .. b.size - 1 /\ get(b, t.ack_nr + m + 2) # None
    <3>1. EackWindow \in Int /\ b.size \in Int
      BY <1>0, RecvAssumption
    <3>2. Min({EackWindow, b.size}) \in {EackWindow, b.size} /\ Min({EackWindow, b.size}) <= b.size
      BY <3>1, MinOfTwo
    <3>3. m \in 0 .. Min({EackWindow, b.size}) - 1 /\ get(b, ack + m + 2) # None
      BY <2>1 DEF eack_mask
    <3> QED BY <2>1, <3>1, <3>2, <3>3
  <2> HIDE DEF t
  <2>3. Kept(Covered(t), p, K)
    BY <2>1, <2>2, CoveredKept
  <2> QED BY <2>3 DEF t
<1>2. Kept(Covered([ack_nr |-> ack, mask |-> {}]), p, K)
  <2> DEFINE t == [ack_nr |-> ack, mask |-> {}]
  <2>1. t.ack_nr = ack /\ t.mask = {}
    OBVIOUS
  <2> HIDE DEF t
  <2>2. Kept(Covered(t), p, K)
    BY <2>1, CoveredKept
  <2> QED BY <2>2 DEF t
<1> QED BY <1>1, <1>2

-----------------------------------------------------------------------------
(* The inductive invariant.  A connection that runs is at a position p of   *)
(* the peer's stream, with the packets K ahead of it in the ring; before    *)
(* the handshake, and for a dialer that died in it, nothing has happened.   *)

Running(p, K) ==
  /\ p \in 0 .. Packets /\ ack_nr = wrapping_add(isn, p)
  /\ Holds(inbuf, p, K)
  /\ reorder_count = Cardinality(K)
  /\ Kept(acked, p, K)

Virgin ==
  Holds(inbuf, 0, {}) /\ reorder_count = 0 /\ acked = {} /\ read_buf = <<>>

\* The FIN is the peer's last packet.
FinKnown == got_fin => eof_pkt = Seq_nr(FinAt) /\ FinAt = Packets

IInv ==
  /\ HoldsType
  /\ FinKnown
  /\ \/ state \in {"SynSent", "Removed"} /\ Virgin
     \/ state # "SynSent" /\ \E p, K : Running(p, K)

\* A connection starts with an empty ring.
LEMMA InitOK == Init => IInv
<1> SUFFICES ASSUME Init PROVE IInv
  OBVIOUS
<1>1. HoldsType /\ FinKnown
  BY RecvAssumption DEF Init, HoldsType, FinKnown
<1>2. Holds(inbuf, 0, {}) /\ reorder_count = 0 /\ acked = {} /\ read_buf = <<>>
  <2>1. inbuf = EmptyBuffer(RingInit) /\ reorder_count = 0 /\ acked = {} /\ read_buf = <<>>
    BY DEF Init
  <2>2. DOMAIN inbuf = {"size", "slots"} /\ inbuf.size = RingInit
        /\ inbuf.slots = [s \in 0 .. RingInit - 1 |-> None]
    BY <2>1 DEF EmptyBuffer
  <2> QED BY <2>1, <2>2, RecvAssumption DEF Holds
<1>3. CASE state = "SynSent"
  BY <1>1, <1>2, <1>3 DEF IInv, Virgin
<1>4. CASE state = "SynRecv" /\ ack_nr = isn
  <2>1. ack_nr = wrapping_add(isn, 0) /\ 0 \in 0 .. Packets
    BY <1>1, <1>4, RecvAssumption, SeqModAssumption DEF HoldsType, SeqNr, wrapping_add
  <2>2. Running(0, {})
    BY <1>2, <2>1, FS_EmptySet DEF Running, Kept
  <2> QED BY <1>1, <1>4, <2>2 DEF IInv
<1> QED BY <1>3, <1>4 DEF Init

\* A step that leaves the ring alone and acks only what is here.
LEMMA BufferKept ==
  ASSUME HoldsType, NEW p, NEW K, Running(p, K),
         UNCHANGED <<isn, ack_nr, inbuf, reorder_count>>, Kept(acked', p, K)
  PROVE  Running(p, K)'
BY DEF Running, Holds, Kept

\* What is sent is added to what was acked.
LEMMA SendsKept ==
  ASSUME NEW p, NEW K, Kept(acked, p, K), NEW acks, PutsOut(acks), \A t \in acks : Kept(Covered(t), p, K)
  PROVE  Kept(acked', p, K)
BY DEF PutsOut, Kept

\* The acks of a running connection.
LEMMA RunningAcks ==
  ASSUME HoldsType, NEW p, NEW K, Running(p, K)
  PROVE  /\ Kept(Covered(CurrentAck), p, K)
         /\ Kept(Covered([ack_nr |-> ack_nr, mask |-> {}]), p, K)
         /\ Kept(Covered(AckRecord(wrapping_sub(ack_nr, 1), inbuf, reorder_count, got_fin_reached)), p, K)
<1>1. p \in 0 .. Packets /\ ack_nr = wrapping_add(isn, p) /\ Holds(inbuf, p, K)
  BY DEF Running
<1>2. ack_nr = wrapping_sub(wrapping_add(isn, p), 0)
  <2>1. isn \in Int /\ p \in Int /\ SeqMod \in Int /\ p >= 0 /\ isn >= 0 /\ isn < SeqMod
    BY <1>1, RecvAssumption, SeqModAssumption DEF HoldsType, SeqNr
  <2>2. wrapping_add(isn, p) \in Int /\ wrapping_add(isn, p) >= 0
    BY <2>1 DEF wrapping_add
  <2> QED BY <1>1, <2>2 DEF wrapping_sub
<1>3. wrapping_sub(ack_nr, 1) = wrapping_sub(wrapping_add(isn, p), 1)
  BY <1>1
<1>4. 0 \in {0, 1} /\ 1 \in {0, 1}
  OBVIOUS
<1>5. /\ Kept(Covered(AckRecord(ack_nr, inbuf, reorder_count, got_fin_reached)), p, K)
      /\ Kept(Covered([ack_nr |-> ack_nr, mask |-> {}]), p, K)
  BY <1>1, <1>2, <1>4, AcksKept
<1>6. Kept(Covered(AckRecord(wrapping_sub(ack_nr, 1), inbuf, reorder_count, got_fin_reached)), p, K)
  BY <1>1, <1>3, <1>4, AcksKept
<1> QED BY <1>5, <1>6 DEF CurrentAck

-----------------------------------------------------------------------------
(* The actions that leave the ring alone. *)

\* Such a step of a running connection, when its acks cover what is here.
LEMMA QuietOK ==
  ASSUME IInv, ~(state \in {"SynSent", "Removed"} /\ Virgin), state' # "SynSent",
         UNCHANGED <<isn, ack_nr, inbuf, reorder_count, got_fin, eof_pkt>>,
         NEW acks, PutsOut(acks),
         \A p, K : Running(p, K) => \A t \in acks : Kept(Covered(t), p, K)
  PROVE  IInv'
<1>1. PICK p, K : Running(p, K)
  BY DEF IInv
<1>2. HoldsType /\ FinKnown
  BY DEF IInv
<1>3. Kept(acked', p, K)
  <2>1. Kept(acked, p, K) /\ \A t \in acks : Kept(Covered(t), p, K)
    BY <1>1 DEF Running
  <2> QED BY <2>1, SendsKept
<1>4. Running(p, K)'
  BY <1>1, <1>2, <1>3, BufferKept
<1>5. HoldsType' /\ FinKnown'
  BY <1>2 DEF HoldsType, FinKnown, Seq_nr
<1> QED BY <1>4, <1>5 DEF IInv

\* A packet out of range leaves the ring alone and at most acks again.
LEMMA OutOfRangeOK ==
  ASSUME IInv, NEW i \in 1 .. Packets, state \notin {"SynSent", "Removed"}, OutOfRange(i)
  PROVE  IInv'
<1>1. UNCHANGED <<isn, ack_nr, inbuf, reorder_count, got_fin, eof_pkt>> /\ state' # "SynSent"
  BY DEF OutOfRange, bufVars, finVars
<1>2. PutsOut({CurrentAck}) \/ PutsOut({})
  BY DEF OutOfRange, Sends
<1>3. HoldsType
  BY DEF IInv
<1>4. CASE PutsOut({CurrentAck})
  <2>1. \A p, K : Running(p, K) => \A t \in {CurrentAck} : Kept(Covered(t), p, K)
    BY <1>3, RunningAcks
  <2> QED BY <1>1, <1>4, <2>1, QuietOK
<1>5. CASE PutsOut({})
  <2>1. \A p, K : Running(p, K) => \A t \in {} : Kept(Covered(t), p, K)
    OBVIOUS
  <2> QED BY <1>1, <1>5, <2>1, QuietOK
<1> QED BY <1>2, <1>4, <1>5

\* A packet the state does not accept changes nothing.
LEMMA NotAcceptedOK ==
  ASSUME IInv, NEW i \in 1 .. Packets, state \notin {"SynSent", "Removed"}, NotAccepted(i)
  PROVE  IInv'
<1>1. UNCHANGED <<isn, ack_nr, inbuf, reorder_count, got_fin, eof_pkt>> /\ state' # "SynSent" /\ PutsOut({})
  BY DEF NotAccepted, bufVars, finVars, Sends
<1>2. \A p, K : Running(p, K) => \A t \in {} : Kept(Covered(t), p, K)
  OBVIOUS
<1> QED BY <1>1, <1>2, QuietOK

\* The SYN-ACK starts the count at isn.
LEMMA ConnectedOK ==
  ASSUME IInv, Connected
  PROVE  IInv'
<1>1. HoldsType /\ FinKnown /\ Virgin
  BY DEF IInv, Connected
<1>2. isn \in Nat /\ isn < SeqMod /\ SeqMod \in Nat /\ 0 \in 0 .. Packets
  BY <1>1, SeqModAssumption, RecvAssumption DEF HoldsType, SeqNr
<1>3. /\ state' # "SynSent" /\ ack_nr' = isn /\ UNCHANGED <<isn, inbuf, reorder_count, got_fin, eof_pkt>>
      /\ PutsOut({[ack_nr |-> isn, mask |-> {}]})
  BY DEF Connected, finVars, Sends
<1>4. isn = wrapping_add(isn, 0) /\ isn = wrapping_sub(wrapping_add(isn, 0), 0)
  BY <1>2 DEF wrapping_add, wrapping_sub
<1>5. Kept(Covered([ack_nr |-> isn, mask |-> {}]), 0, {})
  <2>1. Holds(inbuf, 0, {}) /\ 0 \in {0, 1}
    BY <1>1 DEF Virgin
  <2> QED BY <1>1, <1>2, <1>4, <2>1, AcksKept
<1>6. Kept(acked', 0, {})
  <2>1. Kept(acked, 0, {})
    BY <1>1 DEF Virgin, Kept
  <2>2. \A t \in {[ack_nr |-> isn, mask |-> {}]} : Kept(Covered(t), 0, {})
    BY <1>5
  <2> QED BY <1>3, <2>1, <2>2, SendsKept
<1>7. Running(0, {})'
  <2>1. Holds(inbuf, 0, {}) /\ reorder_count = Cardinality({})
    BY <1>1, FS_EmptySet DEF Virgin
  <2>2. Holds(inbuf, 0, {})'
    BY <1>3, <2>1 DEF Holds
  <2>3. ack_nr' = wrapping_add(isn, 0)'
    BY <1>3, <1>4 DEF wrapping_add
  <2>4. Kept(acked, 0, {})'
    BY <1>6 DEF Kept
  <2> QED BY <1>2, <1>3, <2>1, <2>2, <2>3, <2>4 DEF Running
<1>8. HoldsType' /\ FinKnown'
  BY <1>1, <1>3 DEF HoldsType, FinKnown, Seq_nr
<1> QED BY <1>3, <1>7, <1>8 DEF IInv

\* A socket that was removed in its handshake has nothing to read.
LEMMA RecvOK ==
  ASSUME IInv, NEW n, Recv(n)
  PROVE  IInv'
<1>1. /\ UNCHANGED <<isn, ack_nr, inbuf, reorder_count, got_fin, eof_pkt, state>> /\ read_buf # <<>>
      /\ PutsOut({CurrentAck}) \/ PutsOut({})
  BY DEF Recv, bufVars, finVars, Sends
<1>2. ~(state \in {"SynSent", "Removed"} /\ Virgin) /\ state' # "SynSent"
  BY <1>1 DEF Virgin, IInv
<1>3. HoldsType
  BY DEF IInv
<1>4. CASE PutsOut({CurrentAck})
  <2>1. \A p, K : Running(p, K) => \A t \in {CurrentAck} : Kept(Covered(t), p, K)
    BY <1>3, RunningAcks
  <2> QED BY <1>1, <1>2, <1>4, <2>1, QuietOK
<1>5. CASE PutsOut({})
  <2>1. \A p, K : Running(p, K) => \A t \in {} : Kept(Covered(t), p, K)
    OBVIOUS
  <2> QED BY <1>1, <1>2, <1>5, <2>1, QuietOK
<1> QED BY <1>1, <1>4, <1>5

\* Our own packets, a close and a keep-alive.
OwnSteps == \E write \in BOOLEAN, last \in Flushed : SendData(write, last)
Closes == \E last \in Flushed : Close(last)

LEMMA OwnPacketsOK ==
  ASSUME IInv, OwnSteps \/ KeepAlive \/ Closes
  PROVE  IInv'
<1> DEFINE bare == BareAck
           less == AckRecord(wrapping_sub(ack_nr, 1), inbuf, reorder_count, got_fin_reached)
<1>1. /\ UNCHANGED <<isn, ack_nr, inbuf, reorder_count, got_fin, eof_pkt, state>>
      /\ state \in {"Open", "Dead"}
      /\ PutsOut({bare}) \/ PutsOut({less}) \/ PutsOut({})
  BY DEF OwnSteps, Closes, SendData, KeepAlive, Close, Flushes, Sends, bufVars, finVars
<1>2. ~(state \in {"SynSent", "Removed"} /\ Virgin) /\ state' # "SynSent"
  BY <1>1
<1>3. HoldsType
  BY DEF IInv
<1>4. \A p, K : Running(p, K) => Kept(Covered(bare), p, K) /\ Kept(Covered(less), p, K)
  BY <1>3, RunningAcks DEF BareAck
<1> HIDE DEF bare, less
<1>5. CASE PutsOut({bare})
  <2>1. \A p, K : Running(p, K) => \A t \in {bare} : Kept(Covered(t), p, K)
    BY <1>4
  <2> QED BY <1>1, <1>2, <1>5, <2>1, QuietOK
<1>6. CASE PutsOut({less})
  <2>1. \A p, K : Running(p, K) => \A t \in {less} : Kept(Covered(t), p, K)
    BY <1>4
  <2> QED BY <1>1, <1>2, <1>6, <2>1, QuietOK
<1>7. CASE PutsOut({})
  <2>1. \A p, K : Running(p, K) => \A t \in {} : Kept(Covered(t), p, K)
    OBVIOUS
  <2> QED BY <1>1, <1>2, <1>7, <2>1, QuietOK
<1> QED BY <1>1, <1>5, <1>6, <1>7

\* A connection that dies keeps what it has.
LEMMA DieOK ==
  ASSUME IInv, NEW st, Die(st)
  PROVE  IInv'
<1>1. /\ UNCHANGED <<isn, ack_nr, inbuf, reorder_count, got_fin, eof_pkt, read_buf>>
      /\ PutsOut({}) /\ state # "Removed" /\ state' # "SynSent"
      /\ state = "SynSent" => state' = "Removed"
  BY DEF Die, bufVars, finVars, readVars, Sends
<1>2. CASE state = "SynSent"
  <2>1. Virgin /\ HoldsType /\ FinKnown
    BY <1>2 DEF IInv
  <2>2. acked' = {}
    BY <1>1, <2>1 DEF Virgin, PutsOut
  <2>3. Virgin'
    BY <1>1, <2>1, <2>2 DEF Virgin, Holds
  <2>4. HoldsType' /\ FinKnown'
    BY <1>1, <2>1 DEF HoldsType, FinKnown, Seq_nr
  <2> QED BY <1>1, <1>2, <2>3, <2>4 DEF IInv
<1>3. CASE state # "SynSent"
  <2>1. \A p, K : Running(p, K) => \A t \in {} : Kept(Covered(t), p, K)
    OBVIOUS
  <2>2. ~(state \in {"SynSent", "Removed"} /\ Virgin)
    BY <1>1, <1>3
  <2> QED BY <1>1, <2>1, <2>2, QuietOK
<1> QED BY <1>2, <1>3

-----------------------------------------------------------------------------
(* The actions that change the ring. *)

\* What a running connection gives to arithmetic.
LEMMA RunningTypes ==
  ASSUME HoldsType, NEW p, NEW K, Running(p, K)
  PROVE  /\ isn \in Nat /\ isn < SeqMod /\ SeqMod \in Nat /\ SeqMod >= 2 /\ isn \in SeqNr
         /\ Packets \in Nat /\ 2 * Packets < SeqMod
         /\ p \in Nat /\ p \in Int /\ p <= Packets /\ p < SeqMod /\ ack_nr = wrapping_add(isn, p)
         /\ Holds(inbuf, p, K) /\ inbuf.size \in Nat \ {0} /\ inbuf.size \in PowersOfTwo
         /\ reorder_count = Cardinality(K) /\ reorder_count \in Nat /\ IsFiniteSet(K)
         /\ reorder_count > 0 => reorder_count <= inbuf.size - 2
         /\ Kept(acked, p, K)
<1>1. /\ p \in 0 .. Packets /\ ack_nr = wrapping_add(isn, p) /\ Holds(inbuf, p, K)
      /\ reorder_count = Cardinality(K) /\ Kept(acked, p, K)
  BY DEF Running
<1>2. /\ isn \in Nat /\ isn < SeqMod /\ SeqMod \in Nat /\ SeqMod >= 2 /\ isn \in SeqNr
      /\ Packets \in Nat /\ 2 * Packets < SeqMod
  BY SeqModAssumption, RecvAssumption DEF HoldsType, SeqNr
<1>3. p \in Nat /\ p \in Int /\ p <= Packets /\ p < SeqMod
  BY <1>1, <1>2
<1>4. inbuf.size \in Nat \ {0} /\ inbuf.size \in PowersOfTwo
  BY <1>1, <1>3, HoldsTypes
<1>5. IsFiniteSet(K) /\ Cardinality(K) \in Nat /\ (Cardinality(K) > 0 => Cardinality(K) <= inbuf.size - 2)
  BY <1>1, <1>3, HoldsFinite
<1> QED BY <1>1, <1>2, <1>3, <1>4, <1>5

\* The end of the stream is where the FIN is, also when this packet is the FIN.
LEMMA FinStays ==
  ASSUME FinKnown, NEW i \in 1 .. Packets, isn' = isn, got_fin' = GotFin(i), eof_pkt' = EofPkt(i)
  PROVE  /\ FinKnown'
         /\ GotFin(i) => EofPkt(i) = Seq_nr(FinAt) /\ FinAt = Packets
<1>1. ASSUME GotFin(i) PROVE EofPkt(i) = Seq_nr(FinAt) /\ FinAt = Packets
  <2>1. CASE got_fin
    BY <2>1 DEF FinKnown, EofPkt
  <2>2. CASE ~got_fin
    BY <1>1, <2>2, RecvAssumption DEF GotFin, EofPkt
  <2> QED BY <2>1, <2>2
<1>2. FinKnown'
  BY <1>1 DEF FinKnown, Seq_nr
<1> QED BY <1>1, <1>2

\* The drain loop takes the run of packets that follows packet p + 1, and stops
\* where the next one is missing.
LEMMA DrainRun ==
  ASSUME HoldsType, NEW p, NEW K, Running(p, K), NEW i \in 1 .. Packets, i = p + 1,
         GotFin(i) => EofPkt(i) = Seq_nr(FinAt) /\ FinAt = Packets,
         NEW k, k = Min({n \in 0 .. reorder_count : DrainStops(i, n)})
  PROVE  /\ k \in 0 .. reorder_count
         /\ \A c \in 2 .. k + 1 : p + c \in K
         /\ p + k + 2 \notin K /\ p + k + 1 <= Packets
         /\ ReachesFin(i, k) => p + k + 1 = Packets
<1>0. /\ isn \in Nat /\ isn < SeqMod /\ SeqMod \in Nat /\ SeqMod >= 2 /\ isn \in SeqNr
      /\ Packets \in Nat /\ 2 * Packets < SeqMod
      /\ p \in Nat /\ p \in Int /\ p <= Packets /\ p < SeqMod /\ ack_nr = wrapping_add(isn, p)
      /\ Holds(inbuf, p, K) /\ inbuf.size \in Nat \ {0} /\ inbuf.size \in PowersOfTwo
      /\ reorder_count = Cardinality(K) /\ reorder_count \in Nat /\ IsFiniteSet(K)
      /\ reorder_count > 0 => reorder_count <= inbuf.size - 2
  BY RunningTypes
<1> DEFINE S == {n \in 0 .. reorder_count : DrainStops(i, n)}
<1>1. k \in S /\ \A n \in S : k <= n
  <2>1. reorder_count \in S
    BY <1>0 DEF DrainStops
  <2>2. S \subseteq Nat /\ S # {}
    BY <1>0, <2>1
  <2> HIDE DEF S
  <2>3. Min(S) \in S /\ \A n \in S : Min(S) <= n
    BY <2>2, NatMin
  <2> QED BY <2>3 DEF S
<1>2. k \in 0 .. reorder_count /\ k \in Nat /\ k <= reorder_count
  BY <1>0, <1>1
<1>3. \A c \in Int : (ack_nr + c) % inbuf.size = (isn + p + c) % inbuf.size
  BY <1>0, SeqSlot
<1>4. ASSUME NEW c \in 2 .. k + 1 PROVE p + c \in K
  <2> DEFINE n == c - 2
  <2>1. n \in 0 .. reorder_count /\ n < k /\ n \in Int /\ c \in Int /\ c >= 1 /\ c <= inbuf.size + 1
    BY <1>0, <1>2
  <2>2. ~DrainStops(i, n)
    BY <1>1, <1>2, <2>1
  <2>3. get(inbuf, ack_nr + n + 2) # None
    BY <2>2 DEF DrainStops
  <2>4. ack_nr + n + 2 = ack_nr + c
    BY <1>0, <2>1 DEF wrapping_add
  <2>5. get(inbuf, isn + p + c) # None
    BY <1>3, <2>1, <2>3, <2>4 DEF get
  <2> QED BY <1>0, <2>1, <2>5, Lookup
<1>5. p + k + 1 <= Packets
  <2>1. CASE k = 0
    BY <1>0, <2>1
  <2>2. CASE k > 0
    <3>1. p + (k + 1) \in K
      BY <1>2, <1>4, <2>2
    <3>2. p + (k + 1) <= Packets
      BY <1>0, <3>1, HoldsTypes
    <3> QED BY <1>0, <1>2, <3>2
  <2> QED BY <1>2, <2>1, <2>2
<1>6. ReachesFin(i, k) => p + k + 1 = Packets
  <2> SUFFICES ASSUME ReachesFin(i, k) PROVE p + k + 1 = Packets
    OBVIOUS
  <2>1. wrapping_add(isn, Packets) = wrapping_add(ack_nr, k + 1)
    BY DEF ReachesFin, Seq_nr
  <2> QED BY <1>0, <1>2, <1>5, <2>1 DEF wrapping_add
<1>7. p + k + 2 \notin K
  <2>1. CASE ReachesFin(i, k)
    <3>1. p + k + 1 = Packets
      BY <1>6, <2>1
    <3>2. \A j \in K : j \in Nat /\ j <= Packets
      BY <1>0, HoldsTypes
    <3> QED BY <1>0, <1>2, <3>1, <3>2
  <2>2. CASE k = reorder_count
    <3> DEFINE D == p + 2 .. p + k + 1
    <3>1. p + 2 \in Int /\ p + k + 1 \in Int
      BY <1>0, <1>2
    <3>2. Cardinality(D) = IF p + 2 > p + k + 1 THEN 0 ELSE (p + k + 1) - (p + 2) + 1
      BY <3>1, FS_Interval
    <3>3. Cardinality(D) = Cardinality(K)
      BY <1>0, <1>2, <2>2, <3>2
    <3>4. ASSUME NEW j \in D PROVE j \in K
      <4>1. j - p \in 2 .. k + 1 /\ j = p + (j - p)
        BY <1>0, <1>2
      <4> QED BY <1>4, <4>1
    <3>5. D \in SUBSET K
      BY <3>4
    <3>6. p + k + 2 \notin D
      BY <1>0, <1>2
    <3> HIDE DEF D
    <3>7. K = D
      BY <1>0, <3>3, <3>5, FS_Subset
    <3> QED BY <3>6, <3>7
  <2>3. CASE get(inbuf, ack_nr + k + 2) = None
    <3> SUFFICES ASSUME p + k + 2 \in K PROVE FALSE
      OBVIOUS
    <3>1. inbuf.slots[(isn + (p + k + 2)) % inbuf.size] = p + k + 2
      BY <1>0 DEF Holds
    <3>2. p + k + 2 # None
      BY <1>0, HoldsTypes
    <3>3. ack_nr + k + 2 = ack_nr + (k + 2) /\ k + 2 \in Int /\ isn + (p + k + 2) = isn + p + (k + 2)
      BY <1>0, <1>2 DEF wrapping_add
    <3>4. (ack_nr + k + 2) % inbuf.size = (isn + (p + k + 2)) % inbuf.size
      BY <1>3, <3>3
    <3> QED BY <2>3, <3>1, <3>2, <3>4 DEF get
  <2>4. DrainStops(i, k)
    BY <1>1
  <2> QED BY <2>1, <2>2, <2>3, <2>4 DEF DrainStops
<1> QED BY <1>2, <1>4, <1>5, <1>6, <1>7

\* The FIN counts as seen once it is in the ring, and as reached once the position is at it.
FinSeen(p, K) == (FinAt \in K => got_fin) /\ (p = FinAt => got_fin_reached)

\* The packet that is due moves the position to itself or to a packet of the ring.
LEMMA InOrderMoves ==
  ASSUME HoldsType, FinKnown, NEW p, NEW K, Running(p, K), NEW i \in 1 .. Packets, InOrder(i)
  PROVE  /\ HoldsType' /\ FinKnown' /\ state' # "SynSent"
         /\ \E r, M : /\ Running(r, M)' /\ M \subseteq K /\ (r = i \/ r \in K)
                      /\ FinSeen(p, K) => FinSeen(r, M)'
<1>1. Running(p, K)
  OBVIOUS
<1>2. HoldsType /\ FinKnown
  OBVIOUS
<1>0. /\ isn \in Nat /\ isn < SeqMod /\ SeqMod \in Nat /\ SeqMod >= 2 /\ isn \in SeqNr
      /\ Packets \in Nat /\ 2 * Packets < SeqMod
      /\ p \in Nat /\ p \in Int /\ p <= Packets /\ p < SeqMod /\ ack_nr = wrapping_add(isn, p)
      /\ Holds(inbuf, p, K) /\ inbuf.size \in Nat \ {0} /\ inbuf.size \in PowersOfTwo
      /\ reorder_count = Cardinality(K) /\ reorder_count \in Nat /\ IsFiniteSet(K)
      /\ Kept(acked, p, K)
  BY <1>1, <1>2, RunningTypes
<1>3. i = p + 1
  <2>1. seqnr(i) = 0
    BY DEF InOrder
  <2>2. i \in Nat /\ i >= 1 /\ i <= Packets
    BY <1>0
  <2> QED BY <1>0, <2>1, <2>2 DEF seqnr, Seq_nr, wrapping_add, wrapping_sub
<1> DEFINE k == Min({n \in 0 .. reorder_count : DrainStops(i, n)})
           ack == wrapping_add(ack_nr, k + 1)
           fin == ReachesFin(i, k)
           b == take(inbuf, ack_nr + 2 .. ack_nr + k + 1)
           count == IF fin THEN 0 ELSE reorder_count - k
           q == p + k + 1
           D == p + 2 .. p + k + 1
           L == K \ D
<1>4. /\ ack_nr' = ack /\ inbuf' = b /\ reorder_count' = count /\ isn' = isn /\ state' = "Open"
      /\ got_fin' = GotFin(i) /\ eof_pkt' = EofPkt(i) /\ got_fin_reached' = (got_fin_reached \/ fin)
      /\ PutsOut({AckRecord(ack, b, count, got_fin_reached \/ fin)})
  BY DEF InOrder, Sends
<1>5. /\ FinKnown'
      /\ GotFin(i) => EofPkt(i) = Seq_nr(FinAt) /\ FinAt = Packets
  BY <1>2, <1>4, FinStays
<1> HIDE DEF k
<1>6. /\ k \in 0 .. reorder_count
      /\ \A c \in 2 .. k + 1 : p + c \in K
      /\ p + k + 2 \notin K /\ p + k + 1 <= Packets
      /\ ReachesFin(i, k) => p + k + 1 = Packets
  BY <1>1, <1>2, <1>3, <1>5, DrainRun DEF k
<1>7. k \in Nat /\ k <= reorder_count /\ p + k + 2 \notin K /\ \A c \in 2 .. k + 1 : p + c \in K
  BY <1>0, <1>6
<1>8. Holds(b, q, L)
  BY <1>0, <1>2, <1>7, TakeHolds
<1>9. q \in 0 .. Packets /\ q \in Nat
  BY <1>0, <1>6, <1>7
<1>10. ack = wrapping_add(isn, q)
  BY <1>0, <1>6, <1>7 DEF wrapping_add
<1>11. count = Cardinality(L)
  <2>1. CASE fin
    <3>1. p + k + 1 = Packets
      BY <1>6, <2>1
    <3>2. \A j \in K : j \in Nat /\ p + 2 <= j /\ j <= Packets
      BY <1>0, HoldsTypes
    <3>3. \A j \in K : j \in D
      BY <1>0, <1>7, <3>1, <3>2
    <3>4. L = {}
      BY <3>3
    <3> QED BY <2>1, <3>4, FS_EmptySet
  <2>2. CASE ~fin
    <3>1. p + 2 \in Int /\ p + k + 1 \in Int
      BY <1>0, <1>7
    <3>2. Cardinality(D) = IF p + 2 > p + k + 1 THEN 0 ELSE (p + k + 1) - (p + 2) + 1
      BY <3>1, FS_Interval
    <3>3. Cardinality(D) = k
      BY <1>0, <1>7, <3>2
    <3>4. ASSUME NEW j \in D PROVE j \in K
      <4>1. j - p \in 2 .. k + 1 /\ j = p + (j - p)
        BY <1>0, <1>7
      <4> QED BY <1>7, <4>1
    <3> HIDE DEF D
    <3>5. K \cap D = D
      BY <3>4
    <3>6. Cardinality(K \ D) = Cardinality(K) - Cardinality(K \cap D)
      BY <1>0, FS_Difference
    <3> QED BY <1>0, <2>2, <3>3, <3>5, <3>6
  <2> QED BY <2>1, <2>2
<1>12. Kept(acked, q, L)
  <2>1. ASSUME NEW j \in acked PROVE j \in 1 .. Packets /\ (j <= q \/ j \in L)
    <3>1. j \in 1 .. Packets /\ (j <= p \/ j \in K)
      BY <1>0 DEF Kept
    <3>2. j \in Nat
      BY <1>0, <3>1
    <3>3. j \in D => j <= q
      BY <1>0, <1>7, <3>2
    <3>4. j <= p => j <= q
      BY <1>0, <1>7, <3>2
    <3> HIDE DEF q, D
    <3> QED BY <3>1, <3>3, <3>4
  <2> HIDE DEF q, L
  <2> QED BY <2>1 DEF Kept
<1>13. Kept(Covered(AckRecord(ack, b, count, got_fin_reached \/ fin)), q, L)
  <2>1. ack = wrapping_sub(wrapping_add(isn, q), 0)
    <3>1. wrapping_add(isn, q) \in Int /\ wrapping_add(isn, q) >= 0
      BY <1>0, <1>9 DEF wrapping_add
    <3> HIDE DEF ack, q
    <3> QED BY <1>10, <3>1 DEF wrapping_sub
  <2>2. 0 \in {0, 1}
    OBVIOUS
  <2> HIDE DEF ack, q, L, b, count, fin
  <2> QED BY <1>2, <1>8, <1>9, <2>1, <2>2, AcksKept
<1>20. q = i \/ q \in K
  <2>1. CASE k = 0
    BY <1>0, <1>3, <2>1
  <2>2. CASE k # 0
    <3>1. k + 1 \in 2 .. k + 1 /\ p + (k + 1) = q
      BY <1>0, <1>7, <2>2
    <3> QED BY <1>7, <3>1
  <2> QED BY <2>1, <2>2
<1>21. ASSUME FinSeen(p, K), q = FinAt PROVE got_fin_reached \/ fin
  <2>1. GotFin(i)
    BY <1>20, <1>21 DEF FinSeen, GotFin
  <2>2. EofPkt(i) = wrapping_add(ack_nr, k + 1)
    BY <1>5, <1>10, <1>21, <2>1 DEF Seq_nr
  <2> QED BY <2>1, <2>2 DEF ReachesFin
<1> HIDE DEF ack, q, L, b, count, fin
<1>14. Kept(acked', q, L)
  <2> DEFINE t0 == AckRecord(ack, b, count, got_fin_reached \/ fin)
  <2>1. PutsOut({t0}) /\ \A t \in {t0} : Kept(Covered(t), q, L)
    BY <1>4, <1>13
  <2> HIDE DEF t0
  <2> QED BY <1>12, <2>1, SendsKept
<1>15. PICK r, M : r = q /\ M = L
  OBVIOUS
<1>16. Running(r, M)'
  <2>1. Holds(b, r, M) /\ Kept(acked', r, M) /\ ack = wrapping_add(isn, r) /\ count = Cardinality(M)
        /\ r \in 0 .. Packets
    BY <1>8, <1>9, <1>10, <1>11, <1>14, <1>15
  <2>2. Holds(inbuf, r, M)'
    BY <1>4, <2>1 DEF Holds
  <2>3. ack_nr' = wrapping_add(isn, r)'
    BY <1>4, <2>1 DEF wrapping_add
  <2>4. Kept(acked, r, M)'
    BY <2>1 DEF Kept
  <2> QED BY <1>4, <2>1, <2>2, <2>3, <2>4 DEF Running
<1>17. HoldsType' /\ state' # "SynSent"
  BY <1>2, <1>4 DEF HoldsType
<1>18. M \subseteq K /\ (r = i \/ r \in K)
  BY <1>15, <1>20 DEF L
<1>19. FinSeen(p, K) => FinSeen(r, M)'
  <2> SUFFICES ASSUME FinSeen(p, K) PROVE FinSeen(r, M)'
    OBVIOUS
  <2>1. FinAt \in M => GotFin(i)
    BY <1>18 DEF FinSeen, GotFin
  <2>2. r = FinAt => got_fin_reached \/ fin
    BY <1>15, <1>21
  <2> QED BY <1>4, <2>1, <2>2 DEF FinSeen
<1> QED BY <1>5, <1>16, <1>17, <1>18, <1>19

\* A packet that is early joins the ring or changes nothing there.
LEMMA OutOfOrderMoves ==
  ASSUME HoldsType, FinKnown, NEW p, NEW K, Running(p, K), NEW i \in 1 .. Packets, OutOfOrder(i)
  PROVE  /\ HoldsType' /\ FinKnown' /\ state' # "SynSent"
         /\ \E M : /\ Running(p, M)' /\ M \subseteq K \cup {i}
                   /\ FinSeen(p, K) => FinSeen(p, M)'
<1>1. Running(p, K)
  OBVIOUS
<1>2. HoldsType /\ FinKnown
  OBVIOUS
<1>0. /\ isn \in Nat /\ isn < SeqMod /\ SeqMod \in Nat /\ SeqMod >= 2 /\ isn \in SeqNr
      /\ Packets \in Nat /\ 2 * Packets < SeqMod
      /\ p \in Nat /\ p \in Int /\ p <= Packets /\ p < SeqMod /\ ack_nr = wrapping_add(isn, p)
      /\ Holds(inbuf, p, K) /\ inbuf.size \in Nat \ {0} /\ inbuf.size \in PowersOfTwo
      /\ reorder_count = Cardinality(K) /\ reorder_count \in Nat /\ IsFiniteSet(K)
      /\ Kept(acked, p, K)
  BY <1>1, <1>2, RunningTypes
<1>3. /\ seqnr(i) \in 1 .. REORDER_BUFFER_MAX_SIZE - 1
      /\ isn' = isn /\ ack_nr' = ack_nr /\ state' = "Open"
      /\ got_fin' = GotFin(i) /\ eof_pkt' = EofPkt(i) /\ got_fin_reached' = got_fin_reached
  BY DEF OutOfOrder
<1> DEFINE index == seqnr(i) + 1
           item == Seq_nr(i) + 1
<1>4. /\ index \in Nat /\ index >= 2 /\ index < SeqMod /\ i = p + index /\ i \in Nat /\ item \in Int
      /\ item - index = isn + p + 1 \/ item - index = isn + p + 1 - SeqMod
  <2>1. i \in Nat /\ i >= 1 /\ i <= Packets
    BY <1>0
  <2>2. seqnr(i) \in Nat /\ seqnr(i) >= 1 /\ seqnr(i) + 1 < SeqMod
    BY <1>0, <1>3, RecvAssumption
  <2>3. seqnr(i) = i - p - 1 \/ seqnr(i) = i - p - 1 + SeqMod
    BY <1>0, <2>1 DEF seqnr, Seq_nr, wrapping_add, wrapping_sub
  <2>4. Seq_nr(i) = isn + i \/ Seq_nr(i) = isn + i - SeqMod
    BY <1>0, <2>1 DEF Seq_nr, wrapping_add
  <2>5. 2 * REORDER_BUFFER_MAX_SIZE <= SeqMod /\ REORDER_BUFFER_MAX_SIZE \in Nat /\ seqnr(i) < REORDER_BUFFER_MAX_SIZE
    BY <1>0, <1>3, RecvAssumption
  <2>6. seqnr(i) = i - p - 1
    BY <1>0, <2>1, <2>2, <2>3, <2>5
  <2>7. i = p + index
    BY <1>0, <2>1, <2>6
  <2>8. item \in Int
    BY <1>0, <2>1, <2>4
  <2>9. item - index = isn + p + 1 \/ item - index = isn + p + 1 - SeqMod
    BY <1>0, <2>1, <2>4, <2>6
  <2> QED BY <2>1, <2>2, <2>7, <2>8, <2>9
<1> HIDE DEF index, item
<1>5. Holds(Grown(i), p, K) /\ i - p \in 2 .. Grown(i).size - 1
  <2>1. Grown(i) = IF index > inbuf.size - 1 THEN grow(inbuf, item, index) ELSE inbuf
    BY DEF Grown, ensure_size, index, item
  <2>2. CASE index > inbuf.size - 1
    <3>1. index >= inbuf.size
      BY <1>0, <1>4, <2>2
    <3>2. Holds(grow(inbuf, item, index), p, K) /\ index < grow(inbuf, item, index).size
      BY <1>0, <1>2, <1>4, <3>1, GrowHolds
    <3>3. Holds(Grown(i), p, K) /\ index < Grown(i).size
      BY <2>1, <2>2, <3>2
    <3>4. Grown(i).size \in Nat \ {0}
      BY <1>0, <3>3, HoldsTypes
    <3> QED BY <1>0, <1>4, <3>3, <3>4
  <2>3. CASE ~(index > inbuf.size - 1)
    BY <1>0, <1>4, <2>1, <2>3
  <2> QED BY <2>2, <2>3
<1>6. FinKnown' /\ HoldsType' /\ state' # "SynSent"
  <2>1. FinKnown'
    BY <1>2, <1>3, FinStays
  <2> QED BY <1>2, <1>3, <2>1 DEF HoldsType
<1>7. CASE PastFin(i) \/ Duplicate(i)
  <2>1. (inbuf' = inbuf \/ inbuf' = Grown(i)) /\ PutsOut({}) /\ reorder_count' = reorder_count
    BY <1>7 DEF OutOfOrder, Sends
  <2>2. acked' = acked
    BY <2>1 DEF PutsOut
  <2>3. PICK b : b = inbuf' /\ Holds(b, p, K)
    BY <1>0, <1>5, <2>1
  <2>4. Holds(inbuf, p, K)'
    BY <1>3, <2>3 DEF Holds
  <2>5. ack_nr' = wrapping_add(isn, p)' /\ Kept(acked, p, K)'
    BY <1>0, <1>3, <2>2 DEF wrapping_add, Kept
  <2>6. Running(p, K)'
    BY <1>0, <1>1, <2>1, <2>4, <2>5 DEF Running
  <2>7. FinSeen(p, K) => FinSeen(p, K)'
    BY <1>3 DEF FinSeen, GotFin
  <2> QED BY <1>6, <2>6, <2>7
<1>8. CASE ~(PastFin(i) \/ Duplicate(i))
  <2> DEFINE b == put(Grown(i), Seq_nr(i), i)
             L == K \cup {i}
  <2>1. /\ inbuf' = b /\ reorder_count' = reorder_count + 1
        /\ PutsOut({AckRecord(ack_nr, inbuf', reorder_count', got_fin_reached)})
    BY <1>8 DEF OutOfOrder, Sends
  <2>2. i \notin K /\ Holds(b, p, L)
    <3>1. get(Grown(i), Seq_nr(i)) = None
      BY <1>8 DEF Duplicate
    <3> QED BY <1>0, <1>2, <1>5, <3>1, PutHolds
  <2> HIDE DEF b
  <2>3. Cardinality(L) = reorder_count + 1
    BY <1>0, <2>2, FS_AddElement
  <2> HIDE DEF L
  <2>4. Kept(acked, p, L)
    BY <1>0 DEF Kept, L
  <2>5. ack_nr = wrapping_sub(wrapping_add(isn, p), 0) /\ 0 \in {0, 1} /\ p \in 0 .. Packets
    <3>1. wrapping_add(isn, p) \in Int /\ wrapping_add(isn, p) >= 0
      BY <1>0 DEF wrapping_add
    <3> QED BY <1>0, <3>1 DEF wrapping_sub
  <2>6. Kept(Covered(AckRecord(ack_nr, b, reorder_count', got_fin_reached)), p, L)
    BY <1>2, <2>2, <2>5, AcksKept
  <2>7. Kept(acked', p, L)
    <3> DEFINE t0 == AckRecord(ack_nr, b, reorder_count', got_fin_reached)
    <3>1. PutsOut({t0}) /\ \A t \in {t0} : Kept(Covered(t), p, L)
      BY <2>1, <2>6
    <3> HIDE DEF t0
    <3> QED BY <2>4, <3>1, SendsKept
  <2>8. PICK M : M = L
    OBVIOUS
  <2>9. Running(p, M)'
    <3>1. Holds(b, p, M) /\ Kept(acked', p, M) /\ Cardinality(M) = reorder_count + 1
      BY <2>2, <2>3, <2>7, <2>8
    <3>2. Holds(inbuf, p, M)'
      BY <1>3, <2>1, <3>1 DEF Holds
    <3>3. ack_nr' = wrapping_add(isn, p)' /\ Kept(acked, p, M)'
      BY <1>0, <1>3, <3>1 DEF wrapping_add, Kept
    <3> QED BY <2>1, <2>5, <3>1, <3>2, <3>3 DEF Running
  <2>10. M \subseteq K \cup {i} /\ (FinSeen(p, K) => FinSeen(p, M)')
    BY <1>3, <2>8 DEF FinSeen, GotFin, L
  <2> QED BY <1>6, <2>9, <2>10
<1> QED BY <1>7, <1>8

\* Both keep the invariant.
LEMMA InRangeOK ==
  ASSUME IInv, NEW i \in 1 .. Packets, state \notin {"SynSent", "Removed"}, InOrder(i) \/ OutOfOrder(i)
  PROVE  IInv'
<1>1. HoldsType /\ FinKnown
  BY DEF IInv
<1>2. PICK p, K : Running(p, K)
  BY DEF IInv
<1>3. HoldsType' /\ FinKnown' /\ state' # "SynSent" /\ \E r, M : Running(r, M)'
  BY <1>1, <1>2, InOrderMoves, OutOfOrderMoves
<1> QED BY <1>3 DEF IInv

-----------------------------------------------------------------------------
(* The theorems. *)

\* Every step keeps the invariant.
LEMMA NextOK == IInv /\ [Next]_vars => IInv'
<1> SUFFICES ASSUME IInv, [Next]_vars PROVE IInv'
  OBVIOUS
<1>1. ASSUME NEW i \in 1 .. Packets, Arrive(i) PROVE IInv'
  BY <1>1, OutOfRangeOK, NotAcceptedOK, InRangeOK DEF Arrive
<1>2. CASE Connected
  BY <1>2, ConnectedOK
<1>3. ASSUME NEW n \in 1 .. MaxRead, Recv(n) PROVE IInv'
  BY <1>3, RecvOK
<1>4. CASE OwnSteps \/ KeepAlive \/ Closes
  BY <1>4, OwnPacketsOK
<1>5. ASSUME NEW st \in {"Dead", "Removed"}, Die(st) PROVE IInv'
  BY <1>5, DieOK
<1>6. CASE UNCHANGED vars
  <2>1. UNCHANGED <<isn, state, ack_nr, inbuf, reorder_count, got_fin, eof_pkt, read_buf, acked>>
    BY <1>6 DEF vars, bufVars, finVars, readVars
  <2>2. HoldsType' /\ FinKnown'
    BY <2>1 DEF IInv, HoldsType, FinKnown, Seq_nr
  <2>3. Virgin => Virgin'
    BY <2>1 DEF Virgin, Holds
  <2>4. \A p, K : Running(p, K) => Running(p, K)'
    BY <2>1 DEF Running, Holds, Kept, wrapping_add
  <2> QED BY <2>1, <2>2, <2>3, <2>4 DEF IInv
<1> QED BY <1>1, <1>2, <1>3, <1>4, <1>5, <1>6 DEF Next, OwnSteps, Closes

\* Whatever arrives, in whatever order, the reorder buffer holds a set of
\* packets ahead of ack_nr, each at its own slot.
THEOREM Invariance == Spec => []IInv
BY InitOK, NextOK, PTL DEF Spec

\* The position and the ring keep every packet an ack has covered.
LEMMA RunningKeeps == IInv => AckedIsKept
<1> SUFFICES ASSUME IInv, NEW i \in acked PROVE i \in Received \/ get(inbuf, Seq_nr(i)) = i
  BY DEF AckedIsKept
<1>1. ~(state \in {"SynSent", "Removed"} /\ Virgin)
  BY DEF Virgin
<1>2. PICK p, K : Running(p, K)
  BY <1>1 DEF IInv
<1>3. HoldsType /\ state # "SynSent"
  BY <1>1 DEF IInv
<1>4. /\ isn \in Nat /\ isn < SeqMod /\ SeqMod \in Nat /\ isn \in SeqNr
      /\ p \in Nat /\ p < SeqMod /\ ack_nr = wrapping_add(isn, p) /\ Packets \in Nat
      /\ Holds(inbuf, p, K) /\ inbuf.size \in PowersOfTwo /\ Kept(acked, p, K)
  BY <1>2, <1>3, RunningTypes
<1>5. i \in 1 .. Packets /\ (i <= p \/ i \in K)
  BY <1>4 DEF Kept
<1>6. i \in Nat
  BY <1>4, <1>5
<1>7. CASE i <= p
  <2>1. Position(ack_nr) = p
    BY <1>4 DEF Position, wrapping_add, wrapping_sub
  <2> QED BY <1>3, <1>5, <1>7, <2>1 DEF Received
<1>8. CASE i \in K
  <2>1. inbuf.slots[(isn + i) % inbuf.size] = i
    BY <1>4, <1>8 DEF Holds
  <2>2. (wrapping_add(isn, i) + 0) % inbuf.size = (isn + i + 0) % inbuf.size
    BY <1>4, <1>6, SeqSlot
  <2>3. wrapping_add(isn, i) + 0 = wrapping_add(isn, i) /\ isn + i + 0 = isn + i
    BY <1>4, <1>6 DEF wrapping_add
  <2>4. Seq_nr(i) % inbuf.size = (isn + i) % inbuf.size
    BY <2>2, <2>3 DEF Seq_nr
  <2> QED BY <2>1, <2>4 DEF get
<1> QED BY <1>5, <1>7, <1>8

\* What the peer was told it may forget is received or in the ring under its own
\* sequence number (process_incoming, send_ack, ensure_size), for every modulus,
\* ring size, window and number of packets.
THEOREM AckedStaysKept == Spec => []AckedIsKept
BY RunningKeeps, Invariance, PTL

\* reorder_count counts the occupied slots exactly: the drain loop's
\* debug_assert, over every sequence of gaps, duplicates and growths.
THEOREM ReorderCountIsExact == Spec => []ReorderCountExact
<1>1. IInv => ReorderCountExact
  <2> SUFFICES ASSUME IInv PROVE reorder_count = Cardinality(Held)
    BY DEF ReorderCountExact
  <2>1. HoldsType
    BY DEF IInv
  <2>2. CASE Virgin
    <3>1. Holds(inbuf, 0, {}) /\ 0 \in Int /\ reorder_count = 0
      BY <2>2 DEF Virgin
    <3>2. {inbuf.slots[s] : s \in DOMAIN inbuf.slots} \ {None} = {}
      BY <2>1, <3>1, HoldsHeld
    <3> QED BY <3>1, <3>2, FS_EmptySet DEF Held
  <2>3. CASE ~Virgin
    <3>1. PICK p, K : Running(p, K)
      BY <2>3 DEF IInv
    <3>2. Holds(inbuf, p, K) /\ p \in Int /\ reorder_count = Cardinality(K)
      BY <2>1, <3>1, RunningTypes
    <3>3. {inbuf.slots[s] : s \in DOMAIN inbuf.slots} \ {None} = K
      BY <2>1, <3>2, HoldsHeld
    <3> QED BY <3>2, <3>3 DEF Held
  <2> QED BY <2>2, <2>3
<1> QED BY <1>1, Invariance, PTL

-----------------------------------------------------------------------------
(* The stream.  The sums and the concatenation of the payloads are defined  *)
(* by recursion; an induction is an argument about a smallest counterexample.*)

\* The recursive definition of Through has a solution.
LEMMA ThroughDef ==
  Through = [i \in 0 .. Packets |-> IF i = 0 THEN 0 ELSE Through[i - 1] + Lens[i]]
<1> DEFINE Eq(m, g) == g = [i \in 0 .. m |-> IF i = 0 THEN 0 ELSE g[i - 1] + Lens[i]]
           Bad == {m \in Nat : ~ \E g : Eq(m, g)}
<1>1. Bad = {}
  <2> SUFFICES ASSUME Bad # {} PROVE FALSE
    OBVIOUS
  <2>1. Bad \subseteq Nat
    OBVIOUS
  <2> DEFINE m == Min(Bad)
  <2>2. m \in Bad /\ \A n \in Bad : m <= n
    BY <2>1, NatMin
  <2> HIDE DEF m
  <2>3. CASE m = 0
    <3> DEFINE g == [i \in 0 .. 0 |-> 0]
    <3>1. Eq(0, g)
      OBVIOUS
    <3> QED BY <2>2, <2>3, <3>1
  <2>4. CASE m # 0
    <3>1. m - 1 \in Nat /\ m \in Nat /\ m - 1 \notin Bad
      BY <2>2, <2>4
    <3>2. PICK g : Eq(m - 1, g)
      BY <3>1
    <3> DEFINE h == [i \in 0 .. m |-> IF i = m THEN g[m - 1] + Lens[m] ELSE g[i]]
    <3>3. ASSUME NEW i \in 0 .. m PROVE h[i] = IF i = 0 THEN 0 ELSE h[i - 1] + Lens[i]
      BY <2>4, <3>1, <3>2
    <3>4. Eq(m, h)
      BY <3>3
    <3> QED BY <2>2, <3>4
  <2> QED BY <2>3, <2>4
<1>2. Packets \in Nat
  BY RecvAssumption
<1>3. \E g : Eq(Packets, g)
  BY <1>1, <1>2
<1> QED BY <1>3 DEF Through

\* Each packet ends where its payload does; offsets grow.
LEMMA ThroughSteps ==
  /\ \A i \in 0 .. Packets : Through[i] \in Nat
  /\ Through[0] = 0
  /\ \A i \in 1 .. Packets : Offset(i) = Through[i - 1] /\ Through[i] = Through[i - 1] + Lens[i]
<1>0. Packets \in Nat /\ Lens \in [1 .. Packets -> Nat]
  BY RecvAssumption
<1>1. Through[0] = 0
  BY <1>0, ThroughDef
<1>2. \A i \in 1 .. Packets : Offset(i) = Through[i - 1] /\ Through[i] = Through[i - 1] + Lens[i]
  BY <1>0, ThroughDef DEF Offset
<1> DEFINE Bad == {i \in 0 .. Packets : Through[i] \notin Nat}
<1>3. Bad = {}
  <2> SUFFICES ASSUME Bad # {} PROVE FALSE
    OBVIOUS
  <2>1. Bad \subseteq Nat
    BY <1>0
  <2> DEFINE m == Min(Bad)
  <2>2. m \in Bad /\ \A n \in Bad : m <= n
    BY <2>1, NatMin
  <2> HIDE DEF m
  <2>3. m # 0
    BY <1>1, <2>2
  <2>4. m \in 1 .. Packets /\ m - 1 \in 0 .. Packets /\ m - 1 \notin Bad
    BY <1>0, <2>1, <2>2, <2>3
  <2>5. Lens[m] \in Nat
    BY <1>0, <2>4
  <2> QED BY <1>2, <2>2, <2>4, <2>5
<1> QED BY <1>1, <1>2, <1>3

\* The bytes a + 1 .. b of the stream, as a sequence.
Ival(a, b) == [x \in 1 .. b - a |-> a + x]

\* It is one.
LEMMA IvalSeq ==
  ASSUME NEW a \in Nat, NEW b \in Nat, a <= b
  PROVE  Ival(a, b) \in Seq(Nat) /\ Len(Ival(a, b)) = b - a
<1>1. b - a \in Nat
  OBVIOUS
<1>2. Ival(a, b) \in [1 .. b - a -> Nat]
  BY DEF Ival
<1> QED BY <1>1, <1>2

\* Adjacent pieces make one.
LEMMA IvalConcat ==
  ASSUME NEW a \in Nat, NEW b \in Nat, NEW c \in Nat, a <= b, b <= c
  PROVE  Ival(a, b) \o Ival(b, c) = Ival(a, c)
<1>1. /\ Ival(a, b) \in Seq(Nat) /\ Len(Ival(a, b)) = b - a
      /\ Ival(b, c) \in Seq(Nat) /\ Len(Ival(b, c)) = c - b
      /\ Ival(a, c) \in Seq(Nat) /\ Len(Ival(a, c)) = c - a
  <2>1. a <= c
    OBVIOUS
  <2> QED BY <2>1, IvalSeq
<1> DEFINE s == Ival(a, b) \o Ival(b, c)
<1>2. s \in Seq(Nat) /\ Len(s) = c - a
  <2>1. s \in Seq(Nat) /\ Len(s) = Len(Ival(a, b)) + Len(Ival(b, c))
    BY <1>1, ConcatProperties
  <2>2. (b - a) + (c - b) = c - a
    OBVIOUS
  <2> QED BY <1>1, <2>1, <2>2
<1>3. ASSUME NEW x \in 1 .. c - a PROVE s[x] = Ival(a, c)[x]
  <2>0. x \in 1 .. Len(Ival(a, b)) + Len(Ival(b, c))
    BY <1>1
  <2>a. \A y \in 1 .. Len(Ival(a, b)) + Len(Ival(b, c)) :
          s[y] = IF y <= Len(Ival(a, b)) THEN Ival(a, b)[y] ELSE Ival(b, c)[y - Len(Ival(a, b))]
    BY <1>1, ConcatProperties, Zenon
  <2> HIDE DEF s
  <2>1. s[x] = IF x <= b - a THEN Ival(a, b)[x] ELSE Ival(b, c)[x - (b - a)]
    BY <1>1, <2>0, <2>a, Zenon
  <2> QED BY <2>1 DEF Ival
<1> HIDE DEF s
<1>4. DOMAIN s = 1 .. c - a /\ DOMAIN Ival(a, c) = 1 .. c - a
  BY <1>1, <1>2
<1>5. s = [x \in 1 .. c - a |-> s[x]] /\ Ival(a, c) = [x \in 1 .. c - a |-> Ival(a, c)[x]]
  BY <1>1, <1>2, <1>4
<1>6. s = Ival(a, c)
  BY <1>3, <1>5
<1> QED BY <1>6 DEF s

\* A payload is a piece of the stream.
LEMMA PayloadIval ==
  ASSUME NEW i \in 1 .. Packets
  PROVE  /\ Payload(i) = Ival(Through[i - 1], Through[i])
         /\ Through[i - 1] \in Nat /\ Through[i] \in Nat /\ Through[i - 1] <= Through[i]
<1>0. Packets \in Nat /\ i \in Int /\ i - 1 \in 0 .. Packets /\ i \in 0 .. Packets /\ Lens[i] \in Nat
  BY RecvAssumption
<1>1. Offset(i) = Through[i - 1] /\ Through[i] = Through[i - 1] + Lens[i] /\ Through[i - 1] \in Nat /\ Through[i] \in Nat
  BY <1>0, ThroughSteps
<1>2. Through[i] - Through[i - 1] = Lens[i]
  BY <1>0, <1>1
<1> QED BY <1>0, <1>1, <1>2 DEF Payload, Ival

\* The payloads of packets p + 1 .. p + n, one after the other.
LEMMA FlattenRun ==
  ASSUME NEW p \in Nat, NEW n \in Nat \ {0}, p + n <= Packets, NEW f,
         f = [m \in 1 .. n |-> Payload(p + m)]
  PROVE  SX!FlattenSeq(f) = Ival(Through[p], Through[p + n])
<1> DEFINE Eq(m, g) == g = [i \in 1 .. m |-> IF i = 1 THEN f[i] ELSE g[i - 1] \o f[i]]
           run(m) == [i \in 1 .. m |-> Ival(Through[p], Through[p + i])]
<1>0. Packets \in Nat
  BY RecvAssumption
<1>1. ASSUME NEW i \in 1 .. n
      PROVE  /\ f[i] = Ival(Through[p + i - 1], Through[p + i])
             /\ Through[p + i - 1] \in Nat /\ Through[p + i] \in Nat /\ Through[p + i - 1] <= Through[p + i]
  <2>1. p + i \in 1 .. Packets
    BY <1>0
  <2> QED BY <2>1, PayloadIval
<1>2. ASSUME NEW i \in 0 .. n PROVE Through[p] \in Nat /\ Through[p + i] \in Nat /\ Through[p] <= Through[p + i]
  <2> DEFINE Bad == {j \in 0 .. n : ~(Through[p] <= Through[p + j])}
  <2>1. \A j \in 0 .. n : Through[p + j] \in Nat
    BY <1>0, ThroughSteps
  <2>2. Through[p] \in Nat
    BY <1>0, ThroughSteps
  <2>3. Bad = {}
    <3> SUFFICES ASSUME Bad # {} PROVE FALSE
      OBVIOUS
    <3>1. Bad \subseteq Nat
      OBVIOUS
    <3> DEFINE m == Min(Bad)
    <3>2. m \in Bad /\ \A j \in Bad : m <= j
      BY <3>1, NatMin
    <3> HIDE DEF m
    <3>a. m # 0
      <4>1. p + 0 = p /\ Through[p] <= Through[p]
        BY <2>2
      <4> QED BY <3>2, <4>1
    <3>b. m \in 0 .. n
      BY <3>2
    <3>3. m \in 1 .. n /\ m - 1 \in 0 .. n /\ m - 1 \notin Bad
      <4> HIDE DEF Bad
      <4> QED BY <3>2, <3>a, <3>b
    <3>4. Through[p + (m - 1)] <= Through[p + m]
      <4>1. p + m - 1 = p + (m - 1)
        BY <3>3
      <4> QED BY <1>1, <3>3, <4>1
    <3>5. Through[p] <= Through[p + (m - 1)]
      BY <3>3
    <3>6. Through[p + (m - 1)] \in Nat /\ Through[p + m] \in Nat /\ ~(Through[p] <= Through[p + m])
      BY <2>1, <3>2, <3>3
    <3> QED BY <2>2, <3>4, <3>5, <3>6
  <2> QED BY <2>1, <2>2, <2>3
\* run(n) solves the equation of the fold, and nothing else does.
<1>3. ASSUME NEW i \in 2 .. n PROVE run(n)[i - 1] \o f[i] = run(n)[i]
  <2>1. i - 1 \in 1 .. n /\ i \in 1 .. n /\ p + (i - 1) = p + i - 1 /\ i - 1 \in 0 .. n
    OBVIOUS
  <2>2. Ival(Through[p], Through[p + i - 1]) \o Ival(Through[p + i - 1], Through[p + i])
          = Ival(Through[p], Through[p + i])
    BY <1>1, <1>2, <2>1, IvalConcat
  <2> QED BY <1>1, <2>1, <2>2
<1>4. f[1] = run(n)[1]
  <2>1. 1 \in 1 .. n /\ p + 1 - 1 = p
    OBVIOUS
  <2> QED BY <1>1, <2>1
<1>5. Eq(n, run(n))
  <2> DEFINE r == run(n)
  <2>1. r = [i \in 1 .. n |-> r[i]]
    OBVIOUS
  <2>2. r[1] = f[1] /\ \A i \in 2 .. n : r[i] = r[i - 1] \o f[i]
    BY <1>3, <1>4
  <2> HIDE DEF r
  <2>3. \A i \in 1 .. n : r[i] = IF i = 1 THEN f[i] ELSE r[i - 1] \o f[i]
    <3> TAKE i \in 1 .. n
    <3>1. i # 1 => i \in 2 .. n
      OBVIOUS
    <3> QED BY <2>2, <3>1
  <2>4. Eq(n, r)
    BY <2>1, <2>3
  <2> QED BY <2>4 DEF r
<1>6. ASSUME NEW g, Eq(n, g) PROVE g[n] = run(n)[n]
  <2> DEFINE Bad == {j \in 1 .. n : g[j] # run(n)[j]}
  <2>1. Bad = {}
    <3> SUFFICES ASSUME Bad # {} PROVE FALSE
      OBVIOUS
    <3>1. Bad \subseteq Nat
      OBVIOUS
    <3> DEFINE m == Min(Bad)
    <3>2. m \in Bad /\ \A j \in Bad : m <= j
      BY <3>1, NatMin
    <3> HIDE DEF m
    <3>3. m \in 1 .. n /\ g[m] # run(n)[m]
      BY <3>2
    <3>4. g[m] = IF m = 1 THEN f[m] ELSE g[m - 1] \o f[m]
      BY <1>6, <3>3
    <3>5. CASE m = 1
      BY <1>4, <3>3, <3>4, <3>5
    <3>6. CASE m # 1
      <4>1. m \in 2 .. n /\ m - 1 \in 1 .. n /\ m - 1 \notin Bad
        BY <3>1, <3>2, <3>3, <3>6
      <4>2. g[m - 1] = run(n)[m - 1]
        BY <4>1
      <4>3. g[m] = run(n)[m - 1] \o f[m]
        BY <3>4, <3>6, <4>2
      <4> QED BY <1>3, <3>3, <4>1, <4>3
    <3> QED BY <3>5, <3>6
  <2>2. n \in 1 .. n
    OBVIOUS
  <2> QED BY <2>1, <2>2
<1>7. Len(f) = n
  OBVIOUS
<1> DEFINE flat == CHOOSE g : Eq(n, g)
<1>8. Eq(n, flat)
  BY <1>5
<1>9. SX!FlattenSeq(f) = flat[n]
  BY <1>7 DEF SX!FlattenSeq
<1>10. run(n)[n] = Ival(Through[p], Through[p + n])
  OBVIOUS
<1> HIDE DEF flat
<1>11. flat[n] = run(n)[n]
  BY <1>6, <1>8
<1> QED BY <1>9, <1>10, <1>11

\* Offsets grow.
LEMMA ThroughGrows ==
  ASSUME NEW p \in 0 .. Packets, NEW q \in 0 .. Packets, p <= q
  PROVE  Through[p] \in Nat /\ Through[q] \in Nat /\ Through[p] <= Through[q]
<1>0. Packets \in Nat /\ p \in Nat /\ q \in Nat
  BY RecvAssumption
<1>1. Through[p] \in Nat /\ \A j \in p .. q : Through[j] \in Nat
  BY <1>0, ThroughSteps
<1>2. \A j \in p + 1 .. q : Through[j - 1] <= Through[j]
  <2> SUFFICES ASSUME NEW j \in p + 1 .. q PROVE Through[j - 1] <= Through[j]
    OBVIOUS
  <2>1. j \in 1 .. Packets
    BY <1>0
  <2> QED BY <2>1, PayloadIval
<1> DEFINE Bad == {j \in p .. q : ~(Through[p] <= Through[j])}
<1>3. Bad = {}
  <2> SUFFICES ASSUME Bad # {} PROVE FALSE
    OBVIOUS
  <2>1. Bad \subseteq Nat
    BY <1>0
  <2> DEFINE m == Min(Bad)
  <2>2. m \in Bad /\ \A j \in Bad : m <= j
    BY <2>1, NatMin
  <2> HIDE DEF m
  <2>3. m \in p .. q /\ ~(Through[p] <= Through[m])
    BY <2>2
  <2>4. m # p
    BY <1>1, <2>3
  <2>5. m \in p + 1 .. q /\ m - 1 \in p .. q
    BY <1>0, <2>3, <2>4
  <2>6. m - 1 \notin Bad
    <3> HIDE DEF Bad
    <3> QED BY <1>0, <2>2, <2>5
  <2>7. Through[p] <= Through[m - 1] /\ Through[m - 1] <= Through[m]
    BY <1>2, <2>5, <2>6
  <2>8. Through[m - 1] \in Nat /\ Through[m] \in Nat
    BY <1>1, <2>3, <2>5
  <2> QED BY <1>1, <2>3, <2>7, <2>8
<1>4. q \in p .. q
  BY <1>0
<1> QED BY <1>1, <1>3, <1>4

\* What an in-order packet hands to the reader: the payloads from its own to
\* the last one drained.
LEMMA InOrderRun ==
  ASSUME IInv, NEW i \in 1 .. Packets, state \notin {"SynSent", "Removed"}, InOrder(i)
  PROVE  \E p, q \in 0 .. Packets :
           /\ p < q /\ p = Position(ack_nr) /\ q = Position(ack_nr)'
           /\ read_buf' = IF read_shutdown THEN read_buf
                          ELSE read_buf \o Ival(Through[p], Through[q])
           /\ \E fin \in BOOLEAN :
                /\ fin => q = Packets
                /\ got_eof' = (got_eof \/ fin) /\ got_fin_reached' = (got_fin_reached \/ fin)
<1>1. PICK p, K : Running(p, K)
  BY DEF IInv
<1>2. HoldsType /\ FinKnown
  BY DEF IInv
<1>0. /\ isn \in Nat /\ isn < SeqMod /\ SeqMod \in Nat /\ SeqMod >= 2 /\ isn \in SeqNr
      /\ Packets \in Nat /\ 2 * Packets < SeqMod
      /\ p \in Nat /\ p \in Int /\ p <= Packets /\ p < SeqMod /\ ack_nr = wrapping_add(isn, p)
      /\ Holds(inbuf, p, K) /\ inbuf.size \in Nat \ {0} /\ inbuf.size \in PowersOfTwo
      /\ reorder_count \in Nat
  BY <1>1, <1>2, RunningTypes
<1>3. i = p + 1
  <2>1. seqnr(i) = 0
    BY DEF InOrder
  <2>2. i \in Nat /\ i >= 1 /\ i <= Packets
    BY <1>0
  <2> QED BY <1>0, <2>1, <2>2 DEF seqnr, Seq_nr, wrapping_add, wrapping_sub
<1> DEFINE k == Min({n \in 0 .. reorder_count : DrainStops(i, n)})
           ack == wrapping_add(ack_nr, k + 1)
           fin == ReachesFin(i, k)
           packets == Drained(i, k)
           f == [n \in 1 .. k + 1 |-> Payload(packets[n])]
           q == p + k + 1
<1>4. /\ ack_nr' = ack /\ isn' = isn
      /\ got_fin' = GotFin(i) /\ eof_pkt' = EofPkt(i)
      /\ read_buf' = IF read_shutdown THEN read_buf ELSE read_buf \o SX!FlattenSeq(f)
      /\ got_eof' = (got_eof \/ fin) /\ got_fin_reached' = (got_fin_reached \/ fin)
  BY DEF InOrder
<1>5. GotFin(i) => EofPkt(i) = Seq_nr(FinAt) /\ FinAt = Packets
  BY <1>2, <1>4, FinStays
<1> HIDE DEF k
<1>6. /\ k \in 0 .. reorder_count
      /\ \A c \in 2 .. k + 1 : p + c \in K
      /\ p + k + 1 <= Packets
      /\ ReachesFin(i, k) => p + k + 1 = Packets
  BY <1>1, <1>2, <1>3, <1>5, DrainRun DEF k
<1>7. k \in Nat /\ p \in 0 .. Packets /\ q \in 0 .. Packets /\ p < q
  BY <1>0, <1>6
<1>8. Position(ack_nr) = p /\ Position(ack_nr)' = q
  <2>1. Position(ack_nr) = p
    BY <1>0 DEF Position, wrapping_add, wrapping_sub
  <2>2. Position(ack_nr)' = wrapping_sub(ack, isn)
    BY <1>4 DEF Position, wrapping_sub
  <2>3. wrapping_sub(ack, isn) = q
    BY <1>0, <1>6, <1>7 DEF wrapping_add, wrapping_sub
  <2> QED BY <2>1, <2>2, <2>3
<1>9. SX!FlattenSeq(f) = Ival(Through[p], Through[q])
  <2> DEFINE g == [n \in 1 .. k |-> get(inbuf, ack_nr + n + 1)]
             h == [n \in 1 .. k |-> p + n + 1]
  <2>1. g = h
    <3> SUFFICES ASSUME NEW n \in 1 .. k PROVE get(inbuf, ack_nr + n + 1) = p + n + 1
      OBVIOUS
    <3>1. n + 1 \in 2 .. k + 1 /\ n + 1 \in Int /\ ack_nr + n + 1 = ack_nr + (n + 1) /\ p + n + 1 = p + (n + 1)
      BY <1>0, <1>7 DEF wrapping_add
    <3>2. p + (n + 1) \in K
      BY <1>6, <3>1
    <3>3. inbuf.slots[(isn + (p + (n + 1))) % inbuf.size] = p + (n + 1)
      BY <1>0, <3>2 DEF Holds
    <3>4. (ack_nr + (n + 1)) % inbuf.size = (isn + p + (n + 1)) % inbuf.size
      BY <1>0, <3>1, SeqSlot
    <3>5. isn + (p + (n + 1)) = isn + p + (n + 1)
      BY <1>0, <3>1
    <3> QED BY <3>1, <3>3, <3>4, <3>5 DEF get
  <2>2. packets = <<i>> \o h
    BY <2>1 DEF Drained
  <2>3. h \in Seq(Nat) /\ Len(h) = k /\ <<i>> \in Seq(Nat) /\ Len(<<i>>) = 1 /\ i \in Nat
    <3>1. h \in [1 .. k -> Nat] /\ i \in Nat
      BY <1>0, <1>3, <1>7
    <3> HIDE DEF h
    <3> QED BY <1>7, <3>1
  <2>4. ASSUME NEW n \in 1 .. k + 1 PROVE packets[n] = p + n
    <3>1. n \in 1 .. Len(<<i>>) + Len(h)
      BY <1>7, <2>3
    <3>2. packets[n] = IF n <= 1 THEN <<i>>[n] ELSE h[n - 1]
      <4> HIDE DEF h, packets
      <4> QED BY <2>2, <2>3, <3>1, ConcatProperties
    <3>3. CASE n = 1
      BY <1>3, <3>2, <3>3
    <3>4. CASE n # 1
      <4>1. n - 1 \in 1 .. k /\ p + (n - 1) + 1 = p + n
        BY <1>0, <1>7, <3>4
      <4>2. packets[n] = h[n - 1]
        BY <1>7, <3>2, <3>4
      <4> HIDE DEF packets
      <4> QED BY <4>1, <4>2
    <3> QED BY <3>3, <3>4
  <2> HIDE DEF packets
  <2>5. f = [n \in 1 .. k + 1 |-> Payload(p + n)]
    BY <2>4
  <2>6. k + 1 \in Nat \ {0} /\ p + (k + 1) <= Packets /\ p + (k + 1) = q
    BY <1>0, <1>6, <1>7
  <2> HIDE DEF f, q
  <2>7. SX!FlattenSeq(f) = Ival(Through[p], Through[p + (k + 1)])
    BY <1>0, <2>5, <2>6, FlattenRun
  <2> QED BY <2>6, <2>7
<1> HIDE DEF f, q, fin
<1>10. fin \in BOOLEAN /\ (fin => q = Packets)
  BY <1>6 DEF fin, q, ReachesFin
<1>11. read_buf' = IF read_shutdown THEN read_buf ELSE read_buf \o Ival(Through[p], Through[q])
  BY <1>4, <1>9
<1> QED BY <1>4, <1>7, <1>8, <1>10, <1>11

\* Where the stream stands: an open reader has had exactly the payloads of the
\* packets received in order, and the end is known only after the last.
Standing(p) ==
  /\ ~read_shutdown => taken \o read_buf = Ival(0, Through[p])
  /\ got_eof => p = Packets

StreamInv ==
  /\ taken \in Seq(Nat) /\ read_buf \in Seq(Nat)
  /\ got_eof \in BOOLEAN /\ read_shutdown \in BOOLEAN
  /\ \/ state \in {"SynSent", "Removed"} /\ taken = <<>> /\ read_buf = <<>> /\ got_eof = FALSE
     \/ state # "SynSent" /\ Position(ack_nr) \in 0 .. Packets /\ Standing(Position(ack_nr))

\* The start of the stream.
LEMMA IvalEmpty == Through[0] = 0 /\ Ival(0, Through[0]) = <<>>
<1>1. Through[0] = 0
  BY ThroughSteps
<1>2. Ival(0, 0) \in Seq(Nat) /\ Len(Ival(0, 0)) = 0
  BY IvalSeq
<1>3. Ival(0, 0) = <<>>
  <2> HIDE DEF Ival
  <2> QED BY <1>2, EmptySeq
<1> QED BY <1>1, <1>3

\* The stream starts empty.
LEMMA StreamInit == Init => StreamInv
<1> SUFFICES ASSUME Init PROVE StreamInv
  OBVIOUS
<1>1. /\ taken = <<>> /\ read_buf = <<>> /\ got_eof = FALSE /\ read_shutdown = FALSE
      /\ isn \in Nat /\ isn < SeqMod /\ SeqMod \in Nat /\ 0 \in 0 .. Packets
      /\ state = "SynSent" \/ (state = "SynRecv" /\ ack_nr = isn)
  BY RecvAssumption, SeqModAssumption DEF Init, SeqNr
<1>2. taken \in Seq(Nat) /\ read_buf \in Seq(Nat) /\ taken \o read_buf = <<>>
  BY <1>1
<1>3. CASE state = "SynSent"
  BY <1>1, <1>2, <1>3 DEF StreamInv
<1>4. CASE state = "SynRecv" /\ ack_nr = isn
  <2>1. Position(ack_nr) = 0
    BY <1>1, <1>4 DEF Position, wrapping_sub
  <2>2. Standing(0)
    BY <1>1, <1>2, IvalEmpty DEF Standing
  <2> QED BY <1>1, <1>2, <1>4, <2>1, <2>2 DEF StreamInv
<1> QED BY <1>1, <1>3, <1>4

LEMMA Joined ==
  ASSUME NEW s \in Seq(Nat), NEW t \in Seq(Nat), NEW u \in Seq(Nat)
  PROVE  (s \o t) \o u = s \o (t \o u)
<1> DEFINE l == (s \o t) \o u
           r == s \o (t \o u)
<1>1. s \o t \in Seq(Nat) /\ t \o u \in Seq(Nat)
  OBVIOUS
<1>2. l \in Seq(Nat) /\ r \in Seq(Nat) /\ Len(l) = Len(r)
  BY <1>1
<1>3. ASSUME NEW i \in 1 .. Len(l) PROVE l[i] = r[i]
  <2>1. CASE i <= Len(s)
    BY <1>1, <2>1
  <2>2. CASE Len(s) < i /\ i <= Len(s) + Len(t)
    BY <1>1, <2>2
  <2>3. CASE Len(s) + Len(t) < i
    BY <1>1, <2>3
  <2> QED BY <2>1, <2>2, <2>3
<1> QED BY <1>2, <1>3, SeqEqual

\* A read moves bytes from read_buf to taken.
LEMMA RecvMoves ==
  ASSUME StreamInv, NEW n \in 1 .. MaxRead, Recv(n)
  PROVE  /\ taken' \in Seq(Nat) /\ read_buf' \in Seq(Nat)
         /\ taken' \o read_buf' = taken \o read_buf
<1>1. taken \in Seq(Nat) /\ read_buf \in Seq(Nat) /\ Len(read_buf) \in Nat /\ n \in Nat
  BY RecvAssumption DEF StreamInv
<1> DEFINE c == Min({n, Len(read_buf)})
           a == SubSeq(read_buf, 1, c)
           b == SubSeq(read_buf, c + 1, Len(read_buf))
<1>2. read_buf' = b /\ taken' = taken \o a
  BY DEF Recv
<1>3. c \in Nat /\ c <= Len(read_buf)
  <2>1. n \in Int /\ Len(read_buf) \in Int
    BY <1>1
  <2>2. c \in {n, Len(read_buf)} /\ c <= Len(read_buf)
    BY <2>1, MinOfTwo
  <2> QED BY <1>1, <2>2
<1> HIDE DEF c
<1>4. a \in Seq(Nat) /\ b \in Seq(Nat) /\ a \o b = read_buf
  <2>1. /\ a \in Seq(Nat) /\ Len(a) = c
        /\ \A j \in 1 .. c : a[j] = read_buf[j]
    BY <1>1, <1>3
  <2>2. /\ b \in Seq(Nat) /\ Len(b) = Len(read_buf) - c
        /\ \A j \in 1 .. Len(read_buf) - c : b[j] = read_buf[c + j]
    BY <1>1, <1>3
  <2> HIDE DEF a, b
  <2>3. /\ a \o b \in Seq(Nat) /\ Len(a \o b) = Len(a) + Len(b)
        /\ \A j \in 1 .. Len(a) + Len(b) : (a \o b)[j] = IF j <= Len(a) THEN a[j] ELSE b[j - Len(a)]
    BY <2>1, <2>2, ConcatProperties
  <2>4. Len(a \o b) = Len(read_buf)
    BY <1>1, <1>3, <2>1, <2>2, <2>3
  <2>5. ASSUME NEW j \in 1 .. Len(read_buf) PROVE (a \o b)[j] = read_buf[j]
    <3>1. (a \o b)[j] = IF j <= c THEN a[j] ELSE b[j - c]
      <4>1. j \in 1 .. Len(a) + Len(b)
        BY <1>1, <1>3, <2>1, <2>2
      <4> QED BY <2>1, <2>3, <4>1
    <3>2. CASE j <= c
      BY <1>3, <2>1, <3>1, <3>2
    <3>3. CASE ~(j <= c)
      <4>1. j - c \in 1 .. Len(read_buf) - c /\ c + (j - c) = j
        BY <1>1, <1>3, <3>3
      <4> QED BY <2>2, <3>1, <3>3, <4>1
    <3> QED BY <3>2, <3>3
  <2> QED BY <1>1, <2>1, <2>2, <2>3, <2>4, <2>5, SeqEqual
<1> HIDE DEF a, b
<1>5. (taken \o a) \o b = taken \o (a \o b) /\ taken \o a \in Seq(Nat)
  <2>1. (taken \o a) \o b = taken \o (a \o b)
    <3>1. taken \in Seq(Nat) /\ a \in Seq(Nat) /\ b \in Seq(Nat)
      BY <1>1, <1>4
    <3> QED BY <3>1, Joined, Zenon
  <2>2. taken \o a \in Seq(Nat)
    BY <1>1, <1>4
  <2> QED BY <2>1, <2>2
<1> QED BY <1>2, <1>4, <1>5

\* Where an in-order packet takes the stream.
LEMMA InOrderStream ==
  ASSUME IInv, StreamInv, NEW i \in 1 .. Packets, state \notin {"SynSent", "Removed"}, InOrder(i)
  PROVE  StreamInv' /\ [Stream!Next]_(<<taken \o read_buf, got_eof, read_shutdown>>)
<1>1. PICK p, q \in 0 .. Packets :
        /\ p < q /\ p = Position(ack_nr) /\ q = Position(ack_nr)'
        /\ read_buf' = IF read_shutdown THEN read_buf
                       ELSE read_buf \o Ival(Through[p], Through[q])
        /\ \E fin \in BOOLEAN :
             /\ fin => q = Packets
             /\ got_eof' = (got_eof \/ fin) /\ got_fin_reached' = (got_fin_reached \/ fin)
  BY InOrderRun
<1>2. PICK fin \in BOOLEAN : (fin => q = Packets) /\ got_eof' = (got_eof \/ fin)
  BY <1>1
<1>3. taken' = taken /\ read_shutdown' = read_shutdown /\ state' = "Open" /\ isn' = isn
  BY DEF InOrder
<1>4. /\ taken \in Seq(Nat) /\ read_buf \in Seq(Nat) /\ got_eof \in BOOLEAN /\ read_shutdown \in BOOLEAN
      /\ Standing(p)
  BY <1>1 DEF StreamInv
<1>5. got_eof = FALSE /\ got_eof' = fin
  <2>1. p # Packets
    BY <1>1, RecvAssumption
  <2> QED BY <1>2, <1>4, <2>1 DEF Standing
<1>6. CASE read_shutdown = TRUE
  <2>1. read_buf' = read_buf /\ taken' \o read_buf' = taken \o read_buf
    BY <1>1, <1>3, <1>6
  <2>2. Standing(q)'
    BY <1>2, <1>3, <1>5, <1>6 DEF Standing
  <2>3. StreamInv'
    BY <1>1, <1>2, <1>3, <1>4, <1>5, <2>1, <2>2 DEF StreamInv
  <2>4. Stream!EndAfterShut \/ UNCHANGED <<taken \o read_buf, got_eof, read_shutdown>>
    BY <1>3, <1>5, <1>6, <2>1 DEF Stream!EndAfterShut
  <2> QED BY <2>3, <2>4 DEF Stream!Next
<1>7. CASE read_shutdown = FALSE
  <2> DEFINE x == Ival(Through[p], Through[q])
  <2>0. /\ Through[p] \in Nat /\ Through[q] \in Nat /\ Through[p] <= Through[q]
        /\ Through[Packets] \in Nat /\ Through[q] <= Through[Packets]
    <3>1. Packets \in 0 .. Packets /\ q <= Packets /\ p <= q
      BY <1>1, RecvAssumption
    <3> QED BY <3>1, ThroughGrows
  <2>1. x \in Seq(Nat)
    BY <2>0, IvalSeq
  <2>2. Ival(0, Through[p]) \o x = Ival(0, Through[q])
    <3>1. 0 \in Nat /\ 0 <= Through[p]
      BY <2>0
    <3> QED BY <2>0, <3>1, IvalConcat
  <2> HIDE DEF x
  <2>3. read_buf' = read_buf \o x /\ taken \o read_buf = Ival(0, Through[p])
    BY <1>1, <1>4, <1>7 DEF x, Standing
  <2>4. read_buf' \in Seq(Nat) /\ taken' \o read_buf' = Ival(0, Through[q])
    <3>1. (taken \o read_buf) \o x = taken \o (read_buf \o x) /\ read_buf \o x \in Seq(Nat)
      <4>1. (taken \o read_buf) \o x = taken \o (read_buf \o x)
        BY <1>4, <2>1, Joined, Zenon
      <4>2. read_buf \o x \in Seq(Nat)
        BY <1>4, <2>1
      <4> QED BY <4>1, <4>2
    <3> QED BY <1>3, <2>2, <2>3, <3>1
  <2>5. Standing(q)'
    BY <1>2, <1>5, <2>4 DEF Standing, Ival
  <2>6. StreamInv'
    BY <1>1, <1>2, <1>3, <1>4, <1>5, <2>4, <2>5 DEF StreamInv
  <2>7. Stream!Deliver
    <3> DEFINE n == Through[q]
    <3>1. Ival(0, n) = Stream!Prefix(n) /\ Len(Ival(0, n)) = n
      <4>1. n - 0 = n /\ \A y \in 1 .. n : 0 + y = y
        BY <2>0
      <4>2. 0 \in Nat /\ 0 <= n
        BY <2>0
      <4>3. Len(Ival(0, n)) = n
        BY <2>0, <4>1, <4>2, IvalSeq
      <4> QED BY <4>1, <4>3 DEF Ival, Stream!Prefix
    <3>2. Len(taken \o read_buf) = Through[p]
      <4>1. 0 \in Nat /\ 0 <= Through[p] /\ Through[p] - 0 = Through[p]
        BY <2>0
      <4> QED BY <2>0, <2>3, <4>1, IvalSeq
    <3>3. Offset(Packets + 1) = Through[Packets]
      BY RecvAssumption DEF Offset
    <3>4. n \in Len(taken \o read_buf) .. Offset(Packets + 1)
      BY <2>0, <3>2, <3>3
    <3>5. taken' \o read_buf' = Stream!Prefix(n) /\ Len(taken' \o read_buf') = n
      BY <2>4, <3>1
    <3> HIDE DEF n
    <3>6. got_eof' \in {got_eof, Len(taken' \o read_buf') = Offset(Packets + 1)}
      <4>1. CASE fin = TRUE
        <5>1. Len(taken' \o read_buf') = Offset(Packets + 1)
          BY <1>2, <3>3, <3>5, <4>1 DEF n
        <5> QED BY <1>5, <4>1, <5>1
      <4>2. CASE fin = FALSE
        BY <1>5, <4>2
      <4> QED BY <4>1, <4>2
    <3> QED BY <1>3, <1>5, <1>7, <3>4, <3>5, <3>6 DEF Stream!Deliver
  <2> QED BY <2>6, <2>7 DEF Stream!Next
<1> QED BY <1>4, <1>6, <1>7

\* A step that leaves the reader and ack_nr alone.
LEMMA ReaderIdle ==
  ASSUME StreamInv, state' # "SynSent", state = "Removed" => state' = "Removed",
         state # "SynSent" \/ state' = "Removed",
         UNCHANGED <<isn, ack_nr, taken, read_buf, got_eof, read_shutdown>>
  PROVE  StreamInv' /\ UNCHANGED <<taken \o read_buf, got_eof, read_shutdown>>
BY DEF StreamInv, Standing, Position, wrapping_sub, Ival

\* Each step keeps the stream's invariant and is a step of ByteStream, or none.
LEMMA StreamStep ==
  ASSUME IInv, StreamInv, [Next]_vars
  PROVE  StreamInv' /\ [Stream!Next]_(<<taken \o read_buf, got_eof, read_shutdown>>)
<1>1. ASSUME NEW i \in 1 .. Packets, Arrive(i)
      PROVE  StreamInv' /\ [Stream!Next]_(<<taken \o read_buf, got_eof, read_shutdown>>)
  <2>1. state \notin {"SynSent", "Removed"}
    BY <1>1 DEF Arrive
  <2>2. CASE InOrder(i)
    BY <2>1, <2>2, InOrderStream
  <2>3. CASE OutOfRange(i) \/ NotAccepted(i) \/ OutOfOrder(i)
    <3>1. UNCHANGED <<isn, ack_nr, taken, read_buf, got_eof, read_shutdown>> /\ state' \in {state, "Open"}
      BY <2>3 DEF OutOfRange, NotAccepted, OutOfOrder, bufVars, finVars, readVars
    <3> QED BY <2>1, <3>1, ReaderIdle
  <2> QED BY <1>1, <2>2, <2>3 DEF Arrive
<1>2. CASE Connected
  <2>1. /\ state = "SynSent" /\ state' = "Open" /\ ack_nr' = isn
        /\ UNCHANGED <<isn, taken, read_buf, got_eof, read_shutdown>>
    BY <1>2 DEF Connected, finVars, readVars
  <2>2. taken = <<>> /\ read_buf = <<>> /\ got_eof = FALSE /\ taken \o read_buf = <<>>
    BY <2>1 DEF StreamInv
  <2>3. isn \in Int /\ 0 \in 0 .. Packets
    BY RecvAssumption, SeqModAssumption DEF IInv, HoldsType, SeqNr
  <2>4. Position(ack_nr)' = 0
    BY <2>1, <2>3 DEF Position, wrapping_sub
  <2>5. Standing(0)'
    BY <2>1, <2>2, IvalEmpty DEF Standing, Ival
  <2>6. StreamInv'
    BY <2>1, <2>3, <2>4, <2>5 DEF StreamInv
  <2> QED BY <2>1, <2>6
<1>3. ASSUME NEW n \in 1 .. MaxRead, Recv(n)
      PROVE  StreamInv' /\ [Stream!Next]_(<<taken \o read_buf, got_eof, read_shutdown>>)
  <2>1. taken' \in Seq(Nat) /\ read_buf' \in Seq(Nat) /\ taken' \o read_buf' = taken \o read_buf
    BY <1>3, RecvMoves
  <2>2. UNCHANGED <<isn, ack_nr, state, got_eof, read_shutdown>> /\ read_buf # <<>>
    BY <1>3 DEF Recv, bufVars, finVars
  <2>3. StreamInv'
    BY <2>1, <2>2 DEF StreamInv, Standing, Position, wrapping_sub, Ival
  <2> QED BY <2>1, <2>2, <2>3
<1>4. CASE OwnSteps \/ KeepAlive
  <2>1. UNCHANGED <<isn, ack_nr, state, taken, read_buf, got_eof, read_shutdown>> /\ state \in {"Open", "Dead"}
    BY <1>4 DEF OwnSteps, SendData, KeepAlive, bufVars, finVars, readVars
  <2> QED BY <2>1, ReaderIdle
<1>5. CASE Closes
  <2>1. /\ UNCHANGED <<isn, ack_nr, state, taken, read_buf, got_eof>>
        /\ read_shutdown' = TRUE /\ state = "Open"
    BY <1>5 DEF Closes, Close, bufVars, finVars, readVars
  <2>2. StreamInv'
    BY <2>1 DEF StreamInv, Standing, Position, wrapping_sub
  <2>3. Stream!ShutDown
    BY <2>1 DEF Stream!ShutDown
  <2> QED BY <2>2, <2>3 DEF Stream!Next
<1>6. ASSUME NEW st \in {"Dead", "Removed"}, Die(st)
      PROVE  StreamInv' /\ [Stream!Next]_(<<taken \o read_buf, got_eof, read_shutdown>>)
  <2>1. /\ UNCHANGED <<isn, ack_nr, taken, read_buf, got_eof, read_shutdown>>
        /\ state # "Removed" /\ state' # "SynSent" /\ (state # "SynSent" \/ state' = "Removed")
    BY <1>6 DEF Die, bufVars, finVars, readVars
  <2> QED BY <2>1, ReaderIdle
<1>7. CASE UNCHANGED vars
  <2>1. UNCHANGED <<isn, ack_nr, state, taken, read_buf, got_eof, read_shutdown>>
    BY <1>7 DEF vars, bufVars, finVars, readVars
  <2>2. StreamInv'
    BY <2>1 DEF StreamInv, Standing, Position, wrapping_sub, Ival
  <2> QED BY <2>1, <2>2
<1> QED BY <1>1, <1>2, <1>3, <1>4, <1>5, <1>6, <1>7 DEF Next, OwnSteps, Closes

\* The receive half implements ByteStream: in whatever order packets arrive,
\* are repeated, are drained and are read, the reader gets the peer's bytes in
\* order, each once, and the end after the last.
THEOREM StreamIsImplemented == Spec => ImplementsByteStream
<1>1. Init => Stream!Init
  BY DEF Init, Stream!Init
<1>2. IInv /\ StreamInv /\ [Next]_vars =>
        StreamInv' /\ [Stream!Next]_(<<taken \o read_buf, got_eof, read_shutdown>>)
  BY StreamStep
<1>3. Spec => []IInv
  BY Invariance
<1> QED BY <1>1, <1>2, <1>3, StreamInit, PTL DEF Spec, ImplementsByteStream, Stream!Spec

-----------------------------------------------------------------------------
(* The receive window.  WindowUpdateComing is not inductive: a read that      *)
(* empties the buffer and sends nothing is harmless only because the last     *)
(* window noted, while bytes were waiting, was smaller than the whole.        *)

WindowInv ==
  /\ told.wnd \in Nat /\ built \subseteq Nat
  /\ state # "Removed" /\ read_buf = <<>> => told.old \/ told.wnd >= opt_rcvbuf
  /\ state # "Removed" /\ read_buf # <<>> => last_rcv_win < opt_rcvbuf \/ opt_rcvbuf = 0

\* The window announced is never more than the buffer.
LEMMA RcvWindowType ==
  ASSUME NEW rb \in Seq(Nat)
  PROVE  get_rcv_window(rb) \in 0 .. opt_rcvbuf
<1>1. opt_rcvbuf \in Nat /\ Len(rb) \in Nat /\ opt_rcvbuf - Len(rb) \in Int /\ 0 \in Int
  BY RecvAssumption
<1>2. /\ Max({opt_rcvbuf - Len(rb), 0}) \in {opt_rcvbuf - Len(rb), 0}
      /\ Max({opt_rcvbuf - Len(rb), 0}) >= 0
  BY <1>1, MaxOfTwo
<1> QED BY <1>1, <1>2 DEF get_rcv_window

\* The window of an empty buffer is the whole, that of another less.
LEMMA WindowOf ==
  ASSUME NEW rb \in Seq(Nat)
  PROVE  /\ get_rcv_window(rb) \in Nat
         /\ rb = <<>> => get_rcv_window(rb) = opt_rcvbuf
         /\ rb # <<>> => get_rcv_window(rb) < opt_rcvbuf \/ opt_rcvbuf = 0
<1>1. opt_rcvbuf \in Nat /\ Len(rb) \in Nat /\ opt_rcvbuf - Len(rb) \in Int /\ 0 \in Int
  BY RecvAssumption
<1>2. /\ Max({opt_rcvbuf - Len(rb), 0}) \in {opt_rcvbuf - Len(rb), 0}
      /\ Max({opt_rcvbuf - Len(rb), 0}) >= 0 /\ Max({opt_rcvbuf - Len(rb), 0}) >= opt_rcvbuf - Len(rb)
  BY <1>1, MaxOfTwo
<1>3. (rb = <<>> => Len(rb) = 0) /\ (rb # <<>> => Len(rb) > 0)
  OBVIOUS
<1> QED BY <1>1, <1>2, <1>3 DEF get_rcv_window

\* A step that notes the window or leaves it, and that sends nothing, the window
\* it notes, or a header built before.
Speaks(rb) ==
  /\ last_rcv_win' \in {last_rcv_win, get_rcv_window(rb)}
  /\ built' \subseteq built \cup {get_rcv_window(rb)}
  /\ \/ told' = told
     \/ told' = [wnd |-> get_rcv_window(rb), old |-> FALSE]
     \/ \E w \in built' : told' = [wnd |-> w, old |-> TRUE]

\* Such a step with the buffer as it was.
LEMMA SpeaksOK ==
  ASSUME WindowInv, NEW rb \in Seq(Nat), read_buf = rb, read_buf' = rb,
         state # "Removed", Speaks(rb)
  PROVE  WindowInv'
<1>1. /\ get_rcv_window(rb) \in Nat /\ opt_rcvbuf \in Nat
      /\ rb = <<>> => get_rcv_window(rb) = opt_rcvbuf
      /\ rb # <<>> => get_rcv_window(rb) < opt_rcvbuf \/ opt_rcvbuf = 0
  BY WindowOf, RecvAssumption
<1>2. told.wnd \in Nat /\ built \subseteq Nat /\ built' \subseteq Nat
  BY <1>1 DEF WindowInv, Speaks
<1>3. told'.wnd \in Nat /\ (rb = <<>> => told'.old \/ told'.wnd >= opt_rcvbuf)
  <2>1. CASE told' = told
    BY <1>2, <2>1 DEF WindowInv
  <2>2. CASE told' = [wnd |-> get_rcv_window(rb), old |-> FALSE]
    BY <1>1, <2>2
  <2>3. CASE \E w \in built' : told' = [wnd |-> w, old |-> TRUE]
    BY <1>2, <2>3
  <2> QED BY <2>1, <2>2, <2>3 DEF Speaks
<1>4. rb # <<>> => last_rcv_win' < opt_rcvbuf \/ opt_rcvbuf = 0
  BY <1>1 DEF WindowInv, Speaks
<1> QED BY <1>2, <1>3, <1>4 DEF WindowInv

\* A step that announces the window of the buffer it leaves.
LEMMA AnnouncedOK ==
  ASSUME WindowInv, NEW rb \in Seq(Nat), read_buf' = rb, built' = built,
         last_rcv_win' = get_rcv_window(rb),
         told' = [wnd |-> get_rcv_window(rb), old |-> FALSE]
  PROVE  WindowInv'
<1>1. /\ get_rcv_window(rb) \in Nat /\ opt_rcvbuf \in Nat
      /\ rb = <<>> => get_rcv_window(rb) = opt_rcvbuf
      /\ rb # <<>> => get_rcv_window(rb) < opt_rcvbuf \/ opt_rcvbuf = 0
  BY WindowOf, RecvAssumption
<1>2. told'.wnd = get_rcv_window(rb)
  OBVIOUS
<1> QED BY <1>1, <1>2 DEF WindowInv

\* Each step.
LEMMA WindowStep == WindowInv /\ StreamInv /\ StreamInv' /\ [Next]_vars => WindowInv'
<1> SUFFICES ASSUME WindowInv, StreamInv, StreamInv', [Next]_vars PROVE WindowInv'
  OBVIOUS
<1>0. read_buf \in Seq(Nat) /\ read_buf' \in Seq(Nat)
  BY DEF StreamInv
<1>1. ASSUME NEW i \in 1 .. Packets, Arrive(i) PROVE WindowInv'
  <2>1. state # "Removed"
    BY <1>1 DEF Arrive
  <2>2. CASE OutOfRange(i)
    BY <1>0, <2>1, <2>2, SpeaksOK DEF OutOfRange, readVars, Sends, Speaks
  <2>3. CASE NotAccepted(i)
    BY <1>0, <2>1, <2>3, SpeaksOK DEF NotAccepted, readVars, Sends, Speaks
  <2>4. CASE InOrder(i)
    <3>1. /\ last_rcv_win' = get_rcv_window(read_buf') /\ built' = built
          /\ told' = [wnd |-> last_rcv_win', old |-> FALSE]
      BY <2>4 DEF InOrder, Sends
    <3> QED BY <1>0, <3>1, AnnouncedOK
  <2>5. CASE OutOfOrder(i)
    <3>1. /\ read_buf' = read_buf /\ built' = built
          /\ \/ told' = told /\ last_rcv_win' = last_rcv_win
             \/ /\ last_rcv_win' = get_rcv_window(read_buf)
                /\ told' = [wnd |-> last_rcv_win', old |-> FALSE]
      BY <2>5 DEF OutOfOrder, readVars, Sends
    <3> QED BY <1>0, <2>1, <3>1, SpeaksOK DEF Speaks
  <2> QED BY <1>1, <2>2, <2>3, <2>4, <2>5 DEF Arrive
<1>2. CASE Connected
  BY <1>0, <1>2, SpeaksOK DEF Connected, Builds, readVars, Sends, Speaks
<1>3. ASSUME NEW n \in 1 .. MaxRead, Recv(n) PROVE WindowInv'
  <2>1. /\ read_buf # <<>> /\ state' = state /\ built' = built
        /\ IF read_buf' = <<>> /\ state # "Removed" /\ OwesUpdate(read_buf')
           THEN /\ last_rcv_win' = get_rcv_window(read_buf')
                /\ told' = [wnd |-> last_rcv_win', old |-> FALSE]
           ELSE last_rcv_win' = last_rcv_win /\ told' = told
    BY <1>3 DEF Recv, Sends
  <2>2. CASE read_buf' = <<>> /\ state # "Removed" /\ OwesUpdate(read_buf')
    BY <1>0, <2>1, <2>2, AnnouncedOK
  <2>3. CASE ~(read_buf' = <<>> /\ state # "Removed" /\ OwesUpdate(read_buf'))
    <3>1. last_rcv_win' = last_rcv_win /\ told' = told
      BY <2>1, <2>3
    <3>2. ASSUME state # "Removed", read_buf' = <<>> PROVE told.wnd >= opt_rcvbuf
      <4>1. ~(get_rcv_window(read_buf') > last_rcv_win)
        BY <2>3, <3>2 DEF OwesUpdate
      <4>2. get_rcv_window(read_buf') = opt_rcvbuf /\ opt_rcvbuf \in Nat
        BY <1>0, <3>2, WindowOf, RecvAssumption
      <4>3. (last_rcv_win < opt_rcvbuf \/ opt_rcvbuf = 0) /\ told.wnd \in Nat
        BY <2>1, <3>2 DEF WindowInv
      <4>4. opt_rcvbuf = 0
        BY <4>1, <4>2, <4>3
      <4> QED BY <4>3, <4>4
    <3> QED BY <2>1, <3>1, <3>2 DEF WindowInv
  <2> QED BY <2>2, <2>3
<1>4. ASSUME NEW write \in BOOLEAN, NEW last \in Flushed, SendData(write, last) \/ Close(last)
      PROVE  WindowInv'
  <2>1. state # "Removed" /\ read_buf' = read_buf /\ Flushes(last)
    BY <1>4 DEF SendData, Close, readVars
  <2>2. Builds \/ (last = "old" /\ UNCHANGED <<last_rcv_win, built>>)
    BY <1>4 DEF SendData, Close
  <2>3. CASE Builds
    BY <1>0, <2>1, <2>3, SpeaksOK DEF Builds, Flushes, Sends, Speaks
  <2>4. CASE last = "old" /\ UNCHANGED <<last_rcv_win, built>>
    BY <1>0, <2>1, <2>4, SpeaksOK DEF Flushes, Sends, Speaks
  <2> QED BY <2>2, <2>3, <2>4
<1>5. CASE KeepAlive
  BY <1>0, <1>5, SpeaksOK DEF KeepAlive, readVars, Sends, Speaks
<1>6. ASSUME NEW st \in {"Dead", "Removed"}, Die(st) PROVE WindowInv'
  BY <1>0, <1>6, SpeaksOK DEF Die, readVars, Sends, Speaks
<1>7. CASE UNCHANGED vars
  BY <1>7 DEF vars, readVars, WindowInv
<1> QED BY <1>1, <1>2, <1>3, <1>4, <1>5, <1>6, <1>7 DEF Next

\* The last datagram never announces less than there is room for without bytes
\* waiting whose reading announces more (read_drained), unless it is a packet
\* whose header was built earlier (send_packet_at).
THEOREM WindowUpdateAlwaysComing == Spec => []WindowUpdateComing
<1>1. Init => WindowInv
  <2> SUFFICES ASSUME Init PROVE WindowInv
    OBVIOUS
  <2>1. told.wnd = opt_rcvbuf /\ built = {} /\ read_buf = <<>> /\ opt_rcvbuf \in Nat
    BY RecvAssumption DEF Init
  <2> QED BY <2>1 DEF WindowInv
<1>2. WindowInv /\ StreamInv => WindowUpdateComing
  <2> SUFFICES ASSUME WindowInv, StreamInv, state # "Removed", read_buf = <<>>,
                      told.wnd < get_rcv_window(read_buf)
               PROVE  told.old
    BY DEF WindowUpdateComing
  <2>1. get_rcv_window(read_buf) = opt_rcvbuf /\ opt_rcvbuf \in Nat /\ told.wnd \in Nat
    BY WindowOf, RecvAssumption DEF StreamInv, WindowInv
  <2> QED BY <2>1 DEF WindowInv
<1>3. IInv /\ StreamInv /\ [Next]_vars => StreamInv'
  BY StreamStep
<1>4. Spec => []IInv
  BY Invariance
<1> QED BY <1>1, <1>2, <1>3, <1>4, StreamInit, WindowStep, PTL DEF Spec

-----------------------------------------------------------------------------
(* The receive half of a peer that has sent no more than its first N packets *)
(* so far: what the end-to-end proofs build on.                              *)

Upto(N) ==
  /\ HoldsType /\ FinKnown /\ state # "SynSent" /\ read_shutdown = FALSE
  /\ taken \in Seq(Nat) /\ read_buf \in Seq(Nat) /\ got_eof \in BOOLEAN
  /\ last_rcv_win \in 0 .. opt_rcvbuf
  /\ \E p, K : /\ Running(p, K) /\ FinSeen(p, K) /\ Standing(p)
               /\ p <= N /\ \A j \in K : j <= N

\* An ack as it goes on the wire.
AckType(t) == t.ack_nr \in SeqNr /\ t.mask \subseteq 0 .. EackWindow - 1

\* What a step answers: well-formed acks, and what they cover is remembered.
Answers ==
  /\ acked \subseteq acked'
  /\ \A t \in tx' : AckType(t) /\ Covered(t) \subseteq acked'
  /\ last_rcv_win' \in 0 .. opt_rcvbuf

\* What a step does for the reader: nothing, or more of the stream.
Delivers ==
  \/ taken' \o read_buf' = taken \o read_buf /\ got_eof' = got_eof
  \/ /\ got_eof = FALSE
     /\ \E m \in Nat : m >= Len(taken \o read_buf) /\ taken' \o read_buf' = Ival(0, m)

\* ack_nr names the position.
LEMMA RunningPosition ==
  ASSUME HoldsType, NEW p, NEW K, Running(p, K)
  PROVE  Position(ack_nr) = p /\ ack_nr \in SeqNr
<1>1. /\ isn \in Nat /\ isn < SeqMod /\ SeqMod \in Nat /\ p \in Nat /\ p < SeqMod
      /\ ack_nr = wrapping_add(isn, p)
  BY RunningTypes
<1> QED BY <1>1 DEF Position, wrapping_add, wrapping_sub, SeqNr

\* The invariants of the receive half hold whatever the peer has sent so far.
LEMMA UptoInvs ==
  ASSUME NEW N, Upto(N)
  PROVE  IInv /\ StreamInv
<1>1. PICK p, K : Running(p, K) /\ Standing(p)
  BY DEF Upto
<1>2. HoldsType /\ Position(ack_nr) = p /\ p \in 0 .. Packets
  BY <1>1, RunningPosition DEF Upto, Running
<1>3. IInv
  BY <1>1 DEF Upto, IInv
<1>4. StreamInv
  BY <1>1, <1>2 DEF Upto, StreamInv
<1> QED BY <1>3, <1>4

\* More packets sent change nothing here.
LEMMA UptoMore ==
  ASSUME NEW N \in 0 .. Packets, NEW M \in 0 .. Packets, N <= M, Upto(N)
  PROVE  Upto(M)
<1>1. PICK p, K : /\ Running(p, K) /\ FinSeen(p, K) /\ Standing(p)
                  /\ p <= N /\ \A j \in K : j <= N
  BY DEF Upto
<1>2. p \in Nat /\ N \in Nat /\ M \in Nat /\ \A j \in K : j \in Nat
  <2>1. HoldsType
    BY DEF Upto
  <2>2. p \in Nat /\ p \in Int /\ Holds(inbuf, p, K)
    BY <1>1, <2>1, RunningTypes
  <2> QED BY <2>2, HoldsTypes, RecvAssumption
<1>3. p <= M /\ \A j \in K : j <= M
  BY <1>1, <1>2
<1> QED BY <1>1, <1>3 DEF Upto

\* An acceptor that has answered the SYN has received nothing.
LEMMA UptoInit ==
  ASSUME Init, state = "SynRecv"
  PROVE  Upto(0)
<1>1. IInv /\ StreamInv /\ HoldsType /\ FinKnown
  BY InitOK, StreamInit DEF IInv
<1>2. /\ acked = {} /\ reorder_count = 0 /\ inbuf = EmptyBuffer(RingInit) /\ ack_nr = isn
      /\ got_fin_reached = FALSE /\ got_eof = FALSE /\ read_shutdown = FALSE
      /\ taken = <<>> /\ read_buf = <<>> /\ last_rcv_win = opt_rcvbuf
  BY DEF Init
<1>3. Holds(inbuf, 0, {})
  <2>1. DOMAIN inbuf = {"size", "slots"} /\ inbuf.size = RingInit
        /\ inbuf.slots = [s \in 0 .. RingInit - 1 |-> None]
    BY <1>2 DEF EmptyBuffer
  <2> QED BY <2>1, RecvAssumption DEF Holds
<1>4. Running(0, {})
  <2>1. ack_nr = wrapping_add(isn, 0) /\ 0 \in 0 .. Packets
    BY <1>1, <1>2, RecvAssumption, SeqModAssumption DEF HoldsType, SeqNr, wrapping_add
  <2> QED BY <1>2, <1>3, <2>1, FS_EmptySet DEF Running, Kept
<1>5. FinSeen(0, {})
  BY RecvAssumption DEF FinSeen
<1>6. Standing(0)
  <2>1. taken \o read_buf = <<>>
    BY <1>2
  <2> QED BY <1>2, <2>1, IvalEmpty DEF Standing
<1>7. last_rcv_win \in 0 .. opt_rcvbuf /\ taken \in Seq(Nat) /\ read_buf \in Seq(Nat)
  BY <1>2, RecvAssumption
<1>8. \E p, K : /\ Running(p, K) /\ FinSeen(p, K) /\ Standing(p)
                 /\ p <= 0 /\ \A j \in K : j <= 0
  <2>1. 0 <= 0 /\ \A j \in {} : j <= 0
    OBVIOUS
  <2> QED BY <1>4, <1>5, <1>6, <2>1
<1>9. state # "SynSent" /\ got_eof \in BOOLEAN
  BY <1>2
<1> QED BY <1>1, <1>2, <1>7, <1>8, <1>9 DEF Upto

\* send_ack builds a well-formed ack.
LEMMA AckRecordType ==
  ASSUME NEW ack \in SeqNr, NEW b, b.size \in Nat, NEW count, NEW reached
  PROVE  AckType(AckRecord(ack, b, count, reached))
<1> DEFINE t == AckRecord(ack, b, count, reached)
<1>1. t.ack_nr = ack /\ t.mask = eack_mask(ack, b, count, reached)
  BY DEF AckRecord
<1>2. EackWindow \in Int /\ b.size \in Int
  BY RecvAssumption
<1>3. Min({EackWindow, b.size}) \in {EackWindow, b.size} /\ Min({EackWindow, b.size}) <= EackWindow
  BY <1>2, MinOfTwo
<1>4. t.mask \subseteq 0 .. Min({EackWindow, b.size}) - 1
  BY <1>1 DEF eack_mask
<1> HIDE DEF t
<1>5. t.mask \subseteq 0 .. EackWindow - 1
  BY <1>2, <1>3, <1>4
<1> QED BY <1>1, <1>5 DEF AckType, t

\* What is acked in a step is remembered in that step.
LEMMA SendsAnswers ==
  ASSUME NEW acks, PutsOut(acks), \A t \in acks : AckType(t), last_rcv_win' \in 0 .. opt_rcvbuf
  PROVE  Answers
BY DEF PutsOut, Answers

\* The acks of a running connection are well formed.
LEMMA RunningAckTypes ==
  ASSUME HoldsType, NEW p, NEW K, Running(p, K)
  PROVE  /\ AckType(CurrentAck)
         /\ AckType(AckRecord(wrapping_sub(ack_nr, 1), inbuf, reorder_count, got_fin_reached))
<1>1. ack_nr \in SeqNr /\ inbuf.size \in Nat
  BY RunningPosition, RunningTypes
<1>2. wrapping_sub(ack_nr, 1) \in SeqNr
  BY <1>1, SeqModAssumption DEF wrapping_sub, SeqNr
<1> QED BY <1>1, <1>2, AckRecordType DEF CurrentAck

\* A step that leaves the position, the ring and the stream alone.
LEMMA UptoStays ==
  ASSUME NEW N \in 0 .. Packets, Upto(N), state' # "SynSent",
         UNCHANGED <<isn, ack_nr, inbuf, reorder_count, got_fin, eof_pkt, got_fin_reached,
                     got_eof, read_shutdown>>,
         taken' \in Seq(Nat), read_buf' \in Seq(Nat), taken' \o read_buf' = taken \o read_buf,
         last_rcv_win' \in 0 .. opt_rcvbuf,
         NEW acks, PutsOut(acks), \A t \in acks : AckType(t),
         \A p, K : Running(p, K) => \A t \in acks : Kept(Covered(t), p, K)
  PROVE  Upto(N)' /\ Answers /\ Delivers
<1>1. PICK p, K : /\ Running(p, K) /\ FinSeen(p, K) /\ Standing(p)
                  /\ p <= N /\ \A j \in K : j <= N
  BY DEF Upto
<1>2. HoldsType /\ FinKnown /\ read_shutdown = FALSE /\ got_eof \in BOOLEAN
  BY DEF Upto
<1>3. Running(p, K)'
  <2>1. Kept(acked, p, K) /\ \A t \in acks : Kept(Covered(t), p, K)
    BY <1>1 DEF Running
  <2>2. Kept(acked', p, K)
    BY <2>1, SendsKept
  <2> QED BY <1>1, <1>2, <2>2, BufferKept
<1>4. HoldsType' /\ FinKnown'
  BY <1>2 DEF HoldsType, FinKnown, Seq_nr
<1>5. FinSeen(p, K)' /\ Standing(p)'
  BY <1>1 DEF FinSeen, Standing, Ival
<1>6. Upto(N)'
  BY <1>1, <1>2, <1>3, <1>4, <1>5 DEF Upto
<1>7. Answers
  BY SendsAnswers
<1> QED BY <1>6, <1>7 DEF Delivers

\* A packet of those sent, in the order it is due.
LEMMA InOrderUpto ==
  ASSUME NEW N \in 0 .. Packets, Upto(N), NEW i \in 1 .. N, state \notin {"SynSent", "Removed"}, InOrder(i)
  PROVE  Upto(N)' /\ Answers /\ Delivers
<1>1. PICK p, K : /\ Running(p, K) /\ FinSeen(p, K) /\ Standing(p)
                  /\ p <= N /\ \A j \in K : j <= N
  BY DEF Upto
<1>2. HoldsType /\ FinKnown /\ read_shutdown = FALSE /\ i \in 1 .. Packets /\ i <= N /\ N \in Nat
  BY RecvAssumption DEF Upto
<1>3. IInv /\ StreamInv
  BY UptoInvs
<1>4. StreamInv' /\ [Stream!Next]_(<<taken \o read_buf, got_eof, read_shutdown>>)
  BY <1>2, <1>3, InOrderStream
<1>5. PICK r, M : /\ HoldsType' /\ FinKnown' /\ state' # "SynSent"
                  /\ Running(r, M)' /\ M \subseteq K /\ (r = i \/ r \in K) /\ FinSeen(r, M)'
  BY <1>1, <1>2, InOrderMoves
<1>6. /\ state' = "Open" /\ isn' = isn /\ read_shutdown' = FALSE /\ taken' = taken
      /\ last_rcv_win' = get_rcv_window(read_buf')
      /\ \E count, reached : PutsOut({AckRecord(ack_nr', inbuf', count, reached)})
  BY <1>2 DEF InOrder, Sends
<1>7. taken' \in Seq(Nat) /\ read_buf' \in Seq(Nat) /\ got_eof' \in BOOLEAN /\ Standing(Position(ack_nr))'
  BY <1>4, <1>6 DEF StreamInv
<1>8. r \in 0 .. Packets /\ ack_nr' = wrapping_add(isn, r) /\ inbuf'.size \in PowersOfTwo
  BY <1>5, <1>6 DEF Running, Holds, wrapping_add
<1>9. isn \in Nat /\ isn < SeqMod /\ SeqMod \in Nat /\ r \in Nat /\ r < SeqMod
  BY <1>2, <1>8, RecvAssumption, SeqModAssumption DEF HoldsType, SeqNr
<1>10. ack_nr' \in SeqNr /\ Position(ack_nr)' = r
  <2>1. wrapping_add(isn, r) \in SeqNr /\ wrapping_sub(wrapping_add(isn, r), isn) = r
    BY <1>9 DEF wrapping_add, wrapping_sub, SeqNr
  <2> QED BY <1>6, <1>8, <2>1 DEF Position, wrapping_sub
<1>11. Standing(r)'
  BY <1>7, <1>10 DEF Standing
<1>12. last_rcv_win' \in 0 .. opt_rcvbuf
  <2>1. PICK rb \in Seq(Nat) : rb = read_buf'
    BY <1>7
  <2> QED BY <1>6, <2>1, RcvWindowType
<1>13. Answers
  <2>1. PICK count, reached : PutsOut({AckRecord(ack_nr', inbuf', count, reached)})
    BY <1>6
  <2>2. PICK ack, b : ack = ack_nr' /\ b = inbuf' /\ ack \in SeqNr
    BY <1>10
  <2>3. b.size \in Nat
    BY <1>8, <2>2, PowerType
  <2>4. AckType(AckRecord(ack, b, count, reached))
    BY <2>2, <2>3, AckRecordType
  <2>5. PutsOut({AckRecord(ack, b, count, reached)})
    BY <2>1, <2>2
  <2> QED BY <1>12, <2>4, <2>5, SendsAnswers
<1>14. Upto(N)'
  <2>1. r <= N /\ \A j \in M : j <= N
    BY <1>1, <1>2, <1>5
  <2> QED BY <1>5, <1>6, <1>7, <1>11, <1>12, <2>1 DEF Upto
<1>15. Delivers
  <2>1. CASE Stream!Deliver /\ got_eof
    BY <2>1 DEF Stream!Deliver, Upto, Delivers
  <2>2. CASE Stream!Deliver /\ ~got_eof
    <3>1. PICK m \in Len(taken \o read_buf) .. Offset(Packets + 1) : taken' \o read_buf' = Stream!Prefix(m)
      BY <2>2 DEF Stream!Deliver
    <3>2. taken \o read_buf \in Seq(Nat)
      BY DEF Upto
    <3>3. m \in Nat /\ m >= Len(taken \o read_buf)
      <4>1. Len(taken \o read_buf) \in Nat
        BY <3>2
      <4>2. Offset(Packets + 1) \in Nat
        <5>1. Packets \in 0 .. Packets /\ Packets + 1 - 1 = Packets
          BY RecvAssumption
        <5> QED BY <5>1, ThroughGrows DEF Offset
      <4> QED BY <4>1, <4>2
    <3>4. Stream!Prefix(m) = Ival(0, m)
      BY <3>3 DEF Stream!Prefix, Ival
    <3>5. got_eof = FALSE
      BY <2>2 DEF Upto
    <3> QED BY <3>1, <3>3, <3>4, <3>5 DEF Delivers
  <2>3. CASE UNCHANGED <<taken \o read_buf, got_eof, read_shutdown>>
    BY <2>3 DEF Delivers
  <2>4. ~Stream!ShutDown /\ ~Stream!EndAfterShut
    BY <1>2, <1>6 DEF Stream!ShutDown, Stream!EndAfterShut
  <2> QED BY <1>4, <2>1, <2>2, <2>3, <2>4 DEF Stream!Next
<1> QED BY <1>13, <1>14, <1>15

\* A packet of those sent, before it is due.
LEMMA OutOfOrderUpto ==
  ASSUME NEW N \in 0 .. Packets, Upto(N), NEW i \in 1 .. N, OutOfOrder(i)
  PROVE  Upto(N)' /\ Answers /\ Delivers
<1>1. PICK p, K : /\ Running(p, K) /\ FinSeen(p, K) /\ Standing(p)
                  /\ p <= N /\ \A j \in K : j <= N
  BY DEF Upto
<1>2. /\ HoldsType /\ FinKnown /\ read_shutdown = FALSE /\ i \in 1 .. Packets /\ i <= N
      /\ taken \in Seq(Nat) /\ read_buf \in Seq(Nat) /\ last_rcv_win \in 0 .. opt_rcvbuf /\ got_eof \in BOOLEAN
  BY RecvAssumption DEF Upto
<1>3. PICK M : /\ HoldsType' /\ FinKnown' /\ state' # "SynSent"
               /\ Running(p, M)' /\ M \subseteq K \cup {i} /\ FinSeen(p, M)'
  BY <1>1, <1>2, OutOfOrderMoves
<1>4. /\ UNCHANGED <<isn, ack_nr, got_eof, read_shutdown, taken, read_buf>>
      /\ \/ PutsOut({}) /\ last_rcv_win' = last_rcv_win
         \/ /\ PutsOut({AckRecord(ack_nr, inbuf', reorder_count', got_fin_reached)})
            /\ last_rcv_win' = get_rcv_window(read_buf)
  BY DEF OutOfOrder, readVars, Sends
<1>5. Standing(p)'
  BY <1>1, <1>4 DEF Standing, Ival
<1>6. last_rcv_win' \in 0 .. opt_rcvbuf
  BY <1>2, <1>4, RcvWindowType
<1>7. Upto(N)'
  <2>1. p <= N /\ \A j \in M : j <= N
    BY <1>1, <1>2, <1>3
  <2>2. \E r, L : /\ Running(r, L)' /\ FinSeen(r, L)' /\ Standing(r)'
                  /\ r <= N /\ \A j \in L : j <= N
    BY <1>3, <1>5, <2>1
  <2> QED BY <1>2, <1>3, <1>4, <1>6, <2>2 DEF Upto
<1>8. Answers
  <2>1. CASE PutsOut({})
    BY <1>6, <2>1, SendsAnswers
  <2>2. CASE PutsOut({AckRecord(ack_nr, inbuf', reorder_count', got_fin_reached)})
    <3>1. PICK b, c : b = inbuf' /\ c = reorder_count'
      OBVIOUS
    <3>2. ack_nr \in SeqNr
      BY <1>1, <1>2, RunningPosition
    <3>3. b.size \in PowersOfTwo
      BY <1>3, <3>1 DEF Running, Holds
    <3>4. b.size \in Nat
      BY <3>3, PowerType
    <3>5. AckType(AckRecord(ack_nr, b, c, got_fin_reached))
      BY <3>2, <3>4, AckRecordType
    <3>6. PutsOut({AckRecord(ack_nr, b, c, got_fin_reached)})
      BY <2>2, <3>1
    <3> QED BY <1>6, <3>5, <3>6, SendsAnswers
  <2> QED BY <1>4, <2>1, <2>2
<1> QED BY <1>4, <1>7, <1>8 DEF Delivers

\* Every step of the acceptor.
LEMMA UptoStep ==
  ASSUME NEW N \in 0 .. Packets, Upto(N),
         \/ \E i \in 1 .. N : Arrive(i)
         \/ \E n \in 1 .. MaxRead : Recv(n)
         \/ KeepAlive
         \/ Die("Removed")
  PROVE  Upto(N)' /\ Answers /\ Delivers /\ isn' = isn
<1> DEFINE less == AckRecord(wrapping_sub(ack_nr, 1), inbuf, reorder_count, got_fin_reached)
<1>0. /\ HoldsType /\ taken \in Seq(Nat) /\ read_buf \in Seq(Nat) /\ last_rcv_win \in 0 .. opt_rcvbuf
      /\ state # "SynSent" /\ StreamInv
  BY UptoInvs DEF Upto
<1>1. get_rcv_window(read_buf) \in 0 .. opt_rcvbuf
  BY <1>0, RcvWindowType
<1>2. /\ \A p, K : Running(p, K) => Kept(Covered(CurrentAck), p, K) /\ Kept(Covered(less), p, K)
      /\ AckType(CurrentAck) /\ AckType(less)
  <2>1. \A p, K : Running(p, K) => Kept(Covered(CurrentAck), p, K) /\ Kept(Covered(less), p, K)
    BY <1>0, RunningAcks
  <2>2. \E p, K : Running(p, K)
    BY DEF Upto
  <2> QED BY <1>0, <2>1, <2>2, RunningAckTypes
<1> HIDE DEF less
<1>3. ASSUME PutsOut({CurrentAck}) \/ PutsOut({less}) \/ PutsOut({}), state' # "SynSent",
             UNCHANGED <<isn, ack_nr, inbuf, reorder_count, got_fin, eof_pkt, got_fin_reached,
                         got_eof, read_shutdown>>,
             taken' \in Seq(Nat), read_buf' \in Seq(Nat), taken' \o read_buf' = taken \o read_buf,
             last_rcv_win' \in 0 .. opt_rcvbuf
      PROVE  Upto(N)' /\ Answers /\ Delivers /\ isn' = isn
  <2>1. PICK X \in {{CurrentAck}, {less}, {}} : PutsOut(X)
    BY <1>3
  <2>2. (\A t \in X : AckType(t)) /\ \A p, K : Running(p, K) => \A t \in X : Kept(Covered(t), p, K)
    BY <1>2
  <2> QED BY <1>3, <2>1, <2>2, UptoStays
<1>4. ASSUME NEW i \in 1 .. N, Arrive(i) PROVE Upto(N)' /\ Answers /\ Delivers /\ isn' = isn
  <2>1. state \notin {"SynSent", "Removed"}
    BY <1>4 DEF Arrive
  <2>2. CASE OutOfRange(i) \/ NotAccepted(i)
    <3>1. /\ PutsOut({CurrentAck}) \/ PutsOut({})
          /\ last_rcv_win' \in {last_rcv_win, get_rcv_window(read_buf)}
          /\ UNCHANGED <<isn, ack_nr, inbuf, reorder_count, got_fin, eof_pkt, got_fin_reached,
                         got_eof, read_shutdown, taken, read_buf, state>>
      BY <2>2 DEF OutOfRange, NotAccepted, bufVars, finVars, readVars, Sends
    <3>2. last_rcv_win' \in 0 .. opt_rcvbuf
      BY <1>0, <1>1, <3>1
    <3> QED BY <1>0, <1>3, <3>1, <3>2
  <2>3. CASE InOrder(i)
    BY <2>1, <2>3, InOrderUpto DEF InOrder
  <2>4. CASE OutOfOrder(i)
    BY <2>4, OutOfOrderUpto DEF OutOfOrder
  <2> QED BY <1>4, <2>2, <2>3, <2>4 DEF Arrive
<1>5. ASSUME NEW n \in 1 .. MaxRead, Recv(n) PROVE Upto(N)' /\ Answers /\ Delivers /\ isn' = isn
  <2>1. taken' \in Seq(Nat) /\ read_buf' \in Seq(Nat) /\ taken' \o read_buf' = taken \o read_buf
    BY <1>0, <1>5, RecvMoves
  <2>2. /\ PutsOut({CurrentAck}) \/ PutsOut({})
        /\ last_rcv_win' \in {last_rcv_win, get_rcv_window(read_buf')}
        /\ UNCHANGED <<isn, ack_nr, inbuf, reorder_count, got_fin, eof_pkt, got_fin_reached,
                       got_eof, read_shutdown, state>>
    BY <1>5 DEF Recv, bufVars, finVars, Sends
  <2>3. last_rcv_win' \in 0 .. opt_rcvbuf
    <3>1. PICK rb \in Seq(Nat) : rb = read_buf'
      BY <2>1
    <3>2. get_rcv_window(rb) \in 0 .. opt_rcvbuf
      BY RcvWindowType
    <3> QED BY <1>0, <2>2, <3>1, <3>2
  <2> QED BY <1>0, <1>3, <2>1, <2>2, <2>3
<1>6. CASE KeepAlive
  <2>1. /\ PutsOut({less}) /\ last_rcv_win' = get_rcv_window(read_buf)
        /\ UNCHANGED <<isn, ack_nr, inbuf, reorder_count, got_fin, eof_pkt, got_fin_reached,
                       got_eof, read_shutdown, taken, read_buf, state>>
    BY <1>6 DEF KeepAlive, bufVars, finVars, readVars, less, Sends
  <2> QED BY <1>0, <1>1, <1>3, <2>1
<1>7. CASE Die("Removed")
  <2>1. /\ PutsOut({}) /\ last_rcv_win' = last_rcv_win /\ state' # "SynSent"
        /\ UNCHANGED <<isn, ack_nr, inbuf, reorder_count, got_fin, eof_pkt, got_fin_reached,
                       got_eof, read_shutdown, taken, read_buf>>
    BY <1>7 DEF Die, bufVars, finVars, readVars, Sends
  <2> QED BY <1>0, <1>3, <2>1
<1> QED BY <1>4, <1>5, <1>6, <1>7

\* Once all packets are acked, all have been received in order, the FIN included.
LEMMA AllAcked ==
  ASSUME NEW N, Upto(N), 1 .. Packets \subseteq acked
  PROVE  /\ taken \o read_buf = Ival(0, Through[Packets])
         /\ FinAt = Packets => got_fin_reached
<1>1. PICK p, K : /\ Running(p, K) /\ FinSeen(p, K) /\ Standing(p)
  BY DEF Upto
<1>2. HoldsType /\ read_shutdown = FALSE
  BY DEF Upto
<1>3. /\ p \in Nat /\ p \in Int /\ p <= Packets /\ Packets \in Nat
      /\ Holds(inbuf, p, K) /\ Kept(acked, p, K)
  BY <1>1, <1>2, RunningTypes
<1>4. p = Packets
  <2> SUFFICES ASSUME p # Packets PROVE FALSE
    OBVIOUS
  <2>1. p + 1 \in acked
    BY <1>3
  <2>2. p + 1 \in K
    BY <1>3, <2>1 DEF Kept
  <2>3. p + 2 <= p + 1
    BY <1>3, <2>2, HoldsTypes
  <2> QED BY <1>3, <2>3
<1> QED BY <1>1, <1>2, <1>4 DEF FinSeen, Standing

\* A step of the peer alone.
LEMMA UptoSame ==
  ASSUME NEW N, Upto(N), UNCHANGED vars
  PROVE  Upto(N)'
<1>1. PICK p, K : /\ Running(p, K) /\ FinSeen(p, K) /\ Standing(p)
                  /\ p <= N /\ \A j \in K : j <= N
  BY DEF Upto
<1>2. UNCHANGED <<isn, state, ack_nr, inbuf, reorder_count, got_fin, eof_pkt, got_fin_reached, got_eof,
                  read_shutdown, last_rcv_win, read_buf, taken, acked>>
  BY DEF vars, bufVars, finVars, readVars
<1>3. Running(p, K)' /\ FinSeen(p, K)' /\ Standing(p)'
  BY <1>1, <1>2 DEF Running, Holds, Kept, FinSeen, Standing
<1>4. HoldsType' /\ FinKnown'
  BY <1>2 DEF Upto, HoldsType, FinKnown, Seq_nr
<1> QED BY <1>1, <1>2, <1>3, <1>4 DEF Upto
=============================================================================
