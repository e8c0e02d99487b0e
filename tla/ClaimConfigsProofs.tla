-------------------------- MODULE ClaimConfigsProofs --------------------------
(***************************************************************************)
(* For any devices, claims, configurations and hosts: slices that hold all *)
(* that is listed, one mode per GPU, conversions that belong to a claim,   *)
(* the IOMMU backend asked for, the configuration in effect, and a webhook *)
(* that admits what Prepare accepts.                                       *)
(***************************************************************************)
EXTENDS ClaimConfigs, FiniteSetTheorems, WellFoundedInduction, TLAPS

-----------------------------------------------------------------------------
(* Sets as sequences. *)

\* SetToSeq of a finite set lists each of its elements once.
LEMMA SetToSeqFacts ==
  ASSUME NEW T, IsFiniteSet(T)
  PROVE  /\ SetToSeq(T) \in Seq(T)
         /\ \A i, j \in DOMAIN SetToSeq(T) : SetToSeq(T)[i] = SetToSeq(T)[j] => i = j
         /\ \A x \in T : \E i \in DOMAIN SetToSeq(T) : SetToSeq(T)[i] = x
<1> DEFINE n == Cardinality(T)
           s == SetToSeq(T)
<1>1. n \in Nat
  BY FS_CardinalityType
<1>2. PICK f \in Bijection(1 .. n, T) : TRUE
  BY FS_CardinalityType DEF ExistsBijection
<1>3. f \in [1 .. n -> T] /\ IsInjective(f)
  BY <1>2 DEF Bijection, Injection, IsInjective
<1>4. s \in [1 .. n -> T] /\ IsInjective(s)
  BY <1>3, Zenon DEF SetToSeq
<1> HIDE DEF s
<1>5. s \in Injection(1 .. n, T) /\ Cardinality(1 .. n) = n
  BY <1>1, <1>4, FS_Interval DEF Injection
<1>6. s \in Surjection(1 .. n, T)
  BY <1>5, FS_Injection
<1> HIDE DEF n
<1>7. \A x \in T : \E i \in DOMAIN s : s[i] = x
  BY <1>6 DEF Surjection
<1>8. s \in Seq(T)
  BY <1>1, <1>4
<1> QED
  BY <1>4, <1>7, <1>8 DEF s, IsInjective

\* How many of the listed devices come before one.
Before(listed, d) == Cardinality({e \in listed : nameOrder[e] < nameOrder[d]})

LEMMA BeforeFacts ==
  ASSUME NEW listed \in SUBSET Device
  PROVE  /\ Cardinality(listed) \in Nat
         /\ \A d \in listed : Before(listed, d) \in 0 .. Cardinality(listed) - 1
         /\ \A d, e \in listed : nameOrder[d] < nameOrder[e] => Before(listed, d) < Before(listed, e)
<1> DEFINE below(d) == {e \in listed : nameOrder[e] < nameOrder[d]}
<1>0. \A d \in listed : nameOrder[d] \in Nat
  BY SlicesAssumption DEF SlicesAssumption
<1>1. IsFiniteSet(listed) /\ Cardinality(listed) \in Nat
  BY FS_CardinalityType, FS_Subset, SlicesAssumption DEF SlicesAssumption
<1>2. ASSUME NEW d \in listed
      PROVE  IsFiniteSet(below(d)) /\ Cardinality(below(d)) \in Nat /\ d \notin below(d)
    BY <1>0, <1>1, FS_Subset, FS_CardinalityType
<1>3. ASSUME NEW d \in listed, NEW S \in SUBSET listed, below(d) \in SUBSET S, d \in S
      PROVE  Cardinality(below(d)) < Cardinality(S) /\ Cardinality(S) \in Nat
  <2>1. IsFiniteSet(S) /\ Cardinality(S) \in Nat
    BY <1>1, FS_Subset, FS_CardinalityType
  <2>2. Cardinality(below(d)) <= Cardinality(S) /\ below(d) # S
    BY <1>2, <1>3, <2>1, FS_Subset
  <2>3. Cardinality(below(d)) # Cardinality(S)
    BY <1>3, <2>1, <2>2, FS_Subset
  <2> QED
    BY <1>2, <2>1, <2>2, <2>3
<1>4. \A d \in listed : Before(listed, d) = Cardinality(below(d))
  BY DEF Before
<1>5. \A d, e \in listed : nameOrder[d] < nameOrder[e] => below(d) \in SUBSET below(e) /\ d \in below(e)
  BY <1>0
<1>6. \A e \in listed : below(e) \in SUBSET listed
  OBVIOUS
<1> HIDE DEF below
<1>7. \A d \in listed : Before(listed, d) \in 0 .. Cardinality(listed) - 1
  BY <1>1, <1>2, <1>3, <1>4, <1>6
<1>8. \A d, e \in listed : nameOrder[d] < nameOrder[e] => Before(listed, d) < Before(listed, e)
  BY <1>3, <1>4, <1>5, <1>6
<1> QED
  BY <1>1, <1>7, <1>8

\* The sorted list holds the entry of every listed device once, by name.
LEMMA ByNameFacts ==
  ASSUME NEW listed \in SUBSET Device
  PROVE  LET s == ByName(listed) IN
         /\ s \in Seq({GetDevice(d) : d \in listed})
         /\ \A d \in listed : \E i \in DOMAIN s : s[i].name = d
         /\ \A i, j \in DOMAIN s : i < j => nameOrder[s[i].name] < nameOrder[s[j].name]
<1> DEFINE n == Cardinality(listed)
           rank == [d \in listed |-> Before(listed, d) + 1]
           pick(i) == CHOOSE d \in listed : Before(listed, d) = i - 1
           s == ByName(listed)
<1>0. \A d \in listed : nameOrder[d] \in Nat
  BY SlicesAssumption DEF SlicesAssumption
<1>1. /\ n \in Nat /\ \A d \in listed : Before(listed, d) \in 0 .. n - 1
      /\ \A d, e \in listed : nameOrder[d] < nameOrder[e] => Before(listed, d) < Before(listed, e)
  BY BeforeFacts
<1>2. \A d, e \in listed : d # e => nameOrder[d] # nameOrder[e]
  BY SlicesAssumption DEF SlicesAssumption, IsInjective
<1>3. \A d, e \in listed : Before(listed, d) = Before(listed, e) => d = e
  BY <1>0, <1>1, <1>2
<1>4. rank \in Injection(listed, 1 .. n)
  <2>1. \A d \in listed : Before(listed, d) + 1 \in 1 .. n
    BY <1>1
  <2>2. \A d, e \in listed : Before(listed, d) + 1 = Before(listed, e) + 1 => d = e
    BY <1>1, <1>3
  <2> QED
    BY <2>1, <2>2 DEF Injection, IsInjective
<1>5. rank \in Surjection(listed, 1 .. n)
  <2>1. IsFiniteSet(1 .. n) /\ Cardinality(1 .. n) = n
    BY <1>1, FS_Interval
  <2> QED
    BY <1>4, <2>1, FS_Injection
<1>6. \A i \in 1 .. n : \E d \in listed : Before(listed, d) = i - 1
  <2>1. \A i \in 1 .. n : \E d \in listed : rank[d] = i
    BY <1>5 DEF Surjection
  <2> HIDE DEF n
  <2> QED
    BY <1>1, <2>1
<1>7. \A i \in 1 .. n : pick(i) \in listed /\ Before(listed, pick(i)) = i - 1
  BY <1>6
<1>8. s = [i \in 1 .. n |-> GetDevice(pick(i))]
  BY Zenon DEF ByName, Before
<1> HIDE DEF pick, s, n
<1>9. /\ DOMAIN s = 1 .. n /\ s \in Seq({GetDevice(d) : d \in listed})
      /\ \A i \in 1 .. n : s[i].name = pick(i)
  <2> DEFINE G == {GetDevice(d) : d \in listed}
  <2>1. \A i \in 1 .. n : GetDevice(pick(i)) \in G /\ GetDevice(pick(i)).name = pick(i)
    BY <1>7 DEF GetDevice
  <2> HIDE DEF G
  <2>2. s \in [1 .. n -> G] /\ \A i \in 1 .. n : s[i].name = pick(i)
    BY <1>8, <2>1
  <2>3. DOMAIN s = 1 .. n /\ s \in Seq(G)
    BY <1>1, <2>2
  <2> QED
    BY <2>2, <2>3 DEF G
<1>10. ASSUME NEW d \in listed PROVE \E i \in DOMAIN s : s[i].name = d
  <2>1. Before(listed, d) + 1 \in 1 .. n
    BY <1>1
  <2>2. Before(listed, pick(Before(listed, d) + 1)) = Before(listed, d)
    BY <1>1, <1>7, <2>1
  <2> QED
    BY <1>3, <1>7, <1>9, <2>1, <2>2
<1>11. ASSUME NEW i \in DOMAIN s, NEW j \in DOMAIN s, i < j
       PROVE  nameOrder[pick(i)] < nameOrder[pick(j)]
  <2>1. i \in 1 .. n /\ j \in 1 .. n
    BY <1>9
  <2>2. /\ pick(i) \in listed /\ pick(j) \in listed
        /\ Before(listed, pick(i)) = i - 1 /\ Before(listed, pick(j)) = j - 1
    BY <1>7, <2>1
  <2>3. i - 1 < j - 1
    BY <1>1, <1>11, <2>1
  <2> QED
    BY <1>0, <1>1, <1>2, <2>1, <2>2, <2>3
<1> QED
  BY <1>9, <1>10, <1>11 DEF s

-----------------------------------------------------------------------------
(* Chunks. *)

\* A place in a chunk as a place in the list that was cut.
Flat(size, i, j) == (i - 1) * size + j

LEMMA DivFacts ==
  ASSUME NEW n \in Nat, NEW m \in Nat \ {0}
  PROVE  n \div m \in Nat /\ (n \div m) * m <= n /\ n < (n \div m) * m + m
OBVIOUS

LEMMA TimesMonotone ==
  ASSUME NEW i \in Nat, NEW j \in Nat, NEW m \in Nat, i <= j
  PROVE  i * m \in Nat /\ j * m \in Nat /\ i * m <= j * m
OBVIOUS

LEMMA TimesLess ==
  ASSUME NEW i \in Int, NEW m \in Int
  PROVE  (i - 1) * m = i * m - m
OBVIOUS

\* The pieces of a list hold what it holds, in its order, within the size.
Cut(T, s, size) ==
    LET ch == Chunks(s, size) IN
    /\ ch \in Seq(Seq(T))
    /\ \A i \in DOMAIN ch : Len(ch[i]) <= size
    /\ \A i \in DOMAIN ch : \A j \in DOMAIN ch[i] :
           Flat(size, i, j) \in DOMAIN s /\ ch[i][j] = s[Flat(size, i, j)]
    /\ \A k \in DOMAIN s : \E i \in DOMAIN ch : \E j \in DOMAIN ch[i] : Flat(size, i, j) = k

\* Chunks loses, repeats and exchanges nothing.
LEMMA ChunksFacts ==
  ASSUME NEW T, NEW s \in Seq(T), NEW size \in Nat \ {0}
  PROVE  Cut(T, s, size)
<1> DEFINE n == Len(s)
           m == (n + size - 1) \div size
           end(i) == IF i * size < n THEN i * size ELSE n
           chunk(i) == SubSeq(s, (i - 1) * size + 1, end(i))
           ch == Chunks(s, size)
<1>1. /\ m \in Nat /\ n \in Nat /\ m * size <= n + size - 1
      /\ n + size - 1 < m * size + size
  BY DivFacts
<1>2. ch = [i \in 1 .. m |-> chunk(i)]
  BY Zenon DEF Chunks
<1> HIDE DEF m, ch
<1>3. ASSUME NEW i \in 1 .. m
      PROVE  /\ (i - 1) * size \in Nat /\ i * size \in Nat /\ i * size = (i - 1) * size + size
             /\ (i - 1) * size < n
  <2>1. i \in Nat /\ i - 1 \in Nat /\ m \in Nat /\ i <= m
    BY <1>1
  <2>2. (i - 1) * size \in Nat /\ i * size \in Nat /\ i * size <= m * size /\ m * size \in Nat
    BY <2>1, TimesMonotone
  <2>3. (i - 1) * size = i * size - size
    BY <2>1, TimesLess
  <2> QED
    BY <1>1, <2>2, <2>3
<1>4. ASSUME NEW i \in 1 .. m
      PROVE  /\ chunk(i) \in Seq(T)
             /\ Len(chunk(i)) = end(i) - (i - 1) * size /\ Len(chunk(i)) <= size
             /\ DOMAIN chunk(i) = 1 .. end(i) - (i - 1) * size
             /\ \A j \in DOMAIN chunk(i) :
                    Flat(size, i, j) \in DOMAIN s /\ chunk(i)[j] = s[Flat(size, i, j)]
  <2> DEFINE a == (i - 1) * size
             b == end(i)
  <2>1. a \in Nat /\ b \in Nat /\ a < b /\ b <= n /\ b <= a + size
    BY <1>1, <1>3
  <2> HIDE DEF a, b
  <2> DEFINE c == SubSeq(s, a + 1, b)
  <2>2. /\ c \in Seq(T) /\ Len(c) = b - a /\ DOMAIN c = 1 .. b - a
        /\ \A j \in 1 .. b - a : a + j \in 1 .. n /\ c[j] = s[a + j]
    <3>1. a + 1 \in 1 .. n /\ b \in 1 .. n /\ b - (a + 1) + 1 = b - a
      BY <2>1
    <3>2. \A j \in 1 .. b - a : a + j \in 1 .. n /\ (a + 1) + j - 1 = a + j
      BY <2>1
    <3> QED
      BY <3>1, <3>2, <2>1
  <2>3. chunk(i) = c
    BY DEF a, b
  <2>4. /\ chunk(i) \in Seq(T) /\ Len(chunk(i)) = b - a /\ Len(chunk(i)) <= size
        /\ DOMAIN chunk(i) = 1 .. b - a
        /\ \A j \in DOMAIN chunk(i) : a + j \in DOMAIN s /\ chunk(i)[j] = s[a + j]
    <3> HIDE DEF c, chunk
    <3> QED
      BY <2>1, <2>2, <2>3
  <2> HIDE DEF chunk
  <2> QED
    BY <2>4 DEF a, b, Flat
<1>5. ASSUME NEW k \in 1 .. n
      PROVE  \E i \in 1 .. m : \E j \in 1 .. end(i) - (i - 1) * size : Flat(size, i, j) = k
  <2> DEFINE q == (k - 1) \div size
             i == q + 1
             j == k - q * size
  <2>1. q \in Nat /\ q * size <= k - 1 /\ k - 1 < q * size + size /\ q * size \in Nat
    BY DivFacts, TimesMonotone
  <2> HIDE DEF q
  <2>2. q < m
    <3>1. q >= m => m * size <= q * size
      BY <1>1, <2>1, TimesMonotone
    <3> DEFINE x == q * size
               y == m * size
    <3>2. y \in Nat
      BY <1>1, TimesMonotone
    <3>3. x <= k - 1 /\ n + size - 1 < y + size /\ k <= n /\ (q >= m => y <= x) /\ x \in Nat
      BY <1>1, <2>1, <3>1
    <3> HIDE DEF x, y
    <3> QED
      BY <1>1, <2>1, <3>2, <3>3
  <2>3. i \in 1 .. m /\ i - 1 = q
    BY <1>1, <2>1, <2>2
  <2>4. i * size = q * size + size
    BY <1>3, <2>3
  <2>5. j \in 1 .. end(i) - (i - 1) * size
    BY <1>1, <2>1, <2>3, <2>4
  <2>6. Flat(size, i, j) = k
    BY <2>1, <2>3 DEF Flat
  <2> QED
    BY <2>3, <2>5, <2>6
<1> HIDE DEF chunk, end
<1>6. DOMAIN ch = 1 .. m /\ DOMAIN s = 1 .. n /\ \A i \in 1 .. m : ch[i] = chunk(i)
  BY <1>2
<1>7. ch \in Seq(Seq(T))
  <2>1. ch \in [1 .. m -> Seq(T)]
    BY <1>2, <1>4
  <2> QED
    BY <1>1, <2>1
<1>8. \A k \in DOMAIN s : \E i \in DOMAIN ch : \E j \in DOMAIN ch[i] : Flat(size, i, j) = k
  BY <1>4, <1>5, <1>6
<1> QED
  BY <1>4, <1>6, <1>7, <1>8 DEF ch, Cut

\* The order of places is that of their places in the list.
LEMMA FlatOrdered ==
  ASSUME NEW size \in Nat \ {0}, NEW i \in Nat, NEW j \in 1 .. size, NEW k \in Nat, NEW l \in 1 .. size
  PROVE  /\ i < k => Flat(size, i, j) < Flat(size, k, l)
         /\ Flat(size, i, j) = Flat(size, k, l) => i = k /\ j = l
<1>1. ASSUME NEW a \in Nat, NEW b \in Nat, NEW x \in 1 .. size, NEW y \in 1 .. size, a < b
      PROVE  Flat(size, a, x) < Flat(size, b, y)
  <2>1. (a - 1) * size = a * size - size /\ (b - 1) * size = b * size - size
    BY TimesLess
  <2>2. (b - 1) \in Nat /\ a <= b - 1
    BY <1>1
  <2>3. a * size <= (b - 1) * size /\ a * size \in Nat /\ (b - 1) * size \in Nat
    BY <2>2, TimesMonotone
  <2> DEFINE p == a * size
             q == (b - 1) * size
             r == (a - 1) * size
  <2>4. r = p - size /\ p <= q /\ p \in Nat /\ q \in Nat
    BY <2>1, <2>3
  <2>5. Flat(size, a, x) = r + x /\ Flat(size, b, y) = q + y
    BY DEF Flat
  <2> HIDE DEF p, q, r
  <2> QED
    BY <2>4, <2>5
<1>2. \A a, b \in Nat : \A x, y \in 1 .. size : a < b => Flat(size, a, x) < Flat(size, b, y)
  BY <1>1
<1>3. Flat(size, i, j) \in Int /\ Flat(size, k, l) \in Int
  BY DEF Flat
<1>4. Flat(size, i, j) = Flat(size, k, l) => i = k
  BY <1>2, <1>3
<1>5. i = k /\ Flat(size, i, j) = Flat(size, k, l) => j = l
  <2>1. (i - 1) * size \in Int
    OBVIOUS
  <2> QED
    BY <2>1 DEF Flat
<1> QED
  BY <1>2, <1>4, <1>5

-----------------------------------------------------------------------------
(* The published slices. *)

\* The entries of the listed devices, each in one place, in the order of names.
DevicesPublished(listed) ==
    /\ DevicesIn(pool) = {GetDevice(d) : d \in listed}
    /\ {NameAt(p) : p \in DevicePlaces} = listed
    /\ \A p, q \in DevicePlaces : Precedes(p, q) => nameOrder[NameAt(p)] < nameOrder[NameAt(q)]

\* The counters of the split GPUs, each in one place.
CountersPublished(listed) ==
    /\ \A p, q \in CounterPlaces : CounterAt(p) = CounterAt(q) => p = q
    /\ {CounterAt(p) : p \in CounterPlaces} = PartitionableGpus(listed)

\* The pool is that of a start with these devices.
Publishes(auto, listed) == pool = PublishedSlices(auto, listed)

LEMMA PartitionableFinite ==
  ASSUME NEW listed \in SUBSET Device
  PROVE  IsFiniteSet(PartitionableGpus(listed))
<1> DEFINE split == {e \in listed : kind[e] = "synthetic"}
           f == [e \in split |-> gpuOf[e]]
<1>1. IsFiniteSet(split)
  BY FS_Subset, SlicesAssumption DEF SlicesAssumption
<1>2. f \in Surjection(split, PartitionableGpus(listed))
  BY DEF Surjection, PartitionableGpus
<1> QED
  BY <1>1, <1>2, FS_Surjection

\* The places of the pool in AutoPartition mode: chunks of the sorted devices,
\* then chunks of the counters.
LEMMA SplitPool ==
  ASSUME NEW listed \in SUBSET Device, Publishes(TRUE, listed)
  PROVE  LET devices == Chunks(ByName(listed), DeviceLimit)
             sets == Chunks(SetToSeq(PartitionableGpus(listed)), SetLimit)
         IN /\ Len(devices) \in Nat /\ Len(sets) \in Nat
            /\ DOMAIN devices = 1 .. Len(devices) /\ DOMAIN sets = 1 .. Len(sets)
            /\ DOMAIN pool = 1 .. Len(devices) + Len(sets)
            /\ \A i \in 1 .. Len(devices) : pool[i] = DeviceSlice(devices[i])
            /\ \A i \in 1 .. Len(sets) : pool[Len(devices) + i] = CounterSlice(sets[i])
<1> DEFINE devices == Chunks(ByName(listed), DeviceLimit)
           gpus == PartitionableGpus(listed)
           sets == Chunks(SetToSeq(gpus), SetLimit)
           first == [i \in DOMAIN devices |-> DeviceSlice(devices[i])]
           second == [i \in DOMAIN sets |-> CounterSlice(sets[i])]
           T == {GetDevice(d) : d \in listed}
           Slice == {DeviceSlice(d) : d \in Seq(T)} \cup {CounterSlice(g) : g \in Seq(gpus)}
<1>1. devices \in Seq(Seq(T))
  <2>1. ByName(listed) \in Seq(T) /\ DeviceLimit \in Nat \ {0}
    BY ByNameFacts, SlicesAssumption DEF SlicesAssumption
  <2> QED
    BY <2>1, ChunksFacts DEF Cut
<1>2. sets \in Seq(Seq(gpus))
  <2>1. SetToSeq(gpus) \in Seq(gpus) /\ SetLimit \in Nat \ {0}
    BY PartitionableFinite, SetToSeqFacts, SlicesAssumption DEF SlicesAssumption
  <2> QED
    BY <2>1, ChunksFacts DEF Cut
<1>3. pool = first \o second
  BY DEF Publishes, PublishedSlices, BuildSyntheticPartitionResources
<1> HIDE DEF devices, sets, gpus, T
<1>4. /\ Len(devices) \in Nat /\ DOMAIN devices = 1 .. Len(devices)
      /\ Len(sets) \in Nat /\ DOMAIN sets = 1 .. Len(sets)
      /\ \A i \in DOMAIN devices : DeviceSlice(devices[i]) \in Slice
      /\ \A i \in DOMAIN sets : CounterSlice(sets[i]) \in Slice
  BY <1>1, <1>2
<1> HIDE DEF Slice
<1>5. /\ first \in Seq(Slice) /\ second \in Seq(Slice)
      /\ Len(first) = Len(devices) /\ Len(second) = Len(sets)
  BY <1>4
<1>6. /\ \A i \in 1 .. Len(devices) : first[i] = DeviceSlice(devices[i])
      /\ \A i \in 1 .. Len(sets) : second[i] = CounterSlice(sets[i])
  BY <1>4
<1> HIDE DEF first, second
<1>7. /\ first \o second \in Seq(Slice) /\ Len(first \o second) = Len(first) + Len(second)
      /\ \A i \in 1 .. Len(first) : (first \o second)[i] = first[i]
      /\ \A i \in 1 .. Len(second) : (first \o second)[Len(first) + i] = second[i]
  BY <1>5
<1>8. /\ DOMAIN pool = 1 .. Len(devices) + Len(sets)
      /\ \A i \in 1 .. Len(devices) : pool[i] = DeviceSlice(devices[i])
      /\ \A i \in 1 .. Len(sets) : pool[Len(devices) + i] = CounterSlice(sets[i])
  BY <1>3, <1>4, <1>5, <1>6, <1>7
<1> QED
  BY <1>4, <1>8 DEF devices, sets, gpus

\* Chunks of the sorted devices hold them all.
LEMMA SplitDevices ==
  ASSUME NEW listed \in SUBSET Device, Publishes(TRUE, listed)
  PROVE  /\ DevicesPublished(listed)
         /\ \A i \in DOMAIN pool : Len(pool[i].devices) <= DeviceLimit
<1> DEFINE s == ByName(listed)
           T == {GetDevice(d) : d \in listed}
           devices == Chunks(s, DeviceLimit)
           sets == Chunks(SetToSeq(PartitionableGpus(listed)), SetLimit)
           flat(p) == Flat(DeviceLimit, p[1], p[2])
<1>1. /\ Len(devices) \in Nat /\ Len(sets) \in Nat
      /\ DOMAIN devices = 1 .. Len(devices) /\ DOMAIN sets = 1 .. Len(sets)
      /\ DOMAIN pool = 1 .. Len(devices) + Len(sets)
      /\ \A i \in 1 .. Len(devices) : pool[i] = DeviceSlice(devices[i])
      /\ \A i \in 1 .. Len(sets) : pool[Len(devices) + i] = CounterSlice(sets[i])
  BY SplitPool
<1>2. /\ s \in Seq(T) /\ \A d \in listed : \E i \in DOMAIN s : s[i].name = d
      /\ \A i, j \in DOMAIN s : i < j => nameOrder[s[i].name] < nameOrder[s[j].name]
  BY ByNameFacts
<1>3. DeviceLimit \in Nat \ {0}
  BY SlicesAssumption DEF SlicesAssumption
<1>4. /\ devices \in Seq(Seq(T)) /\ \A i \in DOMAIN devices : Len(devices[i]) <= DeviceLimit
      /\ \A i \in DOMAIN devices : \A j \in DOMAIN devices[i] :
             /\ Flat(DeviceLimit, i, j) \in DOMAIN s
             /\ devices[i][j] = s[Flat(DeviceLimit, i, j)]
      /\ \A k \in DOMAIN s : \E i \in DOMAIN devices : \E j \in DOMAIN devices[i] :
             Flat(DeviceLimit, i, j) = k
  <2>1. Cut(T, s, DeviceLimit)
    BY <1>2, <1>3, ChunksFacts
  <2> QED
    BY <2>1 DEF Cut
<1> HIDE DEF devices, sets, s
<1>5. \A i \in DOMAIN pool :
        \/ i \in DOMAIN devices /\ pool[i].devices = devices[i]
        \/ i \notin DOMAIN devices /\ pool[i].devices = <<>>
  <2>1. \A i \in DOMAIN pool : i \in 1 .. Len(devices) \/ i - Len(devices) \in 1 .. Len(sets)
    BY <1>1
  <2>0. \A x : DeviceSlice(x).devices = x /\ CounterSlice(x).devices = <<>>
    BY DEF DeviceSlice, CounterSlice
  <2>2. \A i \in 1 .. Len(sets) : pool[Len(devices) + i].devices = <<>>
    BY <1>1, <2>0
  <2>3. \A i \in 1 .. Len(devices) : pool[i].devices = devices[i]
    BY <1>1, <2>0
  <2>4. \A i \in DOMAIN pool : i = Len(devices) + (i - Len(devices))
    BY <1>1
  <2> QED
    BY <1>1, <2>1, <2>2, <2>3, <2>4
<1>6. DOMAIN devices \subseteq DOMAIN pool
  BY <1>1
<1>7. \A i \in DOMAIN devices : DOMAIN devices[i] \subseteq 1 .. DeviceLimit
  BY <1>3, <1>4
<1>8. \A i \in DOMAIN pool : Len(pool[i].devices) <= DeviceLimit
  BY <1>3, <1>4, <1>5
<1>9. \A p : p \in DevicePlaces <=>
             \E i \in DOMAIN devices : \E j \in DOMAIN devices[i] : p = <<i, j>>
  BY <1>5, <1>6 DEF DevicePlaces
<1>10. ASSUME NEW p \in DevicePlaces
       PROVE  /\ p[1] \in DOMAIN devices /\ p[2] \in DOMAIN devices[p[1]] /\ p = <<p[1], p[2]>>
              /\ flat(p) \in DOMAIN s /\ NameAt(p) = s[flat(p)].name
              /\ pool[p[1]].devices[p[2]] = s[flat(p)]
  BY <1>4, <1>5, <1>6, <1>9 DEF NameAt
<1>11. \A d \in T : d = GetDevice(d.name) /\ d.name \in listed
  BY DEF GetDevice
<1>12. ASSUME NEW d \in listed
       PROVE  \E p \in DevicePlaces : NameAt(p) = d
  <2>1. PICK k \in DOMAIN s : s[k].name = d
    BY <1>2
  <2>2. PICK i \in DOMAIN devices : \E j \in DOMAIN devices[i] : Flat(DeviceLimit, i, j) = k
    BY <1>4
  <2>0. PICK j \in DOMAIN devices[i] : Flat(DeviceLimit, i, j) = k
    BY <2>2
  <2>3. <<i, j>> \in DevicePlaces
    BY <1>9
  <2> QED
    BY <1>10, <2>0, <2>1, <2>3
<1>13. \A p \in DevicePlaces : s[flat(p)] \in T
  BY <1>2, <1>10
<1>14. {NameAt(p) : p \in DevicePlaces} = listed
  BY <1>10, <1>11, <1>12, <1>13
<1>15. DevicesIn(pool) = T
  <2>1. DevicesIn(pool) = {pool[p[1]].devices[p[2]] : p \in DevicePlaces}
    <3>1. \A v : v \in DevicesIn(pool) <=>
                   \E i \in DOMAIN pool : \E j \in DOMAIN pool[i].devices : v = pool[i].devices[j]
      BY DEF DevicesIn, ToSet
    <3>2. \A p : p \in DevicePlaces <=>
                   \E i \in DOMAIN pool : \E j \in DOMAIN pool[i].devices : p = <<i, j>>
      BY DEF DevicePlaces
    <3>3. ASSUME NEW i \in DOMAIN pool, NEW j \in DOMAIN pool[i].devices
          PROVE  \E p \in DevicePlaces : pool[i].devices[j] = pool[p[1]].devices[p[2]]
      <4>1. <<i, j>> \in DevicePlaces /\ <<i, j>>[1] = i /\ <<i, j>>[2] = j
        BY <3>2
      <4> QED
        BY <4>1
    <3>4. \A p \in DevicePlaces : p[1] \in DOMAIN pool /\ p[2] \in DOMAIN pool[p[1]].devices
      BY <3>2
    <3> QED
      BY <3>1, <3>3, <3>4
  <2>2. \A p \in DevicePlaces : pool[p[1]].devices[p[2]] = GetDevice(NameAt(p))
    BY <1>10, <1>11, <1>13
  <2> HIDE DEF T
  <2>3. DevicesIn(pool) = {GetDevice(NameAt(p)) : p \in DevicePlaces}
    BY <2>1, <2>2
  <2> QED
    BY <1>14, <2>3 DEF T
<1>16. ASSUME NEW p \in DevicePlaces, NEW q \in DevicePlaces, Precedes(p, q)
       PROVE  nameOrder[NameAt(p)] < nameOrder[NameAt(q)]
  <2>1. /\ p[1] \in Nat /\ q[1] \in Nat /\ p[2] \in 1 .. DeviceLimit /\ q[2] \in 1 .. DeviceLimit
    BY <1>1, <1>7, <1>10
  <2>2. p[1] < q[1] => flat(p) < flat(q)
    BY <1>3, <2>1, FlatOrdered
  <2>3. p[1] = q[1] /\ p[2] < q[2] => flat(p) < flat(q)
    <3>1. (p[1] - 1) * DeviceLimit \in Int
      BY <1>3, <2>1
    <3> QED
      BY <2>1, <3>1 DEF Flat
  <2>4. flat(p) < flat(q)
    BY <1>16, <2>2, <2>3 DEF Precedes
  <2> QED
    BY <1>2, <1>10, <2>4
<1> QED
  BY <1>8, <1>14, <1>15, <1>16 DEF DevicesPublished

\* Chunks of the counters hold them all.
LEMMA SplitCounters ==
  ASSUME NEW listed \in SUBSET Device, Publishes(TRUE, listed)
  PROVE  /\ CountersPublished(listed)
         /\ \A i \in DOMAIN pool : /\ Len(pool[i].counters) <= SetLimit
                                   /\ pool[i].devices = <<>> \/ pool[i].counters = <<>>
<1> DEFINE gpus == PartitionableGpus(listed)
           s == SetToSeq(gpus)
           devices == Chunks(ByName(listed), DeviceLimit)
           sets == Chunks(s, SetLimit)
           m == Len(devices)
           flat(p) == Flat(SetLimit, p[1] - m, p[2])
<1>1. /\ Len(devices) \in Nat /\ Len(sets) \in Nat
      /\ DOMAIN devices = 1 .. Len(devices) /\ DOMAIN sets = 1 .. Len(sets)
      /\ DOMAIN pool = 1 .. Len(devices) + Len(sets)
      /\ \A i \in 1 .. Len(devices) : pool[i] = DeviceSlice(devices[i])
      /\ \A i \in 1 .. Len(sets) : pool[Len(devices) + i] = CounterSlice(sets[i])
  BY SplitPool
<1>2. /\ s \in Seq(gpus) /\ \A i, j \in DOMAIN s : s[i] = s[j] => i = j
      /\ \A g \in gpus : \E i \in DOMAIN s : s[i] = g
  BY PartitionableFinite, SetToSeqFacts
<1>3. SetLimit \in Nat \ {0}
  BY SlicesAssumption DEF SlicesAssumption
<1> HIDE DEF s, gpus
<1>4. /\ sets \in Seq(Seq(gpus)) /\ \A i \in DOMAIN sets : Len(sets[i]) <= SetLimit
      /\ \A i \in DOMAIN sets : \A j \in DOMAIN sets[i] :
             Flat(SetLimit, i, j) \in DOMAIN s /\ sets[i][j] = s[Flat(SetLimit, i, j)]
      /\ \A k \in DOMAIN s : \E i \in DOMAIN sets : \E j \in DOMAIN sets[i] :
             Flat(SetLimit, i, j) = k
  <2>1. s \in Seq(gpus)
    BY <1>2
  <2>2. Cut(gpus, s, SetLimit)
    BY <1>3, <2>1, ChunksFacts
  <2> QED
    BY <2>2 DEF Cut
<1> HIDE DEF devices, sets
<1>5. \A i \in DOMAIN pool :
        \/ i - m \in DOMAIN sets /\ pool[i].counters = sets[i - m] /\ pool[i].devices = <<>>
        \/ i - m \notin DOMAIN sets /\ pool[i].counters = <<>>
  <2>1. \A i \in DOMAIN pool : i \in 1 .. m \/ i - m \in 1 .. Len(sets)
    BY <1>1
  <2>0. \A x : /\ DeviceSlice(x).counters = <<>>
              /\ CounterSlice(x).counters = x /\ CounterSlice(x).devices = <<>>
    BY DEF DeviceSlice, CounterSlice
  <2>2. \A i \in 1 .. Len(sets) : pool[m + i].counters = sets[i] /\ pool[m + i].devices = <<>>
    BY <1>1, <2>0
  <2>3. \A i \in 1 .. m : pool[i].counters = <<>> /\ i - m \notin 1 .. Len(sets)
    BY <1>1, <2>0
  <2>4. \A i \in DOMAIN pool : i = m + (i - m)
    BY <1>1
  <2> QED
    BY <1>1, <2>1, <2>2, <2>3, <2>4
<1>6. \A i \in DOMAIN sets : m + i \in DOMAIN pool /\ (m + i) - m = i
  BY <1>1
<1>7. \A i \in DOMAIN sets : DOMAIN sets[i] \subseteq 1 .. SetLimit
  BY <1>3, <1>4
<1>8. \A i \in DOMAIN pool : /\ Len(pool[i].counters) <= SetLimit
                             /\ pool[i].devices = <<>> \/ pool[i].counters = <<>>
  BY <1>3, <1>4, <1>5
<1> HIDE DEF m
<1>9. \A p : p \in CounterPlaces <=>
             \E i \in DOMAIN sets : \E j \in DOMAIN sets[i] : p = <<m + i, j>>
  <2>1. \A p : p \in CounterPlaces <=>
               \E i \in DOMAIN pool : \E j \in DOMAIN pool[i].counters : p = <<i, j>>
    BY DEF CounterPlaces
  <2>2. \A i \in DOMAIN sets : pool[m + i].counters = sets[i]
    BY <1>5, <1>6
  <2>3. \A i \in DOMAIN pool : i - m \in DOMAIN sets => m + (i - m) = i
    BY <1>1 DEF m
  <2>4. \A i \in DOMAIN pool : DOMAIN pool[i].counters # {} => i - m \in DOMAIN sets
    BY <1>5
  <2> QED
    BY <1>6, <2>1, <2>2, <2>3, <2>4
<1>10. ASSUME NEW p \in CounterPlaces
       PROVE  /\ p[1] - m \in DOMAIN sets /\ p[2] \in DOMAIN sets[p[1] - m]
              /\ p = <<p[1], p[2]>> /\ p[1] = m + (p[1] - m)
              /\ flat(p) \in DOMAIN s /\ CounterAt(p) = s[flat(p)]
  <2>0. PICK i \in DOMAIN sets : \E j \in DOMAIN sets[i] : p = <<m + i, j>>
    BY <1>9
  <2>1. PICK j \in DOMAIN sets[i] : p = <<m + i, j>>
    BY <2>0
  <2>2. p[1] = m + i /\ p[2] = j /\ p[1] - m = i
    BY <1>6, <2>1
  <2>3. pool[m + i].counters = sets[i]
    BY <1>5, <1>6
  <2> QED
    BY <1>4, <2>1, <2>2, <2>3 DEF CounterAt
<1>11. ASSUME NEW p \in CounterPlaces, NEW q \in CounterPlaces, CounterAt(p) = CounterAt(q)
       PROVE  p = q
  <2>1. flat(p) = flat(q)
    BY <1>2, <1>10, <1>11
  <2>2. /\ p[1] - m \in Nat /\ q[1] - m \in Nat /\ p[2] \in 1 .. SetLimit /\ q[2] \in 1 .. SetLimit
    BY <1>1, <1>7, <1>10
  <2>3. p[1] - m = q[1] - m /\ p[2] = q[2]
    BY <1>3, <2>1, <2>2, FlatOrdered
  <2> QED
    BY <1>10, <2>3
<1>12. ASSUME NEW g \in gpus PROVE \E p \in CounterPlaces : CounterAt(p) = g
  <2>1. PICK k \in DOMAIN s : s[k] = g
    BY <1>2
  <2>2. PICK i \in DOMAIN sets : \E j \in DOMAIN sets[i] : Flat(SetLimit, i, j) = k
    BY <1>4
  <2>0. PICK j \in DOMAIN sets[i] : Flat(SetLimit, i, j) = k
    BY <2>2
  <2>3. <<m + i, j>> \in CounterPlaces /\ (m + i) - m = i
    BY <1>6, <1>9
  <2>4. CounterAt(<<m + i, j>>) = s[flat(<<m + i, j>>)] /\ flat(<<m + i, j>>) = k
    BY <1>10, <2>0, <2>3
  <2> QED
    BY <2>1, <2>3, <2>4
<1>13. \A p \in CounterPlaces : CounterAt(p) \in gpus
  BY <1>2, <1>10
<1>14. {CounterAt(p) : p \in CounterPlaces} = gpus
  BY <1>12, <1>13
<1> QED
  BY <1>8, <1>11, <1>14 DEF CountersPublished, gpus

\* Without AutoPartition one slice holds all the devices and no counters.
LEMMA WholePool ==
  ASSUME NEW listed \in SUBSET Device, Publishes(FALSE, listed)
  PROVE  /\ DevicesPublished(listed) /\ CounterPlaces = {}
         /\ \A i \in DOMAIN pool : pool[i].counters = <<>>
<1> DEFINE s == ByName(listed)
           T == {GetDevice(d) : d \in listed}
<1>1. /\ DOMAIN pool = {1} /\ pool[1].devices = s /\ pool[1].counters = <<>>
  BY DEF Publishes, PublishedSlices, DeviceSlice
<1>2. /\ s \in Seq(T) /\ \A d \in listed : \E i \in DOMAIN s : s[i].name = d
      /\ \A i, j \in DOMAIN s : i < j => nameOrder[s[i].name] < nameOrder[s[j].name]
  BY ByNameFacts
<1> HIDE DEF s
<1>3. \A p : p \in DevicePlaces <=> \E j \in DOMAIN s : p = <<1, j>>
  BY <1>1 DEF DevicePlaces
<1>4. \A d \in T : d = GetDevice(d.name) /\ d.name \in listed
  BY DEF GetDevice
<1>5. \A p \in DevicePlaces : /\ p[1] = 1 /\ p[2] \in DOMAIN s /\ NameAt(p) = s[p[2]].name
                              /\ s[p[2]] \in T
  BY <1>1, <1>2, <1>3 DEF NameAt
<1>6. DevicesIn(pool) = T
  <2>1. DevicesIn(pool) = {s[i] : i \in DOMAIN s}
    BY <1>1 DEF DevicesIn, ToSet
  <2>2. \A i \in DOMAIN s : s[i] \in T
    BY <1>2
  <2>3. \A d \in listed : \E i \in DOMAIN s : s[i] = GetDevice(d)
    BY <1>2, <1>4, <2>2
  <2> QED
    BY <2>1, <2>2, <2>3
<1> HIDE DEF T
<1>7. {NameAt(p) : p \in DevicePlaces} = listed
  <2>1. \A d \in listed : \E p \in DevicePlaces : NameAt(p) = d
    <3> SUFFICES ASSUME NEW d \in listed PROVE \E p \in DevicePlaces : NameAt(p) = d
      OBVIOUS
    <3>1. PICK i \in DOMAIN s : s[i].name = d
      BY <1>2
    <3>2. <<1, i>> \in DevicePlaces /\ NameAt(<<1, i>>) = d
      BY <1>3, <1>5, <3>1
    <3> QED
      BY <3>2
  <2> QED
    BY <1>4, <1>5, <2>1
<1>8. \A p, q \in DevicePlaces : Precedes(p, q) => nameOrder[NameAt(p)] < nameOrder[NameAt(q)]
  BY <1>2, <1>5 DEF Precedes
<1>9. CounterPlaces = {}
  BY <1>1 DEF CounterPlaces
<1> QED
  BY <1>1, <1>6, <1>7, <1>8, <1>9 DEF DevicesPublished, T

\* The pool of a start is complete.
LEMMA PoolComplete ==
  ASSUME Publishes(autoPartition, Listed(autoPartition, vfioManager)),
         autoPartition \in BOOLEAN
  PROVE  /\ SlicesComplete
         /\ DevicesPublished(Listed(autoPartition, vfioManager))
<1> DEFINE listed == Listed(autoPartition, vfioManager)
<1>1. listed \in SUBSET Device /\ \A d \in listed : kind[d] = "synthetic" => autoPartition
  BY DEF Listed
<1> HIDE DEF listed
<1>2. DevicesPublished(listed)
  BY <1>1, SplitDevices, WholePool DEF listed
<1>3. UNION {v.consumes : v \in DevicesIn(pool)} = PartitionableGpus(listed)
  <2>1. DevicesIn(pool) = {GetDevice(d) : d \in listed}
    BY <1>2 DEF DevicesPublished
  <2>2. UNION {v.consumes : v \in DevicesIn(pool)} = UNION {GetDevice(d).consumes : d \in listed}
    BY <2>1
  <2>3. \A d \in listed : GetDevice(d).consumes = IF kind[d] = "synthetic" THEN {gpuOf[d]} ELSE {}
    BY DEF GetDevice
  <2> QED
    <3>1. \A x : x \in UNION {GetDevice(d).consumes : d \in listed} <=>
                   \E d \in listed : kind[d] = "synthetic" /\ x = gpuOf[d]
      BY <2>3
    <3>2. \A x : x \in PartitionableGpus(listed) <=>
                   \E d \in listed : kind[d] = "synthetic" /\ x = gpuOf[d]
      BY DEF PartitionableGpus
    <3> QED
      BY <2>2, <3>1, <3>2
<1>4. CASE autoPartition
  <2>1. /\ CountersPublished(listed)
        /\ \A i \in DOMAIN pool : /\ Len(pool[i].counters) <= SetLimit
                                  /\ pool[i].devices = <<>> \/ pool[i].counters = <<>>
    BY <1>1, <1>4, SplitCounters DEF listed
  <2>2. \A i \in DOMAIN pool : Len(pool[i].devices) <= DeviceLimit
    BY <1>1, <1>4, SplitDevices DEF listed
  <2> QED
    BY <1>2, <1>3, <2>1, <2>2 DEF SlicesComplete, DevicesPublished, CountersPublished, listed
<1>5. CASE ~autoPartition
  <2>1. CounterPlaces = {} /\ \A i \in DOMAIN pool : pool[i].counters = <<>>
    BY <1>1, <1>5, WholePool DEF listed
  <2>2. PartitionableGpus(listed) = {}
    BY <1>1, <1>5 DEF PartitionableGpus
  <2>3. Len(<<>>) = 0 /\ SetLimit \in Nat
    BY SlicesAssumption DEF SlicesAssumption
  <2> QED
    BY <1>2, <1>3, <1>5, <2>1, <2>2, <2>3 DEF SlicesComplete, DevicesPublished, listed
<1> QED
  BY <1>2, <1>4, <1>5 DEF listed

-----------------------------------------------------------------------------
(* The scheduler's assignment. *)

\* Every published device is the entry of its name.
Faithful(p) == \A v \in DevicesIn(p) : v = GetDevice(v.name)

\* A claim holds results for requests, each with a device, and nothing is
\* prepared that is not among them.
ResultsType ==
    /\ results = [c \in Claim |-> results[c]]
    /\ \A c \in Claim :
        /\ DOMAIN results[c] \subseteq Request
        /\ \A r \in DOMAIN results[c] : results[c][r].device \in Device

PreparedType ==
    /\ prepared = [c \in Claim |-> prepared[c]]
    /\ \A c \in Claim :
        /\ DOMAIN prepared[c] \subseteq DOMAIN results[c]
        /\ \A r \in DOMAIN prepared[c] : prepared[c][r].device = results[c][r].device

\* A claim is on record as prepared in no other stage.
PreparedInStage ==
    /\ stage = [c \in Claim |-> stage[c]]
    /\ \A c \in Claim : stage[c] # "prepared" => DOMAIN prepared[c] = {}

\* The claims together stay within what is published.
WithinPool == Faithful(pool) /\ Schedulable(pool, Assignment(results))

EntriesType == allocatable = [d \in Device |-> allocatable[d]]

IInv ==
    /\ ResultsType /\ PreparedType /\ PreparedInStage /\ EntriesType
    /\ WithinPool /\ ConvertedForItsClaim /\ BackendAsAsked

\* The requests that hold a device are finitely many, whatever is allocated.
LEMMA AssignmentFinite ==
  ASSUME ResultsType
  PROVE  /\ IsFiniteSet(DOMAIN Assignment(results))
         /\ \A x \in DOMAIN Assignment(results) : Assignment(results)[x] \in Device
<1>1. IsFiniteSet(Claim \X Request)
  BY FS_Product, ConfigsAssumption DEF ConfigsAssumption
<1>2. DOMAIN Assignment(results) \in SUBSET (Claim \X Request)
  BY DEF ResultsType, Assignment
<1>3. \A x \in DOMAIN Assignment(results) : Assignment(results)[x] \in Device
  BY DEF ResultsType, Assignment
<1> QED
  BY <1>1, <1>2, <1>3, FS_Subset

\* Releasing devices keeps an assignment schedulable.
LEMMA SchedulableShrinks ==
  ASSUME NEW f, NEW g, Faithful(pool), Schedulable(pool, f),
         IsFiniteSet(DOMAIN f), \A x \in DOMAIN f : f[x] \in Device,
         DOMAIN g \subseteq DOMAIN f, \A x \in DOMAIN g : g[x] = f[x]
  PROVE  Schedulable(pool, g)
<1> DEFINE fu(n) == {x \in DOMAIN f : f[x] = n}
           gu(n) == {x \in DOMAIN g : g[x] = n}
           usedf == {v \in DevicesIn(pool) : fu(v.name) # {}}
           usedg == {v \in DevicesIn(pool) : gu(v.name) # {}}
<1>1. /\ \A x \in DOMAIN f : \E v \in usedf : v.name = f[x]
      /\ \A v \in usedf : Cardinality(fu(v.name)) <= v.capacity
      /\ \A v \in usedf : v.consumes \subseteq CountersIn(pool)
      /\ \A v, w \in usedf : v.consumes \cap w.consumes # {} => v = w
  BY Zenon DEF Schedulable
<1>2. usedg \subseteq usedf
  OBVIOUS
<1>3. \A x \in DOMAIN g : \E v \in usedg : v.name = g[x]
  BY <1>1
<1>4. ASSUME NEW v \in usedg PROVE Cardinality(gu(v.name)) <= v.capacity
  <2>1. v.name \in Device /\ v = GetDevice(v.name)
    BY DEF Faithful
  <2>2. v.capacity \in Nat
    BY <2>1, SlicesAssumption DEF GetDevice, SlicesAssumption
  <2>3. IsFiniteSet(fu(v.name)) /\ gu(v.name) \in SUBSET fu(v.name)
    BY FS_Subset
  <2>4. /\ Cardinality(gu(v.name)) <= Cardinality(fu(v.name))
        /\ Cardinality(gu(v.name)) \in Nat /\ Cardinality(fu(v.name)) \in Nat
    BY <2>3, FS_Subset, FS_CardinalityType
  <2>5. Cardinality(fu(v.name)) <= v.capacity
    BY <1>1, <1>2
  <2> HIDE DEF fu, gu, usedf, usedg
  <2> QED
    BY <2>2, <2>4, <2>5
<1>5. /\ \A v \in usedg : v.consumes \subseteq CountersIn(pool)
      /\ \A v, w \in usedg : v.consumes \cap w.consumes # {} => v = w
  BY <1>1, <1>2
<1> QED
  BY <1>3, <1>4, <1>5, Zenon DEF Schedulable

\* Two different elements make two.
LEMMA PairSize ==
  ASSUME NEW x, NEW y, x # y
  PROVE  Cardinality({x} \cup {y}) = 2
<1>1. IsFiniteSet({x}) /\ Cardinality({x}) = 1
  BY FS_Singleton
<1>2. Cardinality({x} \cup {y}) = Cardinality({x}) + 1
  BY <1>1, FS_AddElement
<1> QED
  BY <1>1, <1>2

\* A device that is no synthetic one is held by one request at most.
LEMMA HeldOnce ==
  ASSUME ResultsType, WithinPool,
         NEW x \in DOMAIN Assignment(results), NEW y \in DOMAIN Assignment(results),
         Assignment(results)[x] = Assignment(results)[y],
         kind[Assignment(results)[x]] # "synthetic"
  PROVE  x = y
<1> DEFINE held == Assignment(results)
           usersOf(n) == {z \in DOMAIN held : held[z] = n}
           used == {v \in DevicesIn(pool) : usersOf(v.name) # {}}
           users == usersOf(held[x])
<1>0. /\ \A z \in DOMAIN held : \E v \in used : v.name = held[z]
      /\ \A v \in used : Cardinality(usersOf(v.name)) <= v.capacity
  BY Zenon DEF WithinPool, Schedulable
<1>1. PICK v \in used : v.name = held[x] /\ Cardinality(users) <= v.capacity
  BY <1>0
<1>2. v.capacity = 1
  BY <1>1 DEF WithinPool, Faithful, GetDevice
<1>3. IsFiniteSet(users) /\ {x, y} \in SUBSET users
  BY AssignmentFinite, FS_Subset
<1>4. Cardinality({x, y}) <= Cardinality(users) /\ Cardinality(users) \in Nat
  BY <1>3, FS_Subset, FS_CardinalityType
<1>5. x # y => Cardinality({x} \cup {y}) = 2
  BY PairSize
<1>6. {x} \cup {y} = {x, y}
  OBVIOUS
<1> HIDE DEF users
<1> QED
  BY <1>1, <1>2, <1>4, <1>5, <1>6

\* Within the pool, a GPU has one mode and no share too many.
LEMMA PoolGivesOneMode == ResultsType /\ WithinPool => OneModePerGpu
<1> SUFFICES ASSUME ResultsType, WithinPool PROVE OneModePerGpu
  OBVIOUS
<1> DEFINE held == Assignment(results)
           users(n) == {z \in DOMAIN held : held[z] = n}
           used == {v \in DevicesIn(pool) : users(v.name) # {}}
<1>1. /\ \A x \in DOMAIN held : \E v \in used : v.name = held[x]
      /\ \A v \in used : Cardinality(users(v.name)) <= v.capacity
      /\ \A v, w \in used : v.consumes \cap w.consumes # {} => v = w
  BY Zenon DEF WithinPool, Schedulable
<1>2. \A v \in used : v = GetDevice(v.name)
  BY DEF WithinPool, Faithful
<1> HIDE DEF used
<1> SUFFICES ASSUME NEW x \in DOMAIN held, NEW y \in DOMAIN held, kind[held[x]] = "synthetic"
             PROVE  /\ kind[held[y]] = "synthetic" /\ gpuOf[held[x]] = gpuOf[held[y]]
                           => held[x] = held[y]
                    /\ Cardinality(users(held[x])) <= partitions[held[x]]
  BY Zenon DEF OneModePerGpu
<1>3. PICK v \in used : v.name = held[x]
  BY <1>1
<1>4. PICK w \in used : w.name = held[y]
  BY <1>1
<1> HIDE DEF held, users
<1> QED
  BY <1>1, <1>2, <1>3, <1>4 DEF GetDevice

-----------------------------------------------------------------------------
(* The actions. *)

LEMMA InitIInv == ConfigsInit => IInv
<1> SUFFICES ASSUME ConfigsInit PROVE IInv
  OBVIOUS
<1>1. ResultsType /\ PreparedType /\ PreparedInStage /\ EntriesType
  BY DEF ConfigsInit, ResultsType, PreparedType, PreparedInStage, EntriesType, None
<1>2. Faithful(pool)
  <2>1. autoPartition \in BOOLEAN /\ Publishes(autoPartition, Listed(autoPartition, vfioManager))
    BY Zenon DEF ConfigsInit, Publishes
  <2>2. DevicesIn(pool) = {GetDevice(d) : d \in Listed(autoPartition, vfioManager)}
    BY <2>1, PoolComplete DEF DevicesPublished
  <2> QED
    BY <2>2 DEF Faithful, GetDevice
<1>3. Schedulable(pool, Assignment(results))
  <2>1. DOMAIN Assignment(results) = {}
    BY DEF ConfigsInit, Assignment, None
  <2> QED
    BY <2>1 DEF Schedulable
<1>4. ConvertedForItsClaim /\ BackendAsAsked
  BY DEF ConfigsInit, ConvertedForItsClaim, BackendAsAsked, None
<1> QED
  BY <1>1, <1>2, <1>3, <1>4 DEF IInv, WithinPool

\* What no step of a claim's preparation touches.
LEMMA QuietStep ==
  ASSUME IInv, UNCHANGED <<allocatable, pool, results, prepared>>, PreparedInStage'
  PROVE  IInv'
<1>1. ResultsType' /\ PreparedType' /\ EntriesType'
  BY DEF IInv, ResultsType, PreparedType, EntriesType
<1>2. WithinPool'
  BY DEF IInv, WithinPool
<1>3. ConvertedForItsClaim' /\ BackendAsAsked'
  BY DEF IInv, ConvertedForItsClaim, BackendAsAsked
<1> QED
  BY <1>1, <1>2, <1>3 DEF IInv

LEMMA SubmitStep == ASSUME IInv, NEW c \in Claim, Submit(c) PROVE IInv'
<1>1. PreparedInStage'
  BY DEF IInv, PreparedInStage, Submit
<1>2. UNCHANGED <<allocatable, pool, results, prepared>>
  BY DEF Submit, nodeVars
<1> QED
  BY <1>1, <1>2, QuietStep

LEMMA HostChangesStep == ASSUME IInv, HostChanges PROVE IInv'
<1>1. PreparedInStage'
  BY DEF IInv, PreparedInStage, HostChanges, claimVars
<1>2. UNCHANGED <<allocatable, pool, results, prepared>>
  BY DEF HostChanges, nodeVars, claimVars
<1> QED
  BY <1>1, <1>2, QuietStep

\* Allocation adds results within the pool, of a claim with nothing prepared.
LEMMA AllocateStep == ASSUME IInv, NEW c \in Claim, Allocate(c) PROVE IInv'
<1>1. PICK devices \in [requests[c] -> Device], named \in [requests[c] -> Ref] :
        /\ results' = [results EXCEPT ![c] =
                [r \in requests[c] |-> [ref |-> named[r], device |-> devices[r]]]]
        /\ Schedulable(pool, Assignment(results'))
  BY DEF Allocate
<1>2. stage[c] = "pending" /\ stage' = [stage EXCEPT ![c] = "allocated"]
      /\ UNCHANGED <<pool, allocatable, prepared>>
  BY DEF Allocate, nodeVars
<1>3. DOMAIN prepared[c] = {} /\ requests[c] \subseteq Request
  BY <1>2, ConfigsAssumption DEF IInv, PreparedInStage, ConfigsAssumption
<1>4. ResultsType'
  BY <1>1, <1>3 DEF IInv, ResultsType
<1>5. PreparedType'
  BY <1>1, <1>2, <1>3 DEF IInv, PreparedType, ResultsType
<1>6. PreparedInStage' /\ EntriesType'
  BY <1>2, <1>3 DEF IInv, PreparedInStage, EntriesType
<1>7. WithinPool'
  BY <1>1, <1>2 DEF IInv, WithinPool
<1>8. ConvertedForItsClaim' /\ BackendAsAsked'
  BY <1>2 DEF IInv, ConvertedForItsClaim, BackendAsAsked
<1> QED
  BY <1>4, <1>5, <1>6, <1>7, <1>8 DEF IInv

\* A Prepare that fails converts nothing.
LEMMA PrepareFailsStep == ASSUME IInv, NEW c \in Claim, PrepareFails(c) PROVE IInv'
<1>1. allocatable' = [d \in Device |-> allocatable[d]]
  BY DEF PrepareFails, Convert, None
<1>2. UNCHANGED <<allocatable, pool, results, prepared>>
  BY <1>1 DEF IInv, EntriesType, PrepareFails, nodeVars
<1>3. PreparedInStage'
  BY DEF IInv, PreparedInStage, PrepareFails
<1> QED
  BY <1>2, <1>3, QuietStep

\* The nodes of a VFIO device that Prepare accepts are those of one backend, and
\* the one its policy asks for.
LEMMA BackendChosen ==
  ASSUME NEW config, NEW d, config.kind = "vfio", ApplyFailures(config, d) = {}
  PROVE  LET nodes == VfioNodes(d, config.policy) IN
         /\ "group" \in nodes => nodes \cap {"cdev", "iommu"} = {} /\ "control" \in nodes
         /\ "cdev" \in nodes <=> "iommu" \in nodes
         /\ config.policy = "RequireIommuFD" => "group" \notin nodes
         /\ config.policy \in {"unset", "LegacyOnly"} => "cdev" \notin nodes
<1> DEFINE u == UseIommuFD(d, config.policy)
<1>1. config.policy = "RequireIommuFD" => u
  <2>1. "backend" \notin ApplyFailures(config, d) /\ "manager" \notin ApplyFailures(config, d)
    OBVIOUS
  <2> QED
    BY <2>1 DEF ApplyFailures, BackendFails, Failures
<1>2. u => config.policy \in {"PreferIommuFD", "RequireIommuFD"}
  BY DEF UseIommuFD
<1>3. VfioNodes(d, config.policy) = DeviceNodes(u) \cup CommonNodes(u)
  BY DEF VfioNodes
<1>4. u \in BOOLEAN
  BY DEF UseIommuFD
<1> HIDE DEF u
<1> QED
  BY <1>1, <1>2, <1>3, <1>4 DEF DeviceNodes, CommonNodes

\* Prepare converts the GPUs of this claim that a VfioDeviceConfig takes.
LEMMA PrepareStep == ASSUME IInv, NEW c \in Claim, Prepare(c) PROVE IInv'
<1> DEFINE chosen == Chosen(c)
           entry(r) == [config |-> chosen[r], device |-> results[c][r].device,
                        nodes |-> IF chosen[r].kind = "vfio"
                                  THEN VfioNodes(results[c][r].device, chosen[r].policy)
                                  ELSE {"render"}]
           converted == {results[c][r].device : r \in {q \in DOMAIN chosen : chosen[q].kind = "vfio"}}
<1>1. /\ stage[c] = "allocated" /\ stage' = [stage EXCEPT ![c] = "prepared"]
      /\ UNCHANGED <<pool, results>>
  BY DEF Prepare, nodeVars
<1>2. DOMAIN chosen \subseteq DOMAIN results[c]
  BY DEF Chosen
<1>3. prepared' = [prepared EXCEPT ![c] = [r \in DOMAIN chosen |-> entry(r)]]
  BY Zenon DEF Prepare
<1>4. allocatable' = [d \in Device |-> IF d \in converted THEN "vfio" ELSE allocatable[d]]
  BY Zenon DEF Prepare, Convert
<1>5. \A r \in DOMAIN chosen : ApplyFailures(chosen[r], results[c][r].device) = {}
  BY DEF Prepare, PrepareFailures
<1>6. DOMAIN prepared[c] = {}
  BY <1>1 DEF IInv, PreparedInStage
<1> HIDE DEF chosen
<1>7. ResultsType' /\ EntriesType'
  BY <1>1, <1>4 DEF IInv, ResultsType, EntriesType
<1>8. PreparedType'
  BY <1>1, <1>2, <1>3 DEF IInv, PreparedType
<1>9. PreparedInStage'
  BY <1>1, <1>3 DEF IInv, PreparedInStage, PreparedType
<1>10. WithinPool'
  BY <1>1 DEF IInv, WithinPool
<1>11. /\ prepared'[c] = [r \in DOMAIN chosen |-> entry(r)]
       /\ \A k \in Claim \ {c} : prepared'[k] = prepared[k]
  BY <1>3 DEF IInv, PreparedType
<1>12. BackendAsAsked'
  <2> SUFFICES ASSUME NEW k \in Claim, NEW r \in DOMAIN prepared'[k],
                      prepared'[k][r].config.kind = "vfio"
               PROVE  LET p == prepared'[k][r] IN
                      /\ "group" \in p.nodes => p.nodes \cap {"cdev", "iommu"} = {} /\ "control" \in p.nodes
                      /\ "cdev" \in p.nodes <=> "iommu" \in p.nodes
                      /\ p.config.policy = "RequireIommuFD" => "group" \notin p.nodes
                      /\ p.config.policy \in {"unset", "LegacyOnly"} => "cdev" \notin p.nodes
    BY Zenon DEF BackendAsAsked
  <2>1. CASE k # c
    BY <1>11, <2>1 DEF IInv, BackendAsAsked
  <2>2. CASE k = c
    <3>1. r \in DOMAIN chosen /\ prepared'[k][r] = entry(r)
      BY <1>11, <2>2
    <3>2. /\ prepared'[k][r].config = chosen[r]
          /\ prepared'[k][r].nodes = VfioNodes(results[c][r].device, chosen[r].policy)
      BY <3>1
    <3> QED
      BY <3>1, <3>2, <1>5, BackendChosen
  <2> QED
    BY <2>1, <2>2
<1>13. ConvertedForItsClaim'
  <2> SUFFICES ASSUME NEW d \in Device, kind[d] = "gpu"
               PROVE  allocatable'[d] = "vfio" <=>
                        \E k \in Claim : \E r \in DOMAIN prepared'[k] :
                            prepared'[k][r].device = d /\ prepared'[k][r].config.kind = "vfio"
    BY DEF ConvertedForItsClaim
  <2> DEFINE before(k) == \E r \in DOMAIN prepared[k] :
                prepared[k][r].device = d /\ prepared[k][r].config.kind = "vfio"
             after(k) == \E r \in DOMAIN prepared'[k] :
                prepared'[k][r].device = d /\ prepared'[k][r].config.kind = "vfio"
  <2>1. allocatable[d] = "vfio" <=> \E k \in Claim : before(k)
    BY DEF IInv, ConvertedForItsClaim
  <2>2. ~before(c)
    BY <1>6
  <2>3. \A k \in Claim \ {c} : after(k) <=> before(k)
    BY <1>11
  <2>4. d \in converted <=> after(c)
    <3>1. /\ DOMAIN prepared'[c] = DOMAIN chosen
          /\ \A r \in DOMAIN chosen : /\ prepared'[c][r].device = results[c][r].device
                                      /\ prepared'[c][r].config = chosen[r]
      BY <1>11
    <3> QED
      BY <3>1
  <2>5. allocatable'[d] = "vfio" <=> d \in converted \/ allocatable[d] = "vfio"
    BY <1>4
  <2> HIDE DEF converted, before, after
  <2>6. allocatable'[d] = "vfio" <=> \E k \in Claim : after(k)
    BY <2>1, <2>2, <2>3, <2>4, <2>5
  <2> QED
    BY <2>6, Zenon DEF after
<1> QED
  BY <1>7, <1>8, <1>9, <1>10, <1>12, <1>13 DEF IInv

\* Unprepare returns the GPUs of this claim; no other claim holds one of them.
LEMMA UnprepareStep == ASSUME IInv, NEW c \in Claim, Unprepare(c) PROVE IInv'
<1>1. /\ allocatable' = [d \in Device |->
            IF \E r \in DOMAIN prepared[c] : prepared[c][r].device = d /\ allocatable[d] = "vfio"
            THEN kind[d] ELSE allocatable[d]]
      /\ stage' = [stage EXCEPT ![c] = "done"]
      /\ prepared' = [prepared EXCEPT ![c] = <<>>]
      /\ results' = [results EXCEPT ![c] = <<>>]
      /\ UNCHANGED pool
  BY DEF Unprepare, nodeVars, None
<1>2. /\ DOMAIN prepared'[c] = {} /\ DOMAIN results'[c] = {}
      /\ \A k \in Claim \ {c} : prepared'[k] = prepared[k] /\ results'[k] = results[k]
  BY <1>1 DEF IInv, PreparedType, ResultsType
<1>3. ResultsType' /\ PreparedType' /\ EntriesType'
  BY <1>1, <1>2 DEF IInv, ResultsType, PreparedType, EntriesType
<1>4. PreparedInStage'
  BY <1>1, <1>2 DEF IInv, PreparedInStage
<1>5. WithinPool'
  <2>1. /\ DOMAIN Assignment(results') \subseteq DOMAIN Assignment(results)
        /\ \A x \in DOMAIN Assignment(results') : Assignment(results')[x] = Assignment(results)[x]
    BY <1>2 DEF Assignment
  <2>2. Schedulable(pool, Assignment(results'))
    BY <2>1, AssignmentFinite, SchedulableShrinks DEF IInv, WithinPool
  <2> QED
    BY <1>1, <2>2 DEF IInv, WithinPool
<1>6. BackendAsAsked'
  BY <1>2 DEF IInv, BackendAsAsked
<1>7. ConvertedForItsClaim'
  <2> SUFFICES ASSUME NEW d \in Device, kind[d] = "gpu"
               PROVE  allocatable'[d] = "vfio" <=>
                        \E k \in Claim : \E r \in DOMAIN prepared'[k] :
                            prepared'[k][r].device = d /\ prepared'[k][r].config.kind = "vfio"
    BY DEF ConvertedForItsClaim
  <2>1. ASSUME NEW k \in Claim \ {c}, NEW q \in DOMAIN prepared[k], prepared[k][q].device = d,
               NEW r \in DOMAIN prepared[c], prepared[c][r].device = d
        PROVE  FALSE
    <3> DEFINE held == Assignment(results)
    <3>1. /\ <<c, r>> \in DOMAIN held /\ <<k, q>> \in DOMAIN held
          /\ held[<<c, r>>] = d /\ held[<<k, q>>] = d
      BY <2>1 DEF Assignment, IInv, PreparedType
    <3> QED
      BY <3>1, HeldOnce DEF IInv
  <2>2. allocatable[d] = "vfio" <=>
            \E k \in Claim : \E r \in DOMAIN prepared[k] :
                prepared[k][r].device = d /\ prepared[k][r].config.kind = "vfio"
    BY DEF IInv, ConvertedForItsClaim
  <2>3. allocatable'[d] = IF \E r \in DOMAIN prepared[c] :
                                prepared[c][r].device = d /\ allocatable[d] = "vfio"
                          THEN "gpu" ELSE allocatable[d]
    BY <1>1
  <2> QED
    BY <1>2, <2>1, <2>2, <2>3
<1> QED
  BY <1>3, <1>4, <1>5, <1>6, <1>7 DEF IInv

\* Every step preserves IInv.
LEMMA NextIInv == IInv /\ [ConfigsNext]_configsVars => IInv'
<1> SUFFICES ASSUME IInv, [ConfigsNext]_configsVars PROVE IInv'
  OBVIOUS
<1>1. CASE UNCHANGED configsVars
  <2>1. PreparedInStage' /\ UNCHANGED <<allocatable, pool, results, prepared>>
    BY <1>1 DEF IInv, PreparedInStage, configsVars, nodeVars, claimVars
  <2> QED
    BY <2>1, QuietStep
<1>2. CASE ConfigsNext
  BY <1>2, SubmitStep, AllocateStep, PrepareFailsStep, PrepareStep, UnprepareStep,
     HostChangesStep DEF ConfigsNext
<1> QED
  BY <1>1, <1>2

-----------------------------------------------------------------------------
(* The configurations of a claim and the search through them. *)

\* A set of numbers up to n that holds 0 has a maximum.
LEMMA GreatestOf ==
  ASSUME NEW n \in Nat, NEW S \in SUBSET (0 .. n), 0 \in S
  PROVE  Max(S) \in S /\ \A y \in S : y <= Max(S)
<1> DEFINE Bounds == {k \in Nat : \A y \in S : y <= k}
<1>1. n \in Bounds
  OBVIOUS
<1>2. PICK k \in Bounds : \A j \in Bounds : <<j, k>> \notin OpToRel(<, Nat)
  <2>1. Bounds \subseteq Nat
    OBVIOUS
  <2> HIDE DEF Bounds
  <2> QED
    BY <1>1, <2>1, NatLessThanWellFounded, WFMin
<1>3. \A j \in Bounds : ~(j < k)
  BY <1>2 DEF OpToRel
<1>4. k \in S
  <2> SUFFICES ASSUME k \notin S PROVE FALSE
    OBVIOUS
  <2>1. k > 0 /\ \A y \in S : y <= k - 1
    OBVIOUS
  <2> QED
    BY <1>3, <2>1
<1>5. \E x \in S : \A y \in S : x >= y
  BY <1>4
<1>6. Max(S) \in S /\ \A y \in S : Max(S) >= y
  BY <1>5 DEF Max
<1> QED
  BY <1>6

\* The elements of a list of lists.
LEMMA ListOf ==
  ASSUME NEW T, NEW d \in T, NEW s \in Seq(T), NEW t \in Seq(T)
  PROVE  LET all == <<d>> \o s \o t IN
         /\ all \in Seq(T) /\ Len(all) = 1 + Len(s) + Len(t) /\ all[1] = d
         /\ \A i \in 1 .. Len(s) : all[1 + i] = s[i]
         /\ \A i \in 1 .. Len(t) : all[1 + Len(s) + i] = t[i]
<1>1. <<d>> \in Seq(T) /\ Len(<<d>>) = 1 /\ <<d>>[1] = d
  OBVIOUS
<1> DEFINE e == <<d>> \o s
<1>2. /\ e \in Seq(T) /\ Len(e) = 1 + Len(s) /\ e[1] = d
      /\ \A i \in 1 .. Len(s) : e[1 + i] = s[i]
  OBVIOUS
<1> HIDE DEF e
<1>3. /\ e \o t \in Seq(T) /\ Len(e \o t) = Len(e) + Len(t)
      /\ \A i \in 1 .. Len(e) : (e \o t)[i] = e[i]
      /\ \A i \in 1 .. Len(t) : (e \o t)[Len(e) + i] = t[i]
  <2>1. e \in Seq(T)
    BY <1>2
  <2> HIDE <1>2
  <2> QED
    BY <2>1
<1>4. /\ 1 \in 1 .. Len(e) /\ \A i \in 1 .. Len(s) : 1 + i \in 1 .. Len(e)
  BY <1>2
<1> DEFINE all == e \o t
<1>5. all = <<d>> \o s \o t
  BY DEF e
<1> HIDE DEF all
<1>6. all \in Seq(T) /\ Len(all) = 1 + Len(s) + Len(t) /\ all[1] = d
  BY <1>2, <1>3, <1>4 DEF all
<1>7. \A i \in 1 .. Len(s) : all[1 + i] = s[i]
  BY <1>2, <1>3, <1>4 DEF all
<1>8. \A i \in 1 .. Len(t) : all[1 + Len(s) + i] = t[i]
  <2>1. \A i \in 1 .. Len(t) : all[Len(e) + i] = t[i]
    BY <1>3 DEF all
  <2> QED
    BY <1>2, <2>1
<1> QED
  BY <1>5, <1>6, <1>7, <1>8

\* Where the configuration of a position stands in the list, if the classes
\* have n of them.
Index(n, p) == IF p[1] = 1 THEN 1 ELSE IF p[1] = 2 THEN 1 + p[2] ELSE 1 + n + p[2]

\* A list of one, one of a claim's classes and its own: their positions, and
\* all of them in one list.
Lists(d, s, t) == <<<<d>>, s, t>>
Positions(d, s, t) == UNION {{i} \X DOMAIN Lists(d, s, t)[i] : i \in 1 .. 3}
Listing(d, s, t) == <<d>> \o s \o t

OrderAgrees(d, s, t) ==
    LET places == Positions(d, s, t)
        all == Listing(d, s, t)
        at(p) == Index(Len(s), p)
    IN /\ \A p \in places : at(p) \in DOMAIN all /\ all[at(p)] = Lists(d, s, t)[p[1]][p[2]]
       /\ \A p, q \in places : /\ p # q => Precedes(p, q) \/ Precedes(q, p)
                               /\ Precedes(p, q) => at(p) < at(q)
       /\ \A i \in DOMAIN all : \E p \in places : i = at(p)

\* Positions are ordered as the places in the list.
LEMMA PositionsOrdered ==
  ASSUME NEW T, NEW d \in T, NEW s \in Seq(T), NEW t \in Seq(T)
  PROVE  OrderAgrees(d, s, t)
<1> DEFINE lists == Lists(d, s, t)
           places == Positions(d, s, t)
           all == Listing(d, s, t)
           at(p) == Index(Len(s), p)
<1>1. /\ all \in Seq(T) /\ Len(all) = 1 + Len(s) + Len(t) /\ all[1] = d
      /\ \A i \in 1 .. Len(s) : all[1 + i] = s[i]
      /\ \A i \in 1 .. Len(t) : all[1 + Len(s) + i] = t[i]
  BY ListOf DEF Listing
<1>2. /\ lists[1] = <<d>> /\ lists[2] = s /\ lists[3] = t /\ 1 .. 3 = {1, 2, 3}
  BY DEF Lists
<1>3. /\ Len(s) \in Nat /\ Len(t) \in Nat /\ DOMAIN all = 1 .. 1 + Len(s) + Len(t)
      /\ DOMAIN s = 1 .. Len(s) /\ DOMAIN t = 1 .. Len(t) /\ DOMAIN <<d>> = {1}
      /\ <<d>>[1] = d
  BY <1>1
<1>4. places = {<<1, 1>>} \cup {<<2, i>> : i \in 1 .. Len(s)} \cup {<<3, i>> : i \in 1 .. Len(t)}
  <2> HIDE DEF lists
  <2>1. places = UNION {{i} \X DOMAIN lists[i] : i \in 1 .. 3}
    BY Zenon DEF Positions, lists
  <2> QED
    BY <1>2, <1>3, <2>1
<1> HIDE DEF lists, places, all
<1>5. ASSUME NEW p \in places
      PROVE  at(p) \in DOMAIN all /\ all[at(p)] = lists[p[1]][p[2]]
  <2>1. CASE p = <<1, 1>>
    <3>1. at(p) = 1
      BY <2>1 DEF Index
    <3> QED
      BY <2>1, <3>1, <1>1, <1>2, <1>3
  <2>2. ASSUME NEW i \in 1 .. Len(s), p = <<2, i>>
        PROVE  at(p) \in DOMAIN all /\ all[at(p)] = lists[p[1]][p[2]]
    <3>1. at(p) = 1 + i
      BY <2>2 DEF Index
    <3>2. lists[p[1]][p[2]] = s[i] /\ all[1 + i] = s[i]
      BY <2>2, <1>1, <1>2
    <3>3. 1 + i \in DOMAIN all
      BY <1>3
    <3> QED
      BY <3>1, <3>2, <3>3
  <2>3. ASSUME NEW i \in 1 .. Len(t), p = <<3, i>>
        PROVE  at(p) \in DOMAIN all /\ all[at(p)] = lists[p[1]][p[2]]
    <3>1. at(p) = 1 + Len(s) + i
      BY <2>3 DEF Index
    <3>2. lists[p[1]][p[2]] = t[i] /\ all[1 + Len(s) + i] = t[i]
      BY <2>3, <1>1, <1>2
    <3>3. 1 + Len(s) + i \in DOMAIN all
      BY <1>3
    <3> QED
      BY <3>1, <3>2, <3>3
  <2> QED
    BY <1>4, <2>1, <2>2, <2>3
<1>6. \A p \in places :
        /\ p = <<p[1], p[2]>> /\ p[1] \in {1, 2, 3}
        /\ p[1] = 1 => p[2] = 1 /\ at(p) = 1
        /\ p[1] = 2 => p[2] \in 1 .. Len(s) /\ at(p) = 1 + p[2]
        /\ p[1] = 3 => p[2] \in 1 .. Len(t) /\ at(p) = 1 + Len(s) + p[2]
  BY <1>4 DEF Index
<1> HIDE DEF at
<1>7. \A p, q \in places : /\ p # q => Precedes(p, q) \/ Precedes(q, p)
                           /\ Precedes(p, q) => at(p) < at(q)
  <2> SUFFICES ASSUME NEW p \in places, NEW q \in places
               PROVE  /\ p # q => Precedes(p, q) \/ Precedes(q, p)
                      /\ Precedes(p, q) => at(p) < at(q)
    OBVIOUS
  <2>1. /\ p[2] \in Nat /\ q[2] \in Nat /\ at(p) \in Nat /\ at(q) \in Nat
        /\ p[1] \in {1, 2, 3} /\ q[1] \in {1, 2, 3}
    BY <1>3, <1>6
  <2>2. p[1] = q[1] /\ p[2] = q[2] => p = q
    BY <1>6
  <2>3. p # q => Precedes(p, q) \/ Precedes(q, p)
    BY <2>1, <2>2 DEF Precedes
  <2>4. CASE p[1] = q[1]
    BY <2>1, <2>3, <2>4, <1>3, <1>6 DEF Precedes
  <2>5. CASE p[1] < q[1]
    BY <2>1, <2>3, <2>5, <1>3, <1>6
  <2>6. CASE q[1] < p[1]
    BY <2>1, <2>3, <2>6 DEF Precedes
  <2> QED
    BY <2>1, <2>4, <2>5, <2>6
<1>8. ASSUME NEW i \in DOMAIN all PROVE \E p \in places : i = at(p)
  <2>1. CASE i = 1
    <3>1. <<1, 1>> \in places /\ at(<<1, 1>>) = 1
      BY <1>4 DEF at, Index
    <3> QED
      BY <2>1, <3>1
  <2>2. CASE i \in 2 .. 1 + Len(s)
    <3>1. i - 1 \in 1 .. Len(s) /\ i = 1 + (i - 1)
      BY <2>2, <1>3
    <3>2. <<2, i - 1>> \in places
      BY <3>1, <1>4
    <3> QED
      BY <3>1, <3>2 DEF at, Index
  <2>3. CASE i \in 2 + Len(s) .. 1 + Len(s) + Len(t)
    <3> DEFINE k == i - 1 - Len(s)
    <3>1. k \in 1 .. Len(t) /\ i = 1 + Len(s) + k
      BY <2>3, <1>3
    <3> HIDE DEF k
    <3>2. <<3, k>> \in places
      BY <3>1, <1>4
    <3>3. at(<<3, k>>) = 1 + Len(s) + k
      BY DEF at, Index
    <3> QED
      BY <3>1, <3>2, <3>3
  <2> QED
    BY <1>3, <2>1, <2>2, <2>3
<1>9. /\ \A p \in places : at(p) \in DOMAIN all /\ all[at(p)] = lists[p[1]][p[2]]
      /\ \A p, q \in places : /\ p # q => Precedes(p, q) \/ Precedes(q, p)
                              /\ Precedes(p, q) => at(p) < at(q)
      /\ \A i \in DOMAIN all : \E p \in places : i = at(p)
  BY <1>5, <1>7, <1>8
<1> QED
  BY <1>9, Zenon DEF lists, places, all, at, OrderAgrees

\* The list that is searched holds the attached configurations in their order of
\* precedence.
LEMMA OrderedByPrecedence ==
  ASSUME NEW c \in Claim, own[c] \in Seq(Config), class[c] \in Seq(Config)
  PROVE  LET all == OrderedConfigs(c)
             at(p) == Index(Len(class[c]), p)
         IN /\ all \in Seq(Config)
            /\ \A p \in DOMAIN Attached(c) : at(p) \in DOMAIN all /\ all[at(p)] = Attached(c)[p]
            /\ \A p, q \in DOMAIN Attached(c) : /\ p # q => Precedes(p, q) \/ Precedes(q, p)
                                                /\ Precedes(p, q) => at(p) < at(q)
            /\ \A i \in DOMAIN all : \E p \in DOMAIN Attached(c) : i = at(p)
<1> DEFINE lists == Lists(DefaultGpuConfig, class[c], own[c])
           places == Positions(DefaultGpuConfig, class[c], own[c])
           all == Listing(DefaultGpuConfig, class[c], own[c])
           at(p) == Index(Len(class[c]), p)
<1>1. DefaultGpuConfig \in Config
  BY DEF DefaultGpuConfig, Config, Policy
<1>2. all \in Seq(Config)
  BY <1>1, ListOf DEF Listing
<1>3. /\ \A p \in places : at(p) \in DOMAIN all /\ all[at(p)] = lists[p[1]][p[2]]
      /\ \A p, q \in places : /\ p # q => Precedes(p, q) \/ Precedes(q, p)
                              /\ Precedes(p, q) => at(p) < at(q)
      /\ \A i \in DOMAIN all : \E p \in places : i = at(p)
  <2>1. OrderAgrees(DefaultGpuConfig, class[c], own[c])
    BY <1>1, PositionsOrdered
  <2> QED
    BY <2>1, Zenon DEF OrderAgrees
<1>4. Attached(c) = [p \in places |-> lists[p[1]][p[2]]]
  BY Zenon DEF Attached, Lists, Positions
<1>5. OrderedConfigs(c) = all
  BY Zenon DEF OrderedConfigs, Listing
<1> HIDE DEF lists, places, all, at
<1>6. DOMAIN Attached(c) = places /\ \A p \in places : Attached(c)[p] = lists[p[1]][p[2]]
  BY <1>4
<1>7. /\ OrderedConfigs(c) \in Seq(Config)
      /\ \A p \in DOMAIN Attached(c) :
            at(p) \in DOMAIN OrderedConfigs(c) /\ OrderedConfigs(c)[at(p)] = Attached(c)[p]
      /\ \A p, q \in DOMAIN Attached(c) : /\ p # q => Precedes(p, q) \/ Precedes(q, p)
                                          /\ Precedes(p, q) => at(p) < at(q)
      /\ \A i \in DOMAIN OrderedConfigs(c) : \E p \in DOMAIN Attached(c) : i = at(p)
  BY <1>2, <1>3, <1>5, <1>6
<1> QED
  BY <1>7, Zenon DEF at

\* What the search picks for a result: the last configuration that takes it.
LEMMA ChosenFacts ==
  ASSUME NEW c \in Claim, OrderedConfigs(c) \in Seq(Config)
  PROVE  LET configs == OrderedConfigs(c)
             takes(i, r) == Takes(configs[i], results[c][r].ref, results[c][r].device)
         IN /\ DOMAIN Chosen(c) =
                   {r \in DOMAIN results[c] : \E i \in DOMAIN configs : takes(i, r)}
            /\ \A r \in DOMAIN Chosen(c) : \E i \in DOMAIN configs :
                   /\ Chosen(c)[r] = configs[i] /\ takes(i, r)
                   /\ \A j \in DOMAIN configs : takes(j, r) => j <= i
<1> DEFINE configs == OrderedConfigs(c)
           takes(i, r) == Takes(configs[i], results[c][r].ref, results[c][r].device)
           taking(r) == {i \in DOMAIN configs : takes(i, r)}
           index == [r \in DOMAIN results[c] |-> ChosenIndex(configs, results[c][r])]
<1>1. Chosen(c) = [r \in {q \in DOMAIN index : index[q] # 0} |-> configs[index[r]]]
  BY DEF Chosen
<1>2. DOMAIN configs = 1 .. Len(configs) /\ Len(configs) \in Nat
  OBVIOUS
<1> HIDE DEF configs, takes
<1>3. ASSUME NEW r \in DOMAIN results[c]
      PROVE  /\ index[r] \in {0} \cup taking(r)
             /\ \A i \in taking(r) : i <= index[r]
  <2>1. index[r] = Max({0} \cup taking(r))
    BY DEF ChosenIndex, takes
  <2>2. {0} \cup taking(r) \in SUBSET (0 .. Len(configs))
    BY <1>2
  <2> HIDE DEF taking, index
  <2> QED
    BY <1>2, <2>1, <2>2, GreatestOf
<1>4. DOMAIN index = DOMAIN results[c]
  OBVIOUS
<1> HIDE DEF index
<1>5. \A r \in DOMAIN results[c] : index[r] # 0 <=> \E i \in DOMAIN configs : takes(i, r)
  BY <1>2, <1>3
<1>6. /\ DOMAIN Chosen(c) = {r \in DOMAIN results[c] : \E i \in DOMAIN configs : takes(i, r)}
      /\ \A r \in DOMAIN Chosen(c) : \E i \in DOMAIN configs :
             /\ Chosen(c)[r] = configs[i] /\ takes(i, r)
             /\ \A j \in DOMAIN configs : takes(j, r) => j <= i
  BY <1>1, <1>2, <1>3, <1>4, <1>5
<1> QED
  BY <1>6, Zenon DEF configs, takes

-----------------------------------------------------------------------------
(* The rest of the state. *)

\* What is in the entries: the listed devices, GPUs as such or converted.
EntriesOfListed ==
    LET listed == Listed(autoPartition, vfioManager) IN
    \A d \in Device :
        /\ d \in listed => allocatable[d] = kind[d] \/ (kind[d] = "gpu" /\ allocatable[d] = "vfio")
        /\ d \notin listed => allocatable[d] = "none"

\* The devices of a claim are listed ones, one for each of its requests.
AllocatedWhole ==
    \A c \in Claim :
        /\ \A r \in DOMAIN results[c] : results[c][r].device \in Listed(autoPartition, vfioManager)
        /\ stage[c] \in {"allocated", "prepared"} => DOMAIN results[c] = requests[c]

\* A claim is refused nothing before it is allocated, and an installed webhook
\* has seen its configurations.
SubmittedAdmitted ==
    \A c \in Claim :
        /\ failure[c] # "none" => stage[c] = "allocated"
        /\ webhook => Admitted(own[c])

ConfigsAreFunctions ==
    /\ own = [c \in Claim |-> own[c]] /\ class = [c \in Claim |-> class[c]]

SubmitInv ==
    /\ ConfigsTypeOK /\ ConfigsAreFunctions /\ EntriesOfListed /\ AllocatedWhole
    /\ SubmittedAdmitted /\ AdmittedIsAccepted
    /\ Publishes(autoPartition, Listed(autoPartition, vfioManager))

\* A list of one and two others holds their elements.
FromLists(d, s, t) ==
    \A i \in DOMAIN Listing(d, s, t) :
        \/ Listing(d, s, t)[i] = d
        \/ \E j \in DOMAIN s : Listing(d, s, t)[i] = s[j]
        \/ \E j \in DOMAIN t : Listing(d, s, t)[i] = t[j]

LEMMA ListElements ==
  ASSUME NEW T, NEW d \in T, NEW s \in Seq(T), NEW t \in Seq(T)
  PROVE  FromLists(d, s, t)
<1> DEFINE all == Listing(d, s, t)
<1>1. /\ all \in Seq(T) /\ Len(all) = 1 + Len(s) + Len(t) /\ all[1] = d
      /\ \A i \in 1 .. Len(s) : all[1 + i] = s[i]
      /\ \A i \in 1 .. Len(t) : all[1 + Len(s) + i] = t[i]
  BY ListOf DEF Listing
<1> HIDE DEF all
<1>2. /\ Len(s) \in Nat /\ Len(t) \in Nat /\ DOMAIN all = 1 .. 1 + Len(s) + Len(t)
      /\ DOMAIN s = 1 .. Len(s) /\ DOMAIN t = 1 .. Len(t)
  BY <1>1
<1>3. ASSUME NEW i \in DOMAIN all
      PROVE  \/ all[i] = d
             \/ \E j \in DOMAIN s : all[i] = s[j]
             \/ \E j \in DOMAIN t : all[i] = t[j]
  <2>1. CASE i = 1
    BY <1>1, <2>1
  <2>2. CASE i \in 2 .. 1 + Len(s)
    <3> DEFINE j == i - 1
    <3>1. j \in 1 .. Len(s) /\ i = 1 + j
      BY <1>2, <2>2
    <3> HIDE DEF j
    <3> QED
      BY <1>1, <1>2, <3>1
  <2>3. CASE i \in 2 + Len(s) .. 1 + Len(s) + Len(t)
    <3> DEFINE j == i - 1 - Len(s)
    <3>1. j \in 1 .. Len(t) /\ i = 1 + Len(s) + j
      BY <1>2, <2>3
    <3> HIDE DEF j
    <3>2. all[1 + Len(s) + j] = t[j]
      BY <1>1, <3>1
    <3> QED
      BY <1>2, <3>1, <3>2
  <2> QED
    BY <1>2, <2>1, <2>2, <2>3
<1> QED
  BY <1>3, Zenon DEF all, FromLists

\* Where the configurations that are searched come from.
LEMMA ConfigSources ==
  ASSUME NEW c \in Claim, own[c] \in Seq(Config), class[c] \in Seq(Config)
  PROVE  /\ OrderedConfigs(c) \in Seq(Config)
         /\ \A i \in DOMAIN OrderedConfigs(c) :
              \/ OrderedConfigs(c)[i] = DefaultGpuConfig
              \/ \E j \in DOMAIN class[c] : OrderedConfigs(c)[i] = class[c][j]
              \/ \E j \in DOMAIN own[c] : OrderedConfigs(c)[i] = own[c][j]
<1>1. DefaultGpuConfig \in Config
  BY DEF DefaultGpuConfig, Config, Policy
<1>2. OrderedConfigs(c) = Listing(DefaultGpuConfig, class[c], own[c])
  BY Zenon DEF OrderedConfigs, Listing
<1>3. FromLists(DefaultGpuConfig, class[c], own[c])
  BY <1>1, ListElements
<1>4. OrderedConfigs(c) \in Seq(Config)
  BY OrderedByPrecedence
<1> QED
  BY <1>2, <1>3, <1>4, Zenon DEF FromLists

\* What decodes is of a kind that the driver knows, or another driver's.
LEMMA DecodedKinds ==
  ASSUME NEW c \in Claim, own[c] \in Seq(Config), class[c] \in Seq(Config)
  PROVE  LET decoded == \A i \in DOMAIN OrderedConfigs(c) :
                          OrderedConfigs(c)[i].kind \in {"gpu", "vfio", "unknown", "foreign"}
         IN /\ Decodes(class[c] \o own[c]) => decoded
            /\ ~Decodes(class[c] \o own[c]) =>
                 \/ \E i \in DOMAIN class[c] : class[c][i].kind \in {"broken", "future"}
                 \/ \E i \in DOMAIN own[c] : own[c][i].kind \in {"broken", "future"}
<1> DEFINE s == class[c]
           t == own[c]
<1>1. s \in Seq(Config) /\ t \in Seq(Config)
  OBVIOUS
<1> HIDE DEF s, t
<1>2. /\ DOMAIN (s \o t) = 1 .. Len(s) + Len(t)
      /\ DOMAIN s = 1 .. Len(s) /\ DOMAIN t = 1 .. Len(t) /\ Len(s) \in Nat /\ Len(t) \in Nat
      /\ \A i \in 1 .. Len(s) : (s \o t)[i] = s[i]
      /\ \A i \in 1 .. Len(t) : (s \o t)[Len(s) + i] = t[i]
  BY <1>1
<1>3. \A i \in DOMAIN (s \o t) :
         \/ i \in 1 .. Len(s)
         \/ i - Len(s) \in 1 .. Len(t) /\ i = Len(s) + (i - Len(s))
  BY <1>2
<1>4. ~Decodes(s \o t) =>
        \/ \E i \in DOMAIN s : s[i].kind \in {"broken", "future"}
        \/ \E i \in DOMAIN t : t[i].kind \in {"broken", "future"}
  <2> SUFFICES ASSUME ~Decodes(s \o t)
               PROVE  \/ \E i \in DOMAIN s : s[i].kind \in {"broken", "future"}
                      \/ \E i \in DOMAIN t : t[i].kind \in {"broken", "future"}
    OBVIOUS
  <2>1. PICK i \in DOMAIN (s \o t) : (s \o t)[i].kind \in {"broken", "future"}
    BY DEF Decodes
  <2>2. CASE i \in 1 .. Len(s)
    BY <2>1, <2>2, <1>2
  <2>3. CASE i - Len(s) \in 1 .. Len(t) /\ i = Len(s) + (i - Len(s))
    BY <2>1, <2>3, <1>2
  <2> QED
    BY <2>2, <2>3, <1>3
<1>5. ASSUME Decodes(s \o t)
      PROVE  /\ \A i \in DOMAIN s : s[i].kind \notin {"broken", "future"}
             /\ \A i \in DOMAIN t : t[i].kind \notin {"broken", "future"}
  <2>1. \A i \in DOMAIN (s \o t) : (s \o t)[i].kind \notin {"broken", "future"}
    BY <1>5, Zenon DEF Decodes
  <2>2. \A i \in 1 .. Len(s) : i \in DOMAIN (s \o t)
    BY <1>2
  <2>3. \A i \in 1 .. Len(t) : Len(s) + i \in DOMAIN (s \o t)
    BY <1>2
  <2> HIDE <1>1
  <2> QED
    BY <1>2, <2>1, <2>2, <2>3
<1>6. \A x \in Config : x.kind \in {"gpu", "vfio", "unknown", "broken", "foreign", "future"}
  BY DEF Config
<1>7. DefaultGpuConfig.kind = "gpu"
  BY DEF DefaultGpuConfig
<1>8. ASSUME Decodes(s \o t), NEW i \in DOMAIN OrderedConfigs(c)
      PROVE  OrderedConfigs(c)[i].kind \in {"gpu", "vfio", "unknown", "foreign"}
  <2>1. OrderedConfigs(c)[i] \in Config
    BY ConfigSources
  <2>2. /\ \A j \in DOMAIN s : s[j].kind \notin {"broken", "future"}
        /\ \A j \in DOMAIN t : t[j].kind \notin {"broken", "future"}
    BY <1>5, <1>8
  <2>3. \/ OrderedConfigs(c)[i] = DefaultGpuConfig
        \/ \E j \in DOMAIN s : OrderedConfigs(c)[i] = s[j]
        \/ \E j \in DOMAIN t : OrderedConfigs(c)[i] = t[j]
    BY ConfigSources DEF s, t
  <2> QED
    BY <1>6, <1>7, <2>1, <2>2, <2>3
<1> QED
  BY <1>4, <1>8, Zenon DEF s, t

\* Why one configuration may fail.
LEMMA ApplyReasons ==
  ASSUME NEW config, NEW d, config.kind \in {"gpu", "vfio", "unknown"},
         NEW f \in ApplyFailures(config, d)
  PROVE  /\ f \in Failures \ {"none", "decode"}
         /\ f = "unrecognized" => config.kind = "unknown"
         /\ f = "policy" => config.kind = "vfio" /\ config.policy = "misspelt"
<1>1. CASE config.kind = "gpu"
  BY <1>1 DEF ApplyFailures
<1>2. CASE config.kind = "unknown"
  BY <1>2 DEF ApplyFailures, Failures
<1>3. CASE config.kind = "vfio"
  BY <1>3 DEF ApplyFailures, Failures
<1> QED
  BY <1>1, <1>2, <1>3

\* Why Prepare fails.
LEMMA PrepareReasons ==
  ASSUME NEW c \in Claim, own[c] \in Seq(Config), class[c] \in Seq(Config),
         NEW f \in PrepareFailures(c)
  PROVE  /\ f \in Failures \ {"none"}
         /\ f = "decode" =>
                 \/ \E i \in DOMAIN class[c] : class[c][i].kind \in {"broken", "future"}
                 \/ \E i \in DOMAIN own[c] : own[c][i].kind \in {"broken", "future"}
         /\ f = "unrecognized" =>
                 \/ \E i \in DOMAIN class[c] : class[c][i].kind = "unknown"
                 \/ \E i \in DOMAIN own[c] : own[c][i].kind = "unknown"
         /\ f = "policy" =>
                 \/ \E i \in DOMAIN class[c] : class[c][i].policy = "misspelt"
                 \/ \E i \in DOMAIN own[c] : own[c][i].kind = "vfio"
<1>1. CASE ~Decodes(class[c] \o own[c])
  <2>1. f = "decode"
    BY <1>1 DEF PrepareFailures
  <2> QED
    BY <1>1, <2>1, DecodedKinds DEF Failures
<1>2. CASE Decodes(class[c] \o own[c])
  <2>1. OrderedConfigs(c) \in Seq(Config)
    BY ConfigSources
  <2>2. PICK r \in DOMAIN Chosen(c) : f \in ApplyFailures(Chosen(c)[r], results[c][r].device)
    BY <1>2 DEF PrepareFailures
  <2>3. PICK i \in DOMAIN OrderedConfigs(c) :
            /\ Chosen(c)[r] = OrderedConfigs(c)[i]
            /\ Takes(OrderedConfigs(c)[i], results[c][r].ref, results[c][r].device)
    BY <2>1, ChosenFacts
  <2> DEFINE config == OrderedConfigs(c)[i]
  <2>4. config.kind \in {"gpu", "vfio", "unknown", "foreign"}
    BY <1>2, DecodedKinds
  <2>5. config.kind # "foreign"
    BY <2>3 DEF Takes
  <2>6. \/ config = DefaultGpuConfig
        \/ \E j \in DOMAIN class[c] : config = class[c][j]
        \/ \E j \in DOMAIN own[c] : config = own[c][j]
    BY ConfigSources
  <2>7. f \in ApplyFailures(config, results[c][r].device)
    BY <2>2, <2>3
  <2> HIDE DEF config
  <2>8. /\ f \in Failures \ {"none", "decode"}
        /\ f = "unrecognized" => config.kind = "unknown"
        /\ f = "policy" => config.kind = "vfio" /\ config.policy = "misspelt"
    BY <2>4, <2>5, <2>7, ApplyReasons
  <2>9. DefaultGpuConfig.kind = "gpu"
    BY DEF DefaultGpuConfig
  <2> QED
    BY <2>6, <2>8, <2>9
<1> QED
  BY <1>1, <1>2

\* The lists a claim may come with are lists of configurations.
LEMMA ConfigsAreLists ==
  ASSUME ConfigsTypeOK, NEW c \in Claim
  PROVE  own[c] \in Seq(Config) /\ class[c] \in Seq(Config)
<1>1. \A k \in Claim : own[k] \in ownChoices[k] \cup {None} /\ class[k] \in classChoices[k] \cup {None}
  BY DEF ConfigsTypeOK
<1>2. ownChoices[c] \subseteq Seq(Config) /\ classChoices[c] \subseteq Seq(Config)
  BY ConfigsAssumption DEF ConfigsAssumption
<1>3. None \in Seq(Config)
  BY DEF None
<1> QED
  BY <1>1, <1>2, <1>3

\* What the type invariant says of one claim.
ClaimTypeOK(c) ==
    /\ own[c] \in ownChoices[c] \cup {None} /\ class[c] \in classChoices[c] \cup {None}
    /\ \A r \in DOMAIN results[c] : results[c][r] \in [ref : refs[r], device : Device]
    /\ DOMAIN prepared[c] \subseteq DOMAIN results[c]
    /\ \A r \in DOMAIN prepared[c] :
        /\ prepared[c][r].config \in Config /\ prepared[c][r].device = results[c][r].device
        /\ prepared[c][r].nodes \subseteq Node

NodeTypeOK ==
    /\ {autoPartition, vfioPassthrough, webhook, vfioManager, iommuFDEnabled} \subseteq BOOLEAN
    /\ host \in Hosts
    /\ allocatable \in [Device -> Kind \cup {"none"}]

StageTypeOK ==
    /\ stage \in [Claim -> {"new", "refused", "pending", "allocated", "prepared", "done"}]
    /\ failure \in [Claim -> Failures]

LEMMA TypeParts ==
  ConfigsTypeOK <=> NodeTypeOK /\ StageTypeOK /\ \A c \in Claim : ClaimTypeOK(c)
BY Zenon DEF ConfigsTypeOK, NodeTypeOK, StageTypeOK, ClaimTypeOK

LEMMA TypePartsNext ==
  ASSUME NodeTypeOK', StageTypeOK', \A c \in Claim : ClaimTypeOK(c)'
  PROVE  ConfigsTypeOK'
BY Zenon DEF ConfigsTypeOK, NodeTypeOK, StageTypeOK, ClaimTypeOK

\* What AdmittedIsAccepted says of one claim.
Excused(c) ==
    webhook /\ failure[c] \in {"decode", "unrecognized", "policy"} =>
        \/ \E i \in DOMAIN class[c] :
            class[c][i].kind \in {"broken", "unknown", "future"} \/ class[c][i].policy = "misspelt"
        \/ \E i \in DOMAIN own[c] : own[c][i].kind = "future"

LEMMA InitSubmitInv == ConfigsInit => SubmitInv
<1> SUFFICES ASSUME ConfigsInit PROVE SubmitInv
  OBVIOUS
<1>1. /\ own = [c \in Claim |-> None] /\ class = [c \in Claim |-> None]
      /\ results = [c \in Claim |-> None] /\ prepared = [c \in Claim |-> None]
      /\ stage = [c \in Claim |-> "new"] /\ failure = [c \in Claim |-> "none"]
  BY DEF ConfigsInit
<1>2. /\ autoPartition \in BOOLEAN /\ vfioPassthrough \in BOOLEAN /\ webhook \in BOOLEAN
      /\ vfioManager \in BOOLEAN /\ host \in Hosts
      /\ iommuFDEnabled = (vfioManager /\ host.iommu)
      /\ allocatable = [d \in Device |-> IF d \in Listed(autoPartition, vfioManager)
                                         THEN kind[d] ELSE "none"]
  BY DEF ConfigsInit
<1>3. host.iommu \in BOOLEAN
  BY <1>2, ConfigsAssumption DEF ConfigsAssumption, Host
<1>4. kind \in [Device -> Kind]
  BY SlicesAssumption DEF SlicesAssumption
<1>5. NodeTypeOK
  BY <1>2, <1>3, <1>4 DEF NodeTypeOK
<1>6. StageTypeOK
  BY <1>1 DEF StageTypeOK, Failures
<1>7. \A c \in Claim : ClaimTypeOK(c)
  BY <1>1 DEF ClaimTypeOK, None
<1>8. ConfigsAreFunctions
  BY <1>1 DEF ConfigsAreFunctions
<1>9. EntriesOfListed
  BY <1>2 DEF EntriesOfListed
<1>10. AllocatedWhole
  BY <1>1 DEF AllocatedWhole, None
<1>11. SubmittedAdmitted
  BY <1>1 DEF SubmittedAdmitted, Admitted, None
<1>12. AdmittedIsAccepted
  BY <1>1 DEF AdmittedIsAccepted
<1>13. Publishes(autoPartition, Listed(autoPartition, vfioManager))
  BY Zenon DEF ConfigsInit, Publishes
<1> QED
  BY <1>5, <1>6, <1>7, <1>8, <1>9, <1>10, <1>11, <1>12, <1>13, TypeParts DEF SubmitInv

\* What the start of the plugin fixes.
LEMMA NodeKept ==
  ASSUME SubmitInv, UNCHANGED nodeVars
  PROVE  /\ Publishes(autoPartition, Listed(autoPartition, vfioManager))'
         /\ Listed(autoPartition, vfioManager)' = Listed(autoPartition, vfioManager)
         /\ (host' \in Hosts /\ allocatable' \in [Device -> Kind \cup {"none"}]) => NodeTypeOK'
<1>1. /\ autoPartition' = autoPartition /\ vfioManager' = vfioManager /\ pool' = pool
      /\ webhook' = webhook /\ vfioPassthrough' = vfioPassthrough
      /\ iommuFDEnabled' = iommuFDEnabled
  BY DEF nodeVars
<1>2. Listed(autoPartition, vfioManager)' = Listed(autoPartition, vfioManager)
  BY <1>1 DEF Listed
<1>3. Publishes(autoPartition, Listed(autoPartition, vfioManager))'
  BY <1>1, <1>2 DEF SubmitInv, Publishes
<1>4. (host' \in Hosts /\ allocatable' \in [Device -> Kind \cup {"none"}]) => NodeTypeOK'
  BY <1>1, TypeParts DEF SubmitInv, NodeTypeOK
<1> QED
  BY <1>2, <1>3, <1>4

LEMMA SubmitSubmitInv == ASSUME SubmitInv, NEW c \in Claim, Submit(c) PROVE SubmitInv'
<1>1. /\ stage[c] = "new"
      /\ UNCHANGED <<nodeVars, host, allocatable, class, results, prepared, failure>>
  BY DEF Submit
<1>2. \E configs \in ownChoices[c] :
        \/ /\ webhook => Admitted(configs)
           /\ own' = [own EXCEPT ![c] = configs]
           /\ stage' = [stage EXCEPT ![c] = "pending"]
        \/ /\ webhook /\ ~Admitted(configs)
           /\ stage' = [stage EXCEPT ![c] = "refused"]
           /\ UNCHANGED own
  BY DEF Submit
<1>3. PICK configs \in ownChoices[c] \cup {own[c]}, s \in {"pending", "refused"} :
        /\ webhook => Admitted(configs)
        /\ own' = [own EXCEPT ![c] = configs] /\ stage' = [stage EXCEPT ![c] = s]
  <2>1. own' = own => own' = [own EXCEPT ![c] = own[c]]
    BY DEF SubmitInv, ConfigsAreFunctions
  <2> QED
    BY <1>2, <2>1 DEF SubmitInv, SubmittedAdmitted
<1>4. /\ own'[c] = configs /\ stage'[c] = s
      /\ \A k \in Claim \ {c} : own'[k] = own[k] /\ stage'[k] = stage[k]
  BY <1>3, TypeParts DEF SubmitInv, ConfigsAreFunctions, StageTypeOK
<1>5. failure[c] = "none"
  BY <1>1 DEF SubmitInv, SubmittedAdmitted
<1>6. NodeTypeOK'
  BY <1>1, NodeKept, TypeParts DEF SubmitInv, NodeTypeOK
<1>7. StageTypeOK'
  BY <1>1, <1>3, TypeParts DEF SubmitInv, StageTypeOK
<1>8. \A k \in Claim : ClaimTypeOK(k)'
  BY <1>1, <1>4, TypeParts DEF SubmitInv, ClaimTypeOK
<1>9. ConfigsAreFunctions'
  BY <1>1, <1>3 DEF SubmitInv, ConfigsAreFunctions
<1>10. EntriesOfListed'
  BY <1>1, NodeKept, Zenon DEF SubmitInv, EntriesOfListed
<1>11. AllocatedWhole'
  BY <1>1, <1>4, NodeKept DEF SubmitInv, AllocatedWhole
<1>12. SubmittedAdmitted'
  <2>1. webhook' = webhook /\ failure' = failure
    BY <1>1 DEF nodeVars
  <2>2. \A k \in Claim : /\ failure[k] # "none" => stage[k] = "allocated"
                         /\ webhook => Admitted(own[k])
    BY DEF SubmitInv, SubmittedAdmitted
  <2>3. \A k \in Claim : webhook => Admitted(own'[k])
    BY <1>3, <1>4, <2>2
  <2>4. \A k \in Claim : failure[k] # "none" => stage'[k] = "allocated"
    BY <1>4, <1>5, <2>2
  <2> QED
    BY <2>1, <2>3, <2>4 DEF SubmittedAdmitted
<1>13. AdmittedIsAccepted'
  <2> SUFFICES ASSUME NEW k \in Claim PROVE Excused(k)'
    BY Zenon DEF AdmittedIsAccepted, Excused
  <2>1. Excused(k)
    BY Zenon DEF SubmitInv, AdmittedIsAccepted, Excused
  <2>2. CASE k = c
    BY <1>1, <1>5, <2>2 DEF Excused
  <2>3. CASE k # c
    BY <1>1, <1>4, <2>1, <2>3 DEF Excused, nodeVars
  <2> QED
    BY <2>2, <2>3
<1> QED
  BY <1>1, <1>6, <1>7, <1>8, <1>9, <1>10, <1>11, <1>12, <1>13, NodeKept, TypePartsNext DEF SubmitInv

\* Allocation gives a claim listed devices, one for each of its requests.
LEMMA AllocateSubmitInv == ASSUME SubmitInv, IInv, NEW c \in Claim, Allocate(c) PROVE SubmitInv'
<1>1. PICK devices \in [requests[c] -> Device], named \in [requests[c] -> Ref] :
        /\ \A r \in requests[c] : named[r] \in refs[r]
        /\ results' = [results EXCEPT ![c] =
                [r \in requests[c] |-> [ref |-> named[r], device |-> devices[r]]]]
        /\ Schedulable(pool, Assignment(results'))
  BY DEF Allocate
<1>2. /\ stage[c] = "pending" /\ stage' = [stage EXCEPT ![c] = "allocated"]
      /\ UNCHANGED <<nodeVars, host, allocatable, own, prepared, failure>>
  BY DEF Allocate
<1>3. PICK configs \in classChoices[c] : class' = [class EXCEPT ![c] = configs]
  BY DEF Allocate
<1>4. /\ class'[c] = configs /\ stage'[c] = "allocated"
      /\ results'[c] = [r \in requests[c] |-> [ref |-> named[r], device |-> devices[r]]]
      /\ \A k \in Claim \ {c} : /\ class'[k] = class[k] /\ stage'[k] = stage[k]
                                /\ results'[k] = results[k]
  BY <1>1, <1>2, <1>3, TypeParts
  DEF SubmitInv, ConfigsAreFunctions, StageTypeOK, IInv, ResultsType
<1>5. failure[c] = "none" /\ DOMAIN prepared[c] = {}
  BY <1>2 DEF SubmitInv, SubmittedAdmitted, IInv, PreparedInStage
<1>6. NodeTypeOK'
  BY <1>2, NodeKept, TypeParts DEF SubmitInv, NodeTypeOK
<1>7. StageTypeOK'
  BY <1>2, TypeParts DEF SubmitInv, StageTypeOK
<1>8. \A k \in Claim : ClaimTypeOK(k)'
  <2> SUFFICES ASSUME NEW k \in Claim PROVE ClaimTypeOK(k)'
    OBVIOUS
  <2>1. CASE k = c
    <3>1. \A r \in DOMAIN results'[c] : results'[c][r] \in [ref : refs[r], device : Device]
      BY <1>1, <1>4
    <3>2. own[c] \in ownChoices[c] \cup {None}
      BY TypeParts DEF SubmitInv, ClaimTypeOK
    <3> QED
      BY <1>2, <1>4, <1>5, <2>1, <3>1, <3>2 DEF ClaimTypeOK
  <2>2. CASE k # c
    BY <1>2, <1>4, <2>2, TypeParts DEF SubmitInv, ClaimTypeOK
  <2> QED
    BY <2>1, <2>2
<1>9. ConfigsAreFunctions'
  BY <1>2, <1>3 DEF SubmitInv, ConfigsAreFunctions
<1>10. EntriesOfListed'
  BY <1>2, NodeKept, Zenon DEF SubmitInv, EntriesOfListed
<1>11. AllocatedWhole'
  <2> DEFINE listed == Listed(autoPartition, vfioManager)
  <2>1. listed' = listed
    BY <1>2, NodeKept
  <2>2. DevicesIn(pool) = {GetDevice(d) : d \in listed}
    BY PoolComplete, TypeParts DEF SubmitInv, NodeTypeOK, DevicesPublished
  <2> HIDE DEF listed
  <2>3. ASSUME NEW r \in requests[c] PROVE devices[r] \in listed
    <3>1. <<c, r>> \in DOMAIN Assignment(results') /\ Assignment(results')[<<c, r>>] = devices[r]
      <4>1. DOMAIN results'[c] = requests[c] /\ results'[c][r].device = devices[r]
        BY <1>4
      <4> QED
        BY <4>1 DEF Assignment
    <3>2. \A x \in DOMAIN Assignment(results') :
            \E v \in DevicesIn(pool) : v.name = Assignment(results')[x]
      BY <1>1, Zenon DEF Schedulable
    <3>3. PICK v \in DevicesIn(pool) : v.name = devices[r]
      BY <3>1, <3>2
    <3>4. PICK d \in listed : v = GetDevice(d)
      BY <2>2, <3>3
    <3> QED
      BY <3>3, <3>4 DEF GetDevice
  <2>4. \A k \in Claim :
            /\ \A r \in DOMAIN results[k] : results[k][r].device \in listed
            /\ stage[k] \in {"allocated", "prepared"} => DOMAIN results[k] = requests[k]
    BY DEF SubmitInv, AllocatedWhole, listed
  <2>5. /\ \A r \in DOMAIN results'[c] : results'[c][r].device \in listed
        /\ DOMAIN results'[c] = requests[c]
    BY <1>4, <2>3
  <2>6. \A k \in Claim :
            /\ \A r \in DOMAIN results'[k] : results'[k][r].device \in listed
            /\ stage'[k] \in {"allocated", "prepared"} => DOMAIN results'[k] = requests[k]
    BY <1>4, <2>4, <2>5
  <2> QED
    BY <2>1, <2>6, Zenon DEF AllocatedWhole, listed
<1>12. SubmittedAdmitted'
  BY <1>2, <1>4, <1>5, Zenon DEF SubmitInv, SubmittedAdmitted, nodeVars
<1>13. AdmittedIsAccepted'
  <2> SUFFICES ASSUME NEW k \in Claim PROVE Excused(k)'
    BY Zenon DEF AdmittedIsAccepted, Excused
  <2>1. Excused(k)
    BY Zenon DEF SubmitInv, AdmittedIsAccepted, Excused
  <2>2. CASE k = c
    BY <1>2, <1>5, <2>2 DEF Excused
  <2>3. CASE k # c
    BY <1>2, <1>4, <2>1, <2>3 DEF Excused, nodeVars
  <2> QED
    BY <2>2, <2>3
<1> QED
  BY <1>2, <1>6, <1>7, <1>8, <1>9, <1>10, <1>11, <1>12, <1>13, NodeKept, TypePartsNext
  DEF SubmitInv

\* What a failed Prepare says of a claim whose configurations were admitted.
LEMMA PrepareFailsSubmitInv ==
  ASSUME SubmitInv, IInv, NEW c \in Claim, PrepareFails(c)
  PROVE  SubmitInv'
<1>1. PICK f \in PrepareFailures(c) : failure' = [failure EXCEPT ![c] = f]
  BY DEF PrepareFails
<1>2. /\ stage[c] = "allocated"
      /\ UNCHANGED <<nodeVars, host, stage, own, class, results, prepared>>
  BY DEF PrepareFails
<1>3. allocatable' = allocatable
  BY DEF PrepareFails, Convert, None, IInv, EntriesType
<1>4. own[c] \in Seq(Config) /\ class[c] \in Seq(Config)
  BY ConfigsAreLists DEF SubmitInv
<1>5. failure'[c] = f /\ \A k \in Claim \ {c} : failure'[k] = failure[k]
  BY <1>1, TypeParts DEF SubmitInv, StageTypeOK
<1>6. NodeTypeOK'
  BY <1>2, <1>3, NodeKept, TypeParts DEF SubmitInv, NodeTypeOK
<1>7. StageTypeOK'
  <2>1. f \in Failures
    BY <1>4, PrepareReasons
  <2> QED
    BY <1>1, <1>2, <2>1, TypeParts DEF SubmitInv, StageTypeOK
<1>8. \A k \in Claim : ClaimTypeOK(k)'
  BY <1>2, TypeParts DEF SubmitInv, ClaimTypeOK
<1>9. ConfigsAreFunctions'
  BY <1>2 DEF SubmitInv, ConfigsAreFunctions
<1>10. EntriesOfListed'
  BY <1>2, <1>3, NodeKept, Zenon DEF SubmitInv, EntriesOfListed
<1>11. AllocatedWhole'
  BY <1>2, NodeKept, Zenon DEF SubmitInv, AllocatedWhole
<1>12. SubmittedAdmitted'
  BY <1>2, <1>5, Zenon DEF SubmitInv, SubmittedAdmitted, nodeVars
<1>13. AdmittedIsAccepted'
  <2> SUFFICES ASSUME NEW k \in Claim PROVE Excused(k)'
    BY Zenon DEF AdmittedIsAccepted, Excused
  <2>1. Excused(k)
    BY Zenon DEF SubmitInv, AdmittedIsAccepted, Excused
  <2>2. CASE k = c
    <3> SUFFICES ASSUME webhook, f \in {"decode", "unrecognized", "policy"}
                 PROVE  \/ \E i \in DOMAIN class[c] :
                            \/ class[c][i].kind \in {"broken", "unknown", "future"}
                            \/ class[c][i].policy = "misspelt"
                        \/ \E i \in DOMAIN own[c] : own[c][i].kind = "future"
      BY <1>2, <1>5, <2>2 DEF Excused, nodeVars
    <3>1. \A i \in DOMAIN own[c] : own[c][i].kind \in {"foreign", "future", "gpu"}
      BY DEF SubmitInv, SubmittedAdmitted, Admitted
    <3>2. /\ f = "decode" =>
                 \/ \E i \in DOMAIN class[c] : class[c][i].kind \in {"broken", "future"}
                 \/ \E i \in DOMAIN own[c] : own[c][i].kind \in {"broken", "future"}
          /\ f = "unrecognized" =>
                 \/ \E i \in DOMAIN class[c] : class[c][i].kind = "unknown"
                 \/ \E i \in DOMAIN own[c] : own[c][i].kind = "unknown"
          /\ f = "policy" =>
                 \/ \E i \in DOMAIN class[c] : class[c][i].policy = "misspelt"
                 \/ \E i \in DOMAIN own[c] : own[c][i].kind = "vfio"
      BY <1>4, PrepareReasons
    <3> QED
      BY <3>1, <3>2
  <2>3. CASE k # c
    BY <1>2, <1>5, <2>1, <2>3 DEF Excused, nodeVars
  <2> QED
    BY <2>2, <2>3
<1> QED
  BY <1>2, <1>6, <1>7, <1>8, <1>9, <1>10, <1>11, <1>12, <1>13, NodeKept, TypePartsNext
  DEF SubmitInv

\* The nodes of a VFIO device are nodes.
LEMMA VfioNodesType == ASSUME NEW d, NEW policy PROVE VfioNodes(d, policy) \subseteq Node
BY DEF VfioNodes, DeviceNodes, CommonNodes, Node

\* Prepare picks one of the claim's configurations for a result it converts
\* only if the entry of the device is one of a GPU or a VFIO device.
LEMMA ChosenTypes ==
  ASSUME SubmitInv, NEW c \in Claim, NEW r \in DOMAIN Chosen(c)
  PROVE  /\ Chosen(c)[r] \in Config /\ r \in DOMAIN results[c]
         /\ Takes(Chosen(c)[r], results[c][r].ref, results[c][r].device)
<1>1. own[c] \in Seq(Config) /\ class[c] \in Seq(Config)
  BY ConfigsAreLists DEF SubmitInv
<1>2. OrderedConfigs(c) \in Seq(Config)
  BY <1>1, ConfigSources
<1>3. PICK i \in DOMAIN OrderedConfigs(c) :
         /\ Chosen(c)[r] = OrderedConfigs(c)[i]
         /\ Takes(OrderedConfigs(c)[i], results[c][r].ref, results[c][r].device)
  BY <1>2, ChosenFacts
<1>4. OrderedConfigs(c)[i] \in Config
  BY <1>2
<1>5. r \in DOMAIN results[c]
  BY <1>2, ChosenFacts
<1> QED
  BY <1>3, <1>4, <1>5

\* Prepare converts listed GPUs and no others.
LEMMA PrepareSubmitInv == ASSUME SubmitInv, IInv, NEW c \in Claim, Prepare(c) PROVE SubmitInv'
<1> DEFINE chosen == Chosen(c)
           entry(r) == [config |-> chosen[r], device |-> results[c][r].device,
                        nodes |-> IF chosen[r].kind = "vfio"
                                  THEN VfioNodes(results[c][r].device, chosen[r].policy)
                                  ELSE {"render"}]
           converted == {results[c][r].device : r \in {q \in DOMAIN chosen : chosen[q].kind = "vfio"}}
           listed == Listed(autoPartition, vfioManager)
<1>1. /\ stage[c] = "allocated" /\ stage' = [stage EXCEPT ![c] = "prepared"]
      /\ failure' = [failure EXCEPT ![c] = "none"]
      /\ UNCHANGED <<nodeVars, host, own, class, results>>
  BY DEF Prepare
<1>2. prepared' = [prepared EXCEPT ![c] = [r \in DOMAIN chosen |-> entry(r)]]
  BY Zenon DEF Prepare
<1>3. allocatable' = [d \in Device |-> IF d \in converted THEN "vfio" ELSE allocatable[d]]
  BY Zenon DEF Prepare, Convert
<1>4. \A r \in DOMAIN chosen :
         /\ chosen[r] \in Config /\ r \in DOMAIN results[c]
         /\ Takes(chosen[r], results[c][r].ref, results[c][r].device)
  BY ChosenTypes
<1> HIDE DEF chosen
<1>5. /\ prepared'[c] = [r \in DOMAIN chosen |-> entry(r)]
      /\ \A k \in Claim \ {c} : prepared'[k] = prepared[k]
  BY <1>2 DEF IInv, PreparedType
<1>6. /\ stage'[c] = "prepared" /\ failure'[c] = "none"
      /\ \A k \in Claim \ {c} : stage'[k] = stage[k] /\ failure'[k] = failure[k]
  BY <1>1, TypeParts DEF SubmitInv, StageTypeOK
<1>7. NodeTypeOK'
  <2>1. allocatable' \in [Device -> Kind \cup {"none"}]
    BY <1>3, TypeParts DEF SubmitInv, NodeTypeOK, Kind
  <2> QED
    BY <1>1, <2>1, NodeKept, TypeParts DEF SubmitInv, NodeTypeOK
<1>8. StageTypeOK'
  BY <1>1, TypeParts DEF SubmitInv, StageTypeOK, Failures
<1>9. \A k \in Claim : ClaimTypeOK(k)'
  <2> SUFFICES ASSUME NEW k \in Claim PROVE ClaimTypeOK(k)'
    OBVIOUS
  <2>0. ClaimTypeOK(k)
    BY TypeParts DEF SubmitInv
  <2>1. CASE k = c
    <3>1. DOMAIN prepared'[c] \subseteq DOMAIN results[c]
      BY <1>4, <1>5
    <3>2. ASSUME NEW r \in DOMAIN prepared'[c]
          PROVE  /\ prepared'[c][r].config \in Config
                 /\ prepared'[c][r].device = results[c][r].device
                 /\ prepared'[c][r].nodes \subseteq Node
      <4>1. r \in DOMAIN chosen /\ prepared'[c][r] = entry(r)
        BY <1>5
      <4>2. entry(r).nodes \subseteq Node
        BY VfioNodesType DEF Node
      <4> QED
        BY <1>4, <4>1, <4>2
    <3> QED
      BY <1>1, <2>0, <2>1, <3>1, <3>2 DEF ClaimTypeOK
  <2>2. CASE k # c
    BY <1>1, <1>5, <2>0, <2>2 DEF ClaimTypeOK
  <2> QED
    BY <2>1, <2>2
<1>10. ConfigsAreFunctions'
  BY <1>1 DEF SubmitInv, ConfigsAreFunctions
<1>11. EntriesOfListed'
  <2>1. listed' = listed
    BY <1>1, NodeKept
  <2>2. ASSUME NEW d \in converted
        PROVE  allocatable[d] \in {"gpu", "vfio"}
    <3>1. PICK r \in DOMAIN chosen : chosen[r].kind = "vfio" /\ d = results[c][r].device
      OBVIOUS
    <3> QED
      BY <1>4, <3>1 DEF Takes
  <2>3. \A d \in Device :
          /\ d \in listed => allocatable[d] = kind[d] \/ (kind[d] = "gpu" /\ allocatable[d] = "vfio")
          /\ d \notin listed => allocatable[d] = "none"
    BY DEF SubmitInv, EntriesOfListed
  <2>4. \A d \in Device : allocatable'[d] = IF d \in converted THEN "vfio" ELSE allocatable[d]
    BY <1>3
  <2> HIDE DEF listed, converted
  <2>5. \A d \in Device :
          /\ d \in listed => allocatable'[d] = kind[d] \/ (kind[d] = "gpu" /\ allocatable'[d] = "vfio")
          /\ d \notin listed => allocatable'[d] = "none"
    BY <2>2, <2>3, <2>4
  <2> QED
    BY <2>1, <2>5, Zenon DEF EntriesOfListed, listed
<1>12. AllocatedWhole'
  <2>1. listed' = listed
    BY <1>1, NodeKept
  <2>2. \A k \in Claim :
            /\ \A r \in DOMAIN results[k] : results[k][r].device \in listed
            /\ stage[k] \in {"allocated", "prepared"} => DOMAIN results[k] = requests[k]
    BY DEF SubmitInv, AllocatedWhole
  <2> HIDE DEF listed
  <2>3. \A k \in Claim :
            /\ \A r \in DOMAIN results'[k] : results'[k][r].device \in listed
            /\ stage'[k] \in {"allocated", "prepared"} => DOMAIN results'[k] = requests[k]
    BY <1>1, <1>6, <2>2
  <2> QED
    BY <2>1, <2>3, Zenon DEF AllocatedWhole, listed
<1>13. SubmittedAdmitted'
  BY <1>1, <1>6, Zenon DEF SubmitInv, SubmittedAdmitted, nodeVars
<1>14. AdmittedIsAccepted'
  <2> SUFFICES ASSUME NEW k \in Claim PROVE Excused(k)'
    BY Zenon DEF AdmittedIsAccepted, Excused
  <2>1. Excused(k)
    BY Zenon DEF SubmitInv, AdmittedIsAccepted, Excused
  <2>2. CASE k = c
    BY <1>6, <2>2 DEF Excused
  <2>3. CASE k # c
    BY <1>1, <1>6, <2>1, <2>3 DEF Excused, nodeVars
  <2> QED
    BY <2>2, <2>3
<1> QED
  BY <1>1, <1>7, <1>8, <1>9, <1>10, <1>11, <1>12, <1>13, <1>14, NodeKept, TypePartsNext
  DEF SubmitInv

\* Unprepare leaves a listed device what it was at the start.
LEMMA UnprepareSubmitInv ==
  ASSUME SubmitInv, IInv, NEW c \in Claim, Unprepare(c)
  PROVE  SubmitInv'
<1> DEFINE listed == Listed(autoPartition, vfioManager)
           returned(d) == \E r \in DOMAIN prepared[c] : prepared[c][r].device = d /\ allocatable[d] = "vfio"
<1>1. /\ stage' = [stage EXCEPT ![c] = "done"] /\ failure' = [failure EXCEPT ![c] = "none"]
      /\ prepared' = [prepared EXCEPT ![c] = <<>>] /\ results' = [results EXCEPT ![c] = <<>>]
      /\ own' = [own EXCEPT ![c] = <<>>] /\ class' = [class EXCEPT ![c] = <<>>]
      /\ UNCHANGED <<nodeVars, host>>
  BY DEF Unprepare, None
<1>2. allocatable' = [d \in Device |-> IF returned(d) THEN kind[d] ELSE allocatable[d]]
  BY Zenon DEF Unprepare
<1>3. /\ prepared'[c] = <<>> /\ results'[c] = <<>> /\ own'[c] = <<>> /\ class'[c] = <<>>
      /\ \A k \in Claim \ {c} : /\ prepared'[k] = prepared[k] /\ results'[k] = results[k]
                                /\ own'[k] = own[k] /\ class'[k] = class[k]
  BY <1>1 DEF IInv, PreparedType, ResultsType, SubmitInv, ConfigsAreFunctions
<1>4. /\ stage'[c] = "done" /\ failure'[c] = "none"
      /\ \A k \in Claim \ {c} : stage'[k] = stage[k] /\ failure'[k] = failure[k]
  BY <1>1, TypeParts DEF SubmitInv, StageTypeOK
<1>5. NodeTypeOK'
  <2>1. allocatable' \in [Device -> Kind \cup {"none"}]
    BY <1>2, TypeParts, SlicesAssumption DEF SubmitInv, NodeTypeOK, SlicesAssumption
  <2> QED
    BY <1>1, <2>1, NodeKept, TypeParts DEF SubmitInv, NodeTypeOK
<1>6. StageTypeOK'
  BY <1>1, TypeParts DEF SubmitInv, StageTypeOK, Failures
<1>7. \A k \in Claim : ClaimTypeOK(k)'
  <2> SUFFICES ASSUME NEW k \in Claim PROVE ClaimTypeOK(k)'
    OBVIOUS
  <2>0. ClaimTypeOK(k)
    BY TypeParts DEF SubmitInv
  <2>1. CASE k = c
    BY <1>3, <2>1 DEF ClaimTypeOK, None
  <2>2. CASE k # c
    BY <1>3, <2>0, <2>2 DEF ClaimTypeOK
  <2> QED
    BY <2>1, <2>2
<1>8. ConfigsAreFunctions'
  BY <1>1 DEF SubmitInv, ConfigsAreFunctions
<1>9. listed' = listed
  BY <1>1, NodeKept
<1>10. \A k \in Claim :
            /\ \A r \in DOMAIN results[k] : results[k][r].device \in listed
            /\ stage[k] \in {"allocated", "prepared"} => DOMAIN results[k] = requests[k]
  BY DEF SubmitInv, AllocatedWhole
<1>11. \A d \in Device :
          /\ d \in listed => allocatable[d] = kind[d] \/ (kind[d] = "gpu" /\ allocatable[d] = "vfio")
          /\ d \notin listed => allocatable[d] = "none"
  BY DEF SubmitInv, EntriesOfListed
<1>12. \A d \in Device : returned(d) => d \in listed
  BY <1>10 DEF IInv, PreparedType
<1>13. \A d \in Device : allocatable'[d] = IF returned(d) THEN kind[d] ELSE allocatable[d]
  BY <1>2
<1> HIDE DEF listed, returned
<1>14. EntriesOfListed'
  <2>1. \A d \in Device :
          /\ d \in listed => allocatable'[d] = kind[d] \/ (kind[d] = "gpu" /\ allocatable'[d] = "vfio")
          /\ d \notin listed => allocatable'[d] = "none"
    BY <1>11, <1>12, <1>13
  <2> QED
    BY <1>9, <2>1, Zenon DEF EntriesOfListed, listed
<1>15. AllocatedWhole'
  <2>1. \A k \in Claim :
            /\ \A r \in DOMAIN results'[k] : results'[k][r].device \in listed
            /\ stage'[k] \in {"allocated", "prepared"} => DOMAIN results'[k] = requests[k]
    BY <1>3, <1>4, <1>10
  <2> QED
    BY <1>9, <2>1, Zenon DEF AllocatedWhole, listed
<1>16. SubmittedAdmitted'
  <2>1. webhook' = webhook
    BY <1>1 DEF nodeVars
  <2>2. Admitted(own'[c])
    BY <1>3 DEF Admitted
  <2> QED
    BY <1>3, <1>4, <2>1, <2>2, Zenon DEF SubmitInv, SubmittedAdmitted
<1>17. AdmittedIsAccepted'
  <2> SUFFICES ASSUME NEW k \in Claim PROVE Excused(k)'
    BY Zenon DEF AdmittedIsAccepted, Excused
  <2>1. Excused(k)
    BY Zenon DEF SubmitInv, AdmittedIsAccepted, Excused
  <2>2. CASE k = c
    BY <1>4, <2>2 DEF Excused
  <2>3. CASE k # c
    BY <1>1, <1>3, <1>4, <2>1, <2>3 DEF Excused, nodeVars
  <2> QED
    BY <2>2, <2>3
<1> QED
  BY <1>1, <1>5, <1>6, <1>7, <1>8, <1>14, <1>15, <1>16, <1>17, NodeKept, TypePartsNext
  DEF SubmitInv

\* What is prepared and why is no matter of the host.
LEMMA QuietSubmitInv ==
  ASSUME SubmitInv, UNCHANGED <<nodeVars, allocatable, claimVars>>, host' \in Hosts
  PROVE  SubmitInv'
<1>1. UNCHANGED <<nodeVars, allocatable, stage, own, class, results, prepared, failure>>
  BY DEF claimVars
<1>2. NodeTypeOK' /\ StageTypeOK'
  BY <1>1, NodeKept, TypeParts DEF SubmitInv, NodeTypeOK, StageTypeOK
<1>3. \A k \in Claim : ClaimTypeOK(k)'
  BY <1>1, TypeParts DEF SubmitInv, ClaimTypeOK
<1>4. EntriesOfListed' /\ AllocatedWhole'
  BY <1>1, NodeKept, Zenon DEF SubmitInv, EntriesOfListed, AllocatedWhole
<1>5. ConfigsAreFunctions' /\ SubmittedAdmitted' /\ AdmittedIsAccepted'
  BY <1>1 DEF SubmitInv, ConfigsAreFunctions, SubmittedAdmitted, AdmittedIsAccepted, nodeVars
<1> QED
  BY <1>1, <1>2, <1>3, <1>4, <1>5, NodeKept, TypePartsNext DEF SubmitInv

\* Every step preserves SubmitInv.
LEMMA NextSubmitInv == SubmitInv /\ IInv /\ [ConfigsNext]_configsVars => SubmitInv'
<1> SUFFICES ASSUME SubmitInv, IInv, [ConfigsNext]_configsVars PROVE SubmitInv'
  OBVIOUS
<1>1. CASE UNCHANGED configsVars
  <2>1. UNCHANGED <<nodeVars, allocatable, claimVars>> /\ host' \in Hosts
    BY <1>1, TypeParts DEF configsVars, SubmitInv, NodeTypeOK
  <2> QED
    BY <2>1, QuietSubmitInv
<1>2. CASE HostChanges
  BY <1>2, QuietSubmitInv DEF HostChanges
<1>3. ASSUME NEW c \in Claim, Submit(c) \/ Allocate(c) \/ PrepareFails(c) \/ Prepare(c) \/ Unprepare(c)
      PROVE  SubmitInv'
  BY <1>3, SubmitSubmitInv, AllocateSubmitInv, PrepareFailsSubmitInv, PrepareSubmitInv,
     UnprepareSubmitInv
<1> QED
  BY <1>1, <1>2, <1>3 DEF ConfigsNext

-----------------------------------------------------------------------------
(* The configuration in effect, where no request lists alternatives. *)

NoAlternatives == \A r \in Request : refs[r] = {r}

\* The positions of the configurations that name a request and fit its device.
Candidates(c, r) ==
    {p \in DOMAIN Attached(c) :
        Names(Attached(c)[p], r, results[c][r].ref) /\ Fits(Attached(c)[p], results[c][r].device)}

\* What EffectiveConfig says of one claim.
Effective(c) ==
    stage[c] = "prepared" =>
        \A r \in requests[c] :
            /\ r \in DOMAIN prepared[c] <=> Candidates(c, r) # {}
            /\ \A p \in Candidates(c, r) : (\A q \in Candidates(c, r) \ {p} : Precedes(q, p)) =>
                 prepared[c][r].config = Attached(c)[p]

LEMMA EffectiveOfEach == EffectiveConfig <=> \A c \in Claim : Effective(c)
BY Zenon DEF EffectiveConfig, Effective, Candidates

LEMMA EffectiveOfEachNext == (\A c \in Claim : Effective(c)') => EffectiveConfig'
BY Zenon DEF EffectiveConfig, Effective, Candidates

\* A claim that a step leaves alone keeps its configurations.
LEMMA EffectiveKept ==
  ASSUME NEW c, Effective(c), vfioPassthrough' = vfioPassthrough,
         own'[c] = own[c], class'[c] = class[c], results'[c] = results[c],
         prepared'[c] = prepared[c], stage'[c] = stage[c]
  PROVE  Effective(c)'
<1>1. Attached(c)' = Attached(c)
  BY DEF Attached
<1>2. \A config, d : Fits(config, d)' <=> Fits(config, d)
  BY DEF Fits
<1>3. \A r : Candidates(c, r)' = Candidates(c, r)
  BY <1>1, <1>2 DEF Candidates
<1> QED
  BY <1>1, <1>3 DEF Effective

\* While a claim has nothing prepared, the entries of its devices are what they
\* were at the start.
LEMMA EntriesOfUnprepared ==
  ASSUME SubmitInv, IInv, NEW c \in Claim, NEW r \in DOMAIN results[c], DOMAIN prepared[c] = {}
  PROVE  allocatable[results[c][r].device] = kind[results[c][r].device]
<1> DEFINE d == results[c][r].device
<1>1. d \in Device /\ d \in Listed(autoPartition, vfioManager)
  BY DEF SubmitInv, AllocatedWhole, Listed
<1>2. SUFFICES ASSUME kind[d] = "gpu", allocatable[d] = "vfio" PROVE FALSE
  BY <1>1 DEF SubmitInv, EntriesOfListed
<1>3. PICK k \in Claim : \E q \in DOMAIN prepared[k] : prepared[k][q].device = d
  BY <1>1, <1>2 DEF IInv, ConvertedForItsClaim
<1>4. PICK q \in DOMAIN prepared[k] : prepared[k][q].device = d
  BY <1>3
<1>5. k # c
  BY <1>4
<1>6. q \in DOMAIN results[k] /\ results[k][q].device = d
  BY <1>4 DEF IInv, PreparedType
<1> DEFINE held == Assignment(results)
<1>7. /\ <<c, r>> \in DOMAIN held /\ <<k, q>> \in DOMAIN held
      /\ held[<<c, r>>] = d /\ held[<<k, q>>] = d
  BY <1>6 DEF Assignment
<1>8. <<c, r>> = <<k, q>>
  <2> HIDE DEF d, held
  <2>1. ResultsType /\ WithinPool
    BY DEF IInv
  <2> QED
    BY <1>2, <1>7, <2>1, HeldOnce DEF held
<1> QED
  BY <1>5, <1>8

\* A configuration fits a request and its device, or takes its result and is of
\* a kind with a meaning: the same.
LEMMA TakesIsFits ==
  ASSUME NEW config \in Config, NEW r, NEW d, allocatable[d] = kind[d]
  PROVE  Names(config, r, r) /\ Fits(config, d) <=>
         Takes(config, r, d) /\ config.kind \in {"gpu", "vfio"}
BY DEF Names, Fits, Takes

\* What Prepare puts into effect for a result.
LEMMA PreparePutsInEffect ==
  ASSUME NoAlternatives, SubmitInv, IInv, NEW c \in Claim, stage[c] = "allocated",
         PrepareFailures(c) = {}, NEW r \in requests[c]
  PROVE  /\ r \in DOMAIN Chosen(c) <=> Candidates(c, r) # {}
         /\ \A p \in Candidates(c, r) : (\A q \in Candidates(c, r) \ {p} : Precedes(q, p)) =>
              Chosen(c)[r] = Attached(c)[p]
<1> DEFINE configs == OrderedConfigs(c)
           at(p) == Index(Len(class[c]), p)
           d == results[c][r].device
           places == DOMAIN Attached(c)
<1>1. own[c] \in Seq(Config) /\ class[c] \in Seq(Config)
  BY ConfigsAreLists DEF SubmitInv
<1>2. r \in DOMAIN results[c] /\ r \in Request
  BY DEF SubmitInv, AllocatedWhole, IInv, ResultsType
<1>3. results[c][r].ref = r
  <2>1. results[c][r] \in [ref : refs[r], device : Device]
    BY <1>2, TypeParts DEF SubmitInv, ClaimTypeOK
  <2> QED
    BY <1>2, <2>1 DEF NoAlternatives
<1>4. allocatable[d] = kind[d]
  <2>1. DOMAIN prepared[c] = {}
    BY DEF IInv, PreparedInStage
  <2> QED
    BY <1>2, <2>1, EntriesOfUnprepared
<1>5. /\ configs \in Seq(Config)
      /\ \A p \in places : at(p) \in DOMAIN configs /\ configs[at(p)] = Attached(c)[p]
      /\ \A p, q \in places : /\ p # q => Precedes(p, q) \/ Precedes(q, p)
                              /\ Precedes(p, q) => at(p) < at(q)
      /\ \A i \in DOMAIN configs : \E p \in places : i = at(p)
  BY <1>1, OrderedByPrecedence
<1>6. /\ DOMAIN configs \subseteq Nat /\ \A i \in DOMAIN configs : configs[i] \in Config
  BY <1>5
<1>7. /\ r \in DOMAIN Chosen(c) <=> \E i \in DOMAIN configs : Takes(configs[i], r, d)
      /\ r \in DOMAIN Chosen(c) => \E i \in DOMAIN configs :
             /\ Chosen(c)[r] = configs[i] /\ Takes(configs[i], r, d)
             /\ \A j \in DOMAIN configs : Takes(configs[j], r, d) => j <= i
  <2>1. /\ DOMAIN Chosen(c) =
                {q \in DOMAIN results[c] : \E i \in DOMAIN configs :
                    Takes(configs[i], results[c][q].ref, results[c][q].device)}
        /\ \A q \in DOMAIN Chosen(c) : \E i \in DOMAIN configs :
                /\ Chosen(c)[q] = configs[i]
                /\ Takes(configs[i], results[c][q].ref, results[c][q].device)
                /\ \A j \in DOMAIN configs :
                     Takes(configs[j], results[c][q].ref, results[c][q].device) => j <= i
    BY <1>5, ChosenFacts
  <2> HIDE DEF configs
  <2> QED
    BY <1>2, <1>3, <2>1
<1>8. ASSUME r \in DOMAIN Chosen(c) PROVE Chosen(c)[r].kind \in {"gpu", "vfio"}
  <2>1. /\ Decodes(class[c] \o own[c])
        /\ ApplyFailures(Chosen(c)[r], d) = {}
    BY <1>8 DEF PrepareFailures
  <2>2. PICK i \in DOMAIN configs : Chosen(c)[r] = configs[i] /\ Takes(configs[i], r, d)
    BY <1>7, <1>8
  <2>3. configs[i].kind \in {"gpu", "vfio", "unknown", "foreign"}
    BY <1>1, <2>1, DecodedKinds
  <2>4. configs[i].kind # "foreign"
    BY <2>2 DEF Takes
  <2>5. configs[i].kind # "unknown"
    <3> SUFFICES ASSUME configs[i].kind = "unknown" PROVE FALSE
      OBVIOUS
    <3>1. ApplyFailures(configs[i], d) = {"unrecognized"}
      BY DEF ApplyFailures
    <3> QED
      BY <2>1, <2>2, <3>1
  <2> QED
    BY <2>2, <2>3, <2>4, <2>5
<1>9. \A p \in places : p \in Candidates(c, r) <=>
          Takes(configs[at(p)], r, d) /\ configs[at(p)].kind \in {"gpu", "vfio"}
  <2> SUFFICES ASSUME NEW p \in places
               PROVE  p \in Candidates(c, r) <=>
                        Takes(configs[at(p)], r, d) /\ configs[at(p)].kind \in {"gpu", "vfio"}
    OBVIOUS
  <2>1. configs[at(p)] \in Config /\ configs[at(p)] = Attached(c)[p]
    BY <1>5, <1>6
  <2>2. p \in Candidates(c, r) <=> Names(Attached(c)[p], r, r) /\ Fits(Attached(c)[p], d)
    BY <1>3 DEF Candidates
  <2> HIDE DEF configs, at, d
  <2> QED
    BY <1>4, <2>1, <2>2, TakesIsFits
<1> HIDE DEF configs, at, d, places
<1>10. Candidates(c, r) \subseteq places
  BY DEF Candidates, places
<1>11. CASE r \notin DOMAIN Chosen(c)
  <2>1. Candidates(c, r) = {}
    BY <1>5, <1>7, <1>9, <1>10, <1>11
  <2> QED
    BY <1>11, <2>1
<1>12. CASE r \in DOMAIN Chosen(c)
  <2>1. PICK i \in DOMAIN configs :
             /\ Chosen(c)[r] = configs[i] /\ Takes(configs[i], r, d)
             /\ \A j \in DOMAIN configs : Takes(configs[j], r, d) => j <= i
    BY <1>7, <1>12
  <2>2. PICK p \in places : i = at(p)
    BY <1>5
  <2>3. p \in Candidates(c, r)
    BY <1>8, <1>9, <1>12, <2>1, <2>2
  <2>4. ASSUME NEW o \in Candidates(c, r), \A q \in Candidates(c, r) \ {o} : Precedes(q, o)
        PROVE  Chosen(c)[r] = Attached(c)[o]
    <3>1. o \in places /\ Takes(configs[at(o)], r, d) /\ at(o) \in DOMAIN configs
      BY <1>5, <1>9, <1>10
    <3>2. at(o) <= i
      BY <2>1, <3>1
    <3>3. o = p
      <4> SUFFICES ASSUME o # p PROVE FALSE
        OBVIOUS
      <4>1. Precedes(p, o)
        BY <2>3, <2>4
      <4>2. at(p) < at(o)
        BY <1>5, <3>1, <4>1
      <4>3. at(o) \in Nat /\ i \in Nat
        BY <1>6, <3>1
      <4> QED
        BY <2>2, <3>2, <4>2, <4>3
    <3> QED
      BY <1>5, <2>1, <2>2, <3>3
  <2> QED
    BY <1>12, <2>3, <2>4
<1> QED
  BY <1>11, <1>12

\* Every step preserves EffectiveConfig.
LEMMA NextEffective ==
  ASSUME NoAlternatives, SubmitInv, IInv, EffectiveConfig, [ConfigsNext]_configsVars
  PROVE  EffectiveConfig'
<1> SUFFICES ASSUME NEW k \in Claim PROVE Effective(k)'
  BY EffectiveOfEachNext
<1>1. Effective(k)
  BY EffectiveOfEach
<1>2. CASE UNCHANGED configsVars \/ HostChanges
  BY <1>1, <1>2, EffectiveKept DEF configsVars, nodeVars, claimVars, HostChanges
<1>3. ASSUME NEW c \in Claim,
             \/ Submit(c) \/ Allocate(c) \/ PrepareFails(c) \/ Prepare(c) \/ Unprepare(c)
      PROVE  Effective(k)'
  <2>1. vfioPassthrough' = vfioPassthrough
    BY <1>3 DEF Submit, Allocate, PrepareFails, Prepare, Unprepare, nodeVars
  <2>2. CASE k # c
    <3>1. /\ own'[k] = own[k] /\ class'[k] = class[k] /\ results'[k] = results[k]
          /\ prepared'[k] = prepared[k] /\ stage'[k] = stage[k]
      <4>1. CASE Submit(c)
        BY <2>2, <4>1 DEF Submit, SubmitInv, ConfigsAreFunctions, IInv, PreparedInStage
      <4>2. CASE Allocate(c)
        BY <2>2, <4>2 DEF Allocate, SubmitInv, ConfigsAreFunctions, IInv, PreparedInStage, ResultsType
      <4>3. CASE PrepareFails(c)
        BY <4>3 DEF PrepareFails
      <4>4. CASE Prepare(c)
        <5>1. /\ UNCHANGED <<own, class, results>> /\ stage' = [stage EXCEPT ![c] = "prepared"]
              /\ \E x : prepared' = [prepared EXCEPT ![c] = x]
          BY <4>4, Zenon DEF Prepare
        <5> QED
          BY <2>2, <5>1 DEF IInv, PreparedInStage, PreparedType
      <4>5. CASE Unprepare(c)
        BY <2>2, <4>5
        DEF Unprepare, SubmitInv, ConfigsAreFunctions, IInv, PreparedInStage, ResultsType, PreparedType
      <4> QED
        BY <1>3, <4>1, <4>2, <4>3, <4>4, <4>5
    <3> QED
      BY <1>1, <2>1, <3>1, EffectiveKept
  <2>3. CASE k = c /\ Prepare(c)
    <3>1. /\ stage[c] = "allocated" /\ PrepareFailures(c) = {}
          /\ UNCHANGED <<own, class, results>>
      BY <2>3 DEF Prepare
    <3>2. /\ DOMAIN prepared'[c] = DOMAIN Chosen(c)
          /\ \A r \in DOMAIN Chosen(c) : prepared'[c][r].config = Chosen(c)[r]
      <4> DEFINE entry(r) == [config |-> Chosen(c)[r], device |-> results[c][r].device,
                              nodes |-> IF Chosen(c)[r].kind = "vfio"
                                        THEN VfioNodes(results[c][r].device, Chosen(c)[r].policy)
                                        ELSE {"render"}]
      <4>1. prepared' = [prepared EXCEPT ![c] = [r \in DOMAIN Chosen(c) |-> entry(r)]]
        BY <2>3, Zenon DEF Prepare
      <4>2. prepared'[c] = [r \in DOMAIN Chosen(c) |-> entry(r)]
        BY <4>1 DEF IInv, PreparedType
      <4> QED
        BY <4>2
    <3>3. Attached(c)' = Attached(c)
      BY <3>1 DEF Attached
    <3>4. \A r : Candidates(c, r)' = Candidates(c, r)
      <4>1. \A config, d : Fits(config, d)' <=> Fits(config, d)
        BY <2>1 DEF Fits
      <4> QED
        BY <3>1, <3>3, <4>1 DEF Candidates
    <3>5. \A r \in requests[c] :
             /\ r \in DOMAIN Chosen(c) <=> Candidates(c, r) # {}
             /\ \A p \in Candidates(c, r) : (\A q \in Candidates(c, r) \ {p} : Precedes(q, p)) =>
                  Chosen(c)[r] = Attached(c)[p]
      BY <3>1, PreparePutsInEffect
    <3>6. \A r \in requests[c] :
             /\ r \in DOMAIN prepared'[c] <=> Candidates(c, r)' # {}
             /\ \A p \in Candidates(c, r)' :
                  (\A q \in Candidates(c, r)' \ {p} : Precedes(q, p)) =>
                      prepared'[c][r].config = Attached(c)'[p]
      BY <3>2, <3>3, <3>4, <3>5
    <3> QED
      BY <2>3, <3>6 DEF Effective
  <2>4. CASE k = c /\ PrepareFails(c)
    BY <1>1, <2>1, <2>4, EffectiveKept DEF PrepareFails
  <2>5. CASE k = c /\ (Submit(c) \/ Allocate(c) \/ Unprepare(c))
    <3>1. stage'[k] # "prepared"
      BY <2>5 DEF Submit, Allocate, Unprepare, IInv, PreparedInStage
    <3> QED
      BY <3>1 DEF Effective
  <2> QED
    BY <1>3, <2>2, <2>3, <2>4, <2>5
<1> QED
  BY <1>2, <1>3 DEF ConfigsNext

LEMMA InitEffective == ConfigsInit => EffectiveConfig
BY DEF ConfigsInit, EffectiveConfig

-----------------------------------------------------------------------------
(* The theorems. *)

\* IInv holds in every reachable state.
THEOREM ConfigsInvariant == ConfigsSpec => []IInv
<1>1. IInv /\ [ConfigsNext]_configsVars => IInv'
  BY NextIInv
<1> QED
  BY <1>1, InitIInv, PTL DEF ConfigsSpec

\* Whatever devices a node has, in slices of whatever size, what the scheduler
\* can allocate from them never puts a GPU into two modes, and never gives out
\* more shares of a mode than it has partitions.
THEOREM OneModeAlways == ConfigsSpec => []OneModePerGpu
<1>1. IInv => OneModePerGpu
  BY PoolGivesOneMode DEF IInv
<1> QED
  BY <1>1, ConfigsInvariant, PTL

\* A GPU is a VFIO device exactly while a claim holds it that asked for it,
\* through any configurations, failures and order of claims.
THEOREM ConversionsAreClaimed == ConfigsSpec => []ConvertedForItsClaim
<1>1. IInv => ConvertedForItsClaim
  BY DEF IInv
<1> QED
  BY <1>1, ConfigsInvariant, PTL

\* No claim gets the nodes of both IOMMU backends, or of the one its policy
\* excludes, on any host and whatever changes on it meanwhile.
THEOREM BackendByPolicy == ConfigsSpec => []BackendAsAsked
<1>1. IInv => BackendAsAsked
  BY DEF IInv
<1> QED
  BY <1>1, ConfigsInvariant, PTL

\* What reaches a claim on its way: SubmitInv holds in every reachable state.
THEOREM SubmissionInvariant == ConfigsSpec => []SubmitInv
<1>1. SubmitInv /\ IInv /\ [ConfigsNext]_configsVars => SubmitInv'
  BY NextSubmitInv
<1>2. ConfigsInit => SubmitInv
  BY InitSubmitInv
<1> QED
  BY <1>1, <1>2, ConfigsInvariant, PTL DEF ConfigsSpec

\* Every claim, configuration, entry, node and failure is one of those the types
\* allow, in every reachable state.
THEOREM ConfigsTypeCorrect == ConfigsSpec => []ConfigsTypeOK
<1>1. SubmitInv => ConfigsTypeOK
  BY DEF SubmitInv
<1> QED
  BY <1>1, SubmissionInvariant, PTL

\* Where the webhook is installed, Prepare never refuses a claim for what the
\* claim itself says, but for a configuration of a newer API; whatever the
\* classes, devices and hosts are.
THEOREM AdmittedAccepted == ConfigsSpec => []AdmittedIsAccepted
<1>1. SubmitInv => AdmittedIsAccepted
  BY DEF SubmitInv
<1> QED
  BY <1>1, SubmissionInvariant, PTL

\* The slices of a start, for any number of devices and GPUs and any limits of
\* the API, hold every listed device once and in order of name, and the counter
\* of every GPU that a device consumes once.
THEOREM SlicesAlwaysComplete == ConfigsSpec => []SlicesComplete
<1>1. SubmitInv => SlicesComplete
  BY PoolComplete, TypeParts DEF SubmitInv, NodeTypeOK
<1> QED
  BY <1>1, SubmissionInvariant, PTL

\* Where no request lists alternatives, the configuration of the highest
\* precedence that names a request and fits its device takes effect on it.
THEOREM EffectiveWithoutAlternatives ==
  ASSUME NoAlternatives
  PROVE  ConfigsSpec => []EffectiveConfig
<1>1. SubmitInv /\ IInv /\ EffectiveConfig /\ [ConfigsNext]_configsVars => EffectiveConfig'
  BY NextEffective
<1>2. ConfigsInit => EffectiveConfig
  BY InitEffective
<1> QED
  BY <1>1, <1>2, ConfigsInvariant, SubmissionInvariant, PTL DEF ConfigsSpec

=============================================================================
