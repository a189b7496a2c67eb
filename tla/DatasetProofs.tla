---------------------------- MODULE DatasetProofs ----------------------------
(***************************************************************************)
(* The properties of Dataset, for every set of names, row types, rows,     *)
(* payloads, index types and bounds.                                       *)
(*                                                                         *)
(* The invariant is IInv. Sound says of the dataset that headers tile the  *)
(* file, and that every column of the manifest has one descriptor for each *)
(* batch, in the order of the file: whatever the descriptor says, once the *)
(* file has its sector, is true of the bytes in it (WellBuffer), and they  *)
(* stay while the file grows. A manifest ahead of its file (Phantom) is no *)
(* exception: its descriptor is either true or beyond the end, and nothing *)
(* is written to such a dataset. WellAccs says that an open accumulator    *)
(* has rows that its schema can take.                                      *)
(*                                                                         *)
(* Answers to get_or_insert depend on what it reads, so that Settled needs *)
(* reading to be exact, and that needs offsets, even in bits, to be less   *)
(* than u64::MAX, which stands for None (Fits). The file only grows: what  *)
(* fits now did so before.                                                 *)
(***************************************************************************)
EXTENDS Dataset, CodecProofs

----------------------------------------------------------------------------
(* Parts of the file                                                       *)

\* There is a part in a sequence, after its first o elements.
Has(whole, o, part) ==
  o + Len(part) <= Len(whole) /\ SubSeq(whole, o + 1, o + Len(part)) = part

\* A sequence has each of its two halves.
LEMMA HasParts ==
  ASSUME NEW S, NEW a \in Seq(S), NEW b \in Seq(S)
  PROVE  /\ a \o b \in Seq(S) /\ Len(a \o b) = Len(a) + Len(b)
         /\ Has(a \o b, 0, a) /\ Has(a \o b, Len(a), b)
<1>1. a \o b \in Seq(S) /\ Len(a \o b) = Len(a) + Len(b) /\ Len(a) \in Nat /\ Len(b) \in Nat
  OBVIOUS
<1>2. SubSeq(a \o b, 1, Len(a)) = a /\ SubSeq(a \o b, Len(a) + 1, Len(a) + Len(b)) = b
  BY CutFirst
<1> DEFINE w == a \o b
<1> HIDE DEF w
<1>3. Len(w) = Len(a) + Len(b) /\ SubSeq(w, 1, Len(a)) = a /\ SubSeq(w, Len(a) + 1, Len(a) + Len(b)) = b
  BY <1>1, <1>2 DEF w
<1>4. Has(w, 0, a) /\ Has(w, Len(a), b)
  BY <1>1, <1>3 DEF Has
<1> QED BY <1>1, <1>4 DEF w

\* What a part has, the whole has.
LEMMA HasWithin ==
  ASSUME NEW S, NEW whole \in Seq(S), NEW part \in Seq(S), NEW piece \in Seq(S),
         NEW o \in Nat, NEW p \in Nat, Has(whole, o, part), Has(part, p, piece)
  PROVE  Has(whole, o + p, piece)
<1> DEFINE n == Len(part)
           q == p + Len(piece)
<1>1. n \in Nat /\ Len(piece) \in Nat /\ q \in Nat /\ o + n <= Len(whole) /\ q <= n /\ Len(whole) \in Nat
  BY DEF Has
<1>2. SubSeq(whole, o + 1, o + n) = part /\ SubSeq(part, p + 1, q) = piece
  BY DEF Has
<1>3. SubSeq(SubSeq(whole, o + 1, o + n), p + 1, q) = SubSeq(whole, o + p + 1, o + q)
  BY <1>1, CutCut
<1>4. o + q = o + p + Len(piece) /\ o + p + Len(piece) <= Len(whole)
  BY <1>1
<1> QED BY <1>2, <1>3, <1>4 DEF Has

\* What a sequence has, a longer one has.
LEMMA HasLonger ==
  ASSUME NEW S, NEW a \in Seq(S), NEW b \in Seq(S), NEW part \in Seq(S), NEW o \in Nat,
         Has(a, o, part)
  PROVE  Has(a \o b, o, part)
<1>1. a \o b \in Seq(S) /\ Has(a \o b, 0, a)
  BY HasParts
<1> DEFINE w == a \o b
<1> HIDE DEF w
<1>2. Has(w, 0 + o, part)
  BY <1>1, HasWithin DEF w
<1>3. 0 + o = o
  OBVIOUS
<1> QED BY <1>2, <1>3 DEF w

\* What follows a file once a segment with a body is put behind it.
Framing(file, head, zeros, body, sum, longer) ==
  /\ longer \in Seq(Bytes)
  /\ Len(longer) = Len(file) + Len(head) + Len(zeros) + Len(body) + Len(sum)
  /\ Has(longer, Len(file), head)
  /\ Has(longer, Len(file) + Len(head) + Len(zeros), body)

\* What is put behind a file is found there: header, padding, body and
\* checksum.
LEMMA Framed ==
  ASSUME NEW file \in Seq(Bytes), NEW head \in Seq(Bytes), NEW zeros \in Seq(Bytes),
         NEW body \in Seq(Bytes), NEW sum \in Seq(Bytes)
  PROVE  Framing(file, head, zeros, body, sum, file \o (head \o zeros \o body \o sum))
<1> DEFINE x == head \o zeros
           y == x \o body
           z == y \o sum
           w == file \o z
<1>1. /\ Len(file) \in Nat /\ Len(head) \in Nat /\ Len(zeros) \in Nat /\ Len(body) \in Nat /\ Len(sum) \in Nat
  OBVIOUS
<1>2. x \in Seq(Bytes) /\ Len(x) = Len(head) + Len(zeros) /\ Has(x, 0, head)
  BY HasParts
<1> HIDE DEF x
<1>3. y \in Seq(Bytes) /\ Len(y) = Len(x) + Len(body) /\ Has(y, 0, x) /\ Has(y, Len(x), body)
  BY <1>2, HasParts
<1> HIDE DEF y
<1>4. z \in Seq(Bytes) /\ Len(z) = Len(y) + Len(sum) /\ Has(z, 0, y)
  BY <1>3, HasParts
<1> HIDE DEF z
<1>5. w \in Seq(Bytes) /\ Len(w) = Len(file) + Len(z) /\ Has(w, Len(file), z)
  BY <1>4, HasParts
<1> HIDE DEF w
<1>6. 0 \in Nat /\ Len(x) \in Nat /\ Len(file) + 0 = Len(file)
  BY <1>1, <1>2
<1>7. Has(w, Len(file), y)
  <2>1. Has(w, Len(file) + 0, y)
    BY <1>1, <1>3, <1>4, <1>5, <1>6, HasWithin
  <2> QED BY <2>1, <1>6
<1>8. Has(w, Len(file), x)
  <2>1. Has(w, Len(file) + 0, x)
    BY <1>1, <1>2, <1>3, <1>5, <1>6, <1>7, HasWithin
  <2> QED BY <2>1, <1>6
<1>9. Has(w, Len(file), head)
  <2>1. Has(w, Len(file) + 0, head)
    BY <1>1, <1>2, <1>5, <1>6, <1>8, HasWithin
  <2> QED BY <2>1, <1>6
<1>10. Has(w, Len(file) + Len(x), body)
  BY <1>1, <1>2, <1>3, <1>5, <1>6, <1>7, HasWithin
<1>11. Len(file) + Len(x) = Len(file) + Len(head) + Len(zeros)
       /\ Len(w) = Len(file) + Len(head) + Len(zeros) + Len(body) + Len(sum)
  BY <1>1, <1>2, <1>3, <1>4, <1>5
<1>12. w = file \o (head \o zeros \o body \o sum)
  BY DEF w, z, y, x
<1> QED BY <1>5, <1>9, <1>10, <1>11, <1>12 DEF Framing

----------------------------------------------------------------------------
(* Descriptors in order                                                    *)

\* The first n values of a sequence.
FirstOf(f, n) == {f[i] : i \in 1..n}

\* There are as many of n distinct values as n.
LEMMA DistinctCardinality ==
  ASSUME NEW n \in Nat, NEW f, \A i, j \in 1..n : i < j => f[i] # f[j]
  PROVE  \A m \in 0..n : IsFiniteSet(FirstOf(f, m)) /\ Cardinality(FirstOf(f, m)) = m
<1> DEFINE R(m) == FirstOf(f, m)
           T == {m \in 0..n : IsFiniteSet(R(m)) /\ Cardinality(R(m)) = m}
<1>1. 0 \in T
  <2>1. R(0) = {}
    BY DEF FirstOf
  <2>2. 0 \in 0..n
    OBVIOUS
  <2> QED BY <2>1, <2>2, FS_EmptySet
<1>2. \A m \in 1..n : m - 1 \in T => m \in T
  <2> SUFFICES ASSUME NEW m \in 1..n, m - 1 \in T PROVE m \in T
    OBVIOUS
  <2>1. R(m) = R(m - 1) \cup {f[m]}
    <3>1. 1..m = (1..m - 1) \cup {m}
      OBVIOUS
    <3> QED BY <3>1 DEF FirstOf
  <2>2. f[m] \notin R(m - 1)
    <3>1. \A i \in 1..m - 1 : i \in 1..n /\ i < m
      OBVIOUS
    <3> QED BY <3>1 DEF FirstOf
  <2>3. IsFiniteSet(R(m - 1)) /\ Cardinality(R(m - 1)) = m - 1
    OBVIOUS
  <2> HIDE DEF R
  <2>4. IsFiniteSet(R(m - 1) \cup {f[m]}) /\ Cardinality(R(m - 1) \cup {f[m]}) = Cardinality(R(m - 1)) + 1
    BY <2>2, <2>3, FS_AddElement
  <2>5. Cardinality(R(m)) = m /\ m \in 0..n
    BY <2>1, <2>3, <2>4
  <2> QED BY <2>1, <2>4, <2>5
<1>3. 0..n \subseteq T
  <2> HIDE DEF T
  <2> QED BY <1>1, <1>2, BoundedInduction
<1> QED BY <1>3

\* Some descriptors, listed by their offsets.
Ordered(ds, buffers, n) ==
  /\ ds = [i \in 1..n |-> ds[i]]
  /\ buffers = {ds[i] : i \in 1..n}
  /\ \A i \in 1..n : ds[i].buffer.offset \in Nat /\ ds[i].buffer.size \in Nat
  /\ \A i, j \in 1..n : i < j => ds[i].buffer.offset < ds[j].buffer.offset

\* Descriptors that are listed by their offsets are what InOrder gives of
\* their set.
LEMMA OrderedIs ==
  ASSUME NEW n \in Nat, NEW ds, NEW buffers, Ordered(ds, buffers, n)
  PROVE  Cardinality(buffers) = n /\ InOrder(buffers) = ds
<1> DEFINE o(b) == b.buffer.offset
           Less(a, b) == o(a) < o(b) \/ (o(a) = o(b) /\ a.buffer.size < b.buffer.size)
           Under(b) == {a \in buffers : Less(a, b)}
<1>1. \A i, j \in 1..n : i < j => ds[i] # ds[j]
  BY DEF Ordered
<1>2. \A m \in 0..n : Cardinality(FirstOf(ds, m)) = m
  BY <1>1, DistinctCardinality
<1>3. Cardinality(buffers) = n
  BY <1>2 DEF Ordered, FirstOf
<1>4. \A i, j \in 1..n : Less(ds[j], ds[i]) <=> j < i
  <2> TAKE i, j \in 1..n
  <2>1. o(ds[i]) \in Nat /\ o(ds[j]) \in Nat
    BY DEF Ordered
  <2>2. CASE j < i
    BY <2>2 DEF Ordered
  <2>3. CASE i < j
    <3>1. o(ds[i]) < o(ds[j])
      BY <2>3 DEF Ordered
    <3> HIDE DEF o
    <3> QED BY <2>1, <2>3, <3>1
  <2>4. CASE i = j
    <3>1. Less(ds[i], ds[i]) <=> ds[i].buffer.size < ds[i].buffer.size
      BY <2>1
    <3>2. ds[i].buffer.size \in Nat
      BY DEF Ordered
    <3> QED BY <2>4, <3>1, <3>2
  <2>5. i < j \/ j < i \/ i = j
    OBVIOUS
  <2> HIDE DEF Less
  <2> QED BY <2>2, <2>3, <2>4, <2>5
<1>5. \A i \in 1..n : Under(ds[i]) = FirstOf(ds, i - 1)
  <2> TAKE i \in 1..n
  <2>1. \A j \in 1..i - 1 : j \in 1..n /\ j < i
    OBVIOUS
  <2>2. \A j \in 1..n : j < i => j \in 1..i - 1
    OBVIOUS
  <2>3. buffers = {ds[j] : j \in 1..n}
    BY DEF Ordered
  <2> HIDE DEF Less
  <2> QED BY <1>4, <2>1, <2>2, <2>3 DEF FirstOf
<1>6. \A i \in 1..n : Cardinality(Under(ds[i])) = i - 1
  <2> TAKE i \in 1..n
  <2>1. i - 1 \in 0..n
    OBVIOUS
  <2> HIDE DEF Under
  <2> QED BY <1>2, <1>5, <2>1
<1>7. \A i \in 1..n : (CHOOSE b \in buffers : Cardinality(Under(b)) = i - 1) = ds[i]
  <2> TAKE i \in 1..n
  <2>1. ds[i] \in buffers /\ Cardinality(Under(ds[i])) = i - 1
    BY <1>6 DEF Ordered
  <2>2. \A b \in buffers : Cardinality(Under(b)) = i - 1 => b = ds[i]
    <3> TAKE b \in buffers
    <3>1. PICK j \in 1..n : b = ds[j]
      BY DEF Ordered
    <3> HIDE DEF Under
    <3>2. Cardinality(Under(b)) = j - 1
      BY <1>6, <3>1
    <3>3. j - 1 = i - 1 => j = i
      OBVIOUS
    <3> QED BY <3>1, <3>2, <3>3
  <2> HIDE DEF Under
  <2> QED BY <2>1, <2>2
<1>8. InOrder(buffers) = [i \in 1..n |-> CHOOSE b \in buffers : Cardinality(Under(b)) = i - 1]
  <2>1. InOrder(buffers)
          = [i \in 1..Cardinality(buffers) |-> CHOOSE b \in buffers : Cardinality(Under(b)) = i - 1]
    BY DEF InOrder
  <2> HIDE DEF Under
  <2> QED BY <1>3, <2>1, Zenon
<1> HIDE DEF Under
<1>9. [i \in 1..n |-> CHOOSE b \in buffers : Cardinality(Under(b)) = i - 1] = [i \in 1..n |-> ds[i]]
  BY <1>7
<1>10. ds = [i \in 1..n |-> ds[i]]
  BY DEF Ordered
<1> QED BY <1>3, <1>8, <1>9, <1>10

\* A descriptor behind all the others comes last.
LEMMA OrderedInsert ==
  ASSUME NEW n \in Nat, NEW ds, NEW buffers, Ordered(ds, buffers, n), NEW desc,
         desc.buffer.offset \in Nat, desc.buffer.size \in Nat, \A i \in 1..n : ds[i].buffer.offset < desc.buffer.offset
  PROVE  LET longer == [i \in 1..n + 1 |-> IF i <= n THEN ds[i] ELSE desc]
         IN  Ordered(longer, Insert(buffers, desc), n + 1)
<1> DEFINE longer == [i \in 1..n + 1 |-> IF i <= n THEN ds[i] ELSE desc]
<1>1. \A b \in buffers : b.buffer # desc.buffer
  <2> TAKE b \in buffers
  <2>1. PICK i \in 1..n : b = ds[i]
    BY DEF Ordered
  <2>2. b.buffer.offset \in Nat /\ b.buffer.offset < desc.buffer.offset
    BY <2>1 DEF Ordered
  <2> QED BY <2>2
<1>2. Insert(buffers, desc) = buffers \cup {desc}
  BY <1>1 DEF Insert
<1>3. \A i \in 1..n : i \in 1..n + 1 /\ i <= n
  OBVIOUS
<1>4. n + 1 \in 1..n + 1 /\ ~ (n + 1 <= n) /\ \A i \in 1..n + 1 : ~ (i <= n) => i = n + 1
  OBVIOUS
<1>5. (\A i \in 1..n : longer[i] = ds[i]) /\ longer[n + 1] = desc
  BY <1>3, <1>4
<1>6. longer = [i \in 1..n + 1 |-> longer[i]]
  OBVIOUS
<1> HIDE DEF longer
<1>7. \A i \in 1..n + 1 : i \in 1..n \/ i = n + 1
  OBVIOUS
<1>8. buffers \cup {desc} = {longer[i] : i \in 1..n + 1}
  <2>1. buffers = {ds[i] : i \in 1..n}
    BY DEF Ordered
  <2> QED BY <1>3, <1>4, <1>5, <1>7, <2>1
<1>9. \A i \in 1..n + 1 : longer[i].buffer.offset \in Nat /\ longer[i].buffer.size \in Nat
  BY <1>5, <1>7 DEF Ordered
<1>10. \A i, j \in 1..n + 1 : i < j => longer[i].buffer.offset < longer[j].buffer.offset
  <2> SUFFICES ASSUME NEW i \in 1..n + 1, NEW j \in 1..n + 1, i < j
               PROVE  longer[i].buffer.offset < longer[j].buffer.offset
    OBVIOUS
  <2>1. i \in 1..n
    OBVIOUS
  <2>2. CASE j = n + 1
    BY <1>5, <2>1, <2>2
  <2>3. CASE j \in 1..n
    BY <1>5, <2>1, <2>3 DEF Ordered
  <2> QED BY <1>7, <2>2, <2>3
<1>11. Ordered(longer, buffers \cup {desc}, n + 1)
  BY <1>6, <1>8, <1>9, <1>10 DEF Ordered
<1> QED BY <1>2, <1>11 DEF longer

----------------------------------------------------------------------------
(* Row types and schemas                                                   *)

\* There are n numbers from 1 to n.
LEMMA IntervalSize ==
  ASSUME NEW n \in Nat
  PROVE  IsFiniteSet(1..n) /\ Cardinality(1..n) = n
<1>1. 1 \in Int /\ n \in Int
  OBVIOUS
<1>2. IsFiniteSet(1..n) /\ Cardinality(1..n) = IF 1 > n THEN 0 ELSE n - 1 + 1
  BY <1>1, FS_Interval, Zenon
<1> QED BY <1>2

\* A row type has fields, each with a type and a position of its own.
LEMMA RowType ==
  ASSUME NEW rt \in DOMAIN Rows
  PROVE  /\ Len(rt) \in Nat /\ Len(rt) >= 1 /\ DOMAIN rt = 1..Len(rt)
         /\ \A i \in 1..Len(rt) : rt[i].field \in Nat /\ rt[i].type \in Types
         /\ \A i, j \in 1..Len(rt) : rt[i].field = rt[j].field => i = j
<1>1. rt \in Seq([field : Nat, type : Types]) /\ rt # <<>>
      /\ \A i, j \in DOMAIN rt : rt[i].field = rt[j].field => i = j
  BY RowsAssumption
<1>2. Len(rt) \in Nat /\ DOMAIN rt = 1..Len(rt) /\ Len(rt) # 0
  BY <1>1
<1> DEFINE R == [field : Nat, type : Types]
<1>3. \A i \in 1..Len(rt) : rt[i] \in R
  <2>1. rt \in Seq(R)
    BY <1>1
  <2> HIDE DEF R
  <2> QED BY <2>1
<1>4. \A i \in 1..Len(rt) : rt[i].field \in Nat /\ rt[i].type \in Types
  <2> TAKE i \in 1..Len(rt)
  <2>1. rt[i] \in R
    BY <1>3
  <2> QED BY <2>1
<1>5. Len(rt) >= 1
  BY <1>2
<1> QED BY <1>1, <1>2, <1>4, <1>5

\* Each place in the order of the fields is that of one of them.
LEMMA SortedType ==
  ASSUME NEW rt \in DOMAIN Rows
  PROVE  /\ DOMAIN Columns(rt) = 1..Len(rt)
         /\ \A k \in 1..Len(rt) : Columns(rt)[k] \in 1..Len(rt)
<1> DEFINE n == Len(rt)
           D == 1..n
           Under(i) == {j \in D : rt[j].field < rt[i].field}
           RankIn(i) == Cardinality(Under(i))
<1>1. /\ n \in Nat /\ n >= 1 /\ DOMAIN rt = D
      /\ \A i \in D : rt[i].field \in Nat
      /\ \A i, j \in D : rt[i].field = rt[j].field => i = j
  BY RowType
<1>2. IsFiniteSet(D) /\ Cardinality(D) = n
  BY <1>1, IntervalSize
<1> HIDE DEF D
<1>3. \A i \in D : IsFiniteSet(Under(i)) /\ RankIn(i) \in Nat /\ RankIn(i) <= n - 1
  <2> TAKE i \in D
  <2>1. IsFiniteSet(D \ {i}) /\ Cardinality(D \ {i}) = n - 1
    BY <1>2, FS_RemoveElement
  <2>2. Under(i) \in SUBSET (D \ {i})
    BY <1>1
  <2> HIDE DEF Under
  <2>3. IsFiniteSet(Under(i)) /\ Cardinality(Under(i)) <= Cardinality(D \ {i})
    BY <2>1, <2>2, FS_Subset
  <2>4. Cardinality(Under(i)) \in Nat
    BY <2>3, FS_CardinalityType
  <2> QED BY <2>1, <2>3, <2>4
<1>4. \A i, j \in D : rt[i].field < rt[j].field => RankIn(i) < RankIn(j)
  <2> SUFFICES ASSUME NEW i \in D, NEW j \in D,
                      rt[i].field < rt[j].field PROVE RankIn(i) < RankIn(j)
    OBVIOUS
  <2>1. i \notin Under(i)
    BY <1>1
  <2>2. Under(i) \cup {i} \in SUBSET Under(j)
    BY <1>1
  <2>3. IsFiniteSet(Under(i)) /\ IsFiniteSet(Under(j)) /\ RankIn(i) \in Nat /\ RankIn(j) \in Nat
    BY <1>3
  <2> HIDE DEF Under
  <2>4. Cardinality(Under(i) \cup {i}) = Cardinality(Under(i)) + 1
    BY <2>1, <2>3, FS_AddElement
  <2>5. Cardinality(Under(i) \cup {i}) <= Cardinality(Under(j))
    BY <2>2, <2>3, FS_Subset
  <2> QED BY <2>3, <2>4, <2>5
<1>5. \A i, j \in D : RankIn(i) = RankIn(j) => i = j
  <2> SUFFICES ASSUME NEW i \in D, NEW j \in D, RankIn(i) = RankIn(j), i # j PROVE FALSE
    OBVIOUS
  <2>1. rt[i].field < rt[j].field \/ rt[j].field < rt[i].field
    BY <1>1
  <2>2. RankIn(i) \in Nat /\ RankIn(j) \in Nat
    BY <1>3
  <2> HIDE DEF RankIn
  <2> QED BY <1>4, <2>1, <2>2
<1> DEFINE f == [i \in D |-> RankIn(i)]
<1> HIDE DEF RankIn, Under
<1>6. f \in [D -> 0..n - 1]
  BY <1>1, <1>3
<1>7. IsInjective(f)
  BY <1>5 DEF IsInjective
<1>8. \A i \in D : f[i] = RankIn(i)
  OBVIOUS
<1> HIDE DEF f
<1>9. f \in Injection(D, 0..n - 1)
  BY <1>6, <1>7 DEF Injection
<1>10. IsFiniteSet(0..n - 1) /\ Cardinality(0..n - 1) = n
  <2>1. 0 \in Int /\ n - 1 \in Int
    BY <1>1
  <2>2. IsFiniteSet(0..n - 1) /\ Cardinality(0..n - 1) = IF 0 > n - 1 THEN 0 ELSE n - 1 - 0 + 1
    BY <2>1, FS_Interval, Zenon
  <2> QED BY <1>1, <2>2
<1>11. f \in Surjection(D, 0..n - 1)
  <2>1. Cardinality(D) = Cardinality(0..n - 1)
    BY <1>2, <1>10
  <2> QED BY <1>9, <1>10, <2>1, FS_Injection
<1>12. \A k \in D : \E i \in D : RankIn(i) = k - 1
  <2> TAKE k \in D
  <2>1. k - 1 \in 0..n - 1
    BY <1>1 DEF D
  <2> QED BY <1>8, <1>11, <2>1 DEF Surjection
<1>13. Sorted(rt) = [k \in D |-> CHOOSE i \in D : RankIn(i) = k - 1]
  BY <1>1 DEF Sorted, RankIn, Under
<1>14. DOMAIN Sorted(rt) = D /\ \A k \in D : Sorted(rt)[k] \in D
  BY <1>12, <1>13
<1> QED BY <1>14 DEF Columns, D

\* A column of the manifest.
IsColumn(c) == c = [field |-> c.field, ty |-> c.ty, buffers |-> c.buffers]

\* The columns of the manifest are those of a row type, whatever their buffers.
Typed(columns, rt) ==
  /\ DOMAIN columns = 1..Len(rt)
  /\ \A k \in 1..Len(rt) :
       /\ IsColumn(columns[k])
       /\ columns[k].field = rt[Columns(rt)[k]].field
       /\ columns[k].ty = Unfold[rt[Columns(rt)[k]].type]

\* A new schema has the columns of its row type, without buffers.
LEMMA SchemaTyped ==
  ASSUME NEW rt \in DOMAIN Rows
  PROVE  Typed(Schema(rt), rt) /\ \A k \in 1..Len(rt) : Schema(rt)[k].buffers = {}
<1>1. DOMAIN rt = 1..Len(rt) /\ Columns(rt) = Sorted(rt)
  BY RowType DEF Columns
<1> QED BY <1>1 DEF Schema, Typed, IsColumn

\* A schema that a row type matches has its columns.
LEMMA SameTypesTyped ==
  ASSUME NEW rt \in DOMAIN Rows, NEW columns, \A k \in DOMAIN columns : IsColumn(columns[k]),
         SameTypes(columns, rt)
  PROVE  Typed(columns, rt)
<1> DEFINE bare == [k \in DOMAIN columns |-> [columns[k] EXCEPT !.buffers = {}]]
<1>1. bare = Schema(rt)
  BY DEF SameTypes
<1>2. Typed(Schema(rt), rt)
  BY SchemaTyped
<1>3. DOMAIN columns = 1..Len(rt)
  <2>1. DOMAIN bare = DOMAIN columns
    OBVIOUS
  <2> HIDE DEF bare
  <2> QED BY <1>1, <1>2, <2>1 DEF Typed
<1>4. \A k \in DOMAIN columns : bare[k].field = columns[k].field /\ bare[k].ty = columns[k].ty
  <2> TAKE k \in DOMAIN columns
  <2> DEFINE c == columns[k]
  <2>1. c = [field |-> c.field, ty |-> c.ty, buffers |-> c.buffers]
    BY DEF IsColumn
  <2>2. bare[k] = [c EXCEPT !.buffers = {}]
    OBVIOUS
  <2> HIDE DEF bare, c
  <2>3. [c EXCEPT !.buffers = {}].field = c.field /\ [c EXCEPT !.buffers = {}].ty = c.ty
    BY <2>1
  <2> QED BY <2>2, <2>3 DEF c
<1> HIDE DEF bare
<1> QED BY <1>1, <1>2, <1>3, <1>4 DEF Typed

----------------------------------------------------------------------------
(* The columns of a data segment                                           *)

\* The fold that defines Register, as a function by recursion.
LEMMA RegisterEquation ==
  ASSUME NEW d, NEW columns, NEW rt, NEW rows, Len(rt) \in Nat
  PROVE  \E f : /\ Register(d, columns, rt, rows) = f[Len(rt)].columns
                /\ f[0] = [offset |-> BodyAt(End(d), DataHeader) - HEADER, columns |-> columns]
                /\ \A n \in 1..Len(rt) : f[n] = Registering(f[n - 1], n, rt[Columns(rt)[n]].type,
                                                            Column(rows, Columns(rt)[n]))
<1> DEFINE Eq(m, g) ==
      g = [n \in 0..m |-> IF n = 0
                          THEN [offset |-> BodyAt(End(d), DataHeader) - HEADER, columns |-> columns]
                          ELSE Registering(g[n - 1], n, rt[Columns(rt)[n]].type, Column(rows, Columns(rt)[n]))]
           T == {m \in Nat : \E g : Eq(m, g)}
<1>1. 0 \in T
  <2>1. Eq(0, [n \in 0..0 |-> [offset |-> BodyAt(End(d), DataHeader) - HEADER, columns |-> columns]])
    OBVIOUS
  <2>2. \E g : Eq(0, g)
    <3> HIDE DEF Eq
    <3> QED BY <2>1
  <2> HIDE DEF Eq
  <2> QED BY <2>2
<1>2. ASSUME NEW m \in Nat, m \in T PROVE m + 1 \in T
  <2>1. PICK g : Eq(m, g)
    BY <1>2
  <2> DEFINE h == [n \in 0..(m + 1) |-> IF n = 0
                                        THEN [offset |-> BodyAt(End(d), DataHeader) - HEADER, columns |-> columns]
                                        ELSE Registering(g[n - 1], n, rt[Columns(rt)[n]].type, Column(rows, Columns(rt)[n]))]
  <2>2. \A n \in 0..m : h[n] = g[n]
    BY <2>1
  <2>3. \A n \in 0..(m + 1) : n # 0 => h[n - 1] = g[n - 1]
    <3> TAKE n \in 0..(m + 1)
    <3> HAVE n # 0
    <3>1. n - 1 \in 0..m
      OBVIOUS
    <3> HIDE DEF h
    <3> QED BY <2>2, <3>1
  <2>4. \A n \in 0..(m + 1) : h[n] = IF n = 0
                                     THEN [offset |-> BodyAt(End(d), DataHeader) - HEADER, columns |-> columns]
                                     ELSE Registering(h[n - 1], n, rt[Columns(rt)[n]].type, Column(rows, Columns(rt)[n]))
    <3> TAKE n \in 0..(m + 1)
    <3>1. h[n] = IF n = 0
                 THEN [offset |-> BodyAt(End(d), DataHeader) - HEADER, columns |-> columns]
                 ELSE Registering(g[n - 1], n, rt[Columns(rt)[n]].type, Column(rows, Columns(rt)[n]))
      OBVIOUS
    <3> HIDE DEF h
    <3> QED BY <3>1, <2>3
  <2>5. h = [n \in 0..(m + 1) |-> h[n]]
    OBVIOUS
  <2>6. Eq(m + 1, h)
    <3> HIDE DEF h
    <3> QED BY <2>4, <2>5
  <2> HIDE DEF h, Eq
  <2>7. \E k : Eq(m + 1, k)
    BY <2>6
  <2> QED BY <2>7
<1>3. Nat \subseteq T
  <2> HIDE DEF T
  <2> QED BY <1>1, <1>2, Induction
<1> DEFINE f == CHOOSE g : Eq(Len(rt), g)
<1>4. Eq(Len(rt), f)
  <2> HIDE DEF Eq
  <2> QED BY <1>3
<1>5. Register(d, columns, rt, rows) = f[Len(rt)].columns
  BY DEF Register
<1> HIDE DEF f
<1>6. f[0] = [offset |-> BodyAt(End(d), DataHeader) - HEADER, columns |-> columns]
  BY <1>4
<1>7. \A n \in 1..Len(rt) : f[n] = Registering(f[n - 1], n, rt[Columns(rt)[n]].type,
                                               Column(rows, Columns(rt)[n]))
  BY <1>4
<1> QED BY <1>5, <1>6, <1>7

\* What the accumulator of a row type holds of column k, and the bytes of all
\* of them, one after the other.
TypeAt(rt, k) == rt[Columns(rt)[k]].type
ItemsAt(rt, rows, k) == Column(rows, Columns(rt)[k])
BodyOf(rt, rows, k) == Body(TypeAt(rt, k), ItemsAt(rt, rows, k))
PartsOf(rt, rows) == [k \in DOMAIN rt |-> SizedBuf(BodyOf(rt, rows, k))]

\* The items of a field are of its type, one for each row.
LEMMA RowItems ==
  ASSUME NEW rt \in DOMAIN Rows, NEW rows \in Seq(Rows[rt]), NEW i \in 1..Len(rt)
  PROVE  /\ rt[i].type \in Types
         /\ Column(rows, i) \in Seq(ItemsOf[rt[i].type])
         /\ Len(Column(rows, i)) = Len(rows) /\ DOMAIN Column(rows, i) = 1..Len(rows)
         /\ \A n \in 1..Len(rows) : Column(rows, i)[n] = rows[n][i]
         /\ rows # <<>> => Column(rows, i) # <<>>
<1>1. Len(rows) \in Nat /\ DOMAIN rows = 1..Len(rows) /\ \A n \in 1..Len(rows) : rows[n] \in Rows[rt]
  OBVIOUS
<1>2. i \in DOMAIN rt /\ rt[i].type \in Types
  BY RowType
<1>3. \A row \in Rows[rt] : row[i] \in ItemsOf[rt[i].type]
  BY <1>2, RowsAssumption
<1> DEFINE S == ItemsOf[rt[i].type]
           c == [n \in 1..Len(rows) |-> rows[n][i]]
<1>4. Column(rows, i) = c
  BY <1>1 DEF Column
<1>5. \A n \in 1..Len(rows) : rows[n][i] \in S
  BY <1>1, <1>3
<1> HIDE DEF S
<1>6. c \in Seq(S) /\ Len(c) = Len(rows) /\ DOMAIN c = 1..Len(rows)
  BY <1>1, <1>5
<1>7. \A n \in 1..Len(rows) : c[n] = rows[n][i]
  OBVIOUS
<1>8. rows # <<>> => Len(rows) # 0
  BY <1>1
<1> HIDE DEF c
<1>9. rows # <<>> => c # <<>>
  BY <1>6, <1>8
<1> QED BY <1>2, <1>4, <1>6, <1>7, <1>9 DEF S

\* The items of a column are of its type, one for each row, and its body is
\* not empty.
LEMMA ColumnItems ==
  ASSUME NEW rt \in DOMAIN Rows, NEW rows \in Seq(Rows[rt]), rows # <<>>,
         NEW k \in 1..Len(rt)
  PROVE  /\ TypeAt(rt, k) \in Types
         /\ ItemsAt(rt, rows, k) \in Seq(ItemsOf[TypeAt(rt, k)]) /\ ItemsAt(rt, rows, k) # <<>>
         /\ Len(ItemsAt(rt, rows, k)) = Len(rows)
         /\ \A n \in 1..Len(rows) : ItemsAt(rt, rows, k)[n] = rows[n][Columns(rt)[k]]
         /\ BodyOf(rt, rows, k) \in Seq(Bytes) /\ BodyOf(rt, rows, k) # <<>>
<1>1. Columns(rt)[k] \in 1..Len(rt)
  BY SortedType
<1>2. /\ TypeAt(rt, k) \in Types
      /\ ItemsAt(rt, rows, k) \in Seq(ItemsOf[TypeAt(rt, k)]) /\ ItemsAt(rt, rows, k) # <<>>
      /\ Len(ItemsAt(rt, rows, k)) = Len(rows)
      /\ \A n \in 1..Len(rows) : ItemsAt(rt, rows, k)[n] = rows[n][Columns(rt)[k]]
  BY <1>1, RowItems DEF TypeAt, ItemsAt
<1>3. BodyOf(rt, rows, k) \in Seq(Bytes) /\ BodyOf(rt, rows, k) # <<>>
  BY <1>2, BodyType DEF BodyOf
<1> QED BY <1>2, <1>3

\* Each column of a data segment is a sized buffer.
LEMMA PartsType ==
  ASSUME NEW rt \in DOMAIN Rows, NEW rows \in Seq(Rows[rt]), rows # <<>>
  PROVE  /\ PartsOf(rt, rows) \in Seq(Seq(Bytes)) /\ Len(PartsOf(rt, rows)) = Len(rt)
         /\ \A k \in 1..Len(rt) :
              /\ PartsOf(rt, rows)[k] = SizedBuf(BodyOf(rt, rows, k))
              /\ Len(PartsOf(rt, rows)[k]) = Word + Align(Len(BodyOf(rt, rows, k)))
<1> DEFINE p == [k \in 1..Len(rt) |-> SizedBuf(BodyOf(rt, rows, k))]
<1>1. Len(rt) \in Nat /\ DOMAIN rt = 1..Len(rt)
  BY RowType
<1>2. PartsOf(rt, rows) = p
  BY <1>1 DEF PartsOf
<1>3. \A k \in 1..Len(rt) : /\ SizedBuf(BodyOf(rt, rows, k)) \in Seq(Bytes)
                            /\ Len(SizedBuf(BodyOf(rt, rows, k))) = Word + Align(Len(BodyOf(rt, rows, k)))
  BY ColumnItems, SizedBufType
<1> DEFINE S == Seq(Bytes)
<1>4. p \in Seq(S) /\ Len(p) = Len(rt)
  <2> HIDE DEF S
  <2> QED BY <1>1, <1>3 DEF S
<1>5. \A k \in 1..Len(rt) : p[k] = SizedBuf(BodyOf(rt, rows, k))
  OBVIOUS
<1> HIDE DEF p
<1> QED BY <1>2, <1>3, <1>4, <1>5

\* Alignment is the same behind an aligned offset.
LEMMA AlignShift ==
  ASSUME NEW a \in Nat, a % Word = 0, NEW n \in Nat
  PROVE  /\ Align(a + n) = a + Align(n)
         /\ (a + Word + Align(n)) % Word = 0 /\ (a + Word) % Word = 0
         /\ Word <= a + Word /\ a + Word \in Nat /\ a + Word + Align(n) \in Nat
<1>1. Word \in Nat \ {0}
  BY Widths
<1>2. PICK q \in Int : a = Word * q
  <2>1. a \div Word \in Int /\ a = Word * (a \div Word) + (a % Word)
    BY <1>1, Division
  <2>2. \A x, y \in Int : x = y + 0 => x = y
    OBVIOUS
  <2>3. Word * (a \div Word) \in Int
    BY <1>1, <2>1
  <2> QED BY <2>1, <2>2, <2>3
<1>3. \A m \in Nat : (a + m) % Word = m % Word
  <2> TAKE m \in Nat
  <2>1. m \div Word \in Int /\ m % Word \in 0..Word - 1 /\ m = Word * (m \div Word) + (m % Word)
    BY <1>1, Division
  <2> DEFINE p == m \div Word
             r == m % Word
  <2>2. (Word * (q + p) + r) % Word = r
    <3>1. q + p \in Int
      BY <1>2, <2>1
    <3> HIDE DEF p, r
    <3> QED BY <1>1, <2>1, <3>1, DivisionUnique DEF r
  <2>3. \A w, x, y, z \in Int : w * (x + y) + z = w * x + (w * y + z)
    OBVIOUS
  <2>4. Word * (q + p) + r = Word * q + (Word * p + r)
    <3> HIDE DEF p, r
    <3> QED BY <1>1, <1>2, <2>1, <2>3 DEF p, r
  <2>5. Word * (q + p) + r = a + m
    BY <1>2, <2>1, <2>4
  <2> QED BY <2>2, <2>5
<1>4. Pad(a + n) = Pad(n)
  BY <1>3 DEF Pad
<1>5. Pad(n) \in Nat /\ Align(n) \in Nat /\ Align(n) = n + Pad(n) /\ Align(n) % Word = 0
      /\ Align(a + n) = a + n + Pad(a + n)
  BY PadType
<1>6. (a + Word) % Word = 0
  <2>1. (a + Word) % Word = Word % Word
    BY <1>1, <1>3
  <2>2. (Word * 1 + 0) % Word = 0
    <3>1. 0 \in 0..Word - 1 /\ 1 \in Int
      BY <1>1
    <3> QED BY <1>1, <3>1, DivisionUnique
  <2>3. Word * 1 + 0 = Word
    BY <1>1
  <2> QED BY <2>1, <2>2, <2>3
<1>7. (a + Word + Align(n)) % Word = 0
  <2>1. (a + (Word + Align(n))) % Word = (Word + Align(n)) % Word
    BY <1>1, <1>3, <1>5
  <2>2. (Word + Align(n)) % Word = 0
    <3>1. PICK p \in Int : Align(n) = Word * p
      <4>0. \A z \in Nat : z \div Word \in Int /\ z = Word * (z \div Word) + (z % Word)
        BY <1>1, Division
      <4>1. Align(n) \div Word \in Int /\ Align(n) = Word * (Align(n) \div Word) + (Align(n) % Word)
        BY <1>5, <4>0, Zenon
      <4>2. Word * (Align(n) \div Word) \in Int
        BY <1>1, <4>1
      <4> QED BY <1>5, <4>1, <4>2
    <3>2. (Word * (p + 1) + 0) % Word = 0
      <4>1. 0 \in 0..Word - 1 /\ p + 1 \in Int
        BY <1>1
      <4> QED BY <1>1, <4>1, DivisionUnique
    <3>3. Word * (p + 1) + 0 = Word + Word * p
      BY <1>1
    <3> QED BY <3>1, <3>2, <3>3
  <2>3. a + (Word + Align(n)) = a + Word + Align(n)
    BY <1>1, <1>5
  <2> QED BY <2>1, <2>2, <2>3
<1>8. Align(a + n) = a + Align(n)
  BY <1>4, <1>5
<1>9. Word <= a + Word /\ a + Word \in Nat /\ a + Word + Align(n) \in Nat
  BY <1>1, <1>5
<1> QED BY <1>6, <1>7, <1>8, <1>9

----------------------------------------------------------------------------
(* Where the columns of a data segment lie                                 *)

\* Where the body of a segment begins in the file, its header being of h bytes.
PlaceOf(d, h) == BodyAt(End(d), h) - HEADER

\* The body of a segment begins at the next word after its header.
LEMMA PlaceType ==
  ASSUME NEW d, d.file \in Seq(Bytes), NEW h \in Nat
  PROVE  /\ PlaceOf(d, h) \in Nat /\ PlaceOf(d, h) % Word = 0
         /\ PlaceOf(d, h) = Len(d.file) + h + Pad(End(d) + h)
         /\ Pad(End(d) + h) \in Nat
         /\ BodyAt(End(d), h) - (End(d) + h) = Pad(End(d) + h)
         /\ End(d) \in Nat /\ HEADER \in Nat /\ End(d) = HEADER + Len(d.file)
<1>1. Word \in Nat \ {0} /\ Len(d.file) \in Nat
  BY Widths
<1>2. HEADER = 3 * Word /\ HEADER \in Nat /\ End(d) = HEADER + Len(d.file) /\ End(d) \in Nat
  <2>1. HEADER = 3 * Word
    BY Zenon DEF HEADER
  <2>2. HEADER \in Nat
    BY <1>1, <2>1
  <2>3. End(d) = HEADER + Len(d.file)
    BY Zenon DEF End
  <2>4. \A a, b \in Nat : a + b \in Nat
    OBVIOUS
  <2>5. End(d) \in Nat
    BY <1>1, <2>2, <2>3, <2>4, Zenon
  <2> QED BY <2>1, <2>2, <2>3, <2>5, Zenon
<1> DEFINE e == End(d) + h
<1>3. e \in Nat
  BY <1>2
<1> HIDE DEF e
<1>4. Pad(e) \in Nat /\ Align(e) \in Nat /\ Align(e) = e + Pad(e) /\ Align(e) % Word = 0
  BY <1>3, PadType
<1>5. BodyAt(End(d), h) = Align(e)
  BY DEF BodyAt, e
<1>6. e = HEADER + Len(d.file) + h /\ e = End(d) + h
  BY <1>1, <1>2 DEF e
<1>7. PlaceOf(d, h) = Len(d.file) + h + Pad(e) /\ PlaceOf(d, h) \in Nat
      /\ BodyAt(End(d), h) - e = Pad(e)
  <2>1. PlaceOf(d, h) = Align(e) - HEADER
    BY <1>5, Zenon DEF PlaceOf
  <2>2. BodyAt(End(d), h) - e = Pad(e)
    BY <1>3, <1>4, <1>5
  <2> DEFINE l == Len(d.file)
  <2>3. l \in Nat /\ e = HEADER + l + h
    BY <1>1, <1>6, Zenon
  <2> HIDE DEF l, PlaceOf
  <2>4. PlaceOf(d, h) = l + h + Pad(e) /\ PlaceOf(d, h) \in Nat
    <3>1. \A a, b, c, x \in Nat : ((a + b + c) + x) - a = b + c + x /\ b + c + x \in Nat
      OBVIOUS
    <3>2. PlaceOf(d, h) = ((HEADER + l + h) + Pad(e)) - HEADER
      BY <1>4, <2>1, <2>3, Zenon
    <3>3. h \in Nat /\ l \in Nat /\ HEADER \in Nat /\ Pad(e) \in Nat
      BY <1>2, <1>4, <2>3
    <3>4. ((HEADER + l + h) + Pad(e)) - HEADER = l + h + Pad(e) /\ l + h + Pad(e) \in Nat
      BY <3>1, <3>3
    <3> QED BY <3>2, <3>4, Zenon
  <2> QED BY <2>2, <2>4, Zenon DEF l
<1>8. PlaceOf(d, h) % Word = 0
  <2> DEFINE z == Align(e)
             q == z \div Word
  <2>1. q \in Int /\ z = Word * q + (z % Word)
    <3>1. \A x \in Nat : x \div Word \in Int /\ x = Word * (x \div Word) + (x % Word)
      BY <1>1, Division
    <3> QED BY <1>4, <3>1, Zenon
  <2>2. z % Word = 0 /\ PlaceOf(d, h) = z - 3 * Word /\ z \in Nat
    BY <1>2, <1>4, <1>5 DEF PlaceOf
  <2> HIDE DEF z, q
  <2>3. \A w, x \in Int : w * x - 3 * w = w * (x - 3) + 0
    OBVIOUS
  <2>4. PlaceOf(d, h) = Word * (q - 3) + 0
    <3>1. Word * q \in Int
      BY <1>1, <2>1
    <3>2. z = Word * q
      BY <2>1, <2>2, <3>1
    <3> QED BY <1>1, <2>1, <2>2, <2>3, <3>2
  <2>5. (Word * (q - 3) + 0) % Word = 0
    <3>1. 0 \in 0..Word - 1 /\ q - 3 \in Int
      BY <1>1, <2>1
    <3> QED BY <1>1, <3>1, DivisionUnique
  <2> QED BY <2>4, <2>5
<1> HIDE DEF PlaceOf
<1> QED BY <1>2, <1>4, <1>6, <1>7, <1>8

\* The sizes of the two headers of a segment.
LEMMA HeadersType ==
  /\ SegmentHeader \in Nat /\ DataHeader \in Nat
  /\ SegmentHeader = 1 + Word /\ DataHeader = 1 + Word + (Word + Word)
  /\ Word \in Nat /\ Word >= 1
<1>1. Word \in Nat \ {0}
  BY Widths
<1> QED BY <1>1 DEF SegmentHeader, DataHeader

\* The sector of column k of some rows in the next data segment, and what the
\* manifest says of it.
SectorAt(d, rt, rows, k) ==
  [offset |-> PlaceOf(d, DataHeader) + Before(PartsOf(rt, rows), k - 1) + Word,
   size |-> Len(BodyOf(rt, rows, k))]
DescAt(d, rt, rows, k) == Describe(TypeAt(rt, k), ItemsAt(rt, rows, k), SectorAt(d, rt, rows, k))

\* The offset that the manifest gets for a column is where its buffer lies, at
\* a word.
LEMMA SectorType ==
  ASSUME NEW d, d.file \in Seq(Bytes), NEW rt \in DOMAIN Rows, NEW rows \in Seq(Rows[rt]),
         rows # <<>>
  PROVE  \A k \in 1..Len(rt) :
           LET place == PlaceOf(d, DataHeader) + Before(PartsOf(rt, rows), k - 1)
               sector == SectorAt(d, rt, rows, k)
           IN  /\ place \in Nat /\ place % Word = 0
               /\ sector.offset = place + Word /\ sector.size = Len(BodyOf(rt, rows, k))
               /\ sector.offset \in Nat /\ sector.size \in Nat
               /\ sector.offset % Word = 0
               /\ Align(sector.offset + sector.size)
                    = PlaceOf(d, DataHeader) + Before(PartsOf(rt, rows), k)
<1> DEFINE n == Len(rt)
           parts == PartsOf(rt, rows)
           base == PlaceOf(d, DataHeader)
           T == {k \in 0..n : base + Before(parts, k) \in Nat /\ (base + Before(parts, k)) % Word = 0}
<1>1. n \in Nat
  BY RowType
<1>2. parts \in Seq(Seq(Bytes)) /\ Len(parts) = n
      /\ \A k \in 1..n : Len(parts[k]) = Word + Align(Len(BodyOf(rt, rows, k)))
  BY PartsType
<1>3. base \in Nat /\ base % Word = 0
  BY PlaceType, HeadersType
<1>4. Before(parts, 0) = 0
  BY <1>2, ConcatSlice
<1>5. \A k \in 1..n : /\ Before(parts, k - 1) \in Nat /\ Len(parts[k]) \in Nat
                      /\ Before(parts, k) = Before(parts, k - 1) + Len(parts[k])
  BY <1>2, BeforeNext
<1>6. \A k \in 1..n : Len(BodyOf(rt, rows, k)) \in Nat
  <2> TAKE k \in 1..n
  <2>1. BodyOf(rt, rows, k) \in Seq(Bytes)
    BY ColumnItems
  <2> QED BY <2>1
<1> HIDE DEF parts, base
<1>7. Word \in Nat
  BY HeadersType
<1>8. ASSUME NEW k \in 1..n, k - 1 \in T
      PROVE  /\ k \in T
             /\ base + Before(parts, k - 1) + Word \in Nat
             /\ (base + Before(parts, k - 1) + Word) % Word = 0
             /\ Align(base + Before(parts, k - 1) + Word + Len(BodyOf(rt, rows, k))) = base + Before(parts, k)
  <2> DEFINE a == base + Before(parts, k - 1)
             l == Len(BodyOf(rt, rows, k))
  <2>1. a \in Nat /\ a % Word = 0 /\ l \in Nat
    BY <1>6, <1>8
  <2>2. base + Before(parts, k) = a + Word + Align(l)
    <3>1. Align(l) \in Nat
      BY <2>1, PadType
    <3> QED BY <1>2, <1>3, <1>5, <1>7, <3>1
  <2> HIDE DEF a, l
  <2>3. /\ (a + Word + Align(l)) % Word = 0 /\ (a + Word) % Word = 0
        /\ a + Word \in Nat /\ a + Word + Align(l) \in Nat
    BY <2>1, AlignShift
  <2>4. Align(a + Word + l) = a + Word + Align(l)
    <3>1. \A b \in Nat : b % Word = 0 => Align(b + l) = b + Align(l)
      BY <2>1, AlignShift
    <3> QED BY <2>3, <3>1
  <2>5. k \in 0..n
    BY <1>1
  <2>6. k \in T
    BY <2>2, <2>3, <2>5
  <2> QED BY <2>2, <2>3, <2>4, <2>6 DEF a, l
<1>9. 0 \in T
  BY <1>1, <1>3, <1>4
<1>10. 0..n \subseteq T
  <2>1. \A k \in 1..n : k - 1 \in T => k \in T
    BY <1>8
  <2> HIDE DEF T
  <2> QED BY <1>1, <1>9, <2>1, BoundedInduction
<1>11. ASSUME NEW k \in 1..n
       PROVE  LET place == base + Before(parts, k - 1)
                  sector == SectorAt(d, rt, rows, k)
              IN  /\ place \in Nat /\ place % Word = 0
                  /\ sector.offset = place + Word /\ sector.size = Len(BodyOf(rt, rows, k))
                  /\ sector.offset \in Nat /\ sector.size \in Nat
                  /\ sector.offset % Word = 0
                  /\ Align(sector.offset + sector.size) = base + Before(parts, k)
  <2>1. k - 1 \in T
    <3>1. k - 1 \in 0..n
      BY <1>1
    <3> HIDE DEF T
    <3> QED BY <1>10, <3>1
  <2>2. SectorAt(d, rt, rows, k).offset = base + Before(parts, k - 1) + Word
        /\ SectorAt(d, rt, rows, k).size = Len(BodyOf(rt, rows, k))
    BY DEF SectorAt, base, parts
  <2>3. base + Before(parts, k - 1) \in Nat /\ (base + Before(parts, k - 1)) % Word = 0
    BY <2>1
  <2>4. /\ base + Before(parts, k - 1) + Word \in Nat
        /\ (base + Before(parts, k - 1) + Word) % Word = 0
        /\ Align(base + Before(parts, k - 1) + Word + Len(BodyOf(rt, rows, k))) = base + Before(parts, k)
    BY <1>8, <2>1
  <2>5. Len(BodyOf(rt, rows, k)) \in Nat
    BY <1>6
  <2> HIDE DEF T
  <2> QED BY <2>2, <2>3, <2>4, <2>5
<1> QED BY <1>11 DEF base, parts

\* Every column gets the description of its own buffer, where it lies.
LEMMA RegisterIs ==
  ASSUME NEW d, d.file \in Seq(Bytes), NEW rt \in DOMAIN Rows, NEW rows \in Seq(Rows[rt]),
         rows # <<>>,
         NEW columns, DOMAIN columns = 1..Len(rt)
  PROVE  /\ DOMAIN Register(d, columns, rt, rows) = 1..Len(rt)
         /\ \A k \in 1..Len(rt) :
              Register(d, columns, rt, rows)[k]
                = [columns[k] EXCEPT !.buffers = Insert(columns[k].buffers, DescAt(d, rt, rows, k))]
<1> DEFINE n == Len(rt)
           place(k) == PlaceOf(d, DataHeader) + Before(PartsOf(rt, rows), k)
           New(k) == [columns[k] EXCEPT !.buffers = Insert(columns[k].buffers, DescAt(d, rt, rows, k))]
<1>1. n \in Nat /\ DOMAIN columns = 1..n
  BY RowType
<1>2. PICK f : /\ Register(d, columns, rt, rows) = f[n].columns
               /\ f[0] = [offset |-> BodyAt(End(d), DataHeader) - HEADER, columns |-> columns]
               /\ \A k \in 1..n : f[k] = Registering(f[k - 1], k, rt[Columns(rt)[k]].type,
                                                     Column(rows, Columns(rt)[k]))
  BY <1>1, RegisterEquation
<1> DEFINE T == {m \in 0..n : /\ f[m].offset = place(m)
                              /\ DOMAIN f[m].columns = 1..n
                              /\ \A k \in 1..n : f[m].columns[k] = IF k <= m THEN New(k) ELSE columns[k]}
<1>3. \A k \in 1..n : SectorAt(d, rt, rows, k).offset = place(k - 1) + Word
                      /\ SectorAt(d, rt, rows, k).size = Len(BodyOf(rt, rows, k))
                      /\ Align(SectorAt(d, rt, rows, k).offset + SectorAt(d, rt, rows, k).size) = place(k)
                      /\ place(k - 1) \in Nat
  BY SectorType
<1>4. 0 \in T
  <2>1. place(0) = BodyAt(End(d), DataHeader) - HEADER
    <3>1. PartsOf(rt, rows) \in Seq(Seq(Bytes))
      BY PartsType
    <3>2. Before(PartsOf(rt, rows), 0) = 0
      BY <3>1, ConcatSlice
    <3>3. PlaceOf(d, DataHeader) \in Nat
      BY PlaceType, HeadersType
    <3> QED BY <3>2, <3>3 DEF PlaceOf
  <2>2. \A k \in 1..n : ~ (k <= 0)
    OBVIOUS
  <2> HIDE DEF place, New
  <2> QED BY <1>1, <1>2, <2>1, <2>2
<1>5. \A m \in 1..n : m - 1 \in T => m \in T
  <2> SUFFICES ASSUME NEW m \in 1..n, m - 1 \in T PROVE m \in T
    OBVIOUS
  <2> DEFINE c == f[m - 1].columns
             sector == [offset |-> f[m - 1].offset + Word, size |-> Len(BodyOf(rt, rows, m))]
  <2>1. /\ f[m - 1].offset = place(m - 1) /\ DOMAIN c = 1..n
        /\ \A k \in 1..n : c[k] = IF k <= m - 1 THEN New(k) ELSE columns[k]
    <3> HIDE DEF place, New
    <3> QED OBVIOUS
  <2>2. f[m] = [offset |-> Align(sector.offset + sector.size),
                columns |-> [c EXCEPT ![m].buffers =
                               Insert(@, Describe(TypeAt(rt, m), ItemsAt(rt, rows, m), sector))]]
    BY <1>2, Zenon DEF Registering, TypeAt, ItemsAt, BodyOf
  <2>3. sector = SectorAt(d, rt, rows, m)
    <3> HIDE DEF place
    <3>1. sector = [offset |-> place(m - 1) + Word, size |-> Len(BodyOf(rt, rows, m))]
      BY <2>1
    <3>2. SectorAt(d, rt, rows, m) = [offset |-> place(m - 1) + Word, size |-> Len(BodyOf(rt, rows, m))]
      BY DEF SectorAt, place
    <3> QED BY <3>1, <3>2
  <2>4. f[m].offset = place(m)
    <3>1. f[m].offset = Align(sector.offset + sector.size)
      BY <2>2
    <3> HIDE DEF sector, place
    <3> QED BY <1>3, <2>3, <3>1
  <2> DEFINE desc == DescAt(d, rt, rows, m)
  <2>5. f[m].columns = [c EXCEPT ![m].buffers = Insert(@, desc)]
    <3>1. desc = Describe(TypeAt(rt, m), ItemsAt(rt, rows, m), sector)
      <4> HIDE DEF sector
      <4> QED BY <2>3 DEF DescAt
    <3>2. f[m].columns = [c EXCEPT ![m].buffers =
                            Insert(@, Describe(TypeAt(rt, m), ItemsAt(rt, rows, m), sector))]
      <4> HIDE DEF sector, c
      <4> QED BY <2>2
    <3> HIDE DEF sector, c, desc
    <3> QED BY <3>1, <3>2, Zenon
  <2> HIDE DEF c
  <2>6. DOMAIN f[m].columns = 1..n
    <3> HIDE DEF desc
    <3> QED BY <2>1, <2>5
  <2>7. \A k \in 1..n : k # m => f[m].columns[k] = c[k]
    <3> HIDE DEF desc
    <3> QED BY <2>1, <2>5
  <2>8. f[m].columns[m] = [c[m] EXCEPT !.buffers = Insert(c[m].buffers, desc)]
    <3> HIDE DEF desc
    <3> QED BY <2>1, <2>5
  <2>9. c[m] = columns[m]
    <3>1. ~ (m <= m - 1)
      OBVIOUS
    <3> HIDE DEF New, place
    <3> QED BY <2>1, <3>1
  <2>10. \A k \in 1..n : f[m].columns[k] = IF k <= m THEN New(k) ELSE columns[k]
    <3> TAKE k \in 1..n
    <3>1. CASE k = m
      <4>1. f[m].columns[m] = New(m)
        BY <2>8, <2>9, Zenon
      <4>2. k <= m
        BY <3>1
      <4> HIDE DEF New
      <4> QED BY <3>1, <4>1, <4>2
    <3>2. CASE k # m
      <4>1. k <= m <=> k <= m - 1
        BY <3>2
      <4> HIDE DEF New, place
      <4> QED BY <2>1, <2>7, <3>2, <4>1
    <3> QED BY <3>1, <3>2
  <2>11. m \in 0..n
    OBVIOUS
  <2> HIDE DEF New, place
  <2> QED BY <2>4, <2>6, <2>10, <2>11
<1>6. n \in T
  <2>1. 0..n \subseteq T
    <3> HIDE DEF T
    <3> QED BY <1>1, <1>4, <1>5, BoundedInduction
  <2>2. n \in 0..n
    BY <1>1
  <2> HIDE DEF T
  <2> QED BY <2>1, <2>2
<1>7. DOMAIN f[n].columns = 1..n /\ \A k \in 1..n : f[n].columns[k] = New(k)
  <2>1. \A k \in 1..n : k <= n
    OBVIOUS
  <2> HIDE DEF New, place
  <2> QED BY <1>6, <2>1
<1> HIDE DEF New, T, place
<1>8. DOMAIN Register(d, columns, rt, rows) = 1..n
      /\ \A k \in 1..n : Register(d, columns, rt, rows)[k] = New(k)
  BY <1>2, <1>7
<1> QED BY <1>8 DEF New

----------------------------------------------------------------------------
(* Segments                                                                *)

\* A file once a segment is put behind it: where the body is, and the size
\* that its header tells.
Laid(d, longer, size, place, body) ==
  /\ longer \in Seq(Bytes)
  /\ Len(longer) = place + Len(body) + Word
  /\ Has(longer, Len(d.file) + 1, ToBytes(size, Word))
  /\ Has(longer, place, body)

\* A size is written in a word.
LEMMA WordBytes ==
  \A n \in Nat : ToBytes(n, Word) \in Seq(Bytes) /\ Len(ToBytes(n, Word)) = Word
<1> TAKE n \in Nat
<1>1. n \in Int /\ Word \in Nat
  BY HeadersType
<1> QED BY <1>1, ToBytesType

\* A checksum is a word.
LEMMA ChecksumType == Checksum \in Seq(Bytes) /\ Len(Checksum) = Word
<1>1. Word \in Nat /\ Byte - 1 \in Bytes
  BY HeadersType, ByteType DEF Bytes
<1> DEFINE c == [i \in 1..Word |-> Byte - 1]
<1>2. c \in Seq(Bytes) /\ Len(c) = Word
  <2> DEFINE b == Byte - 1
  <2> HIDE DEF b
  <2> QED BY <1>1
<1> QED BY <1>2 DEF Checksum

\* A header: the variant, the size, and what else there is.
LEMMA HeadType ==
  ASSUME NEW variant \in 1..3, NEW size \in Nat, NEW meta \in Seq(Bytes)
  PROVE  LET head == <<variant>> \o ToBytes(size, Word) \o meta
         IN  /\ head \in Seq(Bytes) /\ Len(head) = 1 + Word + Len(meta)
             /\ Has(head, 1, ToBytes(size, Word))
<1> DEFINE v == <<variant>>
           b == ToBytes(size, Word)
           x == v \o b
           head == x \o meta
<1>1. Word \in Nat /\ b \in Seq(Bytes) /\ Len(b) = Word
  BY HeadersType, ToBytesType
<1>2. v \in Seq(Bytes) /\ Len(v) = 1
  BY VariantAssumption
<1> HIDE DEF v, b
<1>3. x \in Seq(Bytes) /\ Len(x) = 1 + Word /\ Has(x, 1, b)
  <2>1. x \in Seq(Bytes) /\ Len(x) = Len(v) + Len(b) /\ Has(x, Len(v), b)
    BY <1>1, <1>2, HasParts
  <2> QED BY <1>1, <1>2, <2>1
<1> HIDE DEF x
<1>4. head \in Seq(Bytes) /\ Len(head) = 1 + Word + Len(meta)
  <2>1. head \in Seq(Bytes) /\ Len(head) = Len(x) + Len(meta)
    BY <1>3, HasParts
  <2> QED BY <1>3, <2>1
<1>5. Has(head, 1, b)
  <2>1. 1 \in Nat
    OBVIOUS
  <2> QED BY <1>1, <1>3, <2>1, HasLonger
<1> QED BY <1>4, <1>5 DEF x, v, b

\* A segment is laid behind the file with its body at the next word and its
\* size in its header.
LEMMA SegmentLaid ==
  ASSUME NEW d, d.file \in Seq(Bytes), NEW variant \in 1..3, NEW size \in Nat,
         NEW meta \in Seq(Bytes), NEW body \in Seq(Bytes)
  PROVE  Laid(d, d.file \o Segment(variant, size, meta, End(d), body), size,
              PlaceOf(d, 1 + Word + Len(meta)), body)
<1> DEFINE head == <<variant>> \o ToBytes(size, Word) \o meta
           h == 1 + Word + Len(meta)
           pad == BodyAt(End(d), Len(head)) - (End(d) + Len(head))
           longer == d.file \o (head \o Zeros(pad) \o body \o Checksum)
<1>1. head \in Seq(Bytes) /\ Len(head) = h /\ Has(head, 1, ToBytes(size, Word))
  BY HeadType
<1>2. Word \in Nat /\ Len(meta) \in Nat /\ Len(d.file) \in Nat /\ Len(body) \in Nat /\ h \in Nat
  BY HeadersType
<1>3. Segment(variant, size, meta, End(d), body) = head \o Zeros(pad) \o body \o Checksum
  BY Zenon DEF Segment
<1> HIDE DEF head, h
<1>4. /\ pad = Pad(End(d) + h) /\ pad \in Nat
      /\ PlaceOf(d, h) = Len(d.file) + h + pad
  BY <1>1, <1>2, PlaceType
<1> HIDE DEF pad
<1>5. Zeros(pad) \in Seq(Bytes) /\ Len(Zeros(pad)) = pad
  BY <1>4, ZerosType
<1>6. Checksum \in Seq(Bytes) /\ Len(Checksum) = Word
  BY ChecksumType
<1>7. Framing(d.file, head, Zeros(pad), body, Checksum, longer)
  BY <1>1, <1>5, <1>6, Framed
<1> HIDE DEF longer
<1>8. /\ longer \in Seq(Bytes)
      /\ Len(longer) = Len(d.file) + h + pad + Len(body) + Word
      /\ Has(longer, Len(d.file), head)
      /\ Has(longer, Len(d.file) + h + pad, body)
  BY <1>1, <1>5, <1>6, <1>7 DEF Framing
<1>9. Has(longer, Len(d.file) + 1, ToBytes(size, Word))
  <2>1. ToBytes(size, Word) \in Seq(Bytes)
    BY <1>2, ToBytesType
  <2>2. 1 \in Nat
    OBVIOUS
  <2> QED BY <1>1, <1>2, <1>8, <2>1, <2>2, HasWithin
<1>10. Laid(d, longer, size, PlaceOf(d, h), body)
  BY <1>4, <1>8, <1>9 DEF Laid
<1> QED BY <1>3, <1>10 DEF longer, h

\* Schema::wrap
LEMMA SchemaLaid ==
  ASSUME NEW d, d.file \in Seq(Bytes), NEW rt \in DOMAIN Rows
  PROVE  \E size \in Nat :
           LET longer == d.file \o SchemaSegment(rt)
           IN  /\ longer \in Seq(Bytes)
               /\ Len(longer) = Len(d.file) + SegmentHeader + size + Word
               /\ Has(longer, Len(d.file) + 1, ToBytes(size, Word))
<1> DEFINE body == Zeros(2 * Len(rt) + 1)
           size == Len(body)
           head == <<1>> \o ToBytes(size, Word)
           none == <<>>
           longer == d.file \o (head \o none \o body \o Checksum)
<1>1. body \in Seq(Bytes) /\ size \in Nat
  <2>1. 2 * Len(rt) + 1 \in Nat
    BY RowType
  <2>2. Zeros(2 * Len(rt) + 1) \in Seq(Bytes) /\ Len(Zeros(2 * Len(rt) + 1)) = 2 * Len(rt) + 1
    BY <2>1, ZerosType
  <2> QED BY <2>1, <2>2
<1>2. SchemaSegment(rt) = head \o body \o Checksum
  BY Zenon DEF SchemaSegment
<1> HIDE DEF body, size
<1>3. head \in Seq(Bytes) /\ Len(head) = 1 + Word /\ Has(head, 1, ToBytes(size, Word))
      /\ head \o none = head
  <2>1. Word \in Nat /\ ToBytes(size, Word) \in Seq(Bytes) /\ Len(ToBytes(size, Word)) = Word
    BY <1>1, HeadersType, ToBytesType
  <2>2. <<1>> \in Seq(Bytes) /\ Len(<<1>>) = 1
    BY VariantAssumption
  <2>3. head \in Seq(Bytes) /\ Len(head) = Len(<<1>>) + Len(ToBytes(size, Word))
        /\ Has(head, Len(<<1>>), ToBytes(size, Word))
    BY <2>1, <2>2, HasParts
  <2> HIDE DEF head
  <2>4. head \o none = head
    BY <2>3, ConcatEmptySeq
  <2> QED BY <2>1, <2>2, <2>3, <2>4
<1>4. none \in Seq(Bytes) /\ Len(none) = 0
  OBVIOUS
<1>5. longer = d.file \o SchemaSegment(rt)
  BY <1>2, <1>3
<1> HIDE DEF head, none
<1>6. Checksum \in Seq(Bytes) /\ Len(Checksum) = Word /\ Word \in Nat /\ SegmentHeader = 1 + Word
      /\ Len(d.file) \in Nat
  BY ChecksumType, HeadersType
<1>7. Framing(d.file, head, none, body, Checksum, longer)
  BY <1>1, <1>3, <1>4, <1>6, Framed
<1> HIDE DEF longer
<1>8. /\ longer \in Seq(Bytes)
      /\ Len(longer) = Len(d.file) + SegmentHeader + size + Word
      /\ Has(longer, Len(d.file), head)
  BY <1>1, <1>3, <1>4, <1>6, <1>7 DEF Framing, size
<1>9. Has(longer, Len(d.file) + 1, ToBytes(size, Word))
  <2>1. ToBytes(size, Word) \in Seq(Bytes)
    BY <1>1, <1>6, ToBytesType
  <2>2. 1 \in Nat
    OBVIOUS
  <2> QED BY <1>3, <1>6, <1>8, <2>1, <2>2, HasWithin
<1> QED BY <1>1, <1>5, <1>8, <1>9

\* Accumulator::wrap
LEMMA DataLaid ==
  ASSUME NEW d, d.file \in Seq(Bytes), NEW rt \in DOMAIN Rows, NEW rows \in Seq(Rows[rt]),
         rows # <<>>,
         NEW schema \in Nat
  PROVE  LET longer == d.file \o DataSegment(d, rt, rows, schema)
         IN  /\ \E size \in Nat :
                  /\ longer \in Seq(Bytes)
                  /\ Len(longer) = Len(d.file) + SegmentHeader + size + Word
                  /\ Has(longer, Len(d.file) + 1, ToBytes(size, Word))
             /\ \A k \in 1..Len(rt) :
                  Has(longer, SectorAt(d, rt, rows, k).offset, BodyOf(rt, rows, k))
<1> DEFINE body == ColumnBuffers(rt, rows)
           parts == PartsOf(rt, rows)
           meta == ToBytes(schema, Word) \o ToBytes(Len(rows), Word)
           pad == BodyAt(End(d), DataHeader) - (End(d) + DataHeader)
           size == 2 * Word + pad + Len(body)
           place == PlaceOf(d, DataHeader)
           longer == d.file \o DataSegment(d, rt, rows, schema)
<1>1. parts \in Seq(Seq(Bytes)) /\ Len(parts) = Len(rt)
      /\ \A k \in 1..Len(rt) : parts[k] = SizedBuf(BodyOf(rt, rows, k))
  BY PartsType
<1>2. body = Concat(parts)
  BY Zenon DEF ColumnBuffers, PartsOf, BodyOf, TypeAt, ItemsAt
<1>3. DataSegment(d, rt, rows, schema) = Segment(2, size, meta, End(d), body)
  BY Zenon DEF DataSegment
<1> HIDE DEF body, parts
<1>4. body \in Seq(Bytes) /\ Len(body) \in Nat
  <2>1. body \in Seq(Bytes)
    BY <1>1, <1>2, PrefixType
  <2> QED BY <2>1
<1>5. Word \in Nat /\ Len(d.file) \in Nat /\ SegmentHeader = 1 + Word
      /\ DataHeader \in Nat /\ DataHeader = 1 + Word + (Word + Word)
  BY HeadersType
<1>6. meta \in Seq(Bytes) /\ Len(meta) = Word + Word
  <2> DEFINE a == ToBytes(schema, Word)
             b == ToBytes(Len(rows), Word)
  <2>1. Len(rows) \in Nat
    OBVIOUS
  <2>3. a \in Seq(Bytes) /\ Len(a) = Word /\ b \in Seq(Bytes) /\ Len(b) = Word
    BY <2>1, WordBytes, Zenon
  <2> HIDE DEF a, b
  <2>4. a \o b \in Seq(Bytes) /\ Len(a \o b) = Len(a) + Len(b)
    BY <2>3, ConcatProperties
  <2> QED BY <2>3, <2>4 DEF meta, a, b
<1>7. pad \in Nat /\ place = Len(d.file) + DataHeader + pad /\ place \in Nat
  <2>1. pad = Pad(End(d) + DataHeader) /\ Pad(End(d) + DataHeader) \in Nat
    BY <1>5, PlaceType
  <2>2. place = Len(d.file) + DataHeader + Pad(End(d) + DataHeader) /\ place \in Nat
    BY <1>5, PlaceType
  <2> QED BY <2>1, <2>2, Zenon
<1> HIDE DEF pad, meta
<1>8. size \in Nat
  BY <1>4, <1>5, <1>7
<1> HIDE DEF size
<1>9. Laid(d, longer, size, place, body)
  <2>1. 2 \in 1..3
    OBVIOUS
  <2>2. Laid(d, d.file \o Segment(2, size, meta, End(d), body), size,
             PlaceOf(d, 1 + Word + Len(meta)), body)
    BY <1>4, <1>6, <1>8, <2>1, SegmentLaid
  <2>3. 1 + Word + Len(meta) = DataHeader
    BY <1>5, <1>6
  <2> QED BY <1>3, <2>2, <2>3
<1> HIDE DEF longer, place
<1>10. /\ longer \in Seq(Bytes) /\ Len(longer) = place + Len(body) + Word
       /\ Has(longer, Len(d.file) + 1, ToBytes(size, Word))
       /\ Has(longer, place, body)
  BY <1>9 DEF Laid
<1>11. Len(longer) = Len(d.file) + SegmentHeader + size + Word
  <2> DEFINE l == Len(d.file)
             n == Len(body)
  <2>1. l \in Nat /\ n \in Nat /\ place = l + DataHeader + pad /\ Len(longer) = place + n + Word
        /\ size = 2 * Word + pad + n
    BY <1>4, <1>5, <1>7, <1>10 DEF size
  <2> HIDE DEF l, n
  <2>2. Len(longer) = l + SegmentHeader + size + Word
    BY <1>5, <1>7, <2>1
  <2> QED BY <2>2 DEF l
<1>12. ASSUME NEW k \in 1..Len(rt)
       PROVE  Has(longer, SectorAt(d, rt, rows, k).offset, BodyOf(rt, rows, k))
  <2> DEFINE b == BodyOf(rt, rows, k)
             o == Before(parts, k - 1)
             x == ToBytes(Len(b), Word) \o b
             z == Zeros(Pad(Len(b)))
  <2>1. b \in Seq(Bytes) /\ Len(b) \in Nat
    <3>1. b \in Seq(Bytes)
      BY ColumnItems
    <3> QED BY <3>1
  <2>2. SizedBuf(b) = x \o z
    BY Zenon DEF SizedBuf
  <2>3. parts[k] = SizedBuf(b)
    BY <1>1
  <2>4. SectorAt(d, rt, rows, k).offset = place + o + Word
    BY DEF SectorAt, place, parts
  <2> HIDE DEF b
  <2>5. x \in Seq(Bytes) /\ Has(x, Word, b)
    <3>1. ToBytes(Len(b), Word) \in Seq(Bytes) /\ Len(ToBytes(Len(b), Word)) = Word
      BY <2>1, WordBytes, Zenon
    <3> QED BY <2>1, <3>1, HasParts
  <2>6. z \in Seq(Bytes)
    <3>1. Pad(Len(b)) \in Nat
      BY <2>1, PadType
    <3> QED BY <3>1, ZerosType
  <2> HIDE DEF x, z
  <2>7. Has(x \o z, Word, b) /\ x \o z \in Seq(Bytes)
    BY <1>5, <2>1, <2>5, <2>6, HasLonger, HasParts
  <2>8. Has(body, o, parts[k]) /\ o \in Nat /\ parts[k] \in Seq(Bytes)
    <3>1. k \in 1..Len(parts)
      BY <1>1
    <3>2. /\ Before(parts, k - 1) \in Nat /\ Len(parts[k]) \in Nat
          /\ Before(parts, k) = Before(parts, k - 1) + Len(parts[k])
      BY <1>1, <3>1, BeforeNext
    <3>3. Before(parts, k) \in 0..Len(Concat(parts))
          /\ SubSeq(Concat(parts), Before(parts, k - 1) + 1, Before(parts, k)) = parts[k]
      <4>1. Len(rt) \in Nat
        BY RowType
      <4>2. k \in 0..Len(parts)
        BY <1>1, <4>1
      <4> QED BY <1>1, <3>1, <4>2, ConcatSlice
    <3>4. Has(body, o, parts[k])
      BY <1>2, <3>2, <3>3 DEF Has
    <3>5. parts[k] \in Seq(Bytes)
      BY <2>2, <2>3, <2>7
    <3> QED BY <3>2, <3>4, <3>5
  <2> HIDE DEF o
  <2>9. Has(longer, place + o, parts[k])
    BY <1>4, <1>7, <1>10, <2>8, HasWithin
  <2>10. place + o \in Nat
    BY <1>7, <2>8
  <2>11. Has(longer, (place + o) + Word, b)
    <3>1. \A p \in Nat : Has(longer, p, parts[k]) => Has(longer, p + Word, b)
      BY <1>5, <1>10, <2>1, <2>2, <2>3, <2>7, <2>8, HasWithin
    <3> QED BY <2>9, <2>10, <3>1
  <2> QED BY <2>4, <2>11 DEF b
<1>13. \E x \in Nat : /\ longer \in Seq(Bytes)
                      /\ Len(longer) = Len(d.file) + SegmentHeader + x + Word
                      /\ Has(longer, Len(d.file) + 1, ToBytes(x, Word))
  BY <1>8, <1>10, <1>11
<1> QED BY <1>12, <1>13 DEF longer

\* Bin::wrap
LEMMA BinLaid ==
  ASSUME NEW d, d.file \in Seq(Bytes), NEW payload \in Seq(Bytes)
  PROVE  LET longer == d.file \o BinSegment(d, payload)
             size == Len(payload)
         IN  /\ longer \in Seq(Bytes) /\ size \in Nat
             /\ Len(longer) = Len(d.file) + SegmentHeader + size
                                + Pad(HEADER + Len(d.file) + SegmentHeader) + Word
             /\ Has(longer, Len(d.file) + 1, ToBytes(size, Word))
             /\ Has(longer, PlaceOf(d, SegmentHeader), payload)
<1> DEFINE size == Len(payload)
           none == <<>>
           longer == d.file \o BinSegment(d, payload)
           place == PlaceOf(d, SegmentHeader)
<1>1. size \in Nat /\ Len(d.file) \in Nat /\ none \in Seq(Bytes) /\ Len(none) = 0
  OBVIOUS
<1>2. Word \in Nat /\ SegmentHeader = 1 + Word /\ SegmentHeader \in Nat
  BY HeadersType
<1>3. Laid(d, longer, size, place, payload)
  <2>1. 3 \in 1..3
    OBVIOUS
  <2>2. BinSegment(d, payload) = Segment(3, size, none, End(d), payload)
    BY Zenon DEF BinSegment
  <2> HIDE DEF size, none
  <2>3. Laid(d, d.file \o Segment(3, size, none, End(d), payload), size,
             PlaceOf(d, 1 + Word + Len(none)), payload)
    BY <1>1, <2>1, SegmentLaid
  <2>4. 1 + Word + Len(none) = SegmentHeader
    BY <1>1, <1>2
  <2> QED BY <2>2, <2>3, <2>4
<1>4. /\ place = Len(d.file) + SegmentHeader + Pad(End(d) + SegmentHeader)
      /\ Pad(End(d) + SegmentHeader) \in Nat
      /\ End(d) = HEADER + Len(d.file)
  BY <1>2, PlaceType
<1> HIDE DEF longer, place
<1>5. /\ longer \in Seq(Bytes)
      /\ Len(longer) = place + size + Word
      /\ Has(longer, Len(d.file) + 1, ToBytes(size, Word))
      /\ Has(longer, place, payload)
  BY <1>3 DEF Laid
<1>6. Len(longer) = Len(d.file) + SegmentHeader + size + Pad(HEADER + Len(d.file) + SegmentHeader) + Word
  <2> DEFINE p == Pad(End(d) + SegmentHeader)
  <2>1. p = Pad(HEADER + Len(d.file) + SegmentHeader) /\ p \in Nat
        /\ place = Len(d.file) + SegmentHeader + p
    BY <1>4, Zenon
  <2> HIDE DEF p, size
  <2> DEFINE l == Len(d.file)
  <2>2. l \in Nat /\ place = l + SegmentHeader + p /\ size \in Nat
    BY <1>1, <2>1
  <2> HIDE DEF l
  <2>3. Len(longer) = (l + SegmentHeader + p) + size + Word
    BY <1>5, <2>2
  <2>4. \A a, b, c, e, w \in Nat : (a + b + c) + e + w = a + b + e + c + w
    OBVIOUS
  <2>5. Len(longer) = l + SegmentHeader + size + p + Word
    BY <1>2, <2>1, <2>2, <2>3, <2>4
  <2> QED BY <2>1, <2>5, Zenon DEF l
<1> QED BY <1>1, <1>5, <1>6 DEF longer, place

----------------------------------------------------------------------------
(* Outcomes of a write                                                     *)

\* The fields of a dataset.
IsDb(d) ==
  d = [file |-> d.file, segments |-> d.segments, mapped |-> d.mapped,
       schemas |-> d.schemas, bins |-> d.bins, faults |-> d.faults]

\* A dataset with another file.
LEMMA PutFile ==
  ASSUME NEW r, IsDb(r), NEW x, NEW y
  PROVE  [r EXCEPT !.file = x, !.segments = y]
           = [file |-> x, segments |-> y, mapped |-> r.mapped,
              schemas |-> r.schemas, bins |-> r.bins, faults |-> r.faults]
<1>1. DOMAIN r = {"file", "segments", "mapped", "schemas", "bins", "faults"}
  BY DEF IsDb
<1>2. r = [z \in DOMAIN r |-> r[z]]
  BY DEF IsDb
<1> DEFINE e == [r EXCEPT !.file = x, !.segments = y]
<1>3. DOMAIN e = DOMAIN r /\ e = [z \in DOMAIN r |-> e[z]]
  BY <1>2
<1>4. \A z \in DOMAIN r : e[z] = IF z = "segments" THEN y ELSE IF z = "file" THEN x ELSE r[z]
  BY <1>1, <1>2
<1> DEFINE g == [file |-> x, segments |-> y, mapped |-> r.mapped,
                 schemas |-> r.schemas, bins |-> r.bins, faults |-> r.faults]
<1>5. DOMAIN g = {"file", "segments", "mapped", "schemas", "bins", "faults"}
      /\ g = [z \in DOMAIN g |-> g[z]]
  OBVIOUS
<1>6. /\ g["file"] = x /\ g["segments"] = y /\ g["mapped"] = r["mapped"]
      /\ g["schemas"] = r["schemas"] /\ g["bins"] = r["bins"] /\ g["faults"] = r["faults"]
  OBVIOUS
<1> HIDE DEF e, g
<1>7. \A z \in DOMAIN r : e[z] = g[z]
  BY <1>1, <1>4, <1>6
<1>8. e = g
  BY <1>1, <1>3, <1>5, <1>7
<1> QED BY <1>8 DEF e, g

\* A dataset with another map.
LEMMA PutMapped ==
  ASSUME NEW r, IsDb(r), NEW x
  PROVE  [r EXCEPT !.mapped = x]
           = [file |-> r.file, segments |-> r.segments, mapped |-> x,
              schemas |-> r.schemas, bins |-> r.bins, faults |-> r.faults]
BY DEF IsDb

\* Two that list the same.
SameListing(d, e) ==
  e.file = d.file /\ e.segments = d.segments /\ e.mapped = d.mapped
    /\ e.schemas = d.schemas /\ e.bins = d.bins

\* What an outcome of Commit is: d as it was, d with something registered, or
\* that with the segment behind its file.
Committed(d, variant, segment, r, o) ==
  \/ o.result = "segment" /\ SameListing(d, o.db)
  \/ o.result = "manifest" /\ SameListing(r, o.db)
  \/ /\ o.result \in {"ok", "header"}
     /\ o.db.file = d.file \o segment
     /\ o.db.segments = Append(d.segments, [variant |-> variant, at |-> Len(d.file)])
     /\ o.db.mapped = IF o.result = "ok" /\ variant # 1 THEN Len(d.file \o segment) ELSE d.mapped
     /\ o.db.schemas = r.schemas /\ o.db.bins = r.bins

\* Every outcome of File::append and File::commit leaves the old listing, the
\* old file with the new listing, or all of the new.
LEMMA CommitIs ==
  ASSUME NEW d, IsDb(d), NEW r, IsDb(r), r.file = d.file, r.segments = d.segments,
         r.mapped = d.mapped, r.faults = d.faults, d.faults \in 0..MaxFaults,
         NEW variant, NEW segment, NEW o \in Commit(d, variant, segment, r)
  PROVE  /\ ~ Phantom(d) /\ IsDb(o.db) /\ o.db.faults \in 0..MaxFaults
         /\ Committed(d, variant, segment, r, o)
<1> DEFINE longer == [r EXCEPT !.file = @ \o segment,
                        !.segments = Append(@, [variant |-> variant, at |-> Len(d.file)])]
           Failed(x, phase) == [result |-> phase, db |-> [x EXCEPT !.faults = @ + 1]]
           ok == [result |-> "ok", db |-> [longer EXCEPT !.mapped =
                                              IF variant = 1 THEN @ ELSE Len(longer.file)]]
<1>1. ~ Phantom(d)
      /\ \/ o = ok
         \/ d.faults # MaxFaults /\ o \in {Failed(d, "segment"), Failed(r, "manifest"), Failed(longer, "header")}
  BY DEF Commit
<1>2. MaxFaults \in Nat
  BY BoundsAssumption
<1>3. /\ IsDb(longer) /\ longer.file = d.file \o segment
      /\ longer.segments = Append(d.segments, [variant |-> variant, at |-> Len(d.file)])
      /\ longer.mapped = d.mapped /\ longer.schemas = r.schemas /\ longer.bins = r.bins
      /\ longer.faults = d.faults
  <2> DEFINE x == d.file \o segment
             y == Append(d.segments, [variant |-> variant, at |-> Len(d.file)])
  <2>1. longer = [r EXCEPT !.file = x, !.segments = y]
    OBVIOUS
  <2> HIDE DEF x, y, longer
  <2>2. longer = [file |-> x, segments |-> y, mapped |-> r.mapped,
                  schemas |-> r.schemas, bins |-> r.bins, faults |-> r.faults]
    BY <2>1, PutFile
  <2>3. IsDb(longer) /\ longer.file = x /\ longer.segments = y /\ longer.mapped = r.mapped
        /\ longer.schemas = r.schemas /\ longer.bins = r.bins /\ longer.faults = r.faults
    BY <2>2 DEF IsDb
  <2> QED BY <2>3 DEF x, y
<1>4. ASSUME NEW x, IsDb(x), x.faults = d.faults, NEW phase, o = Failed(x, phase), d.faults # MaxFaults
      PROVE  o.result = phase /\ IsDb(o.db) /\ SameListing(x, o.db) /\ o.db.faults \in 0..MaxFaults
  <2> DEFINE e == [x EXCEPT !.faults = @ + 1]
  <2>1. o.result = phase /\ o.db = e
    BY <1>4
  <2>2. IsDb(e) /\ SameListing(x, e) /\ e.faults = d.faults + 1
    BY <1>4 DEF IsDb, SameListing
  <2>3. d.faults + 1 \in 0..MaxFaults
    BY <1>2, <1>4
  <2> HIDE DEF e
  <2> QED BY <2>1, <2>2, <2>3
<1>5. CASE o = ok
  <2> DEFINE e == [longer EXCEPT !.mapped = IF variant = 1 THEN @ ELSE Len(longer.file)]
  <2>1. o.result = "ok" /\ o.db = e
    BY <1>5
  <2> HIDE DEF longer
  <2>2. /\ IsDb(e) /\ e.file = longer.file /\ e.segments = longer.segments
        /\ e.mapped = (IF variant = 1 THEN longer.mapped ELSE Len(longer.file))
        /\ e.schemas = longer.schemas /\ e.bins = longer.bins /\ e.faults = longer.faults
    <3> DEFINE m == IF variant = 1 THEN longer.mapped ELSE Len(longer.file)
    <3>1. e = [longer EXCEPT !.mapped = m]
      OBVIOUS
    <3> HIDE DEF m, e
    <3>2. e = [file |-> longer.file, segments |-> longer.segments, mapped |-> m,
               schemas |-> longer.schemas, bins |-> longer.bins, faults |-> longer.faults]
      BY <1>3, <3>1, PutMapped
    <3>3. IsDb(e) /\ e.file = longer.file /\ e.segments = longer.segments /\ e.mapped = m
          /\ e.schemas = longer.schemas /\ e.bins = longer.bins /\ e.faults = longer.faults
      BY <3>2 DEF IsDb
    <3> QED BY <3>3 DEF m
  <2> HIDE DEF e
  <2>3. Committed(d, variant, segment, r, o)
    BY <1>3, <2>1, <2>2 DEF Committed
  <2> QED BY <1>1, <1>3, <2>1, <2>2, <2>3
<1> HIDE DEF longer, ok
<1>6. CASE d.faults # MaxFaults /\ o = Failed(d, "segment")
  <2>1. o.result = "segment" /\ IsDb(o.db) /\ SameListing(d, o.db) /\ o.db.faults \in 0..MaxFaults
    BY <1>4, <1>6
  <2> QED BY <1>1, <2>1 DEF Committed
<1>7. CASE d.faults # MaxFaults /\ o = Failed(r, "manifest")
  <2>1. o.result = "manifest" /\ IsDb(o.db) /\ SameListing(r, o.db) /\ o.db.faults \in 0..MaxFaults
    BY <1>4, <1>7
  <2> QED BY <1>1, <2>1 DEF Committed
<1>8. CASE d.faults # MaxFaults /\ o = Failed(longer, "header")
  <2>1. o.result = "header" /\ IsDb(o.db) /\ SameListing(longer, o.db) /\ o.db.faults \in 0..MaxFaults
    BY <1>3, <1>4, <1>8
  <2> QED BY <1>1, <1>3, <2>1 DEF Committed, SameListing
<1> HIDE DEF Failed
<1> QED BY <1>1, <1>5, <1>6, <1>7, <1>8

----------------------------------------------------------------------------
(* The inductive invariant *)

Item == UNION {ItemsOf[t] : t \in Types}

\* The file, how much of it is mapped, and the failures.
WellFile(d) ==
  /\ IsDb(d)
  /\ d.file \in Seq(Bytes)
  /\ d.mapped \in 0..Len(d.file)
  /\ d.faults \in 0..MaxFaults

\* A segment whose header leads to the next one.
Leads(file, seg, next) ==
  \E size \in Nat :
    /\ Has(file, seg.at + 1, ToBytes(size, Word))
    /\ next = seg.at + SegmentHeader + size
                + (IF seg.variant = 3 THEN Pad(HEADER + seg.at + SegmentHeader) ELSE 0) + Word

After(d, n) == IF n = Len(d.segments) THEN Len(d.file) ELSE d.segments[n + 1].at

WellSegments(d) ==
  /\ d.segments \in Seq([variant : 1..3, at : Nat])
  /\ \A n \in 1..Len(d.segments) :
       /\ After(d, n) \in 0..Len(d.file)
       /\ Leads(d.file, d.segments[n], After(d, n))

\* What is in a sector of the file, if the file has it.
Keeps(file, sector, bytes) ==
  /\ sector.offset \in Nat /\ sector.offset % Word = 0
  /\ sector.size = Len(bytes)
  /\ EndOf(sector) <= Len(file) => SubSeq(file, sector.offset + 1, EndOf(sector)) = bytes

WellBins(d) ==
  \A i \in DOMAIN d.bins : i \in DOMAIN Payloads /\ Keeps(d.file, d.bins[i], Payloads[i])

\* A buffer of a column of some type: it holds items that read as column.
WellBuffer(file, mapped, ty, desc, column, acked) ==
  \E t \in Types : \E items \in Seq(ItemsOf[t]) :
    /\ items # <<>> /\ Unfold[t] = ty /\ Flat(t, items) = column
    /\ desc = Describe(t, items, desc.buffer)
    /\ Keeps(file, desc.buffer, Body(t, items))
    /\ acked => EndOf(desc.buffer) <= mapped

Batches(n) == [rows : Seq([1..n -> Item]), acked : BOOLEAN, interned : BOOLEAN]

\* The buffers of a column, one for each batch.
WellColumn(file, mapped, c, batches, k) ==
  /\ Ordered(InOrder(c.buffers), c.buffers, Len(batches))
  /\ \A i \in 1..Len(batches) :
       WellBuffer(file, mapped, c.ty, InOrder(c.buffers)[i], Column(batches[i].rows, k), batches[i].acked)

WellSchema(file, mapped, schema, batches) ==
  /\ schema = [at |-> schema.at, columns |-> schema.columns] /\ schema.at \in Nat
  /\ \E rt \in DOMAIN Rows :
       /\ Typed(schema.columns, rt)
       /\ batches \in Seq(Batches(Len(rt)))
       /\ \A k \in 1..Len(rt) : WellColumn(file, mapped, schema.columns[k], batches, k)

WellSchemas(d, s) ==
  /\ s = [name \in Names |-> s[name]]
  /\ d.schemas = [name \in DOMAIN d.schemas |-> d.schemas[name]]
  /\ DOMAIN d.schemas \subseteq Names
  /\ \A name \in Names :
       IF name \in DOMAIN d.schemas
       THEN WellSchema(d.file, d.mapped, d.schemas[name], s[name])
       ELSE s[name] = <<>>

Sound(d, s) == WellFile(d) /\ WellSegments(d) /\ WellBins(d) /\ WellSchemas(d, s)

\* An accumulator of the schema that it was made for.
WellAcc(d, name, acc) ==
  \/ acc = NoAcc
  \/ /\ name \in DOMAIN d.schemas
     /\ \E rt \in DOMAIN Rows : \E rows \in Seq(Rows[rt]) :
          /\ acc = [rows |-> rows, open |-> TRUE, rt |-> rt, at |-> d.schemas[name].at]
          /\ Typed(d.schemas[name].columns, rt)

WellAccs(d, a) ==
  /\ a = [name \in Names |-> a[name]]
  /\ \A name \in Names : WellAcc(d, name, a[name])

----------------------------------------------------------------------------
(* Segments and buffers of a longer file                                   *)

\* A file that has what another one has, where that has it.
Grown(file, longer) ==
  /\ longer \in Seq(Bytes)
  /\ Len(file) <= Len(longer)
  /\ \A o \in Nat : \A part \in Seq(Bytes) : Has(file, o, part) => Has(longer, o, part)

\* A file has what it has.
LEMMA GrownSame ==
  ASSUME NEW file \in Seq(Bytes)
  PROVE  Grown(file, file)
<1>1. Len(file) \in Nat
  OBVIOUS
<1> QED BY <1>1 DEF Grown

\* A file that grows has what it had.
LEMMA GrownBehind ==
  ASSUME NEW file \in Seq(Bytes), NEW x \in Seq(Bytes)
  PROVE  Grown(file, file \o x)
<1>1. file \o x \in Seq(Bytes) /\ Len(file \o x) = Len(file) + Len(x)
  BY HasParts
<1>2. Len(file) \in Nat /\ Len(x) \in Nat
  OBVIOUS
<1>3. \A o \in Nat : \A part \in Seq(Bytes) : Has(file, o, part) => Has(file \o x, o, part)
  BY HasLonger
<1> DEFINE w == file \o x
<1>4. Len(file) <= Len(w)
  BY <1>1, <1>2
<1> HIDE DEF w
<1>5. Grown(file, w)
  BY <1>1, <1>3, <1>4 DEF Grown, w
<1> QED BY <1>5 DEF w

\* What is in a sector stays there when the file grows.
LEMMA KeepsGrown ==
  ASSUME NEW file \in Seq(Bytes), NEW longer, Grown(file, longer), NEW sector,
         NEW bytes \in Seq(Bytes),
         Keeps(file, sector, bytes), ~ (EndOf(sector) > Len(file))
  PROVE  Keeps(longer, sector, bytes)
<1>1. Len(file) \in Nat /\ Len(bytes) \in Nat
  OBVIOUS
<1>2. sector.offset \in Nat /\ sector.size = Len(bytes) /\ EndOf(sector) = sector.offset + Len(bytes)
  BY DEF Keeps, EndOf
<1>3. EndOf(sector) <= Len(file)
  BY <1>1, <1>2
<1>4. Has(file, sector.offset, bytes)
  BY <1>2, <1>3 DEF Keeps, Has
<1>5. Has(longer, sector.offset, bytes)
  BY <1>2, <1>4 DEF Grown
<1> QED BY <1>2, <1>5 DEF Keeps, Has

\* A buffer that is in the file reads the same when the file grows.
LEMMA BufferStays ==
  ASSUME NEW file \in Seq(Bytes), NEW longer, Grown(file, longer),
         NEW mapped \in Nat, NEW more \in Nat, mapped <= more,
         NEW ty, NEW desc, NEW column, NEW acked,
         WellBuffer(file, mapped, ty, desc, column, acked),
         ~ (EndOf(desc.buffer) > Len(file))
  PROVE  WellBuffer(longer, more, ty, desc, column, acked)
<1> DEFINE P(t, items) ==
        /\ items # <<>> /\ Unfold[t] = ty /\ Flat(t, items) = column
        /\ desc = Describe(t, items, desc.buffer)
        /\ Keeps(file, desc.buffer, Body(t, items))
        /\ acked => EndOf(desc.buffer) <= mapped
<1>0. PICK t \in Types : \E items \in Seq(ItemsOf[t]) : P(t, items)
  BY DEF WellBuffer
<1>1. PICK items \in Seq(ItemsOf[t]) : P(t, items)
  BY <1>0
<1>2. Body(t, items) \in Seq(Bytes)
  BY <1>1, BodyType
<1>3. Keeps(longer, desc.buffer, Body(t, items))
  BY <1>1, <1>2, KeepsGrown
<1>4. acked => EndOf(desc.buffer) <= more
  <2>1. Len(Body(t, items)) \in Nat
    BY <1>2
  <2> DEFINE b == desc.buffer
             bytes == Body(t, items)
  <2>2. Keeps(file, b, bytes) /\ Len(bytes) \in Nat
    BY <1>1, <2>1
  <2>3. b.offset \in Nat /\ b.size \in Nat
    <3> HIDE DEF b, bytes
    <3> QED BY <2>2, SMTT(30) DEF Keeps
  <2>4. EndOf(desc.buffer) \in Nat
    BY <2>3 DEF EndOf
  <2> QED BY <1>1, <2>4
<1>5. \E u \in Types : \E its \in Seq(ItemsOf[u]) :
        /\ its # <<>> /\ Unfold[u] = ty /\ Flat(u, its) = column
        /\ desc = Describe(u, its, desc.buffer)
        /\ Keeps(longer, desc.buffer, Body(u, its))
        /\ acked => EndOf(desc.buffer) <= more
  BY <1>1, <1>3, <1>4
<1> QED BY <1>5 DEF WellBuffer

\* A column whose buffers are in the file reads the same when the file grows.
LEMMA ColumnStays ==
  ASSUME NEW file \in Seq(Bytes), NEW longer, Grown(file, longer),
         NEW mapped \in Nat, NEW more \in Nat, mapped <= more,
         NEW c, NEW batches, NEW k, WellColumn(file, mapped, c, batches, k),
         \A b \in c.buffers : ~ (EndOf(b.buffer) > Len(file))
  PROVE  WellColumn(longer, more, c, batches, k)
<1>1. ASSUME NEW i \in 1..Len(batches)
      PROVE  WellBuffer(longer, more, c.ty, InOrder(c.buffers)[i], Column(batches[i].rows, k), batches[i].acked)
  <2> DEFINE desc == InOrder(c.buffers)[i]
  <2>1. desc \in c.buffers
    BY DEF WellColumn, Ordered
  <2>2. WellBuffer(file, mapped, c.ty, desc, Column(batches[i].rows, k), batches[i].acked)
    BY DEF WellColumn
  <2>3. ~ (EndOf(desc.buffer) > Len(file))
    BY <2>1
  <2> HIDE DEF desc
  <2>4. WellBuffer(longer, more, c.ty, desc, Column(batches[i].rows, k), batches[i].acked)
    BY <2>2, <2>3, BufferStays
  <2> QED BY <2>4 DEF desc
<1> QED BY <1>1 DEF WellColumn

\* A schema whose buffers are in the file reads the same when the file grows.
LEMMA SchemaStays ==
  ASSUME NEW file \in Seq(Bytes), NEW longer, Grown(file, longer),
         NEW mapped \in Nat, NEW more \in Nat, mapped <= more,
         NEW schema, NEW batches, WellSchema(file, mapped, schema, batches),
         \A k \in DOMAIN schema.columns : \A b \in schema.columns[k].buffers : ~ (EndOf(b.buffer) > Len(file))
  PROVE  WellSchema(longer, more, schema, batches)
<1>1. PICK rt \in DOMAIN Rows :
        /\ Typed(schema.columns, rt)
        /\ batches \in Seq(Batches(Len(rt)))
        /\ \A k \in 1..Len(rt) : WellColumn(file, mapped, schema.columns[k], batches, k)
  BY DEF WellSchema
<1>2. DOMAIN schema.columns = 1..Len(rt)
  BY <1>1 DEF Typed
<1>3. ASSUME NEW k \in 1..Len(rt) PROVE WellColumn(longer, more, schema.columns[k], batches, k)
  BY <1>1, <1>2, ColumnStays
<1> QED BY <1>1, <1>3 DEF WellSchema

\* Nothing that the manifest lists is beyond the end of the file.
LEMMA NothingBeyond ==
  ASSUME NEW d, ~ Phantom(d)
  PROVE  /\ \A i \in DOMAIN d.bins : ~ (EndOf(d.bins[i]) > Len(d.file))
         /\ \A name \in DOMAIN d.schemas : \A k \in DOMAIN d.schemas[name].columns :
              \A b \in d.schemas[name].columns[k].buffers : ~ (EndOf(b.buffer) > Len(d.file))
<1>1. \A sector \in Sectors(d) : ~ (EndOf(sector) > Len(d.file))
  BY DEF Phantom
<1>2. \A i \in DOMAIN d.bins : d.bins[i] \in Sectors(d)
  <2> TAKE i \in DOMAIN d.bins
  <2> DEFINE bins == {d.bins[j] : j \in DOMAIN d.bins}
             others == UNION {{b.buffer : b \in c.buffers} :
                                c \in UNION {ToSet(d.schemas[name].columns) : name \in DOMAIN d.schemas}}
  <2>1. d.bins[i] \in bins
    OBVIOUS
  <2>2. Sectors(d) = others \cup bins
    BY DEF Sectors
  <2> HIDE DEF bins, others
  <2> QED BY <2>1, <2>2
<1>3. ASSUME NEW name \in DOMAIN d.schemas, NEW k \in DOMAIN d.schemas[name].columns,
             NEW b \in d.schemas[name].columns[k].buffers
      PROVE  b.buffer \in Sectors(d)
  <2> DEFINE c == d.schemas[name].columns[k]
             all == UNION {ToSet(d.schemas[n].columns) : n \in DOMAIN d.schemas}
  <2>1. c \in all
    BY DEF ToSet
  <2>2. b.buffer \in {x.buffer : x \in c.buffers}
    OBVIOUS
  <2> HIDE DEF c, all
  <2>3. b.buffer \in UNION {{x.buffer : x \in y.buffers} : y \in all}
    BY <2>1, <2>2
  <2> QED BY <2>3 DEF Sectors, all
<1> QED BY <1>1, <1>2, <1>3

\* All schemas read the same when the file grows, as long as no listing is
\* ahead of the file.
LEMMA SchemasStay ==
  ASSUME NEW d, NEW s, WellFile(d), WellSchemas(d, s), ~ Phantom(d),
         NEW e, Grown(d.file, e.file), e.mapped \in Nat, d.mapped <= e.mapped
  PROVE  \A name \in DOMAIN d.schemas :
           name \in Names /\ WellSchema(e.file, e.mapped, d.schemas[name], s[name])
<1> TAKE name \in DOMAIN d.schemas
<1>1. name \in Names /\ WellSchema(d.file, d.mapped, d.schemas[name], s[name])
  BY DEF WellSchemas
<1>2. d.file \in Seq(Bytes) /\ d.mapped \in Nat
  BY DEF WellFile
<1>3. \A k \in DOMAIN d.schemas[name].columns :
        \A b \in d.schemas[name].columns[k].buffers : ~ (EndOf(b.buffer) > Len(d.file))
  BY NothingBeyond
<1> QED BY <1>1, <1>2, <1>3, SchemaStays

\* All payloads read the same when the file grows, as long as no listing is
\* ahead of the file.
LEMMA BinsStay ==
  ASSUME NEW d, WellFile(d), WellBins(d), ~ Phantom(d),
         NEW e, Grown(d.file, e.file), e.bins = d.bins
  PROVE  WellBins(e)
<1>1. ASSUME NEW i \in DOMAIN d.bins
      PROVE  i \in DOMAIN Payloads /\ Keeps(e.file, d.bins[i], Payloads[i])
  <2>1. i \in DOMAIN Payloads /\ Keeps(d.file, d.bins[i], Payloads[i]) /\ d.file \in Seq(Bytes)
    BY DEF WellBins, WellFile
  <2>2. Payloads[i] \in Seq(Bytes)
    <3> DEFINE S == Seq(Bytes)
    <3>1. Payloads \in Seq(S)
      BY PayloadsAssumption
    <3> HIDE DEF S
    <3>2. Payloads[i] \in S
      BY <2>1, <3>1
    <3> QED BY <3>2 DEF S
  <2>3. ~ (EndOf(d.bins[i]) > Len(d.file))
    BY NothingBeyond
  <2> QED BY <2>1, <2>2, <2>3, KeepsGrown
<1> QED BY <1>1 DEF WellBins

\* A segment behind the others: they lead to it, and it to the end of the file.
LEMMA SegmentsExtend ==
  ASSUME NEW d, WellFile(d), WellSegments(d), NEW e, NEW variant \in 1..3,
         Grown(d.file, e.file),
         e.segments = Append(d.segments, [variant |-> variant, at |-> Len(d.file)]),
         Leads(e.file, [variant |-> variant, at |-> Len(d.file)], Len(e.file))
  PROVE  WellSegments(e)
<1> DEFINE seg == [variant |-> variant, at |-> Len(d.file)]
           R == [variant : 1..3, at : Nat]
           n == Len(d.segments)
<1>1. Len(d.file) \in Nat /\ Len(e.file) \in Nat /\ Len(d.file) <= Len(e.file)
  BY DEF WellFile, Grown
<1>2. d.segments \in Seq(R) /\ n \in Nat
  BY DEF WellSegments
<1>3. seg \in R
  BY <1>1
<1> HIDE DEF R, seg
<1>4. /\ e.segments \in Seq(R) /\ Len(e.segments) = n + 1 /\ e.segments[n + 1] = seg
      /\ \A i \in 1..n : e.segments[i] = d.segments[i]
  <2>1. e.segments = Append(d.segments, seg)
    BY DEF seg
  <2> QED BY <1>2, <1>3, <2>1
<1>5. \A i \in 1..n : After(e, i) = After(d, i) /\ d.segments[i] \in R
  <2> TAKE i \in 1..n
  <2>1. i # Len(e.segments) /\ d.segments[i] \in R
    BY <1>2, <1>4
  <2>2. CASE i = n
    <3>1. After(e, i) = seg.at /\ After(d, i) = Len(d.file)
      BY <1>4, <2>1, <2>2 DEF After
    <3> QED BY <2>1, <3>1 DEF seg
  <2>3. CASE i # n
    <3>1. i + 1 \in 1..n
      BY <1>2, <2>3
    <3> QED BY <1>4, <2>1, <2>3, <3>1 DEF After
  <2> QED BY <2>2, <2>3
<1>6. After(e, n + 1) = Len(e.file)
  BY <1>4 DEF After
<1>7. ASSUME NEW i \in 1..n + 1
      PROVE  After(e, i) \in 0..Len(e.file) /\ Leads(e.file, e.segments[i], After(e, i))
  <2>1. CASE i = n + 1
    BY <1>1, <1>4, <1>6, <2>1 DEF seg
  <2>2. CASE i # n + 1
    <3>1. i \in 1..n
      BY <1>2, <2>2
    <3>2. After(d, i) \in 0..Len(d.file) /\ Leads(d.file, d.segments[i], After(d, i))
      BY <3>1 DEF WellSegments
    <3>3. PICK size \in Nat :
            /\ Has(d.file, d.segments[i].at + 1, ToBytes(size, Word))
            /\ After(d, i) = d.segments[i].at + SegmentHeader + size
                 + (IF d.segments[i].variant = 3 THEN Pad(HEADER + d.segments[i].at + SegmentHeader) ELSE 0)
                 + Word
      BY <3>2 DEF Leads
    <3>4. Has(e.file, d.segments[i].at + 1, ToBytes(size, Word))
      <4>1. d.segments[i].at + 1 \in Nat
        BY <1>5, <3>1 DEF R
      <4>2. ToBytes(size, Word) \in Seq(Bytes)
        BY WordBytes
      <4> QED BY <3>3, <4>1, <4>2 DEF Grown
    <3>5. Leads(e.file, d.segments[i], After(d, i))
      BY <3>3, <3>4 DEF Leads
    <3>6. After(d, i) \in 0..Len(e.file)
      BY <1>1, <3>2
    <3> QED BY <1>4, <1>5, <3>1, <3>5, <3>6
  <2> QED BY <2>1, <2>2
<1> QED BY <1>4, <1>7 DEF WellSegments, R

----------------------------------------------------------------------------
(* Dataset::schema                                                         *)

\* A dataset that lists the same and has the same file is sound too.
LEMMA SoundAlike ==
  ASSUME NEW d, NEW s, Sound(d, s), NEW e, IsDb(e), SameListing(d, e),
         e.faults \in 0..MaxFaults
  PROVE  Sound(e, s)
<1>1. WellFile(e)
  BY DEF Sound, WellFile, SameListing
<1>2. \A n : After(e, n) = After(d, n)
  BY DEF After, SameListing
<1>3. WellSegments(e)
  BY <1>2 DEF Sound, WellSegments, SameListing
<1>4. WellBins(e)
  BY DEF Sound, WellBins, SameListing
<1>5. WellSchemas(e, s)
  BY DEF Sound, WellSchemas, SameListing
<1> QED BY <1>1, <1>3, <1>4, <1>5 DEF Sound

\* A file that gets a segment is a file still.
LEMMA FileLonger ==
  ASSUME NEW d, WellFile(d), NEW e, IsDb(e), e.faults \in 0..MaxFaults,
         NEW x \in Seq(Bytes), e.file = d.file \o x, e.mapped \in {d.mapped, Len(e.file)}
  PROVE  /\ WellFile(e) /\ Grown(d.file, e.file)
         /\ d.mapped \in Nat /\ e.mapped \in Nat /\ d.mapped <= e.mapped
<1>1. d.file \in Seq(Bytes) /\ d.mapped \in 0..Len(d.file)
  BY DEF WellFile
<1>2. Grown(d.file, e.file)
  BY <1>1, GrownBehind
<1>3. e.file \in Seq(Bytes) /\ Len(d.file) <= Len(e.file)
  BY <1>2 DEF Grown
<1>4. Len(d.file) \in Nat /\ Len(e.file) \in Nat
  BY <1>1, <1>3
<1>5. e.mapped \in 0..Len(e.file) /\ d.mapped <= e.mapped
  BY <1>1, <1>3, <1>4
<1> QED BY <1>1, <1>2, <1>3, <1>4, <1>5 DEF WellFile

\* Schemas that are still there.
SchemasKept(d, e) ==
  \A name \in DOMAIN d.schemas :
    /\ name \in DOMAIN e.schemas
    /\ e.schemas[name].at = d.schemas[name].at
    /\ \A rt \in DOMAIN Rows : Typed(d.schemas[name].columns, rt) => Typed(e.schemas[name].columns, rt)

\* No descriptors are in order.
LEMMA EmptyOrdered == Ordered(InOrder({}), {}, 0)
<1>1. Cardinality({}) = 0
  BY FS_EmptySet
<1> DEFINE ds == InOrder({})
<1>2. DOMAIN ds = 1..0 /\ ds = [i \in DOMAIN ds |-> ds[i]]
  BY <1>1 DEF InOrder
<1> HIDE DEF ds
<1>3. 1..0 = {}
  OBVIOUS
<1>4. Ordered(ds, {}, 0)
  BY <1>2, <1>3 DEF Ordered
<1> QED BY <1>4 DEF ds

\* A new schema, without buffers, is a good one for no batches.
LEMMA NewSchemaWell ==
  ASSUME NEW file, NEW mapped, NEW rt \in DOMAIN Rows, NEW at \in Nat
  PROVE  WellSchema(file, mapped, [at |-> at, columns |-> Schema(rt)], <<>>)
<1> DEFINE schema == [at |-> at, columns |-> Schema(rt)]
<1>1. Typed(Schema(rt), rt) /\ \A k \in 1..Len(rt) : Schema(rt)[k].buffers = {}
  BY SchemaTyped
<1>2. \A k \in 1..Len(rt) : WellColumn(file, mapped, Schema(rt)[k], <<>>, k)
  <2> TAKE k \in 1..Len(rt)
  <2>1. Len(<<>>) = 0
    OBVIOUS
  <2>2. Schema(rt)[k].buffers = {}
    BY <1>1
  <2>3. \A i \in 1..0 : FALSE
    OBVIOUS
  <2> QED BY <2>1, <2>2, <2>3, EmptyOrdered DEF WellColumn
<1>3. <<>> \in Seq(Batches(Len(rt)))
  OBVIOUS
<1>4. schema.at = at /\ schema.columns = Schema(rt) /\ schema = [at |-> schema.at, columns |-> schema.columns]
  OBVIOUS
<1> HIDE DEF schema
<1>5. WellSchema(file, mapped, schema, <<>>)
  BY <1>1, <1>2, <1>3, <1>4 DEF WellSchema
<1> QED BY <1>5 DEF schema

\* A schema more.
LEMMA NewSchemaSound ==
  ASSUME NEW d, NEW s, WellFile(d), WellSchemas(d, s), ~ Phantom(d),
         NEW name \in Names \ DOMAIN d.schemas, NEW rt \in DOMAIN Rows,
         NEW e, Grown(d.file, e.file), e.mapped \in Nat, d.mapped <= e.mapped,
         e.schemas = Put(d.schemas, name, [at |-> End(d), columns |-> Schema(rt)])
  PROVE  /\ WellSchemas(e, s) /\ SchemasKept(d, e)
         /\ name \in DOMAIN e.schemas /\ Typed(e.schemas[name].columns, rt)
<1> DEFINE new == [at |-> End(d), columns |-> Schema(rt)]
<1>1. /\ DOMAIN e.schemas = DOMAIN d.schemas \cup {name}
      /\ e.schemas = [k \in DOMAIN e.schemas |-> e.schemas[k]]
      /\ e.schemas[name] = new
      /\ \A k \in DOMAIN d.schemas : k # name => e.schemas[k] = d.schemas[k]
  <2> HIDE DEF new
  <2>1. e.schemas = Put(d.schemas, name, new)
    BY DEF new
  <2> QED BY <2>1 DEF Put
<1>2. End(d) \in Nat
  <2>1. d.file \in Seq(Bytes) /\ 0 \in Nat
    BY DEF WellFile
  <2> QED BY <2>1, PlaceType
<1>3. WellSchema(e.file, e.mapped, new, <<>>)
  BY <1>2, NewSchemaWell
<1>4. new.columns = Schema(rt) /\ Typed(Schema(rt), rt)
  BY SchemaTyped
<1> HIDE DEF new
<1>5. s[name] = <<>> /\ s = [n \in Names |-> s[n]] /\ DOMAIN d.schemas \subseteq Names
  BY DEF WellSchemas
<1>6. \A n \in DOMAIN d.schemas : n # name /\ WellSchema(e.file, e.mapped, d.schemas[n], s[n])
  BY SchemasStay
<1>7. \A n \in Names : IF n \in DOMAIN e.schemas
                       THEN WellSchema(e.file, e.mapped, e.schemas[n], s[n]) ELSE s[n] = <<>>
  <2> TAKE n \in Names
  <2>1. CASE n = name
    BY <1>1, <1>3, <1>5, <2>1
  <2>2. CASE n \in DOMAIN d.schemas
    BY <1>1, <1>6, <2>2
  <2>3. CASE n # name /\ n \notin DOMAIN d.schemas
    BY <1>1, <2>3 DEF WellSchemas
  <2> QED BY <2>1, <2>2, <2>3
<1>8. WellSchemas(e, s)
  BY <1>1, <1>5, <1>7 DEF WellSchemas
<1>9. SchemasKept(d, e)
  BY <1>1, <1>6 DEF SchemasKept
<1> QED BY <1>1, <1>4, <1>8, <1>9

\* A dataset with other schemas.
LEMMA PutSchemas ==
  ASSUME NEW r, IsDb(r), NEW x
  PROVE  LET e == [r EXCEPT !.schemas = x]
         IN  /\ IsDb(e) /\ e.file = r.file /\ e.segments = r.segments /\ e.mapped = r.mapped
             /\ e.schemas = x /\ e.bins = r.bins /\ e.faults = r.faults
BY DEF IsDb

\* A dataset with other payloads.
LEMMA PutBins ==
  ASSUME NEW r, IsDb(r), NEW x
  PROVE  LET e == [r EXCEPT !.bins = x]
         IN  /\ IsDb(e) /\ e.file = r.file /\ e.segments = r.segments /\ e.mapped = r.mapped
             /\ e.schemas = r.schemas /\ e.bins = x /\ e.faults = r.faults
BY DEF IsDb

\* What a call leaves of the schemas, and that the file does not shrink.
Onward(d, e) == SchemasKept(d, e) /\ Len(d.file) <= Len(e.file)

\* A call that changes neither file nor schemas leaves both.
LEMMA OnwardSame ==
  ASSUME NEW d, d.file \in Seq(Bytes), NEW e, e.file = d.file, e.schemas = d.schemas
  PROVE  Onward(d, e)
<1>1. Len(d.file) \in Nat
  OBVIOUS
<1> QED BY <1>1 DEF Onward, SchemasKept

\* Dataset::schema
LEMMA SchemaCallSound ==
  ASSUME NEW d, NEW s, Sound(d, s), NEW name \in Names, NEW rt \in DOMAIN Rows,
         NEW o \in SchemaCall(d, name, rt)
  PROVE  /\ Sound(o.db, s) /\ Onward(d, o.db)
         /\ o.result = "ok" => name \in DOMAIN o.db.schemas /\ Typed(o.db.schemas[name].columns, rt)
<1>1. WellFile(d) /\ WellSegments(d) /\ WellBins(d) /\ WellSchemas(d, s)
  BY DEF Sound
<1>2. IsDb(d) /\ d.file \in Seq(Bytes) /\ d.mapped \in 0..Len(d.file) /\ d.faults \in 0..MaxFaults
      /\ Len(d.file) \in Nat
  BY <1>1 DEF WellFile
<1>3. CASE name \in DOMAIN d.schemas
  <2>1. o.db = d /\ o.result = IF SameTypes(d.schemas[name].columns, rt) THEN "ok" ELSE "collision"
    BY <1>3 DEF SchemaCall
  <2>2. WellSchema(d.file, d.mapped, d.schemas[name], s[name])
    BY <1>1, <1>3 DEF WellSchemas
  <2>3. \A k \in DOMAIN d.schemas[name].columns : IsColumn(d.schemas[name].columns[k])
    BY <2>2 DEF WellSchema, Typed
  <2>4. o.result = "ok" => Typed(d.schemas[name].columns, rt)
    BY <2>1, <2>3, SameTypesTyped
  <2> QED BY <1>2, <1>3, <2>1, <2>4, OnwardSame
<1>4. CASE name \notin DOMAIN d.schemas
  <2> DEFINE more == Put(d.schemas, name, [at |-> End(d), columns |-> Schema(rt)])
             r == [d EXCEPT !.schemas = more]
             seg == SchemaSegment(rt)
             e == o.db
  <2>1. o \in Commit(d, 1, seg, r)
    BY <1>4 DEF SchemaCall
  <2> HIDE DEF more, seg
  <2>2. /\ IsDb(r) /\ r.file = d.file /\ r.segments = d.segments /\ r.mapped = d.mapped
        /\ r.schemas = more /\ r.bins = d.bins /\ r.faults = d.faults
    BY <1>2, PutSchemas
  <2> HIDE DEF r, e
  <2>3. ~ Phantom(d) /\ IsDb(e) /\ e.faults \in 0..MaxFaults /\ Committed(d, 1, seg, r, o)
    BY <1>2, <2>1, <2>2, CommitIs DEF e
  <2>4. CASE o.result = "segment" /\ SameListing(d, e)
    <3>1. Sound(e, s)
      BY <2>3, <2>4, SoundAlike
    <3>2. Onward(d, e)
      BY <1>2, <2>4, OnwardSame DEF SameListing
    <3> QED BY <2>4, <3>1, <3>2 DEF e
  <2>5. ASSUME Grown(d.file, e.file), e.mapped \in Nat, d.mapped <= e.mapped, e.schemas = more, e.bins = d.bins
        PROVE  /\ WellSchemas(e, s) /\ WellBins(e) /\ Onward(d, e)
               /\ name \in DOMAIN e.schemas /\ Typed(e.schemas[name].columns, rt)
    <3>1. /\ WellSchemas(e, s) /\ SchemasKept(d, e)
          /\ name \in DOMAIN e.schemas /\ Typed(e.schemas[name].columns, rt)
      BY <1>1, <1>4, <2>3, <2>5, NewSchemaSound DEF more
    <3>2. WellBins(e)
      BY <1>1, <2>3, <2>5, BinsStay
    <3> QED BY <2>5, <3>1, <3>2 DEF Onward, Grown
  <2>6. CASE o.result = "manifest" /\ SameListing(r, e)
    <3>1. e.file = d.file /\ e.segments = d.segments /\ e.mapped = d.mapped /\ e.schemas = more
          /\ e.bins = d.bins
      BY <2>2, <2>6 DEF SameListing
    <3>2. Grown(d.file, e.file) /\ e.mapped \in Nat /\ d.mapped <= e.mapped
      BY <1>2, <3>1, GrownSame
    <3>3. WellFile(e)
      BY <1>2, <2>3, <3>1 DEF WellFile
    <3>4. WellSegments(e)
      <4>1. \A n : After(e, n) = After(d, n)
        BY <3>1 DEF After
      <4> QED BY <1>1, <3>1, <4>1 DEF WellSegments
    <3>5. Sound(e, s) /\ Onward(d, e)
      BY <2>5, <3>1, <3>2, <3>3, <3>4 DEF Sound
    <3> QED BY <2>6, <3>5 DEF e
  <2>7. CASE /\ o.result \in {"ok", "header"}
             /\ e.file = d.file \o seg
             /\ e.segments = Append(d.segments, [variant |-> 1, at |-> Len(d.file)])
             /\ e.mapped = d.mapped
             /\ e.schemas = r.schemas /\ e.bins = r.bins
    <3>1. PICK size \in Nat :
            /\ d.file \o seg \in Seq(Bytes)
            /\ Len(d.file \o seg) = Len(d.file) + SegmentHeader + size + Word
            /\ Has(d.file \o seg, Len(d.file) + 1, ToBytes(size, Word))
      BY <1>2, SchemaLaid DEF seg
    <3>2. seg \in Seq(Bytes)
      <4>1. \A n \in Nat : Zeros(n) \in Seq(Bytes) /\ Len(Zeros(n)) = n
        BY ZerosType
      <4> DEFINE body == Zeros(2 * Len(rt) + 1)
      <4>2. body \in Seq(Bytes) /\ Len(body) \in Nat
        <5>1. 2 * Len(rt) + 1 \in Nat
          BY RowType
        <5> QED BY <4>1, <5>1
      <4>3. seg = <<1>> \o ToBytes(Len(body), Word) \o body \o Checksum
        BY Zenon DEF seg, SchemaSegment
      <4> HIDE DEF body
      <4>4. ToBytes(Len(body), Word) \in Seq(Bytes) /\ Checksum \in Seq(Bytes) /\ <<1>> \in Seq(Bytes)
        BY <4>2, WordBytes, ChecksumType, VariantAssumption
      <4> QED BY <4>2, <4>3, <4>4, ConcatProperties
    <3>3. WellFile(e) /\ Grown(d.file, e.file)
          /\ d.mapped \in Nat /\ e.mapped \in Nat /\ d.mapped <= e.mapped
      BY <1>1, <2>3, <2>7, <3>2, FileLonger
    <3>4. WellSegments(e)
      <4> DEFINE segment == [variant |-> 1, at |-> Len(d.file)]
      <4>1. segment.variant = 1 /\ segment.at = Len(d.file) /\ 1 # 3 /\ 1 \in 1..3
        OBVIOUS
      <4>2. Len(e.file) = Len(d.file) + SegmentHeader + size + 0 + Word
        BY <1>2, <2>7, <3>1, HeadersType
      <4> HIDE DEF segment
      <4>3. Leads(e.file, segment, Len(e.file))
        BY <2>7, <3>1, <4>1, <4>2 DEF Leads
      <4> QED BY <1>1, <2>7, <3>3, <4>1, <4>3, SegmentsExtend DEF segment
    <3>5. /\ WellSchemas(e, s) /\ WellBins(e) /\ Onward(d, e)
          /\ name \in DOMAIN e.schemas /\ Typed(e.schemas[name].columns, rt)
      BY <2>2, <2>5, <2>7, <3>3
    <3> QED BY <3>3, <3>4, <3>5 DEF Sound, e
  <2> QED BY <2>3, <2>4, <2>6, <2>7 DEF Committed, e
<1> QED BY <1>3, <1>4

----------------------------------------------------------------------------
(* A new buffer                                                            *)

\* What is read back of rows, as rows and as columns.
LEMMA PlainType ==
  ASSUME NEW rt \in DOMAIN Rows, NEW rows \in Seq(Rows[rt])
  PROVE  /\ PlainRows(rt, rows) \in Seq([1..Len(rt) -> Item])
         /\ Len(PlainRows(rt, rows)) = Len(rows)
         /\ \A n \in 1..Len(rows) : PlainRows(rt, rows)[n] = Plain(rt, rows[n])
         /\ \A k \in 1..Len(rt) : Column(PlainRows(rt, rows), k) = Flat(TypeAt(rt, k), ItemsAt(rt, rows, k))
<1> DEFINE W == [1..Len(rt) -> Item]
           p == [n \in 1..Len(rows) |-> Plain(rt, rows[n])]
           Old(n, k) == rows[n][Columns(rt)[k]]
<1>1. Len(rows) \in Nat /\ DOMAIN rows = 1..Len(rows) /\ \A n \in 1..Len(rows) : rows[n] \in Rows[rt]
  OBVIOUS
<1>2. PlainRows(rt, rows) = p
  BY <1>1 DEF PlainRows
<1>3. DOMAIN rt = 1..Len(rt)
  BY RowType
<1>4. \A k \in 1..Len(rt) : Columns(rt)[k] \in 1..Len(rt)
  BY SortedType
<1>5. \A k \in 1..Len(rt) : TypeAt(rt, k) \in Types
  BY <1>4, RowType DEF TypeAt
<1>6. \A n \in 1..Len(rows) : \A k \in 1..Len(rt) : Old(n, k) \in ItemsOf[TypeAt(rt, k)]
  <2> TAKE n \in 1..Len(rows)
  <2> TAKE k \in 1..Len(rt)
  <2>1. rows[n] \in Rows[rt] /\ Columns(rt)[k] \in DOMAIN rt
    BY <1>1, <1>3, <1>4
  <2> QED BY <2>1, RowsAssumption DEF TypeAt
<1>7. \A n \in 1..Len(rows) : Plain(rt, rows[n]) = [k \in 1..Len(rt) |-> Flattened[TypeAt(rt, k)][Old(n, k)]]
  BY <1>3 DEF Plain, TypeAt
<1>8. \A n \in 1..Len(rows) : \A k \in 1..Len(rt) : Flattened[TypeAt(rt, k)][Old(n, k)] \in Item
  <2> TAKE n \in 1..Len(rows)
  <2> TAKE k \in 1..Len(rt)
  <2> DEFINE t == TypeAt(rt, k)
             x == Old(n, k)
  <2>1. t \in Types /\ x \in ItemsOf[t]
    BY <1>5, <1>6
  <2> HIDE DEF t, x
  <2>2. Flattened[t][x] \in ItemsOf[Unfold[t]] /\ Unfold[t] \in Types
    BY <2>1, FlattenedType, UnfoldRecorded DEF Recorded
  <2>3. Flattened[t][x] \in Item
    BY <2>2 DEF Item
  <2> QED BY <2>3 DEF t, x
<1>9. \A n \in 1..Len(rows) : Plain(rt, rows[n]) \in W
  <2> TAKE n \in 1..Len(rows)
  <2> DEFINE g(k) == Flattened[TypeAt(rt, k)][Old(n, k)]
  <2>1. \A k \in 1..Len(rt) : g(k) \in Item
    BY <1>8
  <2>2. Plain(rt, rows[n]) = [k \in 1..Len(rt) |-> g(k)]
    BY <1>7
  <2> HIDE DEF g
  <2> QED BY <2>1, <2>2
<1>10. p \in Seq(W) /\ Len(p) = Len(rows) /\ \A n \in 1..Len(rows) : p[n] = Plain(rt, rows[n])
  <2> HIDE DEF W
  <2> QED BY <1>1, <1>9
<1>11. ASSUME NEW k \in 1..Len(rt)
       PROVE  Column(PlainRows(rt, rows), k) = Flat(TypeAt(rt, k), ItemsAt(rt, rows, k))
  <2>1. ItemsAt(rt, rows, k) = [n \in 1..Len(rows) |-> Old(n, k)]
    BY <1>1 DEF ItemsAt, Column
  <2>2. Flat(TypeAt(rt, k), ItemsAt(rt, rows, k))
          = [n \in 1..Len(rows) |-> Flattened[TypeAt(rt, k)][Old(n, k)]]
    BY <2>1 DEF Flat
  <2>3. Column(p, k) = [n \in 1..Len(rows) |-> Plain(rt, rows[n])[k]]
    BY DEF Column
  <2>4. \A n \in 1..Len(rows) : Plain(rt, rows[n])[k] = Flattened[TypeAt(rt, k)][Old(n, k)]
    BY <1>7
  <2> HIDE DEF p, Old
  <2> QED BY <1>2, <2>2, <2>3, <2>4
<1> QED BY <1>2, <1>10, <1>11

\* The rows of a write make a batch.
LEMMA BatchType ==
  ASSUME NEW rt \in DOMAIN Rows, NEW rows \in Seq(Rows[rt]), NEW acked \in BOOLEAN,
         NEW interned \in BOOLEAN
  PROVE  LET batch == Batch(PlainRows(rt, rows), acked, interned)
         IN  /\ batch \in Batches(Len(rt)) /\ batch.rows = PlainRows(rt, rows)
             /\ batch.acked = acked /\ batch.interned = interned
BY PlainType DEF Batch, Batches

\* The bytes of a column are where the manifest says.
LEMMA NewBuffer ==
  ASSUME NEW d, d.file \in Seq(Bytes), NEW rt \in DOMAIN Rows, NEW rows \in Seq(Rows[rt]),
         rows # <<>>,
         NEW k \in 1..Len(rt), NEW file, NEW mapped, NEW acked,
         LET sector == SectorAt(d, rt, rows, k)
         IN  /\ Keeps(file, sector, BodyOf(rt, rows, k))
             /\ acked => EndOf(sector) <= mapped
  PROVE  WellBuffer(file, mapped, Unfold[TypeAt(rt, k)], DescAt(d, rt, rows, k),
                    Column(PlainRows(rt, rows), k), acked)
<1> DEFINE t == TypeAt(rt, k)
           items == ItemsAt(rt, rows, k)
           sector == SectorAt(d, rt, rows, k)
           desc == DescAt(d, rt, rows, k)
<1>1. t \in Types /\ items \in Seq(ItemsOf[t]) /\ items # <<>>
  BY ColumnItems
<1>2. Flat(t, items) = Column(PlainRows(rt, rows), k)
  BY PlainType
<1>3. desc = Describe(t, items, sector)
  BY DEF DescAt
<1>4. BodyOf(rt, rows, k) = Body(t, items)
  BY DEF BodyOf
<1> HIDE DEF t, items, sector, desc
<1>5. desc.buffer = sector
  BY <1>3, DescribeIs
<1>6. Keeps(file, desc.buffer, Body(t, items)) /\ (acked => EndOf(desc.buffer) <= mapped)
  BY <1>4, <1>5 DEF sector
<1>7. desc = Describe(t, items, desc.buffer)
  BY <1>3, <1>5
<1> DEFINE column == Column(PlainRows(rt, rows), k)
<1>8. Flat(t, items) = column
  BY <1>2
<1> HIDE DEF column
<1>9. WellBuffer(file, mapped, Unfold[t], desc, column, acked)
  BY <1>1, <1>6, <1>7, <1>8 DEF WellBuffer
<1> QED BY <1>9 DEF t, desc, column

\* The buffers of a data segment lie behind the file.
LEMMA SectorBehind ==
  ASSUME NEW d, d.file \in Seq(Bytes), NEW rt \in DOMAIN Rows, NEW rows \in Seq(Rows[rt]),
         rows # <<>>,
         NEW k \in 1..Len(rt)
  PROVE  LET sector == SectorAt(d, rt, rows, k)
         IN  /\ sector.offset \in Nat /\ sector.size \in Nat /\ sector.size = Len(BodyOf(rt, rows, k))
             /\ sector.offset % Word = 0 /\ Len(d.file) < sector.offset
<1> DEFINE base == PlaceOf(d, DataHeader)
           before == Before(PartsOf(rt, rows), k - 1)
           sector == SectorAt(d, rt, rows, k)
           o == sector.offset
           l == Len(d.file)
           p == Pad(End(d) + DataHeader)
<1>1. o = base + before + Word
  BY DEF SectorAt
<1>2. o \in Nat /\ sector.size \in Nat /\ sector.size = Len(BodyOf(rt, rows, k)) /\ o % Word = 0
  BY SectorType
<1>3. base = l + DataHeader + p /\ p \in Nat
  BY HeadersType, PlaceType
<1>4. before \in Nat
  <2>1. PartsOf(rt, rows) \in Seq(Seq(Bytes)) /\ Len(PartsOf(rt, rows)) = Len(rt)
    BY PartsType
  <2> QED BY <2>1, BeforeNext
<1>5. DataHeader \in Nat /\ DataHeader = 1 + Word + (Word + Word) /\ Word \in Nat /\ l \in Nat
  BY HeadersType
<1> HIDE DEF base, before, o, l, p
<1>6. l < o
  BY <1>1, <1>3, <1>4, <1>5
<1> QED BY <1>2, <1>6 DEF o, l, sector

\* A column that gets the next buffer, and with it the next batch.
LEMMA ColumnGrows ==
  ASSUME NEW d, WellFile(d), NEW rt \in DOMAIN Rows, NEW rows \in Seq(Rows[rt]),
         rows # <<>>,
         NEW k \in 1..Len(rt), NEW c, IsColumn(c), c.ty = Unfold[TypeAt(rt, k)],
         \A b \in c.buffers : ~ (EndOf(b.buffer) > Len(d.file)),
         NEW S, NEW batches \in Seq(S), WellColumn(d.file, d.mapped, c, batches, k),
         NEW file, Grown(d.file, file), NEW mapped \in Nat, d.mapped <= mapped,
         NEW batch \in S, batch.rows = PlainRows(rt, rows),
         Keeps(file, SectorAt(d, rt, rows, k), BodyOf(rt, rows, k)),
         batch.acked => EndOf(SectorAt(d, rt, rows, k)) <= mapped
  PROVE  WellColumn(file, mapped, [c EXCEPT !.buffers = Insert(c.buffers, DescAt(d, rt, rows, k))],
                    Append(batches, batch), k)
<1> DEFINE n == Len(batches)
           ds == InOrder(c.buffers)
           desc == DescAt(d, rt, rows, k)
           longer == [i \in 1..n + 1 |-> IF i <= n THEN ds[i] ELSE desc]
           more == Append(batches, batch)
           e == [c EXCEPT !.buffers = Insert(c.buffers, desc)]
<1>1. n \in Nat /\ Ordered(ds, c.buffers, n)
  BY DEF WellColumn
<1>2. desc.buffer = SectorAt(d, rt, rows, k)
  BY DescribeIs DEF DescAt
<1>3. d.file \in Seq(Bytes) /\ Len(d.file) \in Nat /\ d.mapped \in Nat
  BY DEF WellFile
<1>4. desc.buffer.offset \in Nat /\ desc.buffer.size \in Nat /\ Len(d.file) < desc.buffer.offset
  BY <1>2, <1>3, SectorBehind
<1>5. \A i \in 1..n : ds[i].buffer.offset < desc.buffer.offset
  <2> TAKE i \in 1..n
  <2>1. ds[i] \in c.buffers /\ ds[i].buffer.offset \in Nat /\ ds[i].buffer.size \in Nat
    BY <1>1 DEF Ordered
  <2>2. ~ (EndOf(ds[i].buffer) > Len(d.file))
    BY <2>1
  <2>3. \A a, b, l, o \in Nat : ~ (a + b > l) /\ l < o => a < o
    OBVIOUS
  <2> QED BY <1>3, <1>4, <2>1, <2>2, <2>3 DEF EndOf
<1> HIDE DEF n, ds, desc
<1>6. Ordered(longer, Insert(c.buffers, desc), n + 1)
  BY <1>1, <1>4, <1>5, OrderedInsert
<1>7. InOrder(Insert(c.buffers, desc)) = longer
  <2> HIDE DEF longer
  <2>1. n + 1 \in Nat
    BY <1>1
  <2> QED BY <1>6, <2>1, OrderedIs
<1>8. e.buffers = Insert(c.buffers, desc) /\ e.ty = c.ty
  BY DEF IsColumn
<1>9. Len(more) = n + 1 /\ more[n + 1] = batch /\ \A i \in 1..n : more[i] = batches[i]
  BY DEF n
<1>10. longer[n + 1] = desc /\ \A i \in 1..n : longer[i] = ds[i]
  BY <1>1
<1>11. WellColumn(file, mapped, c, batches, k)
  BY <1>3, ColumnStays
<1> HIDE DEF longer, more, e
<1>12. ASSUME NEW i \in 1..n + 1
       PROVE  WellBuffer(file, mapped, c.ty, longer[i], Column(more[i].rows, k), more[i].acked)
  <2>1. CASE i = n + 1
    <3>1. WellBuffer(file, mapped, c.ty, desc, Column(PlainRows(rt, rows), k), batch.acked)
      BY <1>3, NewBuffer DEF desc
    <3> QED BY <1>9, <1>10, <2>1, <3>1
  <2>2. CASE i # n + 1
    <3>1. i \in 1..n
      BY <1>1, <2>2
    <3>2. WellBuffer(file, mapped, c.ty, ds[i], Column(batches[i].rows, k), batches[i].acked)
      BY <1>11, <3>1 DEF WellColumn, n, ds
    <3> QED BY <1>9, <1>10, <3>1, <3>2
  <2> QED BY <2>1, <2>2
<1>13. WellColumn(file, mapped, e, more, k)
  BY <1>6, <1>7, <1>8, <1>9, <1>12 DEF WellColumn
<1> QED BY <1>13 DEF e, more, desc

----------------------------------------------------------------------------
(* A new batch                                                             *)

\* A buffer that is not in the file yet, or that was laid where it is said to be.
LEMMA NewKept ==
  ASSUME NEW d, d.file \in Seq(Bytes), NEW rt \in DOMAIN Rows, NEW rows \in Seq(Rows[rt]),
         rows # <<>>,
         NEW k \in 1..Len(rt), NEW file,
         file = d.file \/ Has(file, SectorAt(d, rt, rows, k).offset, BodyOf(rt, rows, k))
  PROVE  Keeps(file, SectorAt(d, rt, rows, k), BodyOf(rt, rows, k))
<1> DEFINE sector == SectorAt(d, rt, rows, k)
           body == BodyOf(rt, rows, k)
<1>1. /\ sector.offset \in Nat /\ sector.size \in Nat /\ sector.size = Len(body)
      /\ sector.offset % Word = 0 /\ Len(d.file) < sector.offset
  BY SectorBehind
<1>2. file = d.file \/ Has(file, sector.offset, body)
  OBVIOUS
<1>3. Len(d.file) \in Nat
  OBVIOUS
<1> SUFFICES Keeps(file, sector, body)
  OBVIOUS
<1> HIDE DEF sector, body
<1>4. CASE file = d.file
  <2>1. \A o, n, l \in Nat : l < o => ~ (o + n <= l)
    OBVIOUS
  <2>2. ~ (EndOf(sector) <= Len(file))
    BY <1>1, <1>3, <1>4, <2>1 DEF EndOf
  <2> QED BY <1>1, <2>2 DEF Keeps
<1>5. CASE Has(file, sector.offset, body)
  <2>1. EndOf(sector) = sector.offset + Len(body)
    BY <1>1 DEF EndOf
  <2>2. SubSeq(file, sector.offset + 1, EndOf(sector)) = body
    BY <1>5, <2>1 DEF Has
  <2> QED BY <1>1, <2>2 DEF Keeps
<1> QED BY <1>2, <1>4, <1>5

\* The buffers of a data segment, where they are said to be.
Placing(d, rt, rows, file, mapped, acked) ==
  \A k \in 1..Len(rt) :
    /\ Keeps(file, SectorAt(d, rt, rows, k), BodyOf(rt, rows, k))
    /\ acked => EndOf(SectorAt(d, rt, rows, k)) <= mapped

\* No buffer of these columns is beyond the end of the file.
Inside(d, columns) ==
  \A k \in DOMAIN columns : \A b \in columns[k].buffers : ~ (EndOf(b.buffer) > Len(d.file))

\* A schema that goes on with other columns, of the same types.
GoesOn(schema, new) ==
  /\ new.at = schema.at
  /\ \A rt \in DOMAIN Rows : Typed(schema.columns, rt) => Typed(new.columns, rt)

\* What a schema is once some rows are registered.
Registered(d, schema, rt, rows) == [schema EXCEPT !.columns = Register(d, schema.columns, rt, rows)]

\* The schema of a data segment: each column gets its buffer.
LEMMA SchemaGrows ==
  ASSUME NEW d, WellFile(d), NEW rt \in DOMAIN Rows, NEW rows \in Seq(Rows[rt]),
         rows # <<>>,
         NEW schema, NEW batches, WellSchema(d.file, d.mapped, schema, batches),
         Typed(schema.columns, rt),
         Inside(d, schema.columns), NEW file, Grown(d.file, file), NEW mapped \in Nat,
         d.mapped <= mapped,
         NEW acked \in BOOLEAN, NEW interned \in BOOLEAN,
         Placing(d, rt, rows, file, mapped, acked)
  PROVE  /\ WellSchema(file, mapped, Registered(d, schema, rt, rows),
                       Append(batches, Batch(PlainRows(rt, rows), acked, interned)))
         /\ GoesOn(schema, Registered(d, schema, rt, rows))
<1> DEFINE old == schema.columns
           columns == Register(d, old, rt, rows)
           new == [schema EXCEPT !.columns = columns]
           batch == Batch(PlainRows(rt, rows), acked, interned)
           more == Append(batches, batch)
           n == Len(rt)
<1>1. PICK type \in DOMAIN Rows :
        /\ Typed(old, type) /\ batches \in Seq(Batches(Len(type)))
        /\ \A k \in 1..Len(type) : WellColumn(d.file, d.mapped, old[k], batches, k)
  BY DEF WellSchema
<1>2. n \in Nat /\ Len(type) = n
  <2>1. 1..n = 1..Len(type)
    BY <1>1 DEF Typed
  <2>2. n \in Nat /\ n >= 1 /\ Len(type) \in Nat /\ Len(type) >= 1
    BY RowType
  <2>3. \A a, b \in Nat : a >= 1 /\ b >= 1 /\ 1..a = 1..b => a = b
    <3> TAKE a, b \in Nat
    <3> HAVE a >= 1 /\ b >= 1 /\ 1..a = 1..b
    <3>1. a \in 1..b /\ b \in 1..a
      OBVIOUS
    <3> QED BY <3>1
  <2> QED BY <2>1, <2>2, <2>3
<1>3. schema = [at |-> schema.at, columns |-> old] /\ schema.at \in Nat
  BY DEF WellSchema
<1>4. new = [at |-> schema.at, columns |-> columns] /\ new.at = schema.at /\ new.columns = columns
  <2> HIDE DEF columns
  <2> QED BY <1>3
<1>5. d.file \in Seq(Bytes)
  BY DEF WellFile
<1>6. DOMAIN old = 1..n /\ \A k \in 1..n : IsColumn(old[k]) /\ old[k].ty = Unfold[TypeAt(rt, k)]
  BY DEF Typed, TypeAt
<1>7. /\ DOMAIN columns = 1..n
      /\ \A k \in 1..n : columns[k] = [old[k] EXCEPT !.buffers = Insert(old[k].buffers, DescAt(d, rt, rows, k))]
  <2> HIDE DEF old
  <2> QED BY <1>5, <1>6, RegisterIs
<1>8. /\ batch \in Batches(n) /\ batch.rows = PlainRows(rt, rows) /\ batch.acked = acked
  BY BatchType
<1>9. more \in Seq(Batches(n))
  <2> DEFINE S == Batches(n)
  <2> HIDE DEF S, batch
  <2> QED BY <1>1, <1>2, <1>8 DEF S
<1>10. ASSUME NEW k \in 1..n
       PROVE  WellColumn(file, mapped, columns[k], more, k)
  <2> DEFINE c == old[k]
             S == Batches(n)
  <2>1. WellColumn(d.file, d.mapped, c, batches, k) /\ batches \in Seq(S)
    BY <1>1, <1>2
  <2>2. IsColumn(c) /\ c.ty = Unfold[TypeAt(rt, k)] /\ \A b \in c.buffers : ~ (EndOf(b.buffer) > Len(d.file))
    BY <1>6 DEF Inside
  <2>3. columns[k] = [c EXCEPT !.buffers = Insert(c.buffers, DescAt(d, rt, rows, k))]
    BY <1>7
  <2>4. batch \in S /\ batch.rows = PlainRows(rt, rows)
        /\ Keeps(file, SectorAt(d, rt, rows, k), BodyOf(rt, rows, k))
        /\ (batch.acked => EndOf(SectorAt(d, rt, rows, k)) <= mapped)
    BY <1>8 DEF Placing
  <2> HIDE DEF c, S, columns, batch
  <2>5. WellColumn(file, mapped, [c EXCEPT !.buffers = Insert(c.buffers, DescAt(d, rt, rows, k))], Append(batches, batch), k)
    BY <2>1, <2>2, <2>4, ColumnGrows
  <2> QED BY <2>3, <2>5
<1>11. ASSUME NEW other \in DOMAIN Rows, Typed(old, other)
       PROVE  Typed(columns, other)
  <2>1. Len(other) = n
    <3>1. 1..n = 1..Len(other)
      BY <1>6, <1>11 DEF Typed
    <3>2. n \in Nat /\ n >= 1 /\ Len(other) \in Nat /\ Len(other) >= 1
      BY RowType
    <3>3. n \in 1..n /\ Len(other) \in 1..Len(other)
      BY <3>2
    <3>4. n \in 1..Len(other) /\ Len(other) \in 1..n
      BY <3>1, <3>3
    <3> QED BY <3>2, <3>4
  <2>2. \A k \in 1..n : IsColumn(columns[k]) /\ columns[k].field = old[k].field /\ columns[k].ty = old[k].ty
    <3> HIDE DEF columns, old
    <3> QED BY <1>6, <1>7 DEF IsColumn
  <2> QED BY <1>7, <1>11, <2>1, <2>2 DEF Typed
<1>12. Typed(old, rt)
  OBVIOUS
<1>13. WellSchema(file, mapped, new, more)
  <2> HIDE DEF new, columns, more, old
  <2> QED BY <1>3, <1>4, <1>9, <1>10, <1>11, <1>12 DEF WellSchema
<1> QED BY <1>4, <1>11, <1>13 DEF GoesOn, Registered

----------------------------------------------------------------------------
(* Schemas with a new batch                                                *)

\* The batch that a write leaves behind, unless it failed on the segment.
Batched(s, name, rows, acked, interned) ==
  [s EXCEPT ![name] = Append(@, Batch(rows, acked, interned))]

\* The schemas, of which one has some rows more.
Extended(d, name, rt, rows) == [d.schemas EXCEPT ![name] = Registered(d, d.schemas[name], rt, rows)]

\* The schemas once the segment is registered, or in the file.
LEMMA SchemasGrow ==
  ASSUME NEW d, NEW s, WellFile(d), WellSchemas(d, s), ~ Phantom(d),
         NEW name \in DOMAIN d.schemas, NEW rt \in DOMAIN Rows,
         Typed(d.schemas[name].columns, rt),
         NEW rows \in Seq(Rows[rt]), rows # <<>>, NEW acked \in BOOLEAN,
         NEW interned \in BOOLEAN,
         NEW e, Grown(d.file, e.file), e.mapped \in Nat, d.mapped <= e.mapped,
         e.schemas = Extended(d, name, rt, rows),
         Placing(d, rt, rows, e.file, e.mapped, acked)
  PROVE  WellSchemas(e, Batched(s, name, PlainRows(rt, rows), acked, interned)) /\ SchemasKept(d, e)
<1> DEFINE schema == d.schemas[name]
           new == Registered(d, schema, rt, rows)
           batch == Batch(PlainRows(rt, rows), acked, interned)
           more == Batched(s, name, PlainRows(rt, rows), acked, interned)
<1>1. name \in Names /\ WellSchema(d.file, d.mapped, schema, s[name])
      /\ s = [n \in Names |-> s[n]] /\ DOMAIN d.schemas \subseteq Names
      /\ d.schemas = [n \in DOMAIN d.schemas |-> d.schemas[n]]
  BY DEF WellSchemas
<1>2. /\ e.schemas = [n \in DOMAIN d.schemas |-> e.schemas[n]] /\ DOMAIN e.schemas = DOMAIN d.schemas
      /\ e.schemas[name] = new
      /\ \A n \in DOMAIN d.schemas : n # name => e.schemas[n] = d.schemas[n]
  <2> HIDE DEF new
  <2>1. e.schemas = [d.schemas EXCEPT ![name] = new]
    BY DEF new, Extended, schema
  <2> QED BY <1>1, <2>1
<1>3. /\ more = [n \in Names |-> more[n]] /\ more[name] = Append(s[name], batch)
      /\ \A n \in Names : n # name => more[n] = s[n]
  <2> HIDE DEF batch
  <2>1. more = [s EXCEPT ![name] = Append(s[name], batch)]
    BY DEF Batched, batch
  <2> HIDE DEF more
  <2> QED BY <1>1, <2>1
<1>4. Inside(d, schema.columns)
  BY NothingBeyond DEF Inside
<1>5. Typed(schema.columns, rt)
  OBVIOUS
<1> HIDE DEF schema
<1>6. WellSchema(e.file, e.mapped, new, Append(s[name], batch)) /\ GoesOn(schema, new)
  BY <1>1, <1>4, <1>5, SchemaGrows, SMTT(30)
<1> HIDE DEF new, batch, more
<1>7. \A n \in DOMAIN d.schemas : WellSchema(e.file, e.mapped, d.schemas[n], s[n])
  BY SchemasStay
<1>8. \A n \in Names : IF n \in DOMAIN e.schemas
                       THEN WellSchema(e.file, e.mapped, e.schemas[n], more[n]) ELSE more[n] = <<>>
  <2> TAKE n \in Names
  <2>1. CASE n = name
    BY <1>1, <1>2, <1>3, <1>6, <2>1
  <2>2. CASE n # name /\ n \in DOMAIN d.schemas
    BY <1>2, <1>3, <1>7, <2>2
  <2>3. CASE n # name /\ n \notin DOMAIN d.schemas
    BY <1>2, <1>3, <2>3 DEF WellSchemas
  <2> QED BY <2>1, <2>2, <2>3
<1>9. WellSchemas(e, more)
  BY <1>1, <1>2, <1>3, <1>8 DEF WellSchemas
<1>10. SchemasKept(d, e)
  <2> SUFFICES ASSUME NEW n \in DOMAIN d.schemas
               PROVE  /\ n \in DOMAIN e.schemas /\ e.schemas[n].at = d.schemas[n].at
                      /\ \A other \in DOMAIN Rows : Typed(d.schemas[n].columns, other)
                                                      => Typed(e.schemas[n].columns, other)
    BY DEF SchemasKept
  <2>1. CASE n = name
    BY <1>2, <1>6, <2>1 DEF schema, GoesOn
  <2>2. CASE n # name
    BY <1>2, <2>2
  <2> QED BY <2>1, <2>2
<1> QED BY <1>9, <1>10 DEF more

\* A dataset of which the file, the segments, the map and the bins are known.
LEMMA SoundFrom ==
  ASSUME NEW d, NEW s, Sound(d, s), NEW e, IsDb(e), e.faults \in 0..MaxFaults,
         e.file = d.file, e.segments = d.segments, e.mapped = d.mapped
  PROVE  WellFile(e) /\ WellSegments(e) /\ Grown(d.file, e.file) /\ e.mapped \in Nat /\ d.mapped <= e.mapped
<1>1. d.file \in Seq(Bytes) /\ d.mapped \in 0..Len(d.file) /\ Len(d.file) \in Nat
  BY DEF Sound, WellFile
<1>2. WellFile(e)
  BY <1>1 DEF WellFile
<1>3. \A n : After(e, n) = After(d, n)
  BY DEF After
<1>4. WellSegments(e)
  BY <1>3 DEF Sound, WellSegments
<1>5. Grown(d.file, e.file)
  BY <1>1, GrownSame
<1>6. d.mapped \in Nat /\ d.mapped <= d.mapped
  BY <1>1
<1> QED BY <1>2, <1>4, <1>5, <1>6

\* A sector of what was laid ends before the file does.
LEMMA HasEnds ==
  ASSUME NEW file, NEW sector, NEW bytes, Has(file, sector.offset, bytes),
         sector.size = Len(bytes)
  PROVE  EndOf(sector) <= Len(file)
BY DEF Has, EndOf

----------------------------------------------------------------------------
(* Dataset::write                                                          *)

\* A row type's data segment, laid: what DataLaid says, by name.
DataInFile(d, rt, rows, longer) ==
  /\ \E size \in Nat :
       /\ longer \in Seq(Bytes)
       /\ Len(longer) = Len(d.file) + SegmentHeader + size + Word
       /\ Has(longer, Len(d.file) + 1, ToBytes(size, Word))
  /\ \A k \in 1..Len(rt) : Has(longer, SectorAt(d, rt, rows, k).offset, BodyOf(rt, rows, k))

\* A data segment is made of bytes.
LEMMA DataSegmentType ==
  ASSUME NEW d, d.file \in Seq(Bytes), NEW rt \in DOMAIN Rows, NEW rows \in Seq(Rows[rt]),
         rows # <<>>,
         NEW schema \in Nat
  PROVE  DataSegment(d, rt, rows, schema) \in Seq(Bytes)
<1> DEFINE body == ColumnBuffers(rt, rows)
           parts == PartsOf(rt, rows)
           meta == ToBytes(schema, Word) \o ToBytes(Len(rows), Word)
           pad == BodyAt(End(d), DataHeader) - (End(d) + DataHeader)
           size == 2 * Word + pad + Len(body)
           head == <<2>> \o ToBytes(size, Word) \o meta
           gap == BodyAt(End(d), Len(head)) - (End(d) + Len(head))
<1>1. DataSegment(d, rt, rows, schema) = head \o Zeros(gap) \o body \o Checksum
  BY Zenon DEF DataSegment, Segment
<1>2. body = Concat(parts)
  BY Zenon DEF ColumnBuffers, PartsOf, BodyOf, TypeAt, ItemsAt
<1>3. parts \in Seq(Seq(Bytes)) /\ Len(parts) = Len(rt)
  BY PartsType
<1> HIDE DEF body, parts
<1>4. body \in Seq(Bytes) /\ Len(body) \in Nat
  <2>1. body \in Seq(Bytes)
    BY <1>2, <1>3, PrefixType
  <2> QED BY <2>1
<1>5. meta \in Seq(Bytes)
  <2> DEFINE a == ToBytes(schema, Word)
             b == ToBytes(Len(rows), Word)
  <2>1. Len(rows) \in Nat
    OBVIOUS
  <2>2. a \in Seq(Bytes) /\ b \in Seq(Bytes)
    BY <2>1, WordBytes, Zenon
  <2> HIDE DEF a, b
  <2>3. a \o b \in Seq(Bytes)
    BY <2>2, ConcatProperties
  <2> QED BY <2>3 DEF meta, a, b
<1>6. pad \in Nat /\ DataHeader \in Nat /\ Word \in Nat
  BY HeadersType, PlaceType
<1> HIDE DEF meta, pad
<1>7. size \in Nat /\ 2 \in 1..3
  BY <1>4, <1>6
<1> HIDE DEF size
<1>8. head \in Seq(Bytes) /\ Len(head) = 1 + Word + Len(meta)
  BY <1>5, <1>7, HeadType
<1> HIDE DEF head
<1>9. Len(head) \in Nat
  BY <1>8
<1>10. gap \in Nat
  BY <1>9, PlaceType
<1> HIDE DEF gap
<1>11. Zeros(gap) \in Seq(Bytes) /\ Checksum \in Seq(Bytes)
  BY <1>10, ZerosType, ChecksumType
<1> QED BY <1>1, <1>4, <1>8, <1>11, ConcatProperties

\* Dataset::write of an accumulator, and what get_or_insert writes.
LEMMA WriteCallSound ==
  ASSUME NEW d, NEW s, Sound(d, s), NEW name \in DOMAIN d.schemas,
         NEW rt \in DOMAIN Rows, Typed(d.schemas[name].columns, rt),
         NEW rows \in Seq(Rows[rt]), rows # <<>>, NEW interned \in BOOLEAN,
         NEW schema \in Nat,
         NEW o \in WriteCall(d, name, rt, rows, schema)
  PROVE  /\ Sound(o.db, IF o.result = "segment" THEN s
                        ELSE Batched(s, name, PlainRows(rt, rows), o.result = "ok", interned))
         /\ Onward(d, o.db)
<1> DEFINE e == o.db
           seg == DataSegment(d, rt, rows, schema)
           more == Extended(d, name, rt, rows)
           r == [d EXCEPT !.schemas = more]
           acked == o.result = "ok"
           t == Batched(s, name, PlainRows(rt, rows), acked, interned)
<1>1. WellFile(d) /\ WellSegments(d) /\ WellBins(d) /\ WellSchemas(d, s)
  BY DEF Sound
<1>2. IsDb(d) /\ d.file \in Seq(Bytes) /\ d.mapped \in 0..Len(d.file) /\ d.faults \in 0..MaxFaults
      /\ Len(d.file) \in Nat
  BY <1>1 DEF WellFile
<1>3. o \in Commit(d, 2, seg, r)
  <2>1. [d EXCEPT !.schemas[name].columns = Register(d, @, rt, rows)] = r
    BY <1>2 DEF IsDb, Registered, Extended
  <2> HIDE DEF r, seg
  <2> QED BY <2>1 DEF WriteCall, seg
<1> HIDE DEF more
<1>4. /\ IsDb(r) /\ r.file = d.file /\ r.segments = d.segments /\ r.mapped = d.mapped
      /\ r.schemas = more /\ r.bins = d.bins /\ r.faults = d.faults
  BY <1>2, PutSchemas
<1> HIDE DEF r, e, seg
<1>5. ~ Phantom(d) /\ IsDb(e) /\ e.faults \in 0..MaxFaults /\ Committed(d, 2, seg, r, o)
  BY <1>2, <1>3, <1>4, CommitIs DEF e
<1>6. acked \in BOOLEAN
  BY Zenon
<1>7. ASSUME Grown(d.file, e.file), e.mapped \in Nat, d.mapped <= e.mapped, e.schemas = more,
             e.bins = d.bins, Placing(d, rt, rows, e.file, e.mapped, acked)
      PROVE  WellSchemas(e, t) /\ WellBins(e) /\ Onward(d, e)
  <2> HIDE DEF acked
  <2>1. WellSchemas(e, t) /\ SchemasKept(d, e)
    <3>1. ~ Phantom(d) /\ acked \in BOOLEAN /\ WellFile(d) /\ WellSchemas(d, s)
      BY <1>1, <1>5, <1>6
    <3> QED BY <1>7, <3>1, SchemasGrow DEF more
  <2>2. WellBins(e)
    BY <1>1, <1>5, <1>7, BinsStay
  <2> QED BY <1>7, <2>1, <2>2 DEF Onward, Grown
<1>8. CASE o.result = "segment" /\ SameListing(d, e)
  <2>1. Sound(e, s)
    BY <1>5, <1>8, SoundAlike
  <2>2. Onward(d, e)
    BY <1>2, <1>8, OnwardSame DEF SameListing
  <2> QED BY <1>8, <2>1, <2>2 DEF e
<1>9. CASE o.result = "manifest" /\ SameListing(r, e)
  <2>1. e.file = d.file /\ e.segments = d.segments /\ e.mapped = d.mapped /\ e.schemas = more
        /\ e.bins = d.bins
    BY <1>4, <1>9 DEF SameListing
  <2>2. WellFile(e) /\ WellSegments(e) /\ Grown(d.file, e.file) /\ e.mapped \in Nat /\ d.mapped <= e.mapped
    BY <1>5, <2>1, SoundFrom
  <2>3. acked = FALSE
    BY <1>9
  <2>4. Placing(d, rt, rows, e.file, e.mapped, acked)
    <3>1. \A k \in 1..Len(rt) : Keeps(e.file, SectorAt(d, rt, rows, k), BodyOf(rt, rows, k))
      BY <1>2, <2>1, NewKept
    <3> HIDE DEF acked
    <3> QED BY <2>3, <3>1 DEF Placing
  <2>5. WellSchemas(e, t) /\ WellBins(e) /\ Onward(d, e)
    BY <1>7, <2>1, <2>2, <2>4
  <2>6. Sound(e, t)
    BY <2>2, <2>5 DEF Sound
  <2> QED BY <1>9, <2>5, <2>6 DEF e
<1>10. CASE /\ o.result \in {"ok", "header"}
            /\ e.file = d.file \o seg
            /\ e.segments = Append(d.segments, [variant |-> 2, at |-> Len(d.file)])
            /\ e.mapped = IF o.result = "ok" /\ 2 # 1 THEN Len(d.file \o seg) ELSE d.mapped
            /\ e.schemas = r.schemas /\ e.bins = r.bins
  <2>1. DataInFile(d, rt, rows, e.file)
    <3>1. DataInFile(d, rt, rows, d.file \o DataSegment(d, rt, rows, schema))
      BY <1>2, DataLaid, Zenon DEF DataInFile
    <3> QED BY <1>10, <3>1 DEF seg
  <2>2. PICK size \in Nat :
          /\ e.file \in Seq(Bytes)
          /\ Len(e.file) = Len(d.file) + SegmentHeader + size + Word
          /\ Has(e.file, Len(d.file) + 1, ToBytes(size, Word))
    BY <2>1 DEF DataInFile
  <2>3. seg \in Seq(Bytes)
    BY <1>2, DataSegmentType DEF seg
  <2>4. e.mapped \in {d.mapped, Len(e.file)} /\ (acked => e.mapped = Len(e.file))
    BY <1>10
  <2>5. WellFile(e) /\ Grown(d.file, e.file)
        /\ d.mapped \in Nat /\ e.mapped \in Nat /\ d.mapped <= e.mapped
    BY <1>1, <1>5, <1>10, <2>3, <2>4, FileLonger
  <2>6. Placing(d, rt, rows, e.file, e.mapped, acked)
    <3> SUFFICES ASSUME NEW k \in 1..Len(rt)
                 PROVE  /\ Keeps(e.file, SectorAt(d, rt, rows, k), BodyOf(rt, rows, k))
                        /\ acked => EndOf(SectorAt(d, rt, rows, k)) <= e.mapped
      BY DEF Placing
    <3>1. Has(e.file, SectorAt(d, rt, rows, k).offset, BodyOf(rt, rows, k))
      BY <2>1 DEF DataInFile
    <3>2. Keeps(e.file, SectorAt(d, rt, rows, k), BodyOf(rt, rows, k))
      BY <1>2, <3>1, NewKept
    <3>3. SectorAt(d, rt, rows, k).size = Len(BodyOf(rt, rows, k))
      BY <1>2, SectorBehind
    <3>4. EndOf(SectorAt(d, rt, rows, k)) <= Len(e.file)
      BY <3>1, <3>3, HasEnds
    <3> QED BY <2>4, <3>2, <3>4
  <2>7. WellSchemas(e, t) /\ WellBins(e) /\ Onward(d, e)
    BY <1>4, <1>7, <1>10, <2>5, <2>6
  <2>8. WellSegments(e)
    <3> DEFINE segment == [variant |-> 2, at |-> Len(d.file)]
    <3>1. segment.variant = 2 /\ segment.at = Len(d.file) /\ 2 # 3 /\ 2 \in 1..3
      OBVIOUS
    <3>2. Len(e.file) = Len(d.file) + SegmentHeader + size + 0 + Word
      BY <1>2, <2>2, HeadersType
    <3> HIDE DEF segment
    <3>3. Leads(e.file, segment, Len(e.file))
      BY <2>2, <3>1, <3>2 DEF Leads
    <3> QED BY <1>1, <1>10, <2>5, <3>1, <3>3, SegmentsExtend DEF segment
  <2>9. Sound(e, t)
    BY <2>5, <2>7, <2>8 DEF Sound
  <2> QED BY <1>10, <2>7, <2>9 DEF e
<1> QED BY <1>5, <1>8, <1>9, <1>10 DEF Committed, e

\* Dataset::write of a payload.
LEMMA BinSound ==
  ASSUME NEW d, NEW s, Sound(d, s), NEW i \in DOMAIN Payloads, i \notin DOMAIN d.bins,
         NEW o \in Commit(d, 3, BinSegment(d, Payloads[i]),
                          [d EXCEPT !.bins = Put(@, i, [offset |-> PlaceOf(d, SegmentHeader),
                                                        size |-> Len(Payloads[i])])])
  PROVE  Sound(o.db, s) /\ Onward(d, o.db)
<1> DEFINE e == o.db
           payload == Payloads[i]
           seg == BinSegment(d, payload)
           sector == [offset |-> PlaceOf(d, SegmentHeader), size |-> Len(payload)]
           more == Put(d.bins, i, sector)
           r == [d EXCEPT !.bins = more]
<1>1. WellFile(d) /\ WellSegments(d) /\ WellBins(d) /\ WellSchemas(d, s)
  BY DEF Sound
<1>2. IsDb(d) /\ d.file \in Seq(Bytes) /\ d.mapped \in 0..Len(d.file) /\ d.faults \in 0..MaxFaults
      /\ Len(d.file) \in Nat
  BY <1>1 DEF WellFile
<1>3. payload \in Seq(Bytes)
  <2> DEFINE S == Seq(Bytes)
  <2>1. Payloads \in Seq(S)
    BY PayloadsAssumption
  <2> HIDE DEF S
  <2>2. Payloads[i] \in S
    BY <2>1
  <2> QED BY <2>2 DEF S
<1>4. o \in Commit(d, 3, seg, r)
  OBVIOUS
<1> HIDE DEF payload, seg, more
<1>5. /\ IsDb(r) /\ r.file = d.file /\ r.segments = d.segments /\ r.mapped = d.mapped
      /\ r.schemas = d.schemas /\ r.bins = more /\ r.faults = d.faults
  BY <1>2, PutBins
<1> HIDE DEF r, e
<1>6. ~ Phantom(d) /\ IsDb(e) /\ e.faults \in 0..MaxFaults /\ Committed(d, 3, seg, r, o)
  BY <1>2, <1>4, <1>5, CommitIs DEF e
<1>7. /\ sector.offset = PlaceOf(d, SegmentHeader) /\ sector.offset \in Nat /\ sector.offset % Word = 0
      /\ sector.size = Len(payload) /\ Len(payload) \in Nat /\ Len(d.file) < sector.offset
  <2> DEFINE l == Len(d.file)
             p == Pad(End(d) + SegmentHeader)
             place == PlaceOf(d, SegmentHeader)
  <2>1. l \in Nat /\ p \in Nat /\ place = l + SegmentHeader + p /\ SegmentHeader \in Nat
        /\ SegmentHeader = 1 + Word /\ Word \in Nat /\ place % Word = 0 /\ place \in Nat
    BY <1>2, HeadersType, PlaceType
  <2>2. sector.offset = place /\ sector.size = Len(payload) /\ Len(payload) \in Nat
    BY <1>3
  <2> HIDE DEF l, p, place, sector
  <2>3. l < place
    BY <2>1
  <2> QED BY <2>1, <2>2, <2>3 DEF l, place
<1> HIDE DEF sector
<1>8. ASSUME Grown(d.file, e.file), e.mapped \in Nat, d.mapped <= e.mapped, e.schemas = d.schemas,
             e.bins = more, Keeps(e.file, sector, payload)
      PROVE  WellSchemas(e, s) /\ WellBins(e) /\ Onward(d, e)
  <2>1. \A n \in DOMAIN d.schemas : n \in Names /\ WellSchema(e.file, e.mapped, d.schemas[n], s[n])
    BY <1>1, <1>6, <1>8, SchemasStay
  <2>2. WellSchemas(e, s)
    BY <1>1, <1>8, <2>1 DEF WellSchemas
  <2>3. \A j \in DOMAIN d.bins : j \in DOMAIN Payloads /\ Keeps(e.file, d.bins[j], Payloads[j])
    <3> DEFINE x == [d EXCEPT !.file = e.file]
    <3>1. x.file = e.file /\ x.bins = d.bins
      BY <1>2 DEF IsDb
    <3> HIDE DEF x
    <3>2. WellBins(x)
      BY <1>1, <1>6, <1>8, <3>1, BinsStay
    <3> QED BY <3>1, <3>2 DEF WellBins
  <2>4. DOMAIN more = DOMAIN d.bins \cup {i} /\ more[i] = sector
        /\ \A j \in DOMAIN d.bins : j # i => more[j] = d.bins[j]
    BY DEF more, Put
  <2>5. WellBins(e)
    BY <1>8, <2>3, <2>4 DEF WellBins, payload
  <2>6. SchemasKept(d, e)
    BY <1>8 DEF SchemasKept
  <2> QED BY <1>8, <2>2, <2>5, <2>6 DEF Onward, Grown
<1>9. CASE o.result = "segment" /\ SameListing(d, e)
  <2>1. Sound(e, s)
    BY <1>6, <1>9, SoundAlike
  <2>2. Onward(d, e)
    BY <1>2, <1>9, OnwardSame DEF SameListing
  <2> QED BY <2>1, <2>2 DEF e
<1>10. CASE o.result = "manifest" /\ SameListing(r, e)
  <2>1. e.file = d.file /\ e.segments = d.segments /\ e.mapped = d.mapped /\ e.schemas = d.schemas
        /\ e.bins = more
    BY <1>5, <1>10 DEF SameListing
  <2>2. WellFile(e) /\ WellSegments(e) /\ Grown(d.file, e.file) /\ e.mapped \in Nat /\ d.mapped <= e.mapped
    BY <1>6, <2>1, SoundFrom
  <2>3. Keeps(e.file, sector, payload)
    <3>1. \A a, n, l \in Nat : l < a => ~ (a + n <= l)
      OBVIOUS
    <3>2. ~ (EndOf(sector) <= Len(d.file))
      BY <1>2, <1>7, <3>1 DEF EndOf
    <3> QED BY <1>7, <2>1, <3>2 DEF Keeps
  <2>4. WellSchemas(e, s) /\ WellBins(e) /\ Onward(d, e)
    BY <1>8, <2>1, <2>2, <2>3
  <2> QED BY <2>2, <2>4 DEF Sound, e
<1>11. CASE /\ o.result \in {"ok", "header"}
            /\ e.file = d.file \o seg
            /\ e.segments = Append(d.segments, [variant |-> 3, at |-> Len(d.file)])
            /\ e.mapped = IF o.result = "ok" /\ 3 # 1 THEN Len(d.file \o seg) ELSE d.mapped
            /\ e.schemas = r.schemas /\ e.bins = r.bins
  <2> DEFINE size == Len(payload)
  <2>1. /\ e.file \in Seq(Bytes) /\ size \in Nat
        /\ Len(e.file) = Len(d.file) + SegmentHeader + size
                           + Pad(HEADER + Len(d.file) + SegmentHeader) + Word
        /\ Has(e.file, Len(d.file) + 1, ToBytes(size, Word))
        /\ Has(e.file, PlaceOf(d, SegmentHeader), payload)
    BY <1>2, <1>3, <1>11, BinLaid DEF seg
  <2>2. seg \in Seq(Bytes)
    <3> DEFINE head == <<3>> \o ToBytes(Len(payload), Word) \o <<>>
               gap == BodyAt(End(d), Len(head)) - (End(d) + Len(head))
    <3>1. seg = head \o Zeros(gap) \o payload \o Checksum
      BY Zenon DEF seg, BinSegment, Segment
    <3>2. head \in Seq(Bytes) /\ Len(head) \in Nat
      <4>1. 3 \in 1..3 /\ <<>> \in Seq(Bytes)
        OBVIOUS
      <4>2. head \in Seq(Bytes)
        BY <1>7, <4>1, HeadType
      <4> HIDE DEF head
      <4> QED BY <4>2
    <3> HIDE DEF head
    <3>3. gap \in Nat
      BY <1>2, <3>2, PlaceType
    <3> HIDE DEF gap
    <3>4. Zeros(gap) \in Seq(Bytes) /\ Checksum \in Seq(Bytes)
      BY <3>3, ZerosType, ChecksumType
    <3> QED BY <1>3, <3>1, <3>2, <3>4, ConcatProperties
  <2> HIDE DEF size
  <2>3. e.mapped \in {d.mapped, Len(e.file)}
    BY <1>11
  <2>4. WellFile(e) /\ Grown(d.file, e.file)
        /\ d.mapped \in Nat /\ e.mapped \in Nat /\ d.mapped <= e.mapped
    BY <1>1, <1>6, <1>11, <2>2, <2>3, FileLonger
  <2>5. Keeps(e.file, sector, payload)
    <3>1. EndOf(sector) = sector.offset + Len(payload)
      BY <1>7 DEF EndOf
    <3> QED BY <1>7, <2>1, <3>1 DEF Keeps, Has
  <2>6. WellSchemas(e, s) /\ WellBins(e) /\ Onward(d, e)
    BY <1>5, <1>8, <1>11, <2>4, <2>5
  <2>7. WellSegments(e)
    <3> DEFINE segment == [variant |-> 3, at |-> Len(d.file)]
    <3>1. segment.variant = 3 /\ segment.at = Len(d.file) /\ 3 \in 1..3
      OBVIOUS
    <3> HIDE DEF segment
    <3>2. Leads(e.file, segment, Len(e.file))
      BY <2>1, <3>1 DEF Leads
    <3> QED BY <1>1, <1>11, <2>4, <3>1, <3>2, SegmentsExtend DEF segment
  <2> QED BY <2>4, <2>6, <2>7 DEF Sound, e
<1> QED BY <1>6, <1>9, <1>10, <1>11 DEF Committed, e

----------------------------------------------------------------------------
(* Buffers read back                                                       *)

\* Offsets and sizes of a dataset are counted with a u64.
FitsIn(d) == Bit * End(d) < MaxU64

\* What fits is counted right.
LEMMA FitsWell ==
  ASSUME NEW d, d.file \in Seq(Bytes), FitsIn(d)
  PROVE  \A n \in Nat : n <= Len(d.file) => n \in 0..Limit(Word) - 1 /\ Bit * n < MaxU64
<1>1. Bit \in Nat \ {0} /\ HEADER \in Nat /\ End(d) \in Nat /\ End(d) = HEADER + Len(d.file)
  <2>1. 0 \in Nat
    OBVIOUS
  <2> QED BY <2>1, Widths, PlaceType
<1>2. Limit(Word) \in Nat /\ MaxU64 = Limit(Word) - 1
  BY HeadersType, LimitType DEF MaxU64
<1>3. Len(d.file) \in Nat /\ Bit * End(d) < MaxU64
  BY DEF FitsIn
<1>4. \A b \in Nat \ {0} : \A n, l, h, m \in Nat : n <= l /\ b * (h + l) < m => b * n < m /\ n < m
  <2> TAKE b \in Nat \ {0}
  <2> TAKE n, l, h, m \in Nat
  <2> HAVE n <= l /\ b * (h + l) < m
  <2>1. b * n <= b * (h + l)
    <3>1. PICK x \in Nat : h + l = n + x
      <4>1. (h + l) - n \in Nat
        OBVIOUS
      <4> QED BY <4>1
    <3>2. b * (n + x) = b * n + b * x /\ b * n \in Nat /\ b * x \in Nat
      OBVIOUS
    <3> QED BY <3>1, <3>2
  <2>2. b * n \in Nat /\ n <= b * n /\ b * (h + l) \in Nat
    OBVIOUS
  <2> QED BY <2>1, <2>2
<1>5. Bit * End(d) \in Nat
  BY <1>1
<1>6. MaxU64 \in Nat
  BY <1>2, <1>3, <1>5
<1> TAKE n \in Nat
<1> HAVE n <= Len(d.file)
<1>7. Bit * n < MaxU64 /\ n < MaxU64
  <2> DEFINE l == Len(d.file)
             e == End(d)
  <2>1. n <= l /\ l \in Nat /\ Bit * (HEADER + l) < MaxU64
    BY <1>1, <1>3
  <2> HIDE DEF l
  <2> QED BY <1>1, <1>4, <1>6, <2>1
<1> QED BY <1>2, <1>7

\* A buffer that holds what it should reads back, if it is mapped.
LEMMA BufferReads ==
  ASSUME NEW d, WellFile(d), FitsIn(d), NEW ty, NEW desc, NEW column,
         NEW acked \in BOOLEAN,
         WellBuffer(d.file, d.mapped, ty, desc, column, acked)
  PROVE  LET read == ReadBuffer(d, ty, desc)
         IN  /\ read.ok => read.it = column /\ ~ Hollow[ty][column]
             /\ acked /\ ~ Hollow[ty][column] => read.ok
<1> DEFINE P(t, items) ==
        /\ items # <<>> /\ Unfold[t] = ty /\ Flat(t, items) = column
        /\ desc = Describe(t, items, desc.buffer)
        /\ Keeps(d.file, desc.buffer, Body(t, items))
        /\ acked => EndOf(desc.buffer) <= d.mapped
           end == EndOf(desc.buffer)
           read == ReadBuffer(d, ty, desc)
<1>1. PICK t \in Types : \E items \in Seq(ItemsOf[t]) : P(t, items)
  BY DEF WellBuffer
<1>2. PICK items \in Seq(ItemsOf[t]) : P(t, items)
  BY <1>1
<1>3. d.file \in Seq(Bytes) /\ d.mapped \in 0..Len(d.file) /\ Len(d.file) \in Nat
  BY DEF WellFile
<1> DEFINE body == Body(t, items)
<1>4. body \in Seq(Bytes) /\ Len(body) \in Nat
  <2>1. body \in Seq(Bytes)
    BY <1>2, BodyType
  <2> QED BY <2>1
<1> HIDE DEF body
<1>5. desc.buffer.offset \in Nat /\ desc.buffer.size = Len(body) /\ end = desc.buffer.offset + Len(body)
      /\ end \in Nat /\ (end <= Len(d.file) => SubSeq(d.file, desc.buffer.offset + 1, end) = body)
  BY <1>2, <1>4 DEF Keeps, EndOf, body
<1> HIDE DEF end
<1>6. CASE end > d.mapped
  <2>1. read = Err
    BY <1>6 DEF ReadBuffer, end
  <2>2. read.ok = FALSE
    BY <2>1 DEF Err
  <2>3. ~ (end <= d.mapped)
    BY <1>3, <1>5, <1>6
  <2>4. ~ acked
    BY <1>2, <2>3 DEF end
  <2> HIDE DEF read
  <2> QED BY <2>2, <2>4 DEF read
<1>7. CASE ~ (end > d.mapped)
  <2>1. end <= Len(d.file) /\ Len(body) <= Len(d.file)
    <3> DEFINE l == Len(d.file)
               n == Len(body)
    <3>1. l \in Nat /\ n \in Nat /\ d.mapped \in 0..l /\ end = desc.buffer.offset + n
      BY <1>3, <1>4, <1>5
    <3> HIDE DEF l, n
    <3>2. end <= l /\ n <= l
      BY <1>5, <1>7, <3>1
    <3> QED BY <3>2 DEF l, n
  <2>2. read = Read(ty, desc, body)
    BY <1>5, <1>7, <2>1 DEF ReadBuffer, end
  <2>3. Bit * Len(body) < MaxU64
    BY <1>3, <1>4, <2>1, FitsWell
  <2>4. Described(desc, items)
    BY <1>2, DescribeIs
  <2>5. ReadsBack(t, items, desc)
    BY <1>2, <2>3, <2>4, BufferReadsBack DEF body
  <2> HIDE DEF read
  <2>6. IF Hollow[ty][column] THEN ~ read.ok ELSE read.ok /\ read.it = column
    BY <1>2, <2>2, <2>5 DEF ReadsBack, body
  <2> QED BY <2>6 DEF read
<1> QED BY <1>6, <1>7

\* Every buffer of a sound dataset, and the batch that it is of.
LEMMA EachBuffer ==
  ASSUME NEW d, NEW s, Sound(d, s), NEW name \in DOMAIN d.schemas
  PROVE  /\ name \in Names
         /\ \E rt \in DOMAIN Rows :
              /\ Typed(d.schemas[name].columns, rt) /\ s[name] \in Seq(Batches(Len(rt)))
              /\ Len(s[name]) \in Nat /\ DOMAIN s[name] = 1..Len(s[name])
              /\ DOMAIN d.schemas[name].columns = 1..Len(rt)
              /\ \A k \in 1..Len(rt) :
                   LET c == d.schemas[name].columns[k]
                   IN  /\ Ordered(InOrder(c.buffers), c.buffers, Len(s[name]))
                       /\ \A i \in 1..Len(s[name]) :
                            WellBuffer(d.file, d.mapped, c.ty, InOrder(c.buffers)[i],
                                       Column(s[name][i].rows, k), s[name][i].acked)
<1>1. name \in Names /\ WellSchema(d.file, d.mapped, d.schemas[name], s[name])
  BY DEF Sound, WellSchemas
<1>2. PICK rt \in DOMAIN Rows :
        /\ Typed(d.schemas[name].columns, rt)
        /\ s[name] \in Seq(Batches(Len(rt)))
        /\ \A k \in 1..Len(rt) : WellColumn(d.file, d.mapped, d.schemas[name].columns[k], s[name], k)
  BY <1>1 DEF WellSchema
<1>3. Len(s[name]) \in Nat /\ DOMAIN s[name] = 1..Len(s[name])
  BY <1>2
<1>4. DOMAIN d.schemas[name].columns = 1..Len(rt)
  BY <1>2 DEF Typed
<1>5. \A k \in 1..Len(rt) :
         LET c == d.schemas[name].columns[k]
         IN  /\ Ordered(InOrder(c.buffers), c.buffers, Len(s[name]))
             /\ \A i \in 1..Len(s[name]) :
                  WellBuffer(d.file, d.mapped, c.ty, InOrder(c.buffers)[i],
                             Column(s[name][i].rows, k), s[name][i].acked)
  BY <1>2 DEF WellColumn
<1> QED BY <1>1, <1>2, <1>3, <1>4, <1>5

\* A batch has rows and says whether it was acknowledged.
LEMMA BatchFields ==
  ASSUME NEW n, NEW batches \in Seq(Batches(n)), NEW i \in DOMAIN batches
  PROVE  /\ batches[i].rows \in Seq([1..n -> Item]) /\ batches[i].acked \in BOOLEAN
         /\ batches[i].interned \in BOOLEAN
<1> DEFINE S == Batches(n)
           W == Seq([1..n -> Item])
<1>1. batches[i] \in S
  <2>1. batches \in Seq(S)
    OBVIOUS
  <2> HIDE DEF S
  <2> QED BY <2>1
<1>2. S = [rows : W, acked : BOOLEAN, interned : BOOLEAN]
  BY DEF Batches
<1> HIDE DEF S, W
<1>3. batches[i].rows \in W /\ batches[i].acked \in BOOLEAN /\ batches[i].interned \in BOOLEAN
  BY <1>1, <1>2
<1> QED BY <1>3 DEF W

----------------------------------------------------------------------------
(* Types, alignment, lockstep and the walk                                 *)

\* Each of the Dataset properties, of a dataset and its batches.
TypedIn(d, s, a) ==
  /\ d.mapped \in 0..Len(d.file)
  /\ d.file \in Seq(0..Byte - 1)
  /\ DOMAIN d.schemas \subseteq Names
  /\ d.faults \in 0..MaxFaults
  /\ \A name \in Names :
       /\ s[name] # <<>> \/ a[name].open => name \in DOMAIN d.schemas
       /\ \A c \in IF name \in DOMAIN d.schemas THEN ToSet(d.schemas[name].columns) ELSE {} :
            Cardinality(c.buffers) = Len(s[name])

\* In a sound dataset the columns have a buffer for each batch, and only known
\* schemas have rows.
LEMMA SoundTyped ==
  ASSUME NEW d, NEW s, NEW a, Sound(d, s), WellAccs(d, a)
  PROVE  TypedIn(d, s, a)
<1>1. d.mapped \in 0..Len(d.file) /\ d.file \in Seq(0..Byte - 1) /\ d.faults \in 0..MaxFaults
  BY DEF Sound, WellFile, Bytes
<1>2. DOMAIN d.schemas \subseteq Names
  BY DEF Sound, WellSchemas
<1>3. ASSUME NEW name \in Names, s[name] # <<>> \/ a[name].open
      PROVE  name \in DOMAIN d.schemas
  <2>1. name \notin DOMAIN d.schemas => s[name] = <<>>
    BY DEF Sound, WellSchemas
  <2>2. CASE a[name].open
    <3>1. a[name] # NoAcc
      BY <2>2 DEF NoAcc
    <3>2. WellAcc(d, name, a[name])
      BY DEF WellAccs
    <3> QED BY <3>1, <3>2 DEF WellAcc
  <2> QED BY <1>3, <2>1, <2>2
<1>4. ASSUME NEW name \in DOMAIN d.schemas, NEW c \in ToSet(d.schemas[name].columns)
      PROVE  Cardinality(c.buffers) = Len(s[name])
  <2>1. PICK k \in DOMAIN d.schemas[name].columns : c = d.schemas[name].columns[k]
    BY <1>4 DEF ToSet
  <2>2. Len(s[name]) \in Nat /\ Ordered(InOrder(c.buffers), c.buffers, Len(s[name]))
    BY <2>1, EachBuffer
  <2> QED BY <2>2, OrderedIs
<1> QED BY <1>1, <1>2, <1>3, <1>4 DEF TypedIn

AlignedIn(d) == \A sector \in Sectors(d) : sector.offset % Word = 0

\* In a sound dataset every sector begins at a word.
LEMMA SoundAligned ==
  ASSUME NEW d, NEW s, Sound(d, s)
  PROVE  AlignedIn(d)
<1>1. ASSUME NEW i \in DOMAIN d.bins
      PROVE  d.bins[i].offset % Word = 0
  BY DEF Sound, WellBins, Keeps
<1>2. ASSUME NEW name \in DOMAIN d.schemas, NEW k \in DOMAIN d.schemas[name].columns,
             NEW b \in d.schemas[name].columns[k].buffers
      PROVE  b.buffer.offset % Word = 0
  <2> DEFINE c == d.schemas[name].columns[k]
             n == Len(s[name])
  <2>1. /\ Ordered(InOrder(c.buffers), c.buffers, n)
        /\ \A i \in 1..n : WellBuffer(d.file, d.mapped, c.ty, InOrder(c.buffers)[i],
                                      Column(s[name][i].rows, k), s[name][i].acked)
    BY EachBuffer
  <2>2. PICK i \in 1..n : b = InOrder(c.buffers)[i]
    BY <2>1 DEF Ordered
  <2> QED BY <2>1, <2>2 DEF WellBuffer, Keeps
<1> SUFFICES ASSUME NEW sector \in Sectors(d) PROVE sector.offset % Word = 0
  BY DEF AlignedIn
<1> DEFINE bins == {d.bins[i] : i \in DOMAIN d.bins}
           all == UNION {ToSet(d.schemas[name].columns) : name \in DOMAIN d.schemas}
           others == UNION {{b.buffer : b \in c.buffers} : c \in all}
<1>3. sector \in bins \/ sector \in others
  <2>1. Sectors(d) = others \cup bins
    BY DEF Sectors
  <2> HIDE DEF others, bins
  <2> QED BY <2>1
<1>4. CASE sector \in bins
  BY <1>1, <1>4
<1>5. CASE sector \in others
  <2>1. PICK c \in all : sector \in {b.buffer : b \in c.buffers}
    <3> HIDE DEF all
    <3> QED BY <1>5
  <2>2. PICK name \in DOMAIN d.schemas : c \in ToSet(d.schemas[name].columns)
    BY <2>1
  <2>3. PICK k \in DOMAIN d.schemas[name].columns : c = d.schemas[name].columns[k]
    BY <2>2 DEF ToSet
  <2>4. PICK b \in c.buffers : sector = b.buffer
    BY <2>1
  <2> QED BY <1>2, <2>3, <2>4
<1> QED BY <1>3, <1>4, <1>5

InStep(d) ==
  \A name \in DOMAIN d.schemas :
    LET columns == d.schemas[name].columns
    IN  \A k \in DOMAIN columns :
          /\ Cardinality(columns[k].buffers) = Cardinality(columns[1].buffers)
          /\ \A i \in DOMAIN InOrder(columns[k].buffers) :
               InOrder(columns[k].buffers)[i].count = InOrder(columns[1].buffers)[i].count

\* A buffer has as many items as its batch has rows.
LEMMA BufferCount ==
  ASSUME NEW file, NEW mapped, NEW ty, NEW desc, NEW S, NEW rows \in Seq(S), NEW k,
         NEW acked,
         WellBuffer(file, mapped, ty, desc, Column(rows, k), acked)
  PROVE  desc.count = Len(rows) /\ Len(rows) \in Nat \ {0}
<1> DEFINE column == Column(rows, k)
           P(t, items) == items # <<>> /\ Flat(t, items) = column /\ desc = Describe(t, items, desc.buffer)
<1>1. PICK t \in Types : \E items \in Seq(ItemsOf[t]) : P(t, items)
  BY DEF WellBuffer
<1>2. PICK items \in Seq(ItemsOf[t]) : P(t, items)
  BY <1>1
<1>3. desc.count = Len(items)
  BY <1>2, DescribeIs
<1>4. Len(items) \in Nat \ {0} /\ DOMAIN items = 1..Len(items)
  BY <1>2
<1>5. DOMAIN Flat(t, items) = 1..Len(items)
  BY <1>4 DEF Flat
<1>6. DOMAIN column = 1..Len(rows) /\ Len(rows) \in Nat
  BY DEF Column
<1> HIDE DEF column
<1>7. 1..Len(items) = 1..Len(rows)
  BY <1>2, <1>5, <1>6
<1>8. \A a, b \in Nat : a # 0 /\ 1..a = 1..b => a = b
  <2> TAKE a, b \in Nat
  <2> HAVE a # 0 /\ 1..a = 1..b
  <2>1. a \in 1..b
    OBVIOUS
  <2>2. b \in 1..a
    BY <2>1
  <2> QED BY <2>1, <2>2
<1>9. Len(items) = Len(rows)
  BY <1>4, <1>6, <1>7, <1>8
<1> QED BY <1>3, <1>4, <1>9

\* In a sound dataset the columns of a schema have buffers of the same counts.
LEMMA SoundInStep ==
  ASSUME NEW d, NEW s, Sound(d, s)
  PROVE  InStep(d)
<1> SUFFICES ASSUME NEW name \in DOMAIN d.schemas,
                    NEW k \in DOMAIN d.schemas[name].columns
             PROVE  LET columns == d.schemas[name].columns
                    IN  /\ Cardinality(columns[k].buffers) = Cardinality(columns[1].buffers)
                        /\ \A i \in DOMAIN InOrder(columns[k].buffers) :
                             InOrder(columns[k].buffers)[i].count = InOrder(columns[1].buffers)[i].count
  BY Zenon DEF InStep
<1> DEFINE columns == d.schemas[name].columns
           n == Len(s[name])
           List(j) == InOrder(columns[j].buffers)
<1>1. PICK rt \in DOMAIN Rows :
        /\ s[name] \in Seq(Batches(Len(rt))) /\ n \in Nat /\ DOMAIN s[name] = 1..n
        /\ DOMAIN columns = 1..Len(rt)
        /\ \A j \in 1..Len(rt) :
             /\ Ordered(List(j), columns[j].buffers, n)
             /\ \A i \in 1..n : WellBuffer(d.file, d.mapped, columns[j].ty, List(j)[i],
                                           Column(s[name][i].rows, j), s[name][i].acked)
  BY EachBuffer
<1>2. 1 \in 1..Len(rt) /\ k \in 1..Len(rt)
  BY <1>1, RowType
<1> HIDE DEF columns, n, List
<1>3. \A j \in 1..Len(rt) : \A i \in 1..n : List(j)[i].count = Len(s[name][i].rows)
  <2> TAKE j \in 1..Len(rt)
  <2> TAKE i \in 1..n
  <2> DEFINE W == [1..Len(rt) -> Item]
  <2>1. s[name][i].rows \in Seq(W)
    BY <1>1, BatchFields
  <2>2. WellBuffer(d.file, d.mapped, columns[j].ty, List(j)[i], Column(s[name][i].rows, j), s[name][i].acked)
    BY <1>1
  <2> HIDE DEF W
  <2> QED BY <2>1, <2>2, BufferCount
<1>4. \A j \in 1..Len(rt) : Cardinality(columns[j].buffers) = n /\ DOMAIN List(j) = 1..n
  <2> TAKE j \in 1..Len(rt)
  <2>1. Ordered(List(j), columns[j].buffers, n)
    BY <1>1
  <2>2. List(j) = [i \in 1..n |-> List(j)[i]]
    BY <2>1 DEF Ordered
  <2> QED BY <1>1, <2>1, <2>2, OrderedIs
<1> QED BY <1>2, <1>3, <1>4 DEF columns, List

WalksIn(d) ==
  \A n \in DOMAIN d.segments :
    LET seg == d.segments[n]
        next == IF n = Len(d.segments) THEN Len(d.file) ELSE d.segments[n + 1].at
        size == FromBytes(SubSeq(d.file, seg.at + 2, seg.at + 1 + Word))
        padded == Pad(HEADER + seg.at + SegmentHeader) > 0
    IN  (seg.at + SegmentHeader + size + Word = next) <=> ~ (seg.variant = 3 /\ padded)

\* In a sound dataset each header leads to the next segment, but for a padded
\* payload's.
LEMMA SoundWalks ==
  ASSUME NEW d, NEW s, Sound(d, s), FitsIn(d)
  PROVE  WalksIn(d)
<1> SUFFICES ASSUME NEW n \in DOMAIN d.segments
             PROVE  LET seg == d.segments[n]
                        next == IF n = Len(d.segments) THEN Len(d.file) ELSE d.segments[n + 1].at
                        size == FromBytes(SubSeq(d.file, seg.at + 2, seg.at + 1 + Word))
                        padded == Pad(HEADER + seg.at + SegmentHeader) > 0
                    IN  (seg.at + SegmentHeader + size + Word = next) <=> ~ (seg.variant = 3 /\ padded)
  BY Zenon DEF WalksIn
<1> DEFINE seg == d.segments[n]
           next == After(d, n)
           pad == Pad(HEADER + seg.at + SegmentHeader)
           bytes == SubSeq(d.file, seg.at + 2, seg.at + 1 + Word)
<1>1. d.file \in Seq(Bytes) /\ d.segments \in Seq([variant : 1..3, at : Nat]) /\ n \in 1..Len(d.segments)
      /\ next \in 0..Len(d.file) /\ Leads(d.file, seg, next)
  BY DEF Sound, WellFile, WellSegments
<1>2. seg.at \in Nat /\ seg.variant \in 1..3
  <2> DEFINE R == [variant : 1..3, at : Nat]
  <2>1. d.segments \in Seq(R)
    BY <1>1
  <2> HIDE DEF R
  <2>2. d.segments[n] \in R
    BY <2>1
  <2> QED BY <2>2 DEF R
<1>3. SegmentHeader \in Nat /\ Word \in Nat /\ HEADER \in Nat
  <2>1. 0 \in Nat
    OBVIOUS
  <2> QED BY <1>1, <2>1, HeadersType, PlaceType
<1>4. pad \in Nat
  <2>1. \A x, y, z \in Nat : x + y + z \in Nat
    OBVIOUS
  <2>2. HEADER + seg.at + SegmentHeader \in Nat
    BY <1>2, <1>3, <2>1
  <2> QED BY <2>2, PadType
<1>5. PICK size \in Nat :
        /\ Has(d.file, seg.at + 1, ToBytes(size, Word))
        /\ next = seg.at + SegmentHeader + size + (IF seg.variant = 3 THEN pad ELSE 0) + Word
  BY <1>1 DEF Leads
<1> HIDE DEF pad, seg, next
<1>6. size <= Len(d.file)
  <2> DEFINE l == Len(d.file)
             q == IF seg.variant = 3 THEN pad ELSE 0
  <2>1. l \in Nat /\ next \in 0..l /\ q \in Nat /\ next = seg.at + SegmentHeader + size + q + Word
    BY <1>1, <1>4, <1>5
  <2> HIDE DEF l, q
  <2>2. size <= l
    BY <1>2, <1>3, <2>1
  <2> QED BY <2>2 DEF l
<1>7. size \in 0..Limit(Word) - 1
  BY <1>1, <1>6, FitsWell
<1>8. bytes = ToBytes(size, Word)
  <2>1. Len(ToBytes(size, Word)) = Word
    BY WordBytes
  <2>2. (seg.at + 1) + 1 = seg.at + 2 /\ (seg.at + 1) + Word = seg.at + 1 + Word
    BY <1>2, <1>3
  <2> QED BY <1>5, <2>1, <2>2 DEF Has
<1>9. FromBytes(bytes) = size
  <2>1. FromBytes(ToBytes(size, Word)) = size
    BY <1>3, <1>7, FromBytesSmall
  <2> QED BY <1>8, <2>1, Zenon
<1> HIDE DEF bytes
<1>10. (seg.at + SegmentHeader + size + Word = next) <=> ~ (seg.variant = 3 /\ pad > 0)
  BY <1>2, <1>3, <1>4, <1>5
<1> QED BY <1>9, <1>10, Zenon DEF seg, next, pad, bytes, After

----------------------------------------------------------------------------
(* Rows, payloads and statistics                                           *)

\* A buffer of a dataset.
PlacedIn(d, s, c) ==
  /\ c.name \in DOMAIN d.schemas /\ c.k \in DOMAIN d.schemas[c.name].columns /\ c.i \in DOMAIN s[c.name]

DescIn(d, c) == InOrder(d.schemas[c.name].columns[c.k].buffers)[c.i]
TypeIn(d, c) == d.schemas[c.name].columns[c.k].ty
ColumnIn(s, c) == Column(s[c.name][c.i].rows, c.k)

\* In a sound dataset each buffer is a good one.
LEMMA PlacedWell ==
  ASSUME NEW d, NEW s, Sound(d, s), NEW c, PlacedIn(d, s, c)
  PROVE  /\ s[c.name][c.i].acked \in BOOLEAN
         /\ WellBuffer(d.file, d.mapped, TypeIn(d, c), DescIn(d, c), ColumnIn(s, c), s[c.name][c.i].acked)
<1> DEFINE name == c.name
           k == c.k
           i == c.i
<1>1. name \in DOMAIN d.schemas /\ k \in DOMAIN d.schemas[name].columns /\ i \in DOMAIN s[name]
  BY DEF PlacedIn
<1> HIDE DEF name, k, i
<1>2. PICK rt \in DOMAIN Rows :
        /\ s[name] \in Seq(Batches(Len(rt)))
        /\ DOMAIN s[name] = 1..Len(s[name])
        /\ DOMAIN d.schemas[name].columns = 1..Len(rt)
        /\ \A j \in 1..Len(rt) : \A n \in 1..Len(s[name]) :
             WellBuffer(d.file, d.mapped, d.schemas[name].columns[j].ty,
                        InOrder(d.schemas[name].columns[j].buffers)[n],
                        Column(s[name][n].rows, j), s[name][n].acked)
  BY <1>1, EachBuffer
<1>3. s[name][i].acked \in BOOLEAN
  BY <1>1, <1>2, BatchFields
<1>4. WellBuffer(d.file, d.mapped, d.schemas[name].columns[k].ty,
                 InOrder(d.schemas[name].columns[k].buffers)[i],
                 Column(s[name][i].rows, k), s[name][i].acked)
  BY <1>1, <1>2
<1> QED BY <1>3, <1>4 DEF DescIn, TypeIn, ColumnIn, name, k, i

\* What is read of a buffer.
ReadsWell(d, s, c) ==
  LET read == ReadBuffer(d, TypeIn(d, c), DescIn(d, c))
      hollow == Hollow[TypeIn(d, c)][ColumnIn(s, c)]
  IN  /\ read.ok => read.it = ColumnIn(s, c) /\ ~ hollow
      /\ s[c.name][c.i].acked /\ ~ hollow => read.ok

\* In a sound dataset each buffer reads back as the column that was written.
LEMMA SoundReads ==
  ASSUME NEW d, NEW s, Sound(d, s), FitsIn(d), NEW c, PlacedIn(d, s, c)
  PROVE  ReadsWell(d, s, c)
<1> DEFINE acked == s[c.name][c.i].acked
           ty == TypeIn(d, c)
           desc == DescIn(d, c)
           column == ColumnIn(s, c)
<1>1. WellFile(d)
  BY DEF Sound
<1>2. acked \in BOOLEAN /\ WellBuffer(d.file, d.mapped, ty, desc, column, acked)
  BY PlacedWell
<1> HIDE DEF acked, ty, desc, column
<1>3. LET read == ReadBuffer(d, ty, desc)
      IN  /\ read.ok => read.it = column /\ ~ Hollow[ty][column]
          /\ acked /\ ~ Hollow[ty][column] => read.ok
  BY <1>1, <1>2, BufferReads
<1> QED BY <1>3, Zenon DEF ReadsWell, acked, ty, desc, column

BinsRead(d) ==
  \A i \in DOMAIN d.bins :
    EndOf(d.bins[i]) <= d.mapped =>
      SubSeq(d.file, d.bins[i].offset + 1, EndOf(d.bins[i])) = Payloads[i]

\* In a sound dataset each payload in the map reads back.
LEMMA SoundBins ==
  ASSUME NEW d, NEW s, Sound(d, s)
  PROVE  BinsRead(d)
<1> SUFFICES ASSUME NEW i \in DOMAIN d.bins, EndOf(d.bins[i]) <= d.mapped
             PROVE  SubSeq(d.file, d.bins[i].offset + 1, EndOf(d.bins[i])) = Payloads[i]
  BY DEF BinsRead
<1> DEFINE sector == d.bins[i]
           l == Len(d.file)
           end == EndOf(sector)
<1>1. i \in DOMAIN Payloads /\ Keeps(d.file, sector, Payloads[i])
  BY DEF Sound, WellBins
<1>2. Payloads[i] \in Seq(Bytes)
  <2> DEFINE S == Seq(Bytes)
  <2>1. Payloads \in Seq(S)
    BY PayloadsAssumption
  <2> HIDE DEF S
  <2>2. Payloads[i] \in S
    BY <1>1, <2>1
  <2> QED BY <2>2 DEF S
<1>3. d.mapped \in 0..l /\ l \in Nat
  BY DEF Sound, WellFile
<1>4. end \in Nat
  <2>1. Len(Payloads[i]) \in Nat
    BY <1>2
  <2>2. sector.offset \in Nat /\ sector.size \in Nat
    BY <1>1, <2>1 DEF Keeps
  <2> QED BY <2>2 DEF EndOf
<1>5. end <= d.mapped
  OBVIOUS
<1> HIDE DEF sector, end, l
<1>6. end <= l
  BY <1>3, <1>4, <1>5
<1> QED BY <1>1, <1>6 DEF Keeps, end, l, sector

\* The statistics of a buffer.
StatisticsIn(d, s, c) ==
  LET desc == DescIn(d, c)
      type == Bare(TypeIn(d, c))
      items == IF TypeIn(d, c).type = "Option" THEN ToSet(Values(TypeIn(d, c), ColumnIn(s, c)))
               ELSE ToSet(ColumnIn(s, c))
      Value(sector) == Decoded(type, SubSeq(d.file, sector.offset + 1, EndOf(sector)))
  IN  desc.kind = "Detailed" /\ EndOf(desc.buffer) <= Len(d.file) =>
        /\ {Value(desc.min), Value(desc.max)} \subseteq items
        /\ \A item \in items : ~ LessThan(type, item, Value(desc.min))
                               /\ ~ LessThan(type, Value(desc.max), item)

\* In a sound dataset the statistics are items of their buffer, the least and
\* the greatest.
LEMMA SoundStatistics ==
  ASSUME NEW d, NEW s, Sound(d, s), NEW c, PlacedIn(d, s, c)
  PROVE  StatisticsIn(d, s, c)
<1> DEFINE desc == DescIn(d, c)
           ty == TypeIn(d, c)
           type == Bare(ty)
           column == ColumnIn(s, c)
           items == IF ty.type = "Option" THEN ToSet(Values(ty, column)) ELSE ToSet(column)
           Value(sector) == Decoded(type, SubSeq(d.file, sector.offset + 1, EndOf(sector)))
           acked == s[c.name][c.i].acked
<1> SUFFICES ASSUME desc.kind = "Detailed", EndOf(desc.buffer) <= Len(d.file)
             PROVE  /\ {Value(desc.min), Value(desc.max)} \subseteq items
                    /\ \A item \in items : ~ LessThan(type, item, Value(desc.min))
                                           /\ ~ LessThan(type, Value(desc.max), item)
  BY Zenon DEF StatisticsIn
<1>1. WellBuffer(d.file, d.mapped, ty, desc, column, acked) /\ d.file \in Seq(Bytes)
  BY PlacedWell DEF Sound, WellFile
<1> DEFINE P(t, its) ==
        /\ its # <<>> /\ Unfold[t] = ty /\ Flat(t, its) = column
        /\ desc = Describe(t, its, desc.buffer)
        /\ Keeps(d.file, desc.buffer, Body(t, its))
<1>2. PICK t \in Types : \E its \in Seq(ItemsOf[t]) : P(t, its)
  <2> HIDE DEF desc, ty, column, acked
  <2> QED BY <1>1 DEF WellBuffer
<1>3. PICK its \in Seq(ItemsOf[t]) : P(t, its)
  BY <1>2
<1>4. desc.kind = "Detailed" /\ EndOf(desc.buffer) <= Len(d.file)
  OBVIOUS
<1> HIDE DEF desc, ty, column, type, items
<1>5. Measures(d.file, ty, column, desc.min, desc.max)
  <2> DEFINE sector == desc.buffer
  <2>1. sector.offset \in Nat /\ sector.size = Len(Body(t, its))
        /\ EndOf(sector) = sector.offset + sector.size
        /\ SubSeq(d.file, sector.offset + 1, EndOf(sector)) = Body(t, its)
    BY <1>3, <1>4 DEF Keeps, EndOf
  <2>2. desc = Describe(t, its, sector)
    BY <1>3
  <2> HIDE DEF sector
  <2>3. Measures(d.file, Unfold[t], Flat(t, its), Describe(t, its, sector).min, Describe(t, its, sector).max)
    BY <1>1, <1>3, <1>4, <2>1, <2>2, StatisticsAreItems DEF sector
  <2> QED BY <1>3, <2>2, <2>3
<1>6. \A x : Holds(ty, column, x) <=> x \in items
  <2>2. \A list : Len(list) \in Nat /\ DOMAIN list = 1..Len(list) =>
          \A x : Among(x, list) <=> x \in ToSet(list)
    BY DEF Among, ToSet
  <2>3. Len(column) \in Nat /\ DOMAIN column = 1..Len(column)
        /\ column \in Seq(ItemsOf[ty]) /\ ty \in Recorded
    <3>1. Unfold[t] \in Recorded /\ Flat(t, its) \in Seq(ItemsOf[Unfold[t]])
      BY <1>3, FlatType
    <3>2. column \in Seq(ItemsOf[ty]) /\ ty \in Recorded
      BY <1>3, <3>1
    <3> QED BY <3>2
  <2>4. CASE ty.type = "Option"
    <3>1. Values(ty, column) \in Seq(ItemsOf[ty.subtype])
      <4>1. column \in Seq(Seq(ItemsOf[ty.subtype]))
        BY <2>3, <2>4, OptionItems
      <4>2. Concat(column) \in Seq(ItemsOf[ty.subtype])
        BY <4>1, PrefixType
      <4> QED BY <2>4, <4>2 DEF Values
    <3>2. Len(Values(ty, column)) \in Nat /\ DOMAIN Values(ty, column) = 1..Len(Values(ty, column))
      BY <3>1
    <3> QED BY <2>2, <2>4, <3>2 DEF Holds, items
  <2>5. CASE ty.type # "Option"
    BY <2>2, <2>3, <2>5 DEF Holds, items
  <2> QED BY <2>4, <2>5
<1>7. \A sector : Value(sector) = At(d.file, type, sector)
  BY DEF At, EndOf
<1>8. /\ Holds(ty, column, At(d.file, type, desc.min)) /\ Holds(ty, column, At(d.file, type, desc.max))
      /\ \A x : Holds(ty, column, x) => /\ ~ LessThan(type, x, At(d.file, type, desc.min))
                                        /\ ~ LessThan(type, At(d.file, type, desc.max), x)
  BY <1>5, Zenon DEF Measures, type
<1> HIDE DEF Value
<1> QED BY <1>6, <1>7, <1>8

----------------------------------------------------------------------------
(* Rows of several batches                                                 *)

\* The fold that defines Count, as a function by recursion.
LEMMA CountEquation ==
  ASSUME NEW columns, Len(InOrder(columns[1].buffers)) \in Nat
  PROVE  \E f : /\ Count(columns) = f[Len(InOrder(columns[1].buffers))]
                /\ f[0] = 0
                /\ \A n \in 1..Len(InOrder(columns[1].buffers)) : f[n] = f[n - 1] + InOrder(columns[1].buffers)[n].count
<1> DEFINE Eq(m, g) ==
      g = [n \in 0..m |-> IF n = 0 THEN 0 ELSE g[n - 1] + InOrder(columns[1].buffers)[n].count]
           T == {m \in Nat : \E g : Eq(m, g)}
<1>1. 0 \in T
  <2>1. Eq(0, [n \in 0..0 |-> 0])
    OBVIOUS
  <2>2. \E g : Eq(0, g)
    <3> HIDE DEF Eq
    <3> QED BY <2>1
  <2> HIDE DEF Eq
  <2> QED BY <2>2
<1>2. ASSUME NEW m \in Nat, m \in T PROVE m + 1 \in T
  <2>1. PICK g : Eq(m, g)
    BY <1>2
  <2> DEFINE h == [n \in 0..(m + 1) |-> IF n = 0 THEN 0 ELSE g[n - 1] + InOrder(columns[1].buffers)[n].count]
  <2>2. \A n \in 0..m : h[n] = g[n]
    BY <2>1
  <2>3. \A n \in 0..(m + 1) : n # 0 => h[n - 1] = g[n - 1]
    <3> TAKE n \in 0..(m + 1)
    <3> HAVE n # 0
    <3>1. n - 1 \in 0..m
      OBVIOUS
    <3> HIDE DEF h
    <3> QED BY <2>2, <3>1
  <2>4. \A n \in 0..(m + 1) : h[n] = IF n = 0 THEN 0 ELSE h[n - 1] + InOrder(columns[1].buffers)[n].count
    <3> TAKE n \in 0..(m + 1)
    <3>1. h[n] = IF n = 0 THEN 0 ELSE g[n - 1] + InOrder(columns[1].buffers)[n].count
      OBVIOUS
    <3> HIDE DEF h
    <3> QED BY <3>1, <2>3
  <2>5. h = [n \in 0..(m + 1) |-> h[n]]
    OBVIOUS
  <2>6. Eq(m + 1, h)
    <3> HIDE DEF h
    <3> QED BY <2>4, <2>5
  <2> HIDE DEF h, Eq
  <2>7. \E k : Eq(m + 1, k)
    BY <2>6
  <2> QED BY <2>7
<1>3. Nat \subseteq T
  <2> HIDE DEF T
  <2> QED BY <1>1, <1>2, Induction
<1> DEFINE f == CHOOSE g : Eq(Len(InOrder(columns[1].buffers)), g)
<1>4. Eq(Len(InOrder(columns[1].buffers)), f)
  <2> HIDE DEF Eq
  <2> QED BY <1>3
<1>5. Count(columns) = f[Len(InOrder(columns[1].buffers))]
  BY DEF Count
<1> HIDE DEF f
<1>6. f[0] = 0
  BY <1>4
<1>7. \A n \in 1..Len(InOrder(columns[1].buffers)) : f[n] = f[n - 1] + InOrder(columns[1].buffers)[n].count
  BY <1>4
<1> QED BY <1>5, <1>6, <1>7

\* One part more flattens to one part more.
LEMMA ConcatAppend ==
  ASSUME NEW S, NEW parts \in Seq(Seq(S)), NEW part \in Seq(S)
  PROVE  Concat(Append(parts, part)) = Concat(parts) \o part
<1> DEFINE Q == Seq(S)
           more == Append(parts, part)
           n == Len(parts)
<1>1. parts \in Seq(Q) /\ part \in Q
  OBVIOUS
<1> HIDE DEF Q
<1>2. more \in Seq(Q) /\ n \in Nat /\ Len(more) = n + 1 /\ more[n + 1] = part /\ SubSeq(more, 1, n) = parts
  BY <1>1
<1> HIDE DEF more, n
<1>3. n + 1 \in 1..Len(more) /\ (n + 1) - 1 = n
  BY <1>2
<1>4. Prefix(more, n + 1) = Prefix(more, n) \o part
  BY <1>2, <1>3, PrefixNext
<1>5. SubSeq(more, 1, n + 1) = more
  BY <1>2
<1> QED BY <1>2, <1>4, <1>5 DEF Prefix, more

\* The rows of each batch.
RowParts(batches) == [b \in DOMAIN batches |-> batches[b].rows]

\* The rows of some batches are rows.
LEMMA RowPartsType ==
  ASSUME NEW N, NEW batches \in Seq(Batches(N))
  PROVE  LET W == [1..N -> Item]
         IN  /\ RowParts(batches) \in Seq(Seq(W)) /\ Len(RowParts(batches)) = Len(batches)
             /\ \A i \in 1..Len(batches) : RowParts(batches)[i] = batches[i].rows
             /\ RowsOf(batches) = Concat(RowParts(batches)) /\ RowsOf(batches) \in Seq(W)
<1> DEFINE W == [1..N -> Item]
           Q == Seq(W)
           parts == RowParts(batches)
<1>1. Len(batches) \in Nat /\ DOMAIN batches = 1..Len(batches)
  OBVIOUS
<1>2. \A i \in 1..Len(batches) : batches[i].rows \in Q
  BY <1>1, BatchFields
<1>3. parts = [i \in 1..Len(batches) |-> batches[i].rows]
  BY <1>1 DEF RowParts
<1> HIDE DEF W, Q, parts
<1>4. parts \in Seq(Q) /\ Len(parts) = Len(batches) /\ \A i \in 1..Len(batches) : parts[i] = batches[i].rows
  BY <1>1, <1>2, <1>3
<1>5. parts \in Seq(Seq(W))
  BY <1>4 DEF Q
<1>6. RowsOf(batches) = Concat(parts)
  BY DEF RowsOf, RowParts, parts
<1>7. Concat(parts) \in Seq(W)
  BY <1>5, PrefixType
<1> QED BY <1>4, <1>5, <1>6, <1>7 DEF W, parts

\* One batch more adds its rows at the end.
LEMMA RowsOfAppend ==
  ASSUME NEW N, NEW batches \in Seq(Batches(N)), NEW batch \in Batches(N)
  PROVE  RowsOf(Append(batches, batch)) = RowsOf(batches) \o batch.rows
<1> DEFINE W == [1..N -> Item]
           S == Batches(N)
           more == Append(batches, batch)
           n == Len(batches)
           parts == RowParts(batches)
<1>1. batches \in Seq(S) /\ batch \in S
  OBVIOUS
<1>2. batch.rows \in Seq(W)
  BY DEF Batches
<1>3. parts \in Seq(Seq(W)) /\ Len(parts) = n /\ (\A i \in 1..n : parts[i] = batches[i].rows)
      /\ RowsOf(batches) = Concat(parts)
  BY RowPartsType
<1> HIDE DEF S, W
<1>4. more \in Seq(S) /\ n \in Nat /\ Len(more) = n + 1 /\ DOMAIN more = 1..n + 1 /\ more[n + 1] = batch
      /\ \A i \in 1..n : more[i] = batches[i]
  BY <1>1
<1> HIDE DEF more, parts, n
<1>5. RowParts(more) = Append(parts, batch.rows)
  <2> DEFINE Q == Seq(W)
             a == RowParts(more)
             b == Append(parts, batch.rows)
  <2>1. parts \in Seq(Q) /\ batch.rows \in Q
    BY <1>2, <1>3
  <2> HIDE DEF Q
  <2>2. b = [i \in 1..n + 1 |-> IF i = n + 1 THEN batch.rows ELSE parts[i]]
    BY <1>3, <1>4, <2>1
  <2>3. a = [i \in 1..n + 1 |-> more[i].rows]
    BY <1>4 DEF RowParts
  <2>4. \A i \in 1..n + 1 : more[i].rows = IF i = n + 1 THEN batch.rows ELSE parts[i]
    <3> TAKE i \in 1..n + 1
    <3>1. CASE i = n + 1
      BY <1>4, <3>1
    <3>2. CASE i # n + 1
      <4>1. i \in 1..n
        BY <1>4, <3>2
      <4> QED BY <1>3, <1>4, <3>2, <4>1
    <3> QED BY <3>1, <3>2
  <2> HIDE DEF a, b
  <2>5. a = b
    BY <2>2, <2>3, <2>4
  <2> QED BY <2>5 DEF a, b
<1>6. RowsOf(more) = Concat(RowParts(more))
  BY DEF RowsOf, RowParts
<1>7. Concat(Append(parts, batch.rows)) = Concat(parts) \o batch.rows
  BY <1>2, <1>3, ConcatAppend
<1> QED BY <1>3, <1>5, <1>6, <1>7 DEF more

\* v is the column k of w, which is a and then b; x and y are theirs.
Joined(S, p, q, a, b, w, x, y, v, k) ==
  /\ Len(x) = p /\ Len(y) = q /\ Len(v) = p + q /\ \A i \in 1..p + q : v[i] = w[i][k]
  /\ \A i \in 1..p : x[i] = a[i][k]
  /\ \A i \in 1..q : y[i] = b[i][k]
  /\ \A i \in 1..p : w[i] = a[i]
  /\ \A i \in 1..q : w[p + i] = b[i]

\* The columns of two runs of rows make the column of both.
LEMMA Joins ==
  ASSUME NEW S, NEW v \in Seq(S), NEW x \in Seq(S), NEW y \in Seq(S), NEW p \in Nat,
         NEW q \in Nat,
         NEW a, NEW b, NEW w, NEW k,
         Joined(S, p, q, a, b, w, x, y, v, k)
  PROVE  v = x \o y
<1> DEFINE u == x \o y
<1>4. /\ u \in Seq(S) /\ Len(u) = Len(x) + Len(y)
      /\ (\A i \in 1..Len(x) : u[i] = x[i]) /\ \A i \in 1..Len(y) : u[Len(x) + i] = y[i]
  OBVIOUS
<1> HIDE DEF u
<1>1. Len(u) = p + q /\ (\A i \in 1..p : u[i] = x[i]) /\ \A i \in 1..q : u[p + i] = y[i]
  BY <1>4 DEF Joined
<1>2. \A i \in 1..p + q : u[i] = v[i]
  <2> TAKE i \in 1..p + q
  <2>1. CASE i <= p
    <3>1. i \in 1..p
      BY <2>1
    <3> QED BY <1>1, <3>1, SMTT(30) DEF Joined
  <2>2. CASE ~ (i <= p)
    <3> DEFINE j == i - p
    <3>1. j \in 1..q /\ p + j = i
      BY <2>2
    <3> HIDE DEF j
    <3>2. u[p + j] = y[j] /\ y[j] = b[j][k] /\ w[p + j] = b[j] /\ v[i] = w[i][k]
      BY <1>1, <3>1 DEF Joined
    <3> QED BY <3>1, <3>2
  <2> QED BY <2>1, <2>2
<1>3. u = v
  BY <1>1, <1>2, <1>4 DEF Joined
<1> QED BY <1>3 DEF u

\* The columns of several batches are the columns of all their rows.
LEMMA ColumnOfConcat ==
  ASSUME NEW N, NEW k \in 1..N, NEW parts \in Seq(Seq([1..N -> Item]))
  PROVE  Concat([i \in DOMAIN parts |-> Column(parts[i], k)]) = Column(Concat(parts), k)
<1> DEFINE W == [1..N -> Item]
           Q == Seq(W)
           n == Len(parts)
           cols == [i \in 1..n |-> Column(parts[i], k)]
           T == {m \in 0..n : Prefix(cols, m) = Column(Prefix(parts, m), k)}
<1>1. n \in Nat /\ DOMAIN parts = 1..n /\ parts \in Seq(Seq(W)) /\ parts \in Seq(Q)
  OBVIOUS
<1>2. \A row \in W : row[k] \in Item
  OBVIOUS
<1> HIDE DEF W
<1>3. \A rows \in Q : Column(rows, k) \in Seq(Item) /\ Len(Column(rows, k)) = Len(rows)
                      /\ \A i \in 1..Len(rows) : Column(rows, k)[i] = rows[i][k]
  <2> TAKE rows \in Q
  <2>1. Len(rows) \in Nat /\ DOMAIN rows = 1..Len(rows) /\ \A i \in 1..Len(rows) : rows[i][k] \in Item
    BY <1>2
  <2>2. Column(rows, k) = [i \in 1..Len(rows) |-> rows[i][k]]
    BY <2>1 DEF Column
  <2> QED BY <2>1, <2>2
<1>4. \A a, b \in Q : a \o b \in Q /\ Column(a \o b, k) = Column(a, k) \o Column(b, k)
  <2> TAKE a, b \in Q
  <2> HIDE DEF Q
  <2>1. a \in Q /\ b \in Q
    OBVIOUS
  <2>2. PICK x \in Seq(Item) : x = Column(a, k)
    BY <1>3, <2>1
  <2>3. PICK y \in Seq(Item) : y = Column(b, k)
    BY <1>3, <2>1
  <2>4. Len(x) = Len(a) /\ (\A i \in 1..Len(a) : x[i] = a[i][k])
        /\ Len(y) = Len(b) /\ (\A i \in 1..Len(b) : y[i] = b[i][k])
    BY <1>3, <2>1, <2>2, <2>3
  <2>5. a \o b \in Q /\ Len(a \o b) = Len(a) + Len(b) /\ Len(a) \in Nat /\ Len(b) \in Nat
        /\ (\A i \in 1..Len(a) : (a \o b)[i] = a[i]) /\ \A i \in 1..Len(b) : (a \o b)[Len(a) + i] = b[i]
    BY DEF Q
  <2>6. PICK w \in Q : w = a \o b
    BY <2>5
  <2>7. PICK v \in Seq(Item) : v = Column(w, k)
    BY <1>3
  <2>8. Len(v) = Len(w) /\ \A i \in 1..Len(w) : v[i] = w[i][k]
    BY <1>3, <2>7
  <2>9. v = x \o y
    <3> DEFINE p == Len(a)
               q == Len(b)
    <3>1. p \in Nat /\ q \in Nat /\ Len(x) = p /\ Len(y) = q /\ Len(v) = p + q
          /\ (\A i \in 1..p + q : v[i] = w[i][k])
          /\ (\A i \in 1..p : x[i] = a[i][k]) /\ (\A i \in 1..q : y[i] = b[i][k])
          /\ (\A i \in 1..p : w[i] = a[i]) /\ (\A i \in 1..q : w[p + i] = b[i])
      BY <2>4, <2>5, <2>6, <2>8
    <3> HIDE DEF p, q
    <3>2. Joined(Item, p, q, a, b, w, x, y, v, k)
      BY <3>1 DEF Joined
    <3> QED BY <3>1, <3>2, Joins
  <2> QED BY <2>2, <2>3, <2>5, <2>6, <2>7, <2>9
<1>5. cols \in Seq(Seq(Item)) /\ Len(cols) = n /\ \A i \in 1..n : cols[i] = Column(parts[i], k)
  <2> DEFINE R == Seq(Item)
  <2>1. \A i \in 1..n : parts[i] \in Q
    BY <1>1
  <2>2. \A i \in 1..n : Column(parts[i], k) \in R
    BY <1>3, <2>1
  <2> HIDE DEF R
  <2> QED BY <1>1, <2>2 DEF R
<1> HIDE DEF cols, n
<1>6. 0 \in T
  <2>1. Prefix(cols, 0) = <<>> /\ Prefix(parts, 0) = <<>>
    BY <1>1, <1>5, PrefixZero
  <2>2. Column(<<>>, k) = <<>>
    BY DEF Column
  <2> QED BY <1>1, <2>1, <2>2
<1>7. \A m \in 1..n : m - 1 \in T => m \in T
  <2> SUFFICES ASSUME NEW m \in 1..n, m - 1 \in T
               PROVE  m \in T
    OBVIOUS
  <2>1. Prefix(cols, m) = Prefix(cols, m - 1) \o cols[m]
    BY <1>5, PrefixNext
  <2>2. Prefix(parts, m) = Prefix(parts, m - 1) \o parts[m]
    BY <1>1, PrefixNext DEF n
  <2>3. Prefix(parts, m - 1) \in Q /\ parts[m] \in Q
    <3>1. m - 1 \in 0..Len(parts)
      BY <1>1 DEF n
    <3>2. parts[m] \in Q
      BY <1>1
    <3> QED BY <1>1, <3>1, <3>2, PrefixType
  <2>4. Column(Prefix(parts, m), k) = Column(Prefix(parts, m - 1), k) \o Column(parts[m], k)
    <3> DEFINE a == Prefix(parts, m - 1)
               b == parts[m]
    <3>1. a \in Q /\ b \in Q
      BY <2>3
    <3> HIDE DEF a, b, Q
    <3>2. Column(a \o b, k) = Column(a, k) \o Column(b, k)
      BY <1>4, <3>1
    <3> QED BY <2>2, <3>2 DEF a, b
  <2>5. m \in 0..n
    BY <1>1
  <2> QED BY <1>5, <2>1, <2>4, <2>5
<1>8. n \in T
  <2>1. 0..n \subseteq T
    <3> HIDE DEF T
    <3> QED BY <1>1, <1>6, <1>7, BoundedInduction
  <2> QED BY <1>1, <2>1
<1>9. Prefix(cols, n) = Concat(cols) /\ Prefix(parts, n) = Concat(parts)
  BY <1>1, <1>5, PrefixWhole DEF n
<1>10. cols = [i \in DOMAIN parts |-> Column(parts[i], k)]
  BY <1>1 DEF cols
<1> QED BY <1>8, <1>9, <1>10

----------------------------------------------------------------------------
(* What a query reads                                                      *)

\* The columns that Zipped reads in lockstep.
ReadItems(read) == [k \in DOMAIN read |-> Concat([i \in DOMAIN read[k] |-> read[k][i].it])]

\* What is read in lockstep without an error.
LEMMA ZippedIs ==
  ASSUME NEW read, Zipped(read).ok
  PROVE  /\ \A k \in DOMAIN read : \A i \in DOMAIN read[k] : read[k][i].ok
         /\ Zipped(read).it = [n \in DOMAIN ReadItems(read)[1] |->
                                 [k \in DOMAIN read |-> ReadItems(read)[k][n]]]
<1> DEFINE items == ReadItems(read)
           it == [n \in DOMAIN items[1] |-> [k \in DOMAIN items |-> items[k][n]]]
           wrong == \E k \in DOMAIN read : \E i \in DOMAIN read[k] : ~ read[k][i].ok
<1>1. Zipped(read) = IF wrong THEN Err ELSE Ok(it)
  BY DEF Zipped, ReadItems
<1>2. DOMAIN items = DOMAIN read
  BY DEF ReadItems
<1>3. it = [n \in DOMAIN items[1] |-> [k \in DOMAIN read |-> items[k][n]]]
  BY <1>2
<1> HIDE DEF items, it
<1>4. ~ wrong
  BY <1>1 DEF Err
<1>5. Zipped(read).it = it
  BY <1>1, <1>4 DEF Ok
<1> QED BY <1>3, <1>4, <1>5 DEF items

\* What a query reads of a sound dataset, if it meets no error, is the rows
\* that were written, in their order.
LEMMA ReadRowsIs ==
  ASSUME NEW d, NEW s, Sound(d, s), FitsIn(d), NEW name \in DOMAIN d.schemas,
         ReadRows(d, d.schemas[name].columns).ok
  PROVE  ReadRows(d, d.schemas[name].columns).it = RowsOf(s[name])
<1> DEFINE columns == d.schemas[name].columns
           n == Len(s[name])
           List(k) == InOrder(columns[k].buffers)
           read == [k \in DOMAIN columns |-> ReadColumn(d, columns[k])]
           parts == RowParts(s[name])
           rows == RowsOf(s[name])
<1>1. PICK rt \in DOMAIN Rows :
        /\ s[name] \in Seq(Batches(Len(rt))) /\ n \in Nat /\ DOMAIN s[name] = 1..n
        /\ DOMAIN columns = 1..Len(rt)
        /\ \A k \in 1..Len(rt) : Ordered(List(k), columns[k].buffers, n)
  BY EachBuffer
<1> DEFINE N == Len(rt)
           W == [1..N -> Item]
<1>2. 1 \in 1..N /\ N \in Nat
  BY RowType
<1>3. parts \in Seq(Seq(W)) /\ Len(parts) = n /\ (\A i \in 1..n : parts[i] = s[name][i].rows)
      /\ rows = Concat(parts) /\ rows \in Seq(W)
  BY <1>1, RowPartsType
<1>4. \A k \in 1..N : DOMAIN List(k) = 1..n
  <2> TAKE k \in 1..N
  <2>1. Ordered(List(k), columns[k].buffers, n)
    BY <1>1
  <2>2. List(k) = [i \in 1..n |-> List(k)[i]]
    BY <2>1 DEF Ordered
  <2> HIDE DEF List
  <2> QED BY <2>2
<1>5. ReadRows(d, columns) = Zipped(read)
  BY DEF ReadRows
<1>6. DOMAIN read = 1..N /\ \A k \in 1..N : read[k] = ReadColumn(d, columns[k])
  BY <1>1
<1>7. \A k \in 1..N : /\ DOMAIN read[k] = 1..n
                      /\ \A i \in 1..n : read[k][i] = ReadBuffer(d, columns[k].ty, List(k)[i])
  <2> TAKE k \in 1..N
  <2>1. read[k] = [i \in DOMAIN List(k) |-> ReadBuffer(d, columns[k].ty, List(k)[i])]
    BY <1>6, Zenon DEF ReadColumn
  <2>2. DOMAIN List(k) = 1..n
    BY <1>4
  <2> HIDE DEF List, read, columns
  <2> QED BY <2>1, <2>2
<1> HIDE DEF read, parts, rows, n
<1>8. /\ \A k \in 1..N : \A i \in 1..n : read[k][i].ok
      /\ Zipped(read).it = [m \in DOMAIN ReadItems(read)[1] |-> [k \in 1..N |-> ReadItems(read)[k][m]]]
  <2>1. Zipped(read).ok
    BY <1>5
  <2> HIDE DEF columns, List
  <2>2. /\ \A k \in DOMAIN read : \A i \in DOMAIN read[k] : read[k][i].ok
        /\ Zipped(read).it = [m \in DOMAIN ReadItems(read)[1] |->
                                [k \in DOMAIN read |-> ReadItems(read)[k][m]]]
    BY <2>1, ZippedIs
  <2> QED BY <1>6, <1>7, <2>2
<1>9. \A k \in 1..N : \A i \in 1..n : read[k][i].it = Column(parts[i], k)
  <2> TAKE k \in 1..N
  <2> TAKE i \in 1..n
  <2> DEFINE c == [name |-> name, k |-> k, i |-> i]
  <2>1. c.name = name /\ c.k = k /\ c.i = i
    OBVIOUS
  <2> HIDE DEF c
  <2>2. PlacedIn(d, s, c)
    BY <1>1, <2>1 DEF PlacedIn, n
  <2>3. ReadsWell(d, s, c)
    BY <2>2, SoundReads
  <2>4. TypeIn(d, c) = columns[k].ty /\ DescIn(d, c) = List(k)[i] /\ ColumnIn(s, c) = Column(parts[i], k)
    BY <1>3, <2>1 DEF TypeIn, DescIn, ColumnIn
  <2>5. ReadBuffer(d, TypeIn(d, c), DescIn(d, c)).ok
          => ReadBuffer(d, TypeIn(d, c), DescIn(d, c)).it = ColumnIn(s, c)
    BY <2>3 DEF ReadsWell
  <2>6. read[k][i] = ReadBuffer(d, TypeIn(d, c), DescIn(d, c)) /\ read[k][i].ok
    BY <1>7, <1>8, <2>4
  <2> QED BY <2>4, <2>5, <2>6
<1>10. \A k \in 1..N : ReadItems(read)[k] = Column(rows, k)
  <2> TAKE k \in 1..N
  <2>1. ReadItems(read)[k] = Concat([i \in DOMAIN read[k] |-> read[k][i].it])
    BY <1>6 DEF ReadItems
  <2>2. DOMAIN read[k] = 1..n /\ DOMAIN parts = 1..n
    <3>1. parts \in Seq(Seq(W)) /\ Len(parts) = n
      BY <1>3
    <3> HIDE DEF W
    <3> QED BY <1>7, <3>1
  <2>3. [i \in DOMAIN read[k] |-> read[k][i].it] = [i \in DOMAIN parts |-> Column(parts[i], k)]
    BY <1>9, <2>2
  <2>4. Concat([i \in DOMAIN parts |-> Column(parts[i], k)]) = Column(Concat(parts), k)
    BY <1>3, ColumnOfConcat
  <2> QED BY <1>3, <2>1, <2>3, <2>4
<1>11. Zipped(read).it = [m \in DOMAIN rows |-> [k \in 1..N |-> rows[m][k]]]
  <2>1. \A k \in 1..N : ReadItems(read)[k] = [m \in DOMAIN rows |-> rows[m][k]]
    BY <1>10 DEF Column
  <2>2. DOMAIN ReadItems(read)[1] = DOMAIN rows
    BY <1>2, <2>1
  <2>3. \A m \in DOMAIN rows : [k \in 1..N |-> ReadItems(read)[k][m]] = [k \in 1..N |-> rows[m][k]]
    <3> TAKE m \in DOMAIN rows
    <3>1. \A k \in 1..N : ReadItems(read)[k][m] = rows[m][k]
      BY <2>1
    <3> QED BY <3>1
  <2> QED BY <1>8, <2>2, <2>3
<1>12. [m \in DOMAIN rows |-> [k \in 1..N |-> rows[m][k]]] = rows
  <2>1. \A row \in W : [k \in 1..N |-> row[k]] = row
    OBVIOUS
  <2> HIDE DEF W
  <2>2. \A m \in DOMAIN rows : rows[m] \in W
    BY <1>3
  <2>3. rows = [m \in DOMAIN rows |-> rows[m]]
    BY <1>3
  <2> QED BY <2>1, <2>2, <2>3
<1> QED BY <1>5, <1>11, <1>12 DEF rows

\* The descriptors of a schema count the rows that were written.
LEMMA CountIs ==
  ASSUME NEW d, NEW s, Sound(d, s), NEW name \in DOMAIN d.schemas
  PROVE  Count(d.schemas[name].columns) = Len(RowsOf(s[name])) /\ Len(RowsOf(s[name])) \in Nat
<1> DEFINE columns == d.schemas[name].columns
           n == Len(s[name])
           list == InOrder(columns[1].buffers)
           parts == RowParts(s[name])
<1>1. PICK rt \in DOMAIN Rows :
        /\ s[name] \in Seq(Batches(Len(rt))) /\ n \in Nat /\ DOMAIN s[name] = 1..n
        /\ DOMAIN columns = 1..Len(rt)
        /\ \A k \in 1..Len(rt) :
             /\ Ordered(InOrder(columns[k].buffers), columns[k].buffers, n)
             /\ \A i \in 1..n : WellBuffer(d.file, d.mapped, columns[k].ty, InOrder(columns[k].buffers)[i],
                                           Column(s[name][i].rows, k), s[name][i].acked)
  BY EachBuffer
<1> DEFINE W == [1..Len(rt) -> Item]
<1>2. 1 \in 1..Len(rt)
  BY RowType
<1>3. parts \in Seq(Seq(W)) /\ Len(parts) = n /\ (\A i \in 1..n : parts[i] = s[name][i].rows)
      /\ RowsOf(s[name]) = Concat(parts)
  BY <1>1, RowPartsType
<1>4. \A i \in 1..n : list[i].count = Len(parts[i])
  <2> TAKE i \in 1..n
  <2>1. s[name][i].rows \in Seq(W)
    BY <1>1, BatchFields
  <2>2. WellBuffer(d.file, d.mapped, columns[1].ty, list[i], Column(s[name][i].rows, 1), s[name][i].acked)
    BY <1>1, <1>2
  <2> HIDE DEF W, list
  <2> QED BY <1>3, <2>1, <2>2, BufferCount
<1>5. Len(list) = n
  <2>1. Ordered(list, columns[1].buffers, n)
    BY <1>1, <1>2
  <2>2. list = [i \in 1..n |-> list[i]]
    BY <2>1 DEF Ordered
  <2> HIDE DEF list
  <2>3. \A g : [i \in 1..n |-> g[i]] \in Seq({g[i] : i \in 1..n}) /\ Len([i \in 1..n |-> g[i]]) = n
    BY <1>1
  <2> QED BY <2>2, <2>3
<1>6. PICK f : Count(columns) = f[n] /\ f[0] = 0 /\ \A m \in 1..n : f[m] = f[m - 1] + list[m].count
  <2> HIDE DEF columns, n
  <2>1. Len(InOrder(columns[1].buffers)) = n /\ n \in Nat
    BY <1>1, <1>5
  <2>2. \E f : /\ Count(columns) = f[Len(InOrder(columns[1].buffers))]
                /\ f[0] = 0
                /\ \A m \in 1..Len(InOrder(columns[1].buffers)) :
                     f[m] = f[m - 1] + InOrder(columns[1].buffers)[m].count
    BY <2>1, CountEquation
  <2> QED BY <2>1, <2>2
<1> HIDE DEF columns, n, list, W, parts
<1>7. \A m \in 1..n : m \in 1..Len(parts)
  BY <1>3
<1> DEFINE T == {m \in 0..n : f[m] = Before(parts, m) /\ f[m] \in Nat}
<1>8. 0 \in T
  <2>1. Prefix(parts, 0) = <<>>
    BY <1>3, PrefixZero
  <2>2. Before(parts, 0) = 0
    BY <2>1 DEF Before
  <2> QED BY <1>1, <1>6, <2>2
<1>9. \A m \in 1..n : m - 1 \in T => m \in T
  <2> SUFFICES ASSUME NEW m \in 1..n, m - 1 \in T PROVE m \in T
    OBVIOUS
  <2>1. Before(parts, m - 1) \in Nat /\ Len(parts[m]) \in Nat /\ Before(parts, m) = Before(parts, m - 1) + Len(parts[m])
    BY <1>3, <1>7, BeforeNext
  <2>2. f[m] = f[m - 1] + Len(parts[m])
    BY <1>4, <1>6
  <2>3. m \in 0..n
    BY <1>1
  <2>4. f[m] = Before(parts, m)
    BY <2>1, <2>2
  <2>5. Before(parts, m) \in Nat
    BY <2>1
  <2> QED BY <2>3, <2>4, <2>5
<1>10. n \in T
  <2>1. 0..n \subseteq T
    <3> HIDE DEF T
    <3> QED BY <1>1, <1>8, <1>9, BoundedInduction
  <2> QED BY <1>1, <2>1
<1>11. Prefix(parts, n) = Concat(parts)
  BY <1>3, PrefixWhole
<1>12. Before(parts, n) = Len(RowsOf(s[name]))
  BY <1>3, <1>11 DEF Before
<1> QED BY <1>6, <1>10, <1>12 DEF columns

----------------------------------------------------------------------------
(* New items                                                               *)

\* One more item is seen.
Taking(old, q, x) == IF x \in ToSet(old) \cup ToSet(q) THEN q ELSE Append(q, x)

\* The fold that defines NewItems, as a function by recursion.
LEMMA NewItemsEquation ==
  ASSUME NEW old, NEW items, Len(items) \in Nat
  PROVE  \E f : /\ NewItems(old, items) = f[Len(items)]
                /\ f[0] = <<>>
                /\ \A n \in 1..Len(items) : f[n] = Taking(old, f[n - 1], items[n])
<1> DEFINE Eq(m, g) ==
      g = [n \in 0..m |-> IF n = 0 THEN <<>> ELSE Taking(old, g[n - 1], items[n])]
           T == {m \in Nat : \E g : Eq(m, g)}
<1>1. 0 \in T
  <2>1. Eq(0, [n \in 0..0 |-> <<>>])
    OBVIOUS
  <2>2. \E g : Eq(0, g)
    <3> HIDE DEF Eq
    <3> QED BY <2>1
  <2> HIDE DEF Eq
  <2> QED BY <2>2
<1>2. ASSUME NEW m \in Nat, m \in T PROVE m + 1 \in T
  <2>1. PICK g : Eq(m, g)
    BY <1>2
  <2> DEFINE h == [n \in 0..(m + 1) |-> IF n = 0 THEN <<>> ELSE Taking(old, g[n - 1], items[n])]
  <2>2. \A n \in 0..m : h[n] = g[n]
    BY <2>1
  <2>3. \A n \in 0..(m + 1) : n # 0 => h[n - 1] = g[n - 1]
    <3> TAKE n \in 0..(m + 1)
    <3> HAVE n # 0
    <3>1. n - 1 \in 0..m
      OBVIOUS
    <3> HIDE DEF h
    <3> QED BY <2>2, <3>1
  <2>4. \A n \in 0..(m + 1) : h[n] = IF n = 0 THEN <<>> ELSE Taking(old, h[n - 1], items[n])
    <3> TAKE n \in 0..(m + 1)
    <3>1. h[n] = IF n = 0 THEN <<>> ELSE Taking(old, g[n - 1], items[n])
      OBVIOUS
    <3> HIDE DEF h
    <3> QED BY <3>1, <2>3
  <2>5. h = [n \in 0..(m + 1) |-> h[n]]
    OBVIOUS
  <2>6. Eq(m + 1, h)
    <3> HIDE DEF h
    <3> QED BY <2>4, <2>5
  <2> HIDE DEF h, Eq
  <2>7. \E k : Eq(m + 1, k)
    BY <2>6
  <2> QED BY <2>7
<1>3. Nat \subseteq T
  <2> HIDE DEF T
  <2> QED BY <1>1, <1>2, Induction
<1> DEFINE f == CHOOSE g : Eq(Len(items), g)
<1>4. Eq(Len(items), f)
  <2> HIDE DEF Eq
  <2> QED BY <1>3
<1>5. NewItems(old, items) = f[Len(items)]
  BY DEF NewItems, Taking
<1> HIDE DEF f
<1>6. f[0] = <<>>
  BY <1>4
<1>7. \A n \in 1..Len(items) : f[n] = Taking(old, f[n - 1], items[n])
  BY <1>4
<1> QED BY <1>5, <1>6, <1>7

\* The elements of a sequence that grows.
LEMMA ToSetAppend ==
  ASSUME NEW S, NEW seq \in Seq(S), NEW x \in S
  PROVE  ToSet(Append(seq, x)) = ToSet(seq) \cup {x}
<1> DEFINE more == Append(seq, x)
           n == Len(seq)
<1>1. more \in Seq(S) /\ n \in Nat /\ Len(more) = n + 1 /\ DOMAIN more = 1..n + 1 /\ DOMAIN seq = 1..n
      /\ more[n + 1] = x /\ \A i \in 1..n : more[i] = seq[i]
  OBVIOUS
<1> HIDE DEF more, n
<1>2. 1..n + 1 = (1..n) \cup {n + 1}
  BY <1>1
<1>3. ToSet(more) = ToSet(seq) \cup {x}
  BY <1>1, <1>2 DEF ToSet
<1> QED BY <1>3 DEF more

\* What is new among the first n items.
Fresh(S, old, items, n, q) ==
  /\ q \in Seq(S) /\ IsInjective(q)
  /\ ToSet(q) \cap ToSet(old) = {}
  /\ \A x \in ToSet(q) : \E j \in 1..n : x = items[j]
  /\ \A j \in 1..n : items[j] \in ToSet(old) \cup ToSet(q)

\* One more item is looked at: it is taken unless it is known or taken
\* already.
LEMMA FreshNext ==
  ASSUME NEW S, NEW old, NEW items, NEW n \in Nat \ {0}, NEW q,
         Fresh(S, old, items, n - 1, q), items[n] \in S
  PROVE  Fresh(S, old, items, n,
               IF items[n] \in ToSet(old) \cup ToSet(q) THEN q ELSE Append(q, items[n]))
<1> DEFINE x == items[n]
<1>1. n \in 1..n /\ (\A j \in 1..n - 1 : j \in 1..n) /\ \A j \in 1..n : j = n \/ j \in 1..n - 1
  OBVIOUS
<1>2. CASE x \in ToSet(old) \cup ToSet(q)
  <2>1. Fresh(S, old, items, n, q)
    BY <1>1, <1>2 DEF Fresh
  <2> QED BY <1>2, <2>1
<1>3. CASE x \notin ToSet(old) \cup ToSet(q)
  <2> DEFINE r == Append(q, x)
  <2>1. q \in Seq(S) /\ x \in S
    BY DEF Fresh
  <2> HIDE DEF x
  <2>2. r \in Seq(S) /\ Len(q) \in Nat /\ DOMAIN q = 1..Len(q) /\ DOMAIN r = 1..Len(q) + 1
        /\ r[Len(q) + 1] = x /\ \A i \in 1..Len(q) : r[i] = q[i]
    BY <2>1
  <2>3. ToSet(r) = ToSet(q) \cup {x}
    BY <2>1, ToSetAppend
  <2> HIDE DEF r
  <2>4. \A i \in 1..Len(q) : q[i] # x
    BY <1>3, <2>2 DEF ToSet
  <2>5. IsInjective(r)
    <3> SUFFICES ASSUME NEW i \in 1..Len(q) + 1, NEW j \in 1..Len(q) + 1, r[i] = r[j]
                 PROVE  i = j
      BY <2>2 DEF IsInjective
    <3>1. \A a, b \in 1..Len(q) : q[a] = q[b] => a = b
      BY <2>2 DEF Fresh, IsInjective
    <3>2. (i = Len(q) + 1 \/ i \in 1..Len(q)) /\ (j = Len(q) + 1 \/ j \in 1..Len(q))
      BY <2>2
    <3> QED BY <2>2, <2>4, <3>1, <3>2
  <2>6. Fresh(S, old, items, n, r)
    <3>1. ToSet(r) \cap ToSet(old) = {}
      BY <1>3, <2>3 DEF Fresh
    <3>2. \A y \in ToSet(r) : \E j \in 1..n : y = items[j]
      <4> TAKE y \in ToSet(r)
      <4>1. CASE y = x
        BY <1>1, <4>1 DEF x
      <4>2. CASE y # x
        <5>1. y \in ToSet(q)
          BY <2>3, <4>2
        <5>2. PICK j \in 1..n - 1 : y = items[j]
          BY <5>1 DEF Fresh
        <5> QED BY <1>1, <5>2
      <4> QED BY <4>1, <4>2
    <3>3. \A j \in 1..n : items[j] \in ToSet(old) \cup ToSet(r)
      <4> TAKE j \in 1..n
      <4>1. CASE j = n
        BY <2>3, <4>1 DEF x
      <4>2. CASE j # n
        <5>1. items[j] \in ToSet(old) \cup ToSet(q)
          BY <1>1, <4>2 DEF Fresh
        <5> QED BY <2>3, <5>1
      <4> QED BY <4>1, <4>2
    <3> QED BY <2>2, <2>5, <3>1, <3>2, <3>3 DEF Fresh
  <2> QED BY <1>3, <2>6 DEF r, x
<1> QED BY <1>2, <1>3

\* The items that are new: each once, none that the map holds, none left out.
LEMMA NewItemsFresh ==
  ASSUME NEW S, NEW old, NEW items \in Seq(S)
  PROVE  Fresh(S, old, items, Len(items), NewItems(old, items))
<1> DEFINE m == Len(items)
<1>1. m \in Nat /\ \A n \in 1..m : items[n] \in S
  OBVIOUS
<1>2. PICK f : /\ NewItems(old, items) = f[m] /\ f[0] = <<>>
               /\ \A n \in 1..m : f[n] = Taking(old, f[n - 1], items[n])
  BY <1>1, NewItemsEquation
<1> HIDE DEF m
<1> DEFINE T == {n \in 0..m : Fresh(S, old, items, n, f[n])}
<1>3. 0 \in T
  <2>1. <<>> \in Seq(S) /\ IsInjective(<<>>) /\ ToSet(<<>>) = {}
    BY DEF IsInjective, ToSet
  <2>2. Fresh(S, old, items, 0, f[0])
    BY <1>2, <2>1 DEF Fresh
  <2> QED BY <1>1, <2>2
<1>4. \A n \in 1..m : n - 1 \in T => n \in T
  <2> SUFFICES ASSUME NEW n \in 1..m, n - 1 \in T PROVE n \in T
    OBVIOUS
  <2>1. n \in Nat \ {0} /\ n \in 0..m /\ items[n] \in S /\ Fresh(S, old, items, n - 1, f[n - 1])
    BY <1>1
  <2> DEFINE q == f[n - 1]
  <2>2. f[n] = IF items[n] \in ToSet(old) \cup ToSet(q) THEN q ELSE Append(q, items[n])
    BY <1>2 DEF Taking
  <2>3. Fresh(S, old, items, n - 1, q)
    BY <2>1
  <2> HIDE DEF q
  <2> DEFINE r == IF items[n] \in ToSet(old) \cup ToSet(q) THEN q ELSE Append(q, items[n])
  <2>4. Fresh(S, old, items, n, r)
    <3> n \in Nat \ {0} /\ items[n] \in S
      BY <2>1
    <3> QED BY <2>3, FreshNext
  <2>5. f[n] = r
    BY <2>2
  <2> HIDE DEF r
  <2>6. Fresh(S, old, items, n, f[n])
    BY <2>4, <2>5
  <2> QED BY <2>1, <2>6
<1>5. m \in T
  <2>1. 0..m \subseteq T
    <3> HIDE DEF T
    <3> QED BY <1>1, <1>3, <1>4, BoundedInduction
  <2> QED BY <1>1, <2>1
<1> QED BY <1>2, <1>5 DEF m

\* The first place of a row among rows.
LEMMA FirstIndexIs ==
  ASSUME NEW S, NEW rows \in Seq(S), NEW row \in ToSet(rows)
  PROVE  FirstIndex(rows, row) \in 1..Len(rows) /\ rows[FirstIndex(rows, row)] = row
<1> DEFINE T == {i \in 1..Len(rows) : rows[i] = row}
           P(i) == rows[i] = row /\ \A j \in 1..i - 1 : rows[j] # row
<1>1. Len(rows) \in Nat /\ DOMAIN rows = 1..Len(rows)
  OBVIOUS
<1>2. T \in SUBSET Nat /\ T # {}
  BY <1>1 DEF ToSet
<1>3. PICK i \in T : \A m \in T : i <= m
  <2> HIDE DEF T
  <2> QED BY <1>2, Smallest
<1>4. i \in DOMAIN rows /\ P(i)
  <2>1. i \in 1..Len(rows) /\ rows[i] = row
    BY <1>3
  <2>2. \A j \in 1..i - 1 : rows[j] # row
    <3> SUFFICES ASSUME NEW j \in 1..i - 1, rows[j] = row PROVE FALSE
      OBVIOUS
    <3>1. j \in T
      BY <1>1, <2>1
    <3>2. i <= j
      BY <1>3, <3>1
    <3> QED BY <1>1, <2>1, <3>2
  <2> QED BY <1>1, <2>1, <2>2
<1>5. FirstIndex(rows, row) = CHOOSE x \in DOMAIN rows : P(x)
  BY DEF FirstIndex
<1> DEFINE c == CHOOSE x \in DOMAIN rows : P(x)
<1>6. c \in DOMAIN rows /\ P(c)
  BY <1>4
<1> HIDE DEF c
<1> QED BY <1>1, <1>5, <1>6 DEF c

\* The index of an item is its place once the new ones follow the old ones.
LEMMA IndexPlaces ==
  ASSUME NEW S, NEW old \in Seq(S), NEW new \in Seq(S),
         NEW item \in ToSet(old) \cup ToSet(new)
  PROVE  LET x == IndexOf(old, new, Len(old), item)
         IN  x \in Nat /\ x < Len(old \o new) /\ (old \o new)[x + 1] = item
<1> DEFINE all == old \o new
           x == IndexOf(old, new, Len(old), item)
<1>1. Len(old) \in Nat /\ Len(new) \in Nat /\ Len(all) = Len(old) + Len(new)
      /\ (\A i \in 1..Len(old) : all[i] = old[i]) /\ \A i \in 1..Len(new) : all[Len(old) + i] = new[i]
  OBVIOUS
<1> HIDE DEF all
<1>2. CASE item \in ToSet(old)
  <2> DEFINE i == FirstIndex(old, item)
  <2>1. i \in 1..Len(old) /\ old[i] = item
    BY <1>2, FirstIndexIs
  <2>2. x = i - 1
    BY <1>2 DEF IndexOf
  <2> HIDE DEF i, x
  <2>3. x + 1 = i /\ x \in Nat /\ x < Len(all)
    BY <1>1, <2>1, <2>2
  <2> QED BY <1>1, <2>1, <2>3 DEF x, all
<1>3. CASE item \notin ToSet(old)
  <2> DEFINE i == FirstIndex(new, item)
  <2>1. i \in 1..Len(new) /\ new[i] = item
    BY <1>3, FirstIndexIs
  <2>2. x = Len(old) + i - 1
    BY <1>3 DEF IndexOf
  <2> HIDE DEF i, x
  <2>3. x + 1 = Len(old) + i /\ x \in Nat /\ x < Len(all)
    BY <1>1, <2>1, <2>2
  <2> QED BY <1>1, <2>1, <2>3 DEF x, all
<1> QED BY <1>2, <1>3

\* The rows that are written are those of the new items.
LEMMA FreshRows ==
  ASSUME NEW rt \in DOMAIN Rows, NEW items \in Seq(Rows[rt]),
         NEW new \in Seq([1..Len(rt) -> Item]),
         \A x \in ToSet(new) : \E j \in 1..Len(PlainRows(rt, items)) : x = PlainRows(rt, items)[j]
  PROVE  LET fresh == [i \in DOMAIN new |-> items[FirstIndex(PlainRows(rt, items), new[i])]]
         IN  fresh \in Seq(Rows[rt]) /\ Len(fresh) = Len(new) /\ PlainRows(rt, fresh) = new
<1> DEFINE given == PlainRows(rt, items)
           W == [1..Len(rt) -> Item]
           F(i) == FirstIndex(given, new[i])
           fresh == [i \in DOMAIN new |-> items[F(i)]]
           n == Len(new)
<1>1. given \in Seq(W) /\ Len(given) = Len(items) /\ \A i \in 1..Len(items) : given[i] = Plain(rt, items[i])
  BY PlainType
<1>2. n \in Nat /\ DOMAIN new = 1..n /\ Len(items) \in Nat /\ \A i \in 1..Len(items) : items[i] \in Rows[rt]
  OBVIOUS
<1>3. new \in Seq(W)
  OBVIOUS
<1> HIDE DEF given, W, n
<1>4. \A i \in 1..n : F(i) \in 1..Len(items) /\ given[F(i)] = new[i]
  <2> TAKE i \in 1..n
  <2>1. new[i] \in ToSet(new)
    BY <1>2 DEF ToSet
  <2>2. PICK j \in 1..Len(given) : new[i] = given[j]
    BY <2>1 DEF given
  <2>3. DOMAIN given = 1..Len(given)
    BY <1>1
  <2>4. new[i] \in ToSet(given)
    BY <2>2, <2>3 DEF ToSet
  <2> QED BY <1>1, <2>4, FirstIndexIs
<1> HIDE DEF F
<1>5. fresh = [i \in 1..n |-> items[F(i)]]
  BY <1>2
<1>6. \A i \in 1..n : items[F(i)] \in Rows[rt]
  BY <1>2, <1>4
<1>7. fresh \in Seq(Rows[rt]) /\ Len(fresh) = n
  <2> DEFINE R == Rows[rt]
  <2>1. \A i \in 1..n : items[F(i)] \in R
    BY <1>6
  <2> HIDE DEF R, fresh
  <2> QED BY <1>2, <1>5, <2>1 DEF R
<1>8. PlainRows(rt, fresh) = [i \in 1..n |-> Plain(rt, fresh[i])]
  BY <1>5 DEF PlainRows
<1>9. \A i \in 1..n : Plain(rt, fresh[i]) = new[i]
  BY <1>1, <1>4, <1>5
<1>10. new = [i \in 1..n |-> new[i]]
  BY <1>2
<1> HIDE DEF fresh
<1>11. PlainRows(rt, fresh) = new
  BY <1>8, <1>9, <1>10
<1> QED BY <1>7, <1>11 DEF fresh, given, F, n

----------------------------------------------------------------------------
(* Answers and batches                                                     *)

\* The index of an answer is the place of its item among the rows of s.
Resolves(s, g) ==
  /\ g.name \in Names /\ g.index \in Nat
  /\ LET rows == RowsOf(s[g.name])
     IN  g.index < Len(rows) /\ rows[g.index + 1] = g.item

\* What is interned is in the batches once.
OnceIn(batches) ==
  \A b \in DOMAIN batches :
    batches[b].interned =>
      /\ IsInjective(batches[b].rows)
      /\ \A earlier \in 1..b - 1 : ToSet(batches[earlier].rows) \cap ToSet(batches[b].rows) = {}

Settled(s, grants) ==
  /\ \A g \in grants : Resolves(s, g)
  /\ \A name \in Names : OnceIn(s[name])

\* The batches of a schema have rows as wide as any row type it matches.
LEMMA StoredType ==
  ASSUME NEW d, NEW s, Sound(d, s), NEW name \in DOMAIN d.schemas,
         NEW rt \in DOMAIN Rows, Typed(d.schemas[name].columns, rt)
  PROVE  name \in Names /\ s = [n \in Names |-> s[n]] /\ s[name] \in Seq(Batches(Len(rt)))
<1>1. PICK other \in DOMAIN Rows :
        s[name] \in Seq(Batches(Len(other))) /\ DOMAIN d.schemas[name].columns = 1..Len(other)
  BY EachBuffer
<1>2. 1..Len(other) = 1..Len(rt)
  BY <1>1 DEF Typed
<1>3. Len(other) \in Nat /\ Len(rt) \in Nat /\ Len(other) >= 1
  BY RowType
<1>4. \A a, b \in Nat : a >= 1 /\ 1..a = 1..b => a = b
  <2> TAKE a, b \in Nat
  <2> HAVE a >= 1 /\ 1..a = 1..b
  <2>1. a \in 1..b
    OBVIOUS
  <2>2. b \in 1..a
    BY <2>1
  <2> QED BY <2>1, <2>2
<1>5. Len(other) = Len(rt)
  BY <1>2, <1>3, <1>4
<1>6. name \in Names /\ s = [n \in Names |-> s[n]]
  BY DEF Sound, WellSchemas
<1> QED BY <1>1, <1>5, <1>6

\* The rows of a batch are among all rows.
LEMMA BatchAmongRows ==
  ASSUME NEW N, NEW batches \in Seq(Batches(N)), NEW b \in 1..Len(batches)
  PROVE  ToSet(batches[b].rows) \subseteq ToSet(RowsOf(batches))
<1> DEFINE W == [1..N -> Item]
           parts == RowParts(batches)
<1>1. parts \in Seq(Seq(W)) /\ Len(parts) = Len(batches) /\ parts[b] = batches[b].rows
      /\ RowsOf(batches) = Concat(parts) /\ RowsOf(batches) \in Seq(W) /\ parts[b] \in Seq(W)
  <2>1. parts \in Seq(Seq(W)) /\ Len(parts) = Len(batches) /\ parts[b] = batches[b].rows
        /\ RowsOf(batches) = Concat(parts) /\ RowsOf(batches) \in Seq(W)
    BY RowPartsType
  <2> DEFINE Q == Seq(W)
  <2>2. parts \in Seq(Q) /\ b \in 1..Len(parts)
    BY <2>1
  <2> HIDE DEF Q, parts
  <2>3. parts[b] \in Q
    BY <2>2
  <2> QED BY <2>1, <2>3 DEF Q
<1> HIDE DEF W, parts
<1>2. \A x : Among(x, parts[b]) => Among(x, Concat(parts))
  <2> TAKE x
  <2>1. Among(x, Concat(parts)) <=> \E n \in 1..Len(parts) : Among(x, parts[n])
    BY <1>1, AmongConcat
  <2> QED BY <1>1, <2>1
<1>3. \A seq \in Seq(W) : \A x : x \in ToSet(seq) <=> Among(x, seq)
  BY DEF ToSet, Among
<1> QED BY <1>1, <1>2, <1>3

\* Items interned once stay so when a batch of new ones is added.
LEMMA OnceAppend ==
  ASSUME NEW N, NEW batches \in Seq(Batches(N)), NEW batch \in Batches(N),
         OnceIn(batches),
         batch.interned => IsInjective(batch.rows) /\ ToSet(batch.rows) \cap ToSet(RowsOf(batches)) = {}
  PROVE  OnceIn(Append(batches, batch))
<1> DEFINE S == Batches(N)
           more == Append(batches, batch)
           n == Len(batches)
<1>1. batches \in Seq(S) /\ batch \in S
  OBVIOUS
<1>2. \A b \in 1..n : ToSet(batches[b].rows) \subseteq ToSet(RowsOf(batches))
  BY BatchAmongRows
<1> HIDE DEF S
<1>3. n \in Nat /\ DOMAIN batches = 1..n /\ DOMAIN more = 1..n + 1 /\ more[n + 1] = batch
      /\ \A b \in 1..n : more[b] = batches[b]
  BY <1>1
<1> HIDE DEF more, n
<1>4. ASSUME NEW b \in 1..n + 1, more[b].interned
      PROVE  IsInjective(more[b].rows)
             /\ \A earlier \in 1..b - 1 : ToSet(more[earlier].rows) \cap ToSet(more[b].rows) = {}
  <2>1. \A earlier \in 1..b - 1 : earlier \in 1..n /\ more[earlier] = batches[earlier]
    BY <1>3
  <2>2. CASE b = n + 1
    <3>1. more[b] = batch
      BY <1>3, <2>2
    <3>2. IsInjective(batch.rows) /\ ToSet(batch.rows) \cap ToSet(RowsOf(batches)) = {}
      BY <1>4, <3>1
    <3>3. \A earlier \in 1..b - 1 : ToSet(more[earlier].rows) \subseteq ToSet(RowsOf(batches))
      BY <1>2, <2>1
    <3> QED BY <3>1, <3>2, <3>3
  <2>3. CASE b # n + 1
    <3>1. b \in 1..n /\ more[b] = batches[b]
      BY <1>3, <2>3
    <3>2. IsInjective(batches[b].rows)
          /\ \A earlier \in 1..b - 1 : ToSet(batches[earlier].rows) \cap ToSet(batches[b].rows) = {}
      BY <1>3, <1>4, <3>1 DEF OnceIn
    <3> QED BY <2>1, <3>1, <3>2
  <2> QED BY <2>2, <2>3
<1>5. OnceIn(more)
  BY <1>3, <1>4 DEF OnceIn
<1> QED BY <1>5 DEF more

\* Rows that are interned are new, and each is there once.
NewOnce(batches, rows, interned) ==
  interned => IsInjective(rows) /\ ToSet(rows) \cap ToSet(RowsOf(batches)) = {}

\* Rows as wide as a row type.
WideRows(rt) == Seq([1..Len(rt) -> Item])

\* Answers stay right, and items interned once, when a batch is added.
LEMMA SettledGrows ==
  ASSUME NEW d, NEW s, Sound(d, s), NEW name \in DOMAIN d.schemas,
         NEW rt \in DOMAIN Rows, Typed(d.schemas[name].columns, rt), NEW grants,
         Settled(s, grants),
         NEW rows \in WideRows(rt), NEW acked \in BOOLEAN, NEW interned \in BOOLEAN,
         NewOnce(s[name], rows, interned)
  PROVE  /\ Settled(Batched(s, name, rows, acked, interned), grants)
         /\ RowsOf(Batched(s, name, rows, acked, interned)[name]) = RowsOf(s[name]) \o rows
<1> DEFINE batch == Batch(rows, acked, interned)
           more == Batched(s, name, rows, acked, interned)
           N == Len(rt)
           W == [1..N -> Item]
           old == RowsOf(s[name])
<1>1. name \in Names /\ s = [n \in Names |-> s[n]] /\ s[name] \in Seq(Batches(N))
  BY StoredType
<1>2. batch \in Batches(N) /\ batch.rows = rows /\ batch.interned = interned
  BY DEF Batch, Batches, WideRows
<1>3. more[name] = Append(s[name], batch) /\ \A n \in Names : n # name => more[n] = s[n]
  <2> HIDE DEF batch
  <2>1. more = [s EXCEPT ![name] = Append(s[name], batch)]
    BY DEF Batched, batch
  <2> HIDE DEF more
  <2> QED BY <1>1, <2>1
<1>4. old \in Seq(W)
  BY <1>1, RowPartsType
<1>5. OnceIn(s[name]) /\ \A n \in Names : OnceIn(s[n])
  BY <1>1 DEF Settled
<1> HIDE DEF batch, more, N
<1>6. RowsOf(more[name]) = old \o rows
  BY <1>1, <1>2, <1>3, RowsOfAppend
<1>7. OnceIn(more[name])
  <2>1. batch.interned => IsInjective(batch.rows) /\ ToSet(batch.rows) \cap ToSet(RowsOf(s[name])) = {}
    BY <1>2 DEF NewOnce
  <2> QED BY <1>1, <1>2, <1>3, <1>5, <2>1, OnceAppend
<1>8. \A n \in Names : OnceIn(more[n])
  BY <1>3, <1>5, <1>7
<1>9. \A g \in grants : Resolves(more, g)
  <2> TAKE g \in grants
  <2>1. Resolves(s, g)
    BY DEF Settled
  <2>2. CASE g.name # name
    BY <1>3, <2>1, <2>2 DEF Resolves
  <2>3. CASE g.name = name
    <3> DEFINE x == g.index
    <3>1. x \in Nat /\ x < Len(old) /\ old[x + 1] = g.item
      BY <2>1, <2>3 DEF Resolves
    <3>2. rows \in Seq(W) /\ old \in Seq(W)
      BY <1>4 DEF N, WideRows
    <3> HIDE DEF W, old, x
    <3>3. x < Len(old \o rows) /\ (old \o rows)[x + 1] = old[x + 1]
      BY <3>1, <3>2
    <3>4. RowsOf(more[name]) = old \o rows
      BY <1>6
    <3> QED BY <1>1, <2>3, <3>1, <3>3, <3>4 DEF Resolves, x
  <2> QED BY <2>2, <2>3
<1>10. Settled(more, grants)
  BY <1>8, <1>9 DEF Settled
<1> QED BY <1>6, <1>10 DEF more, old

----------------------------------------------------------------------------
(* Answers of one call                                                     *)

\* Writing nothing leaves the batches alone.
LEMMA StoredSame ==
  ASSUME NEW d, NEW s, Sound(d, s), NEW name \in Names
  PROVE  [s EXCEPT ![name] = @ \o <<>>] = s
<1>1. s = [n \in Names |-> s[n]]
  BY DEF Sound, WellSchemas
<1>2. s[name] \o <<>> = s[name]
  <2>1. CASE name \in DOMAIN d.schemas
    <3>1. PICK rt \in DOMAIN Rows : s[name] \in Seq(Batches(Len(rt)))
      BY <2>1, EachBuffer
    <3> DEFINE S == Batches(Len(rt))
    <3>2. s[name] \in Seq(S)
      BY <3>1
    <3> HIDE DEF S
    <3> QED BY <3>2
  <2>2. CASE name \notin DOMAIN d.schemas
    <3>1. s[name] = <<>>
      BY <2>2 DEF Sound, WellSchemas
    <3> QED BY <3>1
  <2> QED BY <2>1, <2>2
<1> DEFINE x == s[name] \o <<>>
<1>3. [s EXCEPT ![name] = x] = s
  <2>1. x = s[name]
    BY <1>2
  <2> HIDE DEF x
  <2> QED BY <1>1, <2>1
<1> QED BY <1>3

\* Accumulators stay right whatever is written.
LEMMA AccsStay ==
  ASSUME NEW d, NEW a, WellAccs(d, a), NEW e, Onward(d, e)
  PROVE  WellAccs(e, a)
<1>1. SchemasKept(d, e)
  BY DEF Onward
<1>2. ASSUME NEW name \in Names
      PROVE  WellAcc(e, name, a[name])
  <2> DEFINE acc == a[name]
  <2>1. WellAcc(d, name, acc)
    BY DEF WellAccs
  <2> HIDE DEF acc
  <2>2. CASE acc = NoAcc
    BY <2>2 DEF WellAcc, acc
  <2>3. CASE acc # NoAcc
    <3>1. name \in DOMAIN d.schemas
          /\ \E rt \in DOMAIN Rows : \E rows \in Seq(Rows[rt]) :
               /\ acc = [rows |-> rows, open |-> TRUE, rt |-> rt, at |-> d.schemas[name].at]
               /\ Typed(d.schemas[name].columns, rt)
      BY <2>1, <2>3 DEF WellAcc
    <3>2. PICK rt \in DOMAIN Rows : \E rows \in Seq(Rows[rt]) :
            /\ acc = [rows |-> rows, open |-> TRUE, rt |-> rt, at |-> d.schemas[name].at]
            /\ Typed(d.schemas[name].columns, rt)
      BY <3>1
    <3>3. name \in DOMAIN e.schemas /\ e.schemas[name].at = d.schemas[name].at
          /\ Typed(e.schemas[name].columns, rt)
      BY <1>1, <3>1, <3>2 DEF SchemasKept
    <3> QED BY <3>2, <3>3 DEF WellAcc, acc
  <2> QED BY <2>2, <2>3
<1>3. a = [name \in Names |-> a[name]]
  BY DEF WellAccs
<1> QED BY <1>2, <1>3 DEF WellAccs

\* The answers to items, of which those that are not in old get the indices
\* from next on.
Answers(rt, name, items, old, next) ==
  {[name |-> name, item |-> item,
    index |-> IndexOf(old, NewItems(old, PlainRows(rt, items)), next, item)] :
   item \in ToSet(PlainRows(rt, items))}

\* The indices that get_or_insert returns are the places of the items once the
\* new ones are written.
LEMMA AnswersResolve ==
  ASSUME NEW rt \in DOMAIN Rows, NEW name \in Names, NEW items \in Seq(Rows[rt]),
         NEW old \in Seq([1..Len(rt) -> Item]), NEW t,
         RowsOf(t[name]) = old \o NewItems(old, PlainRows(rt, items))
  PROVE  \A g \in Answers(rt, name, items, old, Len(old)) : Resolves(t, g)
<1> DEFINE W == [1..Len(rt) -> Item]
           given == PlainRows(rt, items)
           new == NewItems(old, given)
<1>1. given \in Seq(W)
  BY PlainType
<1> HIDE DEF W, given
<1>2. Fresh(W, old, given, Len(given), new)
  BY <1>1, NewItemsFresh
<1>3. new \in Seq(W) /\ \A j \in 1..Len(given) : given[j] \in ToSet(old) \cup ToSet(new)
  BY <1>2 DEF Fresh
<1>4. \A item \in ToSet(given) : item \in ToSet(old) \cup ToSet(new)
  <2>1. DOMAIN given = 1..Len(given)
    BY <1>1
  <2> HIDE DEF new
  <2> QED BY <1>3, <2>1 DEF ToSet
<1>5. old \in Seq(W)
  BY DEF W
<1> HIDE DEF new
<1> TAKE g \in Answers(rt, name, items, old, Len(old))
<1>6. PICK item \in ToSet(given) : g = [name |-> name, item |-> item, index |-> IndexOf(old, new, Len(old), item)]
  BY DEF Answers, given, new
<1> DEFINE x == IndexOf(old, new, Len(old), item)
<1>7. x \in Nat /\ x < Len(old \o new) /\ (old \o new)[x + 1] = item
  <2>1. item \in ToSet(old) \cup ToSet(new)
    BY <1>4
  <2>2. LET z == IndexOf(old, new, Len(old), item)
        IN  z \in Nat /\ z < Len(old \o new) /\ (old \o new)[z + 1] = item
    BY <1>3, <1>5, <2>1, IndexPlaces
  <2> QED BY <2>2
<1>8. RowsOf(t[name]) = old \o new
  BY DEF new, given
<1> HIDE DEF x
<1>9. g.name = name /\ g.item = item /\ g.index = x
  BY <1>6 DEF x
<1> QED BY <1>7, <1>8, <1>9 DEF Resolves

----------------------------------------------------------------------------
(* Dataset::get_or_insert                                                  *)

\* The rows that get_or_insert writes for its new items.
FreshOf(rt, items, new) ==
  [i \in DOMAIN new |-> items[FirstIndex(PlainRows(rt, items), new[i])]]

\* The outcome o of a call w that writes what is new.
WrittenBy(w, new, answers, o) ==
  /\ o.db = w.db
  /\ o.answers = (IF w.result = "ok" THEN answers ELSE {})
  /\ o.batches = IF w.result = "segment" THEN <<>> ELSE <<Batch(new, w.result = "ok", TRUE)>>

\* What get_or_insert leaves behind once the rows are read: nothing, or a
\* batch of the new items.
LEMMA InternedIs ==
  ASSUME NEW d, NEW name, NEW rt, NEW items, NEW old, NEW max,
         NEW o \in Interned(d, name, rt, items, old, max)
  PROVE  LET new == NewItems(old, PlainRows(rt, items))
             answers == Answers(rt, name, items, old, Count(d.schemas[name].columns))
         IN  \/ o.db = d /\ o.batches = <<>> /\ o.answers = {}
             \/ o.db = d /\ o.batches = <<>> /\ o.answers = answers /\ new = <<>>
             \/ /\ new # <<>>
                /\ \E w \in WriteCall(d, name, rt, FreshOf(rt, items, new), d.schemas[name].at) :
                     WrittenBy(w, new, answers, o)
<1> DEFINE given == PlainRows(rt, items)
           new == NewItems(old, given)
           next == Count(d.schemas[name].columns)
           fresh == FreshOf(rt, items, new)
           answers == Answers(rt, name, items, old, next)
           nothing == [db |-> d, answers |-> {}, batches |-> <<>>]
           Written(w) == [db |-> w.db,
                          answers |-> IF w.result = "ok" THEN answers ELSE {},
                          batches |-> IF w.result = "segment" THEN <<>>
                                      ELSE <<Batch(new, w.result = "ok", TRUE)>>]
           calls == WriteCall(d, name, rt, fresh, d.schemas[name].at)
           full == Len(old) > max + 1 \/ (new # <<>> /\ next + Len(new) - 1 > max)
<1>1. Interned(d, name, rt, items, old, max)
        = IF full THEN {nothing}
          ELSE IF new = <<>> THEN {[nothing EXCEPT !.answers = answers]}
          ELSE {Written(w) : w \in calls}
  BY DEF Interned, PlainRows, FirstFree, FreshOf, Answers
<1> HIDE DEF full, calls, answers, fresh, next, new
<1>2. CASE full
  <2>1. o = nothing
    BY <1>1, <1>2
  <2>2. o.db = d /\ o.batches = <<>> /\ o.answers = {}
    BY <2>1
  <2> QED BY <2>2 DEF new, given, answers, next, calls, fresh
<1>3. CASE ~ full /\ new = <<>>
  <2>1. o = [nothing EXCEPT !.answers = answers]
    BY <1>1, <1>3
  <2>2. o.db = d /\ o.batches = <<>> /\ o.answers = answers
    BY <2>1
  <2> QED BY <1>3, <2>2 DEF new, given, answers, next, calls, fresh
<1>4. CASE ~ full /\ new # <<>>
  <2>1. PICK w \in calls : o = Written(w)
    BY <1>1, <1>4
  <2>2. WrittenBy(w, new, answers, o)
    BY <2>1 DEF WrittenBy
  <2> QED BY <1>4, <2>2 DEF new, given, answers, next, calls, fresh
<1> QED BY <1>2, <1>3, <1>4

\* get_or_insert over the rows that are stored.
LEMMA InternedSound ==
  ASSUME NEW d, NEW s, Sound(d, s), NEW name \in DOMAIN d.schemas,
         NEW rt \in DOMAIN Rows, Typed(d.schemas[name].columns, rt),
         NEW items \in Seq(Rows[rt]),
         NEW old, NEW max, NEW o \in Interned(d, name, rt, items, old, max), NEW grants,
         NEW t, t = [s EXCEPT ![name] = @ \o o.batches]
  PROVE  /\ Sound(o.db, t) /\ Onward(d, o.db)
         /\ old = RowsOf(s[name]) /\ Settled(s, grants) => Settled(t, grants \cup o.answers)
<1> DEFINE W == [1..Len(rt) -> Item]
           given == PlainRows(rt, items)
           new == NewItems(old, given)
           next == Count(d.schemas[name].columns)
           answers == Answers(rt, name, items, old, next)
           fresh == FreshOf(rt, items, new)
           all == RowsOf(s[name])
<1>1. name \in Names /\ s = [n \in Names |-> s[n]] /\ s[name] \in Seq(Batches(Len(rt)))
  BY StoredType
<1>2. all \in Seq(W)
  BY <1>1, RowPartsType
<1>3. next = Len(all)
  BY CountIs
<1>4. WellFile(d) /\ d.file \in Seq(Bytes)
  BY DEF Sound, WellFile
<1>5. given \in Seq(W)
  BY PlainType
<1>6. Fresh(W, old, given, Len(given), new)
  <2> HIDE DEF W, given
  <2> QED BY <1>5, NewItemsFresh
<1>7. new \in Seq(W) /\ IsInjective(new) /\ ToSet(new) \cap ToSet(old) = {}
      /\ \A x \in ToSet(new) : \E j \in 1..Len(given) : x = given[j]
  BY <1>6 DEF Fresh
<1>8. \/ o.db = d /\ o.batches = <<>> /\ o.answers = {}
      \/ o.db = d /\ o.batches = <<>> /\ o.answers = answers /\ new = <<>>
      \/ /\ new # <<>>
         /\ \E w \in WriteCall(d, name, rt, fresh, d.schemas[name].at) : WrittenBy(w, new, answers, o)
  BY InternedIs
<1>9. ASSUME old = all, NEW z, RowsOf(z[name]) = all \o new
      PROVE  \A g \in answers : Resolves(z, g)
  <2>1. old \in Seq(W) /\ RowsOf(z[name]) = old \o NewItems(old, PlainRows(rt, items)) /\ next = Len(old)
    BY <1>2, <1>3, <1>9
  <2> QED BY <1>1, <2>1, AnswersResolve
<1> HIDE DEF W, new, next, answers, fresh, all, given
<1>10. CASE o.batches = <<>> /\ o.db = d /\ (o.answers = {} \/ (o.answers = answers /\ new = <<>>))
  <2>1. t = s
    BY <1>1, <1>10, StoredSame
  <2>2. Onward(d, d)
    BY <1>4, OnwardSame
  <2>3. ASSUME old = all, Settled(s, grants) PROVE Settled(t, grants \cup o.answers)
    <3>1. CASE o.answers = {}
      <4>1. grants \cup o.answers = grants
        BY <3>1
      <4> QED BY <2>1, <2>3, <4>1
    <3>2. CASE o.answers = answers /\ new = <<>>
      <4>1. all \o new = all
        BY <1>2, <3>2
      <4>2. RowsOf(t[name]) = all \o new
        BY <2>1, <4>1 DEF all
      <4>3. \A g \in answers : Resolves(t, g)
        BY <1>9, <2>3, <4>2
      <4> QED BY <2>1, <2>3, <3>2, <4>3 DEF Settled
    <3> QED BY <1>10, <3>1, <3>2
  <2> QED BY <1>10, <2>1, <2>2, <2>3 DEF all
<1>11. ASSUME new # <<>>, NEW w \in WriteCall(d, name, rt, fresh, d.schemas[name].at), WrittenBy(w, new, answers, o)
       PROVE  /\ Sound(o.db, t) /\ Onward(d, o.db)
              /\ old = all /\ Settled(s, grants) => Settled(t, grants \cup o.answers)
  <2> DEFINE acked == w.result = "ok"
             more == Batched(s, name, new, acked, TRUE)
             batch == Batch(new, acked, TRUE)
  <2>1. fresh \in Seq(Rows[rt]) /\ Len(fresh) = Len(new) /\ PlainRows(rt, fresh) = new
    <3>1. \A x \in ToSet(new) : \E j \in 1..Len(PlainRows(rt, items)) : x = PlainRows(rt, items)[j]
      BY <1>7 DEF given
    <3>2. new \in Seq([1..Len(rt) -> Item])
      BY <1>7 DEF W
    <3>3. LET f == [i \in DOMAIN new |-> items[FirstIndex(PlainRows(rt, items), new[i])]]
          IN  f \in Seq(Rows[rt]) /\ Len(f) = Len(new) /\ PlainRows(rt, f) = new
      BY <3>1, <3>2, FreshRows
    <3> QED BY <3>3 DEF fresh, FreshOf
  <2>2. fresh # <<>>
    <3>1. Len(new) # 0
      BY <1>7, <1>11
    <3> QED BY <2>1, <3>1
  <2>3. d.schemas[name].at \in Nat
    <3>1. WellSchema(d.file, d.mapped, d.schemas[name], s[name])
      BY <1>1 DEF Sound, WellSchemas
    <3> QED BY <3>1 DEF WellSchema
  <2>4. acked \in BOOLEAN /\ TRUE \in BOOLEAN
    OBVIOUS
  <2> HIDE DEF acked
  <2>5. /\ Sound(w.db, IF w.result = "segment" THEN s ELSE Batched(s, name, PlainRows(rt, fresh), w.result = "ok", TRUE))
        /\ Onward(d, w.db)
    BY <2>1, <2>2, <2>3, <2>4, WriteCallSound
  <2>6. Sound(w.db, IF w.result = "segment" THEN s ELSE more) /\ Onward(d, w.db)
    BY <2>1, <2>5, Zenon DEF acked
  <2>7. o.db = w.db /\ o.answers = (IF w.result = "ok" THEN answers ELSE {})
        /\ o.batches = IF w.result = "segment" THEN <<>> ELSE <<batch>>
    BY <1>11, Zenon DEF WrittenBy, acked
  <2>8. CASE w.result = "segment"
    <3>1. t = s
      BY <1>1, <2>7, <2>8, StoredSame
    <3>2. o.answers = {}
      BY <2>7, <2>8
    <3>3. grants \cup o.answers = grants
      BY <3>2
    <3> QED BY <2>6, <2>7, <2>8, <3>1, <3>3
  <2>9. CASE w.result # "segment"
    <3>1. t = more
      <4>1. s[name] \o <<batch>> = Append(s[name], batch)
        <5> DEFINE S == Batches(Len(rt))
        <5>1. s[name] \in Seq(S)
          BY <1>1
        <5>2. batch \in S
          BY <1>7, <2>4 DEF Batch, Batches, W
        <5> HIDE DEF S, batch
        <5> QED BY <5>1, <5>2
      <4>2. o.batches = <<batch>>
        BY <2>7, <2>9
      <4> HIDE DEF batch
      <4>3. t = [s EXCEPT ![name] = Append(s[name], batch)]
        BY <4>1, <4>2
      <4> QED BY <4>3 DEF Batched, batch
    <3>2. Sound(o.db, t) /\ Onward(d, o.db)
      BY <2>6, <2>7, <2>9, <3>1
    <3>3. ASSUME old = all, Settled(s, grants) PROVE Settled(t, grants \cup o.answers)
      <4>1. TRUE => IsInjective(new) /\ ToSet(new) \cap ToSet(RowsOf(s[name])) = {}
        BY <1>7, <3>3 DEF all
      <4>2. new \in Seq([1..Len(rt) -> Item])
        BY <1>7 DEF W
      <4>3. Settled(more, grants) /\ RowsOf(more[name]) = RowsOf(s[name]) \o new
        <5> DEFINE yes == TRUE
                   grown == Batched(s, name, new, acked, yes)
        <5>1. yes \in BOOLEAN /\ NewOnce(s[name], new, yes) /\ grown = more /\ new \in WideRows(rt)
          BY <4>1, <4>2 DEF NewOnce, WideRows
        <5> HIDE DEF yes, more
        <5>2. Settled(s, grants)
          BY <3>3
        <5>3. Settled(grown, grants) /\ RowsOf(grown[name]) = RowsOf(s[name]) \o new
          BY <2>4, <5>1, <5>2, SettledGrows
        <5> QED BY <5>1, <5>3
      <4>4. RowsOf(t[name]) = all \o new
        BY <3>1, <4>3 DEF all
      <4>5. \A g \in answers : Resolves(t, g)
        BY <1>9, <3>3, <4>4
      <4>6. \A g \in o.answers : g \in answers
        BY <2>7
      <4> QED BY <3>1, <4>3, <4>5, <4>6 DEF Settled
    <3> QED BY <3>2, <3>3
  <2> QED BY <2>8, <2>9
<1>12. CASE o.batches = <<>> /\ o.db = d /\ o.answers = {}
  BY <1>10, <1>12
<1> QED BY <1>8, <1>10, <1>11 DEF all

----------------------------------------------------------------------------
(* Accumulators and bounds                                                 *)

\* One accumulator that is a good one among the others.
LEMMA PutAcc ==
  ASSUME NEW d, NEW a, WellAccs(d, a), NEW name \in Names, NEW acc, WellAcc(d, name, acc)
  PROVE  WellAccs(d, [a EXCEPT ![name] = acc])
<1> DEFINE b == [a EXCEPT ![name] = acc]
<1>1. a = [n \in Names |-> a[n]] /\ \A n \in Names : WellAcc(d, n, a[n])
  BY DEF WellAccs
<1>2. b = [n \in Names |-> b[n]] /\ b[name] = acc /\ \A n \in Names : n # name => b[n] = a[n]
  BY <1>1
<1> HIDE DEF b
<1>3. \A n \in Names : WellAcc(d, n, b[n])
  BY <1>1, <1>2
<1>4. WellAccs(d, b)
  BY <1>2, <1>3 DEF WellAccs
<1> QED BY <1>4 DEF b

\* An accumulator with rows, or one that is open.
LEMMA AccIs ==
  ASSUME NEW d, NEW a, WellAccs(d, a), NEW name \in Names,
         a[name].rows # <<>> \/ a[name].open
  PROVE  /\ name \in DOMAIN d.schemas
         /\ a[name].rt \in DOMAIN Rows /\ Typed(d.schemas[name].columns, a[name].rt)
         /\ a[name].rows \in Seq(Rows[a[name].rt]) /\ a[name].at = d.schemas[name].at
         /\ a[name] = [rows |-> a[name].rows, open |-> TRUE, rt |-> a[name].rt, at |-> a[name].at]
<1> DEFINE acc == a[name]
<1>1. WellAcc(d, name, acc)
  BY DEF WellAccs
<1>2. acc # NoAcc
  BY DEF NoAcc
<1> HIDE DEF acc
<1>3. name \in DOMAIN d.schemas
      /\ \E rt \in DOMAIN Rows : \E rows \in Seq(Rows[rt]) :
           /\ acc = [rows |-> rows, open |-> TRUE, rt |-> rt, at |-> d.schemas[name].at]
           /\ Typed(d.schemas[name].columns, rt)
  BY <1>1, <1>2 DEF WellAcc
<1>4. PICK rt \in DOMAIN Rows : \E rows \in Seq(Rows[rt]) :
        /\ acc = [rows |-> rows, open |-> TRUE, rt |-> rt, at |-> d.schemas[name].at]
        /\ Typed(d.schemas[name].columns, rt)
  BY <1>3
<1>5. PICK rows \in Seq(Rows[rt]) :
        acc = [rows |-> rows, open |-> TRUE, rt |-> rt, at |-> d.schemas[name].at]
  BY <1>4
<1>6. acc.rows = rows /\ acc.rt = rt /\ acc.at = d.schemas[name].at
      /\ acc = [rows |-> acc.rows, open |-> TRUE, rt |-> acc.rt, at |-> acc.at]
  BY <1>5
<1>7. Typed(d.schemas[name].columns, rt) /\ rows \in Seq(Rows[rt])
  BY <1>4
<1> QED BY <1>3, <1>6, <1>7 DEF acc

\* An accumulator with other rows.
LEMMA PutRows ==
  ASSUME NEW acc, NEW w, NEW r, NEW t, acc = [rows |-> w, open |-> TRUE, rt |-> r,
         at |-> t], NEW x
  PROVE  [acc EXCEPT !.rows = x] = [rows |-> x, open |-> TRUE, rt |-> r, at |-> t]
<1> DEFINE e == [acc EXCEPT !.rows = x]
           g == [rows |-> x, open |-> TRUE, rt |-> r, at |-> t]
<1>1. DOMAIN acc = {"rows", "open", "rt", "at"} /\ acc = [z \in DOMAIN acc |-> acc[z]]
      /\ acc["open"] = TRUE /\ acc["rt"] = r /\ acc["at"] = t
  OBVIOUS
<1>2. DOMAIN g = {"rows", "open", "rt", "at"} /\ g = [z \in DOMAIN g |-> g[z]]
      /\ g["rows"] = x /\ g["open"] = TRUE /\ g["rt"] = r /\ g["at"] = t
  OBVIOUS
<1>3. DOMAIN e = DOMAIN acc /\ e = [z \in DOMAIN e |-> e[z]]
  BY <1>1
<1>4. \A z \in DOMAIN acc : e[z] = IF z = "rows" THEN x ELSE acc[z]
  BY <1>1
<1> HIDE DEF e, g
<1>5. \A z \in DOMAIN acc : e[z] = g[z]
  BY <1>1, <1>2, <1>4
<1>6. e = g
  BY <1>1, <1>2, <1>3, <1>5
<1> QED BY <1>6 DEF e, g

\* An accumulator whose rows are others of the same type.
LEMMA RowsPut ==
  ASSUME NEW d, NEW a, WellAccs(d, a), NEW name \in Names,
         a[name].rows # <<>> \/ a[name].open,
         NEW rows \in Seq(Rows[a[name].rt])
  PROVE  WellAccs(d, [a EXCEPT ![name].rows = rows])
<1> DEFINE acc == a[name]
           new == [acc EXCEPT !.rows = rows]
<1>1. /\ name \in DOMAIN d.schemas
      /\ acc.rt \in DOMAIN Rows /\ Typed(d.schemas[name].columns, acc.rt) /\ acc.at = d.schemas[name].at
      /\ acc = [rows |-> acc.rows, open |-> TRUE, rt |-> acc.rt, at |-> acc.at]
  BY AccIs
<1>2. a = [n \in Names |-> a[n]] /\ rows \in Seq(Rows[acc.rt])
  BY DEF WellAccs
<1>3. [a EXCEPT ![name].rows = rows] = [a EXCEPT ![name] = new]
  BY <1>2
<1> HIDE DEF acc
<1>4. new = [rows |-> rows, open |-> TRUE, rt |-> acc.rt, at |-> d.schemas[name].at]
  <2> DEFINE w == acc.rows
             r == acc.rt
             t == d.schemas[name].at
  <2>2. acc = [rows |-> w, open |-> TRUE, rt |-> r, at |-> t]
    BY <1>1
  <2> HIDE DEF w, r, t
  <2>3. new = [rows |-> rows, open |-> TRUE, rt |-> r, at |-> t]
    BY <2>2, PutRows
  <2> QED BY <2>3 DEF r, t
<1> HIDE DEF new
<1>5. WellAcc(d, name, new)
  BY <1>1, <1>2, <1>4 DEF WellAcc
<1>6. WellAccs(d, [a EXCEPT ![name] = new])
  BY <1>5, PutAcc
<1> QED BY <1>3, <1>6

\* The file only grows, so that what fits after a step did before it.
LEMMA FitsBefore ==
  ASSUME NEW d, NEW e, d.file \in Seq(Bytes), e.file \in Seq(Bytes), Onward(d, e),
         FitsIn(e)
  PROVE  FitsIn(d)
<1>1. Bit \in Nat \ {0} /\ HEADER \in Nat
  <2>1. 0 \in Nat
    OBVIOUS
  <2> QED BY <2>1, Widths, PlaceType
<1>2. MaxU64 \in Nat
  <2>1. Limit(Word) \in Nat /\ MaxU64 = Limit(Word) - 1
    BY HeadersType, LimitType DEF MaxU64
  <2>2. Limit(Word) >= 1
    BY HeadersType, LimitType
  <2> QED BY <2>1, <2>2
<1> DEFINE l == Len(d.file)
           m == Len(e.file)
<1>3. l \in Nat /\ m \in Nat /\ l <= m
  BY DEF Onward
<1>4. End(d) = HEADER + l /\ End(e) = HEADER + m
  BY DEF End
<1> HIDE DEF l, m
<1>5. \A b, h, x, y, u \in Nat : x <= y /\ b * (h + y) < u => b * (h + x) < u
  <2> TAKE b, h, x, y, u \in Nat
  <2> HAVE x <= y /\ b * (h + y) < u
  <2>1. PICK z \in Nat : h + y = (h + x) + z
    <3>1. y - x \in Nat
      OBVIOUS
    <3> QED BY <3>1
  <2>2. b * ((h + x) + z) = b * (h + x) + b * z /\ b * (h + x) \in Nat /\ b * z \in Nat
    OBVIOUS
  <2> QED BY <2>1, <2>2
<1>6. Bit * (HEADER + m) < MaxU64
  BY <1>4 DEF FitsIn
<1>7. Bit * (HEADER + l) < MaxU64
  BY <1>1, <1>2, <1>3, <1>5, <1>6
<1> QED BY <1>4, <1>7 DEF FitsIn

\* The number of rows a schema may still get is a number.
LEMMA RoomType ==
  ASSUME NEW name \in Names, Sound(db, stored), WellAccs(db, accs)
  PROVE  Min({MaxItems, Room(name)}) \in Int
<1>1. Len(RowsOf(stored[name])) \in Nat
  <2>1. CASE name \in DOMAIN db.schemas
    BY <2>1, CountIs
  <2>2. CASE name \notin DOMAIN db.schemas
    <3>1. stored[name] = <<>>
      BY <2>2 DEF Sound, WellSchemas
    <3>2. stored[name] \in Seq(Batches(0))
      BY <3>1
    <3>3. RowsOf(stored[name]) \in Seq([1..0 -> Item])
      BY <3>2, RowPartsType
    <3> DEFINE W == [1..0 -> Item]
    <3>4. RowsOf(stored[name]) \in Seq(W)
      BY <3>3
    <3> HIDE DEF W
    <3> QED BY <3>4
  <2> QED BY <2>1, <2>2
<1>2. Len(accs[name].rows) \in Nat
  <2>1. CASE accs[name].rows = <<>>
    BY <2>1
  <2>2. CASE accs[name].rows # <<>>
    BY <2>2, AccIs
  <2> QED BY <2>1, <2>2
<1>3. MaxRows[name] \in Nat /\ MaxItems \in Nat
  BY BoundsAssumption
<1>4. Room(name) \in Int
  <2> DEFINE a == Len(RowsOf(stored[name]))
             b == Len(accs[name].rows)
             c == MaxRows[name]
  <2>1. a \in Nat /\ b \in Nat /\ c \in Nat /\ Room(name) = c - a - b
    BY <1>1, <1>2, <1>3 DEF Room
  <2> HIDE DEF a, b, c
  <2> QED BY <2>1
<1>5. \A a, b \in Int : Min({a, b}) \in Int
  <2> TAKE a, b \in Int
  <2>1. \E x \in {a, b} : \A y \in {a, b} : x =< y
    OBVIOUS
  <2>2. Min({a, b}) \in {a, b}
    BY <2>1 DEF Min
  <2> QED BY <2>2
<1> QED BY <1>3, <1>4, <1>5

\* Sequences of bounded length.
LEMMA BoundedSeqs ==
  ASSUME NEW S, NEW n \in Int, NEW seq \in BoundedSeq(S, n)
  PROVE  seq \in Seq(S)
<1>1. PICK m \in 0..n : seq \in [1..m -> S]
  BY DEF BoundedSeq, SeqOf
<1>2. m \in Nat
  OBVIOUS
<1> QED BY <1>1, <1>2

----------------------------------------------------------------------------
(* The steps                                                               *)

IInv ==
  /\ world \in Worlds
  /\ Sound(db, stored)
  /\ WellAccs(db, accs)
  /\ FitsIn(db) => Settled(stored, granted)

\* A new dataset satisfies the inductive invariant.
LEMMA InitHolds == Init => IInv
<1> SUFFICES ASSUME Init PROVE IInv
  OBVIOUS
<1>1. /\ db = [file |-> <<>>, segments |-> <<>>, mapped |-> 0, schemas |-> <<>>, bins |-> <<>>, faults |-> 0]
      /\ accs = [name \in Names |-> NoAcc] /\ stored = [name \in Names |-> <<>>] /\ granted = {}
      /\ world \in Worlds
  BY DEF Init
<1>2. db.file = <<>> /\ db.segments = <<>> /\ db.mapped = 0 /\ db.schemas = <<>> /\ db.bins = <<>>
      /\ db.faults = 0 /\ IsDb(db)
  BY <1>1 DEF IsDb
<1>3. WellFile(db)
  <2>1. MaxFaults \in Nat
    BY BoundsAssumption
  <2> QED BY <1>2, <2>1 DEF WellFile
<1>4. WellSegments(db)
  <2>1. <<>> \in Seq([variant : 1..3, at : Nat]) /\ Len(<<>>) = 0
    OBVIOUS
  <2>2. 1..Len(db.segments) = {}
    BY <1>2, <2>1
  <2> QED BY <1>2, <2>1, <2>2 DEF WellSegments
<1>5. DOMAIN <<>> = {}
  OBVIOUS
<1>6. WellBins(db)
  BY <1>2, <1>5 DEF WellBins
<1>7. WellSchemas(db, stored)
  <2>1. db.schemas = [name \in DOMAIN db.schemas |-> db.schemas[name]]
    <3>1. <<>> = [name \in DOMAIN <<>> |-> <<>>[name]]
      OBVIOUS
    <3> QED BY <1>2, <3>1
  <2>2. DOMAIN db.schemas = {}
    BY <1>2, <1>5
  <2>3. stored = [name \in Names |-> stored[name]] /\ \A name \in Names : stored[name] = <<>>
    BY <1>1
  <2> QED BY <2>1, <2>2, <2>3 DEF WellSchemas
<1>8. WellAccs(db, accs)
  BY <1>1 DEF WellAccs, WellAcc
<1>9. Settled(stored, granted)
  <2>1. \A name \in Names : stored[name] = <<>>
    BY <1>1
  <2>2. OnceIn(<<>>)
    BY <1>5 DEF OnceIn
  <2> QED BY <1>1, <2>1, <2>2 DEF Settled
<1> QED BY <1>1, <1>3, <1>4, <1>6, <1>7, <1>8, <1>9 DEF IInv, Sound

\* What a step that leaves answers and batches alone does to the invariant.
LEMMA DbStep ==
  ASSUME IInv, Sound(db', stored), Onward(db, db'), WellAccs(db', accs'),
         world' = world, stored' = stored, granted' = granted
  PROVE  IInv'
<1>1. db.file \in Seq(Bytes) /\ db'.file \in Seq(Bytes)
  BY DEF IInv, Sound, WellFile
<1>2. FitsIn(db') => FitsIn(db)
  BY <1>1, FitsBefore
<1>3. FitsIn(db') => Settled(stored', granted')
  BY <1>2 DEF IInv
<1>4. world' \in Worlds /\ Sound(db', stored') /\ WellAccs(db', accs')
  BY DEF IInv
<1>5. FitsIn(db)' <=> FitsIn(db')
  BY DEF FitsIn, End
<1> QED BY <1>3, <1>4, <1>5 DEF IInv

\* Dataset::schema preserves the inductive invariant, whatever fails in it.
LEMMA GetSchemaHolds ==
  ASSUME IInv, NEW name \in Names, NEW rt \in world[name], GetSchema(name, rt)
  PROVE  IInv'
<1>1. Sound(db, stored) /\ WellAccs(db, accs) /\ rt \in DOMAIN Rows
  <2>1. world \in [Names -> SUBSET DOMAIN Rows]
    BY BoundsAssumption DEF IInv
  <2> QED BY <2>1 DEF IInv
<1>2. PICK o \in SchemaCall(db, name, rt) :
        /\ db' = o.db
        /\ accs' = IF o.result # "ok" THEN accs
                   ELSE [accs EXCEPT ![name] = [rows |-> <<>>, open |-> TRUE, rt |-> rt,
                                                at |-> o.db.schemas[name].at]]
  BY DEF GetSchema
<1>3. /\ Sound(o.db, stored) /\ Onward(db, o.db)
      /\ o.result = "ok" => name \in DOMAIN o.db.schemas /\ Typed(o.db.schemas[name].columns, rt)
  BY <1>1, SchemaCallSound
<1>4. WellAccs(o.db, accs)
  BY <1>1, <1>3, AccsStay
<1>5. WellAccs(db', accs')
  <2>1. CASE o.result # "ok"
    BY <1>2, <1>4, <2>1
  <2>2. CASE o.result = "ok"
    <3> DEFINE acc == [rows |-> <<>>, open |-> TRUE, rt |-> rt, at |-> o.db.schemas[name].at]
    <3>1. <<>> \in Seq(Rows[rt])
      OBVIOUS
    <3>2. WellAcc(o.db, name, acc)
      BY <1>1, <1>3, <2>2, <3>1 DEF WellAcc
    <3>3. accs' = [accs EXCEPT ![name] = acc]
      BY <1>2, <2>2
    <3> HIDE DEF acc
    <3>4. WellAccs(o.db, [accs EXCEPT ![name] = acc])
      BY <1>4, <3>2, PutAcc
    <3> QED BY <1>2, <3>3, <3>4
  <2> QED BY <2>1, <2>2
<1>6. world' = world /\ stored' = stored /\ granted' = granted
  BY DEF GetSchema
<1> QED BY <1>2, <1>3, <1>5, <1>6, DbStep

\* Accumulator::push preserves the inductive invariant.
LEMMA PushHolds ==
  ASSUME IInv, NEW name \in Names, accs[name].open, NEW row \in Rows[accs[name].rt],
         Push(name, row)
  PROVE  IInv'
<1>1. Sound(db, stored) /\ WellAccs(db, accs) /\ db.file \in Seq(Bytes)
  BY DEF IInv, Sound, WellFile
<1>2. /\ accs[name].rows \in Seq(Rows[accs[name].rt])
      /\ accs' = [accs EXCEPT ![name].rows = Append(accs[name].rows, row)]
  BY <1>1, AccIs DEF Push
<1> DEFINE rows == Append(accs[name].rows, row)
<1>3. rows \in Seq(Rows[accs[name].rt])
  <2> DEFINE R == Rows[accs[name].rt]
             q == accs[name].rows
  <2>1. q \in Seq(R) /\ row \in R
    BY <1>2
  <2> HIDE DEF R, q
  <2>2. Append(q, row) \in Seq(R)
    BY <2>1
  <2> QED BY <2>2 DEF R, q
<1> HIDE DEF rows
<1>4. WellAccs(db, [accs EXCEPT ![name].rows = rows])
  BY <1>1, <1>3, RowsPut
<1>5. WellAccs(db', accs') /\ db' = db
  BY <1>2, <1>4 DEF Push, rows
<1>6. Onward(db, db)
  BY <1>1, OnwardSame
<1>7. world' = world /\ stored' = stored /\ granted' = granted
  BY DEF Push
<1> QED BY <1>1, <1>5, <1>6, <1>7, DbStep

\* Dropping an accumulator preserves the inductive invariant.
LEMMA DiscardHolds ==
  ASSUME IInv, NEW name \in Names, Discard(name)
  PROVE  IInv'
<1>1. Sound(db, stored) /\ WellAccs(db, accs) /\ db.file \in Seq(Bytes)
  BY DEF IInv, Sound, WellFile
<1>2. accs[name].rows # <<>> /\ accs' = [accs EXCEPT ![name].rows = <<>>]
  BY DEF Discard
<1>3. <<>> \in Seq(Rows[accs[name].rt])
  OBVIOUS
<1>4. WellAccs(db, [accs EXCEPT ![name].rows = <<>>])
  BY <1>1, <1>2, <1>3, RowsPut
<1>5. WellAccs(db', accs') /\ db' = db
  BY <1>2, <1>4 DEF Discard
<1>6. Onward(db, db)
  BY <1>1, OnwardSame
<1>7. world' = world /\ stored' = stored /\ granted' = granted
  BY DEF Discard
<1> QED BY <1>1, <1>5, <1>6, <1>7, DbStep

\* Writing a payload preserves the inductive invariant, whatever fails in it.
LEMMA WriteBinHolds ==
  ASSUME IInv, NEW i \in DOMAIN Payloads, WriteBin(i)
  PROVE  IInv'
<1>1. Sound(db, stored) /\ WellAccs(db, accs) /\ i \notin DOMAIN db.bins
  BY DEF IInv, WriteBin
<1> DEFINE sector == [offset |-> PlaceOf(db, SegmentHeader), size |-> Len(Payloads[i])]
           calls == Commit(db, 3, BinSegment(db, Payloads[i]), [db EXCEPT !.bins = Put(@, i, sector)])
<1>2. PICK o \in calls : db' = o.db
  BY DEF WriteBin, PlaceOf
<1>3. Sound(o.db, stored) /\ Onward(db, o.db)
  BY <1>1, BinSound
<1>4. accs' = accs /\ world' = world /\ stored' = stored /\ granted' = granted
  BY DEF WriteBin
<1>5. WellAccs(o.db, accs)
  BY <1>1, <1>3, AccsStay
<1> HIDE DEF calls
<1> QED BY <1>2, <1>3, <1>4, <1>5, DbStep

\* Dataset::write preserves the inductive invariant, whatever fails in it.
LEMMA WriteHolds ==
  ASSUME IInv, NEW name \in Names, Write(name)
  PROVE  IInv'
<1> DEFINE acc == accs[name]
           rt == accs[name].rt
           rows == accs[name].rows
<1>1. Sound(db, stored) /\ WellAccs(db, accs) /\ rows # <<>>
  BY DEF IInv, Write
<1>2. /\ name \in DOMAIN db.schemas /\ rt \in DOMAIN Rows /\ Typed(db.schemas[name].columns, rt)
      /\ rows \in Seq(Rows[rt]) /\ acc.at = db.schemas[name].at
  BY <1>1, AccIs
<1>3. acc.at \in Nat
  <2>1. WellSchema(db.file, db.mapped, db.schemas[name], stored[name])
    BY <1>1, <1>2 DEF Sound, WellSchemas
  <2> QED BY <1>2, <2>1 DEF WellSchema
<1>4. PICK o \in WriteCall(db, name, rt, rows, acc.at) :
        /\ db' = o.db
        /\ stored' = IF o.result = "segment" THEN stored
                     ELSE [stored EXCEPT ![name] = Append(@, Batch(PlainRows(rt, rows), o.result = "ok", FALSE))]
        /\ accs' = [accs EXCEPT ![name].rows = <<>>]
  BY DEF Write
<1>5. world' = world /\ granted' = granted
  BY DEF Write
<1> DEFINE acked == o.result = "ok"
           new == PlainRows(rt, rows)
           no == FALSE
           more == Batched(stored, name, new, acked, no)
<1>6. new \in WideRows(rt)
  BY <1>2, PlainType DEF WideRows
<1>7. acked \in BOOLEAN /\ no \in BOOLEAN /\ NewOnce(stored[name], new, no)
  BY DEF NewOnce
<1>8. stored' = IF o.result = "segment" THEN stored ELSE more
  BY <1>4 DEF Batched
<1>9. WellAccs(o.db, [accs EXCEPT ![name].rows = <<>>]) /\ Sound(o.db, IF o.result = "segment" THEN stored ELSE more)
      /\ Onward(db, o.db)
  <2> HIDE DEF no, acc
  <2>1. Sound(o.db, IF o.result = "segment" THEN stored ELSE Batched(stored, name, PlainRows(rt, rows), o.result = "ok", no))
        /\ Onward(db, o.db)
    BY <1>1, <1>2, <1>3, <1>4, <1>7, WriteCallSound
  <2>2. WellAccs(o.db, accs)
    BY <1>1, <2>1, AccsStay
  <2>3. <<>> \in Seq(Rows[rt])
    OBVIOUS
  <2>4. WellAccs(o.db, [accs EXCEPT ![name].rows = <<>>])
    BY <1>1, <2>2, <2>3, RowsPut
  <2> QED BY <2>1, <2>4
<1> HIDE DEF acc, acked, new, no, rt, rows
<1>10. WellAccs(db', accs')
  BY <1>4, <1>9
<1>11. CASE o.result = "segment"
  BY <1>4, <1>5, <1>8, <1>9, <1>10, <1>11, DbStep
<1>12. CASE o.result # "segment"
  <2>1. stored' = more /\ Sound(db', more)
    BY <1>4, <1>8, <1>9, <1>12
  <2>2. Settled(stored, granted) => Settled(more, granted)
    BY <1>1, <1>2, <1>6, <1>7, SettledGrows
  <2>3. db.file \in Seq(Bytes) /\ db'.file \in Seq(Bytes) /\ Onward(db, db')
    BY <1>1, <1>4, <1>9, <2>1 DEF Sound, WellFile
  <2>4. FitsIn(db') => FitsIn(db)
    BY <2>3, FitsBefore
  <2>5. FitsIn(db)' <=> FitsIn(db')
    BY DEF FitsIn, End
  <2>6. FitsIn(db') => Settled(stored', granted')
    BY <1>5, <2>1, <2>2, <2>4 DEF IInv
  <2>7. world' \in Worlds
    BY <1>5 DEF IInv
  <2> QED BY <1>10, <2>1, <2>5, <2>6, <2>7 DEF IInv
<1> QED BY <1>11, <1>12

\* Dataset::get_or_insert preserves the inductive invariant, whatever fails in
\* it and whatever it reads.
LEMMA GetOrInsertHolds ==
  ASSUME IInv, NEW name \in Names, NEW rt \in world[name], NEW max,
         NEW items \in BoundedSeq(Rows[rt], Min({MaxItems, Room(name)})),
         GetOrInsert(name, rt, items, max)
  PROVE  IInv'
<1>1. Sound(db, stored) /\ WellAccs(db, accs) /\ rt \in DOMAIN Rows
  <2>1. world \in [Names -> SUBSET DOMAIN Rows]
    BY BoundsAssumption DEF IInv
  <2> QED BY <2>1 DEF IInv
<1>2. items \in Seq(Rows[rt])
  <2>1. Min({MaxItems, Room(name)}) \in Int
    BY <1>1, RoomType
  <2> QED BY <2>1, BoundedSeqs
<1> DEFINE ReadIn(p) == ReadRows(p.db, p.db.schemas[name].columns)
<1>3. PICK p \in SchemaCall(db, name, rt) :
        \E o \in Reading(p, name, rt, items, ReadIn(p), max) :
          /\ db' = o.db /\ granted' = granted \cup o.answers
          /\ stored' = [stored EXCEPT ![name] = @ \o o.batches]
  BY DEF GetOrInsert
<1>4. PICK o \in Reading(p, name, rt, items, ReadIn(p), max) :
          /\ db' = o.db /\ granted' = granted \cup o.answers
          /\ stored' = [stored EXCEPT ![name] = @ \o o.batches]
  BY <1>3
<1>5. world' = world /\ accs' = accs
  BY DEF GetOrInsert
<1>6. /\ Sound(p.db, stored) /\ Onward(db, p.db)
      /\ p.result = "ok" => name \in DOMAIN p.db.schemas /\ Typed(p.db.schemas[name].columns, rt)
  BY <1>1, SchemaCallSound
<1>7. WellAccs(p.db, accs)
  BY <1>1, <1>6, AccsStay
<1>8. CASE p.result # "ok" \/ ~ ReadIn(p).ok
  <2>1. o = [db |-> p.db, answers |-> {}, batches |-> <<>>]
    BY <1>4, <1>8, Zenon DEF Reading
  <2>2. o.db = p.db /\ o.answers = {} /\ o.batches = <<>>
    BY <2>1
  <2>3. stored' = stored /\ granted' = granted /\ db' = p.db
    <3>1. [stored EXCEPT ![name] = @ \o <<>>] = stored
      BY <1>1, StoredSame
    <3> QED BY <1>4, <2>2, <3>1
  <2> QED BY <1>5, <1>6, <1>7, <2>3, DbStep
<1>9. CASE p.result = "ok" /\ ReadIn(p).ok
  <2> DEFINE old == ReadIn(p).it
             d == p.db
  <2>1. o \in Interned(d, name, rt, items, old, max)
    BY <1>4, <1>9, Zenon DEF Reading
  <2>2. name \in DOMAIN d.schemas /\ Typed(d.schemas[name].columns, rt) /\ Sound(d, stored)
    BY <1>6, <1>9
  <2>3. FitsIn(d) => old = RowsOf(stored[name])
    BY <1>9, <2>2, ReadRowsIs
  <2> HIDE DEF old, ReadIn
  <2>4. stored' = [stored EXCEPT ![name] = @ \o o.batches]
    BY <1>4
  <2>5. /\ Sound(o.db, stored') /\ Onward(d, o.db)
        /\ old = RowsOf(stored[name]) /\ Settled(stored, granted)
             => Settled(stored', granted \cup o.answers)
    <3> DEFINE t == stored'
    <3>1. t = [stored EXCEPT ![name] = @ \o o.batches]
      BY <2>4
    <3> HIDE DEF t, d
    <3>2. /\ Sound(o.db, t) /\ Onward(d, o.db)
          /\ old = RowsOf(stored[name]) /\ Settled(stored, granted)
               => Settled(t, granted \cup o.answers)
      BY <1>1, <1>2, <2>1, <2>2, <3>1, InternedSound
    <3> QED BY <3>2 DEF t
  <2>6. db' = o.db
    BY <1>4
  <2>7. WellAccs(db', accs')
    <3>1. WellAccs(o.db, accs)
      BY <1>7, <2>5, AccsStay
    <3> QED BY <1>5, <2>6, <3>1
  <2>8. d.file \in Seq(Bytes) /\ db.file \in Seq(Bytes) /\ db'.file \in Seq(Bytes)
    BY <1>1, <1>6, <2>5, <2>6 DEF Sound, WellFile
  <2>9. FitsIn(db') => FitsIn(d)
    BY <2>5, <2>6, <2>8, FitsBefore
  <2>10. FitsIn(d) => FitsIn(db)
    BY <1>6, <2>8, FitsBefore
  <2>11. FitsIn(db') => Settled(stored', granted')
    <3>1. granted' = granted \cup o.answers
      BY <1>4
    <3> QED BY <2>3, <2>5, <2>9, <2>10, <3>1 DEF IInv
  <2>12. FitsIn(db)' <=> FitsIn(db')
    BY DEF FitsIn, End
  <2>13. world' \in Worlds
    BY <1>5 DEF IInv
  <2> QED BY <2>5, <2>6, <2>7, <2>11, <2>12, <2>13 DEF IInv
<1> QED BY <1>8, <1>9

\* Every step preserves the inductive invariant.
LEMMA NextHolds == IInv /\ [Next]_vars => IInv'
<1> SUFFICES ASSUME IInv, [Next]_vars PROVE IInv'
  OBVIOUS
<1>1. ASSUME NEW name \in Names, NEW rt \in world[name], GetSchema(name, rt) PROVE IInv'
  BY <1>1, GetSchemaHolds
<1>2. ASSUME NEW name \in Names, accs[name].open, NEW row \in Rows[accs[name].rt], Push(name, row) PROVE IInv'
  BY <1>2, PushHolds
<1>3. ASSUME NEW name \in Names, Discard(name) PROVE IInv'
  BY <1>3, DiscardHolds
<1>4. ASSUME NEW name \in Names, Write(name) PROVE IInv'
  BY <1>4, WriteHolds
<1>5. ASSUME NEW name \in Names, NEW rt \in world[name], NEW max \in IndexTypes,
             NEW items \in BoundedSeq(Rows[rt], Min({MaxItems, Room(name)})), GetOrInsert(name, rt, items, max)
      PROVE  IInv'
  BY <1>5, GetOrInsertHolds
<1>6. ASSUME NEW i \in DOMAIN Payloads, WriteBin(i) PROVE IInv'
  BY <1>6, WriteBinHolds
<1>7. CASE UNCHANGED vars
  <2>1. world' = world /\ db' = db /\ accs' = accs /\ stored' = stored /\ granted' = granted
    BY <1>7 DEF vars
  <2>2. Sound(db, stored) /\ WellAccs(db, accs) /\ db.file \in Seq(Bytes)
    BY DEF IInv, Sound, WellFile
  <2>3. Onward(db, db)
    BY <2>2, OnwardSame
  <2>4. Sound(db', stored) /\ Onward(db, db') /\ WellAccs(db', accs')
    BY <2>1, <2>2, <2>3
  <2> QED BY <2>1, <2>4, DbStep
<1> QED BY <1>1, <1>2, <1>3, <1>4, <1>5, <1>6, <1>7 DEF Next

----------------------------------------------------------------------------
(* The theorems                                                            *)

\* The inductive invariant holds in every state: the dataset is sound (each
\* listed buffer and payload, once in the file, holds what was written, where
\* the manifest says, with its statistics), accumulators are of the schema
\* they were made for, and, as long as offsets fit in a u64, answers resolve
\* and items are interned once.
THEOREM DatasetInvariant == Spec => []IInv
<1>1. Init => IInv
  BY InitHolds
<1>2. IInv /\ [Next]_vars => IInv'
  BY NextHolds
<1> QED BY <1>1, <1>2, PTL DEF Spec

Fits == FitsIn(db)

\* The buffers that the properties range over are those of the batches.
LEMMA IsPlaced == \A c \in Placed : PlacedIn(db, stored, c)
<1> TAKE c \in Placed
<1>1. PICK name \in DOMAIN db.schemas :
        c \in {[name |-> name, k |-> k, i |-> i] :
                 k \in DOMAIN db.schemas[name].columns, i \in DOMAIN stored[name]}
  BY DEF Placed
<1>2. PICK k \in DOMAIN db.schemas[name].columns :
        \E i \in DOMAIN stored[name] : c = [name |-> name, k |-> k, i |-> i]
  BY <1>1
<1>3. PICK i \in DOMAIN stored[name] : c = [name |-> name, k |-> k, i |-> i]
  BY <1>2
<1>4. c.name = name /\ c.k = k /\ c.i = i
  BY <1>3
<1> QED BY <1>4 DEF PlacedIn

\* The dataset is well typed: it holds rows of known schemas only, and each
\* column has as many buffers as its schema has batches, whatever the writes
\* that failed.
THEOREM TypesHold == Spec => []TypeOK
<1>1. IInv => TypeOK
  <2> SUFFICES ASSUME IInv PROVE TypeOK
    OBVIOUS
  <2>1. TypedIn(db, stored, accs) /\ world \in Worlds
    BY SoundTyped DEF IInv
  <2> QED BY <2>1 DEF TypedIn, TypeOK
<1> QED BY <1>1, DatasetInvariant, PTL

\* Every column buffer and payload begins at a word, whatever odd-sized
\* segments come before it: for every set of row types and payloads.
THEOREM Aligned == Spec => []BuffersAligned
<1>1. IInv => BuffersAligned
  BY SoundAligned DEF IInv, AlignedIn, BuffersAligned
<1> QED BY <1>1, DatasetInvariant, PTL

\* The i-th buffers of all columns of a schema hold as many items each, after
\* any sequence of writes and failures.
THEOREM ColumnsInStep == Spec => []LockStep
<1>1. IInv => LockStep
  <2> SUFFICES ASSUME IInv PROVE LockStep
    OBVIOUS
  <2>1. InStep(db)
    BY SoundInStep DEF IInv
  <2> QED BY <2>1, Zenon DEF InStep, LockStep
<1> QED BY <1>1, DatasetInvariant, PTL

\* The statistics in the manifest address items of their buffer, the least and
\* the greatest of it, for every fixed-width type, plain, with a niche or with
\* a mask; for floats, those that no item is ordered beyond.
THEOREM StatisticsHold == Spec => []StatisticsAddressed
<1>1. IInv => StatisticsAddressed
  <2> SUFFICES ASSUME IInv PROVE StatisticsAddressed
    OBVIOUS
  <2>1. \A c \in Placed : StatisticsIn(db, stored, c)
    BY IsPlaced, SoundStatistics DEF IInv
  <2> QED BY <2>1, Zenon DEF StatisticsIn, StatisticsAddressed, DescIn, TypeIn, ColumnIn, DescOf, TypeOf, ColumnOf
<1> QED BY <1>1, DatasetInvariant, PTL

\* Every acknowledged row reads back, column by column and bit for bit, and
\* nothing else in its place: for all row types, however nested, all orders of
\* calls and all failures, as long as bit offsets fit in a u64. Only a hollow
\* batch may be an error instead.
THEOREM RowsReadBack == Spec => [](Fits => AckedReadable)
<1>1. IInv => (Fits => AckedReadable)
  <2> SUFFICES ASSUME IInv, Fits PROVE AckedReadable
    OBVIOUS
  <2>1. \A c \in Placed : ReadsWell(db, stored, c)
    BY IsPlaced, SoundReads DEF IInv, Fits
  <2>2. BinsRead(db)
    BY SoundBins DEF IInv
  <2>3. \A c \in Placed :
          LET read == ReadBuffer(db, TypeOf(c), DescOf(c))
              hollow == Hollow[TypeOf(c)][ColumnOf(c)]
          IN  /\ read.ok => read.it = ColumnOf(c) /\ ~ hollow
              /\ stored[c.name][c.i].acked /\ ~ hollow => read.ok
    BY <2>1, Zenon DEF ReadsWell, DescIn, TypeIn, ColumnIn, DescOf, TypeOf, ColumnOf
  <2> QED BY <2>2, <2>3, Zenon DEF BinsRead, AckedReadable
<1> QED BY <1>1, DatasetInvariant, PTL

\* The size in the header of each schema, data segment and unpadded payload
\* leads to the next segment, as long as the sizes fit in a u64.
THEOREM Walks == Spec => [](Fits => SegmentsWalk)
<1>1. IInv => (Fits => SegmentsWalk)
  <2> SUFFICES ASSUME IInv, Fits, NEW s \in DOMAIN db.segments, ~ PaddedPayload(s)
               PROVE  LeadsOn(s)
    BY DEF SegmentsWalk
  <2>1. WalksIn(db)
    BY SoundWalks DEF IInv, Fits
  <2>2. LeadsOn(s) <=> ~ PaddedPayload(s)
    BY <2>1, SMT DEF WalksIn, PaddedPayload, LeadsOn
  <2> QED BY <2>2
<1> QED BY <1>1, DatasetInvariant, PTL

\* An index that get_or_insert returned is the place of its item among the
\* rows a query reads, whatever is pushed, interned or fails afterwards.
THEOREM IndicesResolve == Spec => [](Fits => IndexResolves)
<1>1. IInv => (Fits => IndexResolves)
  <2> SUFFICES ASSUME IInv, Fits PROVE IndexResolves
    OBVIOUS
  <2>1. \A g \in granted : Resolves(stored, g)
    BY DEF IInv, Fits, Settled
  <2> QED BY <2>1 DEF Resolves, IndexResolves
<1> QED BY <1>1, DatasetInvariant, PTL

\* No item is interned twice, not in one call nor in two, not even after a
\* call whose outcome was an error.
THEOREM OnceInterned == Spec => [](Fits => InternedOnce)
<1>1. IInv => (Fits => InternedOnce)
  <2> SUFFICES ASSUME IInv, Fits PROVE InternedOnce
    OBVIOUS
  <2>1. \A name \in Names : OnceIn(stored[name])
    BY DEF IInv, Fits, Settled
  <2> QED BY <2>1, Zenon DEF OnceIn, InternedOnce
<1> QED BY <1>1, DatasetInvariant, PTL

=============================================================================
