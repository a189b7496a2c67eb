------------------------- MODULE AccumulateProofs -------------------------
(***************************************************************************)
(* What a column buffer stores is what was pushed, in any of the six       *)
(* layouts and for any number of items. The raw accumulators are recursive *)
(* functions of the items, so the argument is an induction over what they  *)
(* have consumed: Holds says what the sub-buffers of the first n items     *)
(* look like, Faithful says it of the accumulator that is Empty, Compact   *)
(* or Many, and AccInv of a session that pushes, discards and writes.      *)
(***************************************************************************)
EXTENDS Accumulate, DataInduction, SequenceTheorems, FiniteSetTheorems

----------------------------------------------------------------------------
(* The recursive functions have the equations that define them.            *)

LEMMA CollectEquation ==
  ASSUME NEW l, NEW items, Len(items) \in Nat
  PROVE  \E f : /\ RawCollect(l, items) = f[Len(items)]
                /\ f[0] = EmptyRaw
                /\ \A n \in 1..Len(items) : f[n] = RawPush(l, f[n - 1], items[n])
<1> DEFINE Eq(m, g) ==
      g = [n \in 0..m |-> IF n = 0 THEN EmptyRaw
                          ELSE RawPush(l, g[n - 1], items[n])]
           T == {m \in Nat : \E g : Eq(m, g)}
<1>1. 0 \in T
  <2>1. Eq(0, [n \in 0..0 |-> EmptyRaw])
    OBVIOUS
  <2> QED BY <2>1
<1>2. ASSUME NEW m \in Nat, m \in T PROVE m + 1 \in T
  <2>1. PICK g : Eq(m, g)
    BY <1>2
  <2> DEFINE h == [n \in 0..(m + 1) |->
                     IF n = 0 THEN EmptyRaw
                     ELSE RawPush(l, g[n - 1], items[n])]
  <2>2. \A n \in 0..m : h[n] = g[n]
    BY <2>1
  <2>3. \A n \in 0..(m + 1) : n # 0 => h[n - 1] = g[n - 1]
    <3> TAKE n \in 0..(m + 1)
    <3> HAVE n # 0
    <3>1. n - 1 \in 0..m
      OBVIOUS
    <3> HIDE DEF h
    <3> QED BY <2>2, <3>1
  <2>4. \A n \in 0..(m + 1) :
          h[n] = IF n = 0 THEN EmptyRaw ELSE RawPush(l, h[n - 1], items[n])
    <3> TAKE n \in 0..(m + 1)
    <3>1. h[n] = IF n = 0 THEN EmptyRaw ELSE RawPush(l, g[n - 1], items[n])
      OBVIOUS
    <3> HIDE DEF h
    <3> QED BY <3>1, <2>3
  <2>5. h = [n \in 0..(m + 1) |-> h[n]]
    OBVIOUS
  <2>6. Eq(m + 1, h)
    <3> HIDE DEF h
    <3> QED BY <2>4, <2>5
  <2> HIDE DEF h, Eq
  <2>7. \E k : Eq(m + 1, k)
    BY <2>6
  <2> QED BY <2>7
<1>3. Nat \subseteq T
  <2> HIDE DEF T
  <2> QED BY <1>1, <1>2, Induction
<1> DEFINE f == CHOOSE g : Eq(Len(items), g)
<1>4. Eq(Len(items), f)
  BY <1>3
<1>5. RawCollect(l, items) = f[Len(items)]
  BY DEF RawCollect
<1> HIDE DEF f
<1>6. f[0] = EmptyRaw
  BY <1>4
<1>7. \A n \in 1..Len(items) : f[n] = RawPush(l, f[n - 1], items[n])
  BY <1>4
<1> QED BY <1>5, <1>6, <1>7

\* One step of the search for the best item.
Consider(items, ordering, best, n) ==
  IF \/ items[n] = None
     \/ best # 0 /\ ~ Better(ordering, items[n], items[best])
  THEN best ELSE n

LEMMA FindEquation ==
  ASSUME NEW items, NEW ordering, Len(items) \in Nat
  PROVE  \E f : /\ Find(items, ordering) = f[Len(items)]
                /\ f[0] = 0
                /\ \A n \in 1..Len(items) :
                     f[n] = Consider(items, ordering, f[n - 1], n)
<1> DEFINE Eq(m, g) ==
      g = [n \in 0..m |-> IF n = 0 THEN 0
                          ELSE Consider(items, ordering, g[n - 1], n)]
           T == {m \in Nat : \E g : Eq(m, g)}
<1>1. 0 \in T
  <2>1. Eq(0, [n \in 0..0 |-> 0])
    OBVIOUS
  <2> QED BY <2>1
<1>2. ASSUME NEW m \in Nat, m \in T PROVE m + 1 \in T
  <2>1. PICK g : Eq(m, g)
    BY <1>2
  <2> DEFINE h == [n \in 0..(m + 1) |->
                     IF n = 0 THEN 0
                     ELSE Consider(items, ordering, g[n - 1], n)]
  <2>2. \A n \in 0..m : h[n] = g[n]
    BY <2>1
  <2>3. \A n \in 0..(m + 1) : n # 0 => h[n - 1] = g[n - 1]
    <3> TAKE n \in 0..(m + 1)
    <3> HAVE n # 0
    <3>1. n - 1 \in 0..m
      OBVIOUS
    <3> HIDE DEF h
    <3> QED BY <2>2, <3>1
  <2>4. \A n \in 0..(m + 1) :
          h[n] = IF n = 0 THEN 0 ELSE Consider(items, ordering, h[n - 1], n)
    <3> TAKE n \in 0..(m + 1)
    <3>1. h[n] = IF n = 0 THEN 0 ELSE Consider(items, ordering, g[n - 1], n)
      OBVIOUS
    <3> HIDE DEF h
    <3> QED BY <3>1, <2>3
  <2>5. h = [n \in 0..(m + 1) |-> h[n]]
    OBVIOUS
  <2>6. Eq(m + 1, h)
    <3> HIDE DEF h
    <3> QED BY <2>4, <2>5
  <2> HIDE DEF h, Eq
  <2>7. \E k : Eq(m + 1, k)
    BY <2>6
  <2> QED BY <2>7
<1>3. Nat \subseteq T
  <2> HIDE DEF T
  <2> QED BY <1>1, <1>2, Induction
<1> DEFINE f == CHOOSE g : Eq(Len(items), g)
<1>4. Eq(Len(items), f)
  BY <1>3
<1>5. Find(items, ordering) = f[Len(items)]
  BY DEF Find, Consider
<1> HIDE DEF f
<1>6. f[0] = 0
  BY <1>4
<1>7. \A n \in 1..Len(items) : f[n] = Consider(items, ordering, f[n - 1], n)
  BY <1>4
<1> QED BY <1>5, <1>6, <1>7

----------------------------------------------------------------------------
(* The number of items with data, and the end of the last sequence.        *)

LEMMA DenseType ==
  ASSUME NEW m, NEW n \in Int
  PROVE  /\ IsFiniteSet({k \in 1..n : m[k]})
         /\ Dense(m, n) \in Nat
<1>1. IsFiniteSet(1..n)
  BY FS_Interval
<1>2. {k \in 1..n : m[k]} \in SUBSET (1..n)
  OBVIOUS
<1>3. IsFiniteSet({k \in 1..n : m[k]})
  BY <1>1, <1>2, FS_Subset
<1> QED BY <1>3, FS_CardinalityType DEF Dense

LEMMA DenseZero ==
  ASSUME NEW m
  PROVE  Dense(m, 0) = 0
<1>1. {k \in 1..0 : m[k]} = {}
  OBVIOUS
<1> QED BY <1>1, FS_EmptySet DEF Dense

LEMMA DenseNext ==
  ASSUME NEW m, NEW n \in Nat
  PROVE  Dense(m, n + 1) = Dense(m, n) + (IF m[n + 1] THEN 1 ELSE 0)
<1>1. IsFiniteSet({k \in 1..n : m[k]}) /\ Dense(m, n) \in Nat
  BY DenseType
<1>2. n + 1 \notin {k \in 1..n : m[k]}
  OBVIOUS
<1>3. CASE m[n + 1]
  <2>1. {k \in 1..(n + 1) : m[k]} = {k \in 1..n : m[k]} \cup {n + 1}
    BY <1>3
  <2> QED BY <1>1, <1>2, <1>3, <2>1, FS_AddElement DEF Dense
<1>4. CASE ~ m[n + 1]
  <2>1. {k \in 1..(n + 1) : m[k]} = {k \in 1..n : m[k]}
    BY <1>4
  <2> QED BY <1>1, <1>4, <2>1 DEF Dense
<1> QED BY <1>3, <1>4

LEMMA DenseSame ==
  ASSUME NEW m, NEW o, NEW n \in Nat, \A k \in 1..n : m[k] = o[k]
  PROVE  Dense(m, n) = Dense(o, n)
<1>1. {k \in 1..n : m[k]} = {k \in 1..n : o[k]}
  OBVIOUS
<1> QED BY <1>1 DEF Dense

LEMMA DenseGrows ==
  ASSUME NEW m, NEW n \in Nat, NEW o \in Nat, n <= o
  PROVE  Dense(m, n) <= Dense(m, o)
<1>0. o \in Int
  OBVIOUS
<1>1. IsFiniteSet({k \in 1..o : m[k]})
  BY <1>0, DenseType, Zenon
<1>2. {k \in 1..n : m[k]} \in SUBSET {k \in 1..o : m[k]}
  OBVIOUS
<1> QED BY <1>1, <1>2, FS_Subset DEF Dense

\* The item at n has its data among those of the first o.
LEMMA DenseIndex ==
  ASSUME NEW m, NEW n \in Nat \ {0}, NEW o \in Nat, n <= o, m[n]
  PROVE  Dense(m, n) \in 1..Dense(m, o)
<1>1. n - 1 \in Nat /\ (n - 1) + 1 = n
  OBVIOUS
<1>2. Dense(m, n) = Dense(m, n - 1) + 1
  <2>1. Dense(m, (n - 1) + 1) = Dense(m, n - 1) + (IF m[(n - 1) + 1] THEN 1 ELSE 0)
    BY <1>1, DenseNext
  <2> QED BY <1>1, <2>1
<1>3. Dense(m, n - 1) \in Nat /\ Dense(m, o) \in Nat
  <2>1. n - 1 \in Int /\ o \in Int
    OBVIOUS
  <2> QED BY <2>1, DenseType, Zenon
<1>4. Dense(m, n) <= Dense(m, o)
  BY DenseGrows
<1> QED BY <1>2, <1>3, <1>4

LEMMA MaxOfBounded ==
  ASSUME NEW N \in Nat, NEW T \in SUBSET (0..N), T # {}
  PROVE  Max(T) \in T /\ \A m \in T : m <= Max(T)
<1>1. \E n \in T : \A m \in T : n >= m
  BY Largest
<1> QED BY <1>1 DEF Max

Ends == Nat \cup {NoneEnd}

LEMMA LastEndEmpty == LastEnd(<<>>) = 0
BY DEF LastEnd

LEMMA LastEndAppend ==
  ASSUME NEW ends \in Seq(Ends), NEW e \in Ends
  PROVE  LastEnd(Append(ends, e)) = IF e = NoneEnd THEN LastEnd(ends) ELSE e
<1> DEFINE longer == Append(ends, e)
           N == Len(ends)
           old == {n \in DOMAIN ends : ends[n] # NoneEnd}
           new == {n \in DOMAIN longer : longer[n] # NoneEnd}
<1>1. /\ N \in Nat /\ DOMAIN ends = 1..N /\ DOMAIN longer = 1..(N + 1)
      /\ longer[N + 1] = e /\ \A n \in 1..N : longer[n] = ends[n]
  BY AppendProperties, LenProperties
<1>2. CASE e = NoneEnd
  <2>1. new = old
    BY <1>1, <1>2
  <2>2. CASE old = {}
    BY <1>2, <2>1, <2>2 DEF LastEnd
  <2>3. CASE old # {}
    <3>1. Max(old) \in old
      <4>1. old \in SUBSET (0..N)
        BY <1>1
      <4> HIDE DEF old
      <4> QED BY <1>1, <2>3, <4>1, MaxOfBounded
    <3>2. longer[Max(old)] = ends[Max(old)]
      <4>1. Max(old) \in 1..N
        BY <3>1, <1>1
      <4> QED BY <4>1, <1>1
    <3>3. LastEnd(ends) = ends[Max(old)]
      BY <2>3 DEF LastEnd
    <3>4. LastEnd(longer) = longer[Max(new)]
      BY <2>1, <2>3 DEF LastEnd
    <3> QED BY <1>2, <2>1, <3>2, <3>3, <3>4
  <2> QED BY <2>2, <2>3
<1>3. CASE e # NoneEnd
  <2>1. N + 1 \in new /\ new \in SUBSET (0..(N + 1))
    BY <1>1, <1>3
  <2>2. Max(new) = N + 1
    <3>1. N + 1 \in Nat
      BY <1>1
    <3> HIDE DEF new
    <3>2. Max(new) \in new /\ N + 1 <= Max(new)
      BY <2>1, <3>1, MaxOfBounded
    <3>3. Max(new) \in 0..(N + 1)
      BY <2>1, <3>2
    <3> QED BY <1>1, <3>2, <3>3
  <2>3. LastEnd(longer) = longer[Max(new)]
    BY <2>1 DEF LastEnd
  <2> QED BY <1>1, <1>3, <2>2, <2>3
<1> QED BY <1>2, <1>3

----------------------------------------------------------------------------
(* What the sub-buffers hold, for the items pushed into them.              *)

RawType == [mask : Seq(BOOLEAN), ends : Seq(Ends), data : Seq(Bits \cup {None})]

HoldsPlain(raw, items) == raw.data = items

HoldsBits(raw, items) ==
  /\ Len(raw.mask) = Len(items)
  /\ \A n \in 1..Len(items) : raw.mask[n] <=> items[n] # None
  /\ raw.data \in Seq(Bits)
  /\ Len(raw.data) = Dense(raw.mask, Len(items))
  /\ \A n \in 1..Len(items) :
       items[n] # None => raw.data[Dense(raw.mask, n)] = items[n]

\* Where the sequence at n begins.
Start(ends, n) == LastEnd(SubSeq(ends, 1, n - 1)) + 1

HoldsEnds(raw, items) ==
  /\ Len(raw.ends) = Len(items)
  /\ raw.data \in Seq(Letters)
  /\ LastEnd(raw.ends) = Len(raw.data)
  /\ \A n \in 1..Len(items) :
       IF items[n] = None THEN raw.ends[n] = NoneEnd
       ELSE /\ Start(raw.ends, n) \in 1..(Len(raw.data) + 1)
            /\ raw.ends[n] \in 0..Len(raw.data)
            /\ items[n] = SubSeq(raw.data, Start(raw.ends, n), raw.ends[n])

Holds(l, raw, items) ==
  /\ raw \in RawType
  /\ items \in Seq(Items(l))
  /\ l = "OptBitVec" => HoldsBits(raw, items)
  /\ l \in Sequential => HoldsEnds(raw, items)
  /\ l \notin Sequential \cup {"OptBitVec"} => HoldsPlain(raw, items)

LEMMA EmptyHolds ==
  ASSUME NEW l \in Layouts
  PROVE  Holds(l, EmptyRaw, <<>>)
<1>1. EmptyRaw \in RawType
  BY EmptySeq DEF EmptyRaw, RawType
<1>2. <<>> \in Seq(Items(l)) /\ Len(<<>>) = 0 /\ <<>> \in Seq(Bits) /\ <<>> \in Seq(Letters)
  BY EmptySeq
<1>3. HoldsBits(EmptyRaw, <<>>)
  BY <1>2, DenseZero DEF HoldsBits, EmptyRaw
<1>4. HoldsEnds(EmptyRaw, <<>>)
  BY <1>2, LastEndEmpty DEF HoldsEnds, EmptyRaw
<1>5. HoldsPlain(EmptyRaw, <<>>)
  BY DEF HoldsPlain, EmptyRaw
<1> QED BY <1>1, <1>2, <1>3, <1>4, <1>5 DEF Holds

LEMMA BitsPush ==
  ASSUME NEW raw \in RawType, NEW items \in Seq(Bits \cup {None}),
         HoldsBits(raw, items), NEW item \in Bits \cup {None}
  PROVE  HoldsBits(PushOptBitVec(raw, item), Append(items, item))
<1> DEFINE N == Len(items)
           more == Append(items, item)
           pushes == PushOptBitVec(raw, item)
           mask == Append(raw.mask, item # None)
           data == IF item = None THEN raw.data ELSE Append(raw.data, item)
<1>1. pushes.mask = mask /\ pushes.data = data
  <2>1. DOMAIN raw = {"mask", "ends", "data"}
    BY DEF RawType
  <2> QED BY <2>1, Zenon DEF PushOptBitVec
<1>2. /\ N \in Nat /\ Len(more) = N + 1 /\ more[N + 1] = item
      /\ \A n \in 1..N : more[n] = items[n]
  BY AppendProperties, LenProperties
<1>3. /\ Len(mask) = N + 1 /\ mask[N + 1] = (item # None)
      /\ \A n \in 1..N : mask[n] = raw.mask[n]
  <2>1. raw.mask \in Seq(BOOLEAN) /\ (item # None) \in BOOLEAN /\ Len(raw.mask) = N
    BY DEF RawType, HoldsBits
  <2> QED BY <2>1, AppendProperties, LenProperties
<1>4. /\ raw.data \in Seq(Bits) /\ Len(raw.data) \in Nat
      /\ Len(raw.data) = Dense(raw.mask, N)
  BY LenProperties DEF HoldsBits
<1>5. data \in Seq(Bits) /\ Len(data) = Len(raw.data) + (IF item = None THEN 0 ELSE 1)
  BY <1>4, AppendProperties
<1>6. \A n \in 0..N : Dense(mask, n) = Dense(raw.mask, n)
  <2> TAKE n \in 0..N
  <2>1. n \in Nat /\ \A k \in 1..n : mask[k] = raw.mask[k]
    BY <1>2, <1>3
  <2> HIDE DEF mask
  <2> QED BY <2>1, DenseSame
<1>7. Dense(mask, N + 1) = Dense(raw.mask, N) + (IF item = None THEN 0 ELSE 1)
  <2>1. Dense(mask, N + 1) = Dense(mask, N) + (IF mask[N + 1] THEN 1 ELSE 0)
    BY <1>2, DenseNext
  <2>2. Dense(mask, N) = Dense(raw.mask, N)
    BY <1>2, <1>6
  <2> HIDE DEF mask
  <2> QED BY <1>3, <2>1, <2>2
<1>8. \A n \in 1..(N + 1) : mask[n] <=> more[n] # None
  <2> TAKE n \in 1..(N + 1)
  <2>1. CASE n = N + 1
    BY <1>2, <1>3, <2>1, Zenon
  <2>2. CASE n # N + 1
    <3>1. n \in 1..N
      BY <1>2, <2>2
    <3>2. mask[n] = raw.mask[n] /\ more[n] = items[n]
      BY <1>2, <1>3, <3>1
    <3>3. raw.mask[n] <=> items[n] # None
      BY <3>1 DEF HoldsBits
    <3> HIDE DEF mask, more
    <3> QED BY <3>2, <3>3, Zenon
  <2> QED BY <2>1, <2>2
<1>9. ASSUME NEW n \in 1..(N + 1), more[n] # None
      PROVE  data[Dense(mask, n)] = more[n]
  <2>1. CASE n = N + 1
    BY <1>2, <1>4, <1>7, <1>9, <2>1, AppendProperties
  <2>2. CASE n # N + 1
    <3>1. n \in 1..N /\ items[n] # None /\ more[n] = items[n]
      BY <1>2, <1>9, <2>2
    <3>2. raw.mask[n] /\ raw.data[Dense(raw.mask, n)] = items[n]
      BY <3>1 DEF HoldsBits
    <3>3. Dense(raw.mask, n) \in 1..Len(raw.data)
      BY <1>2, <1>4, <3>1, <3>2, DenseIndex
    <3>4. data[Dense(raw.mask, n)] = raw.data[Dense(raw.mask, n)]
      BY <1>4, <3>3, AppendProperties
    <3>5. Dense(mask, n) = Dense(raw.mask, n)
      BY <1>2, <1>6, <3>1
    <3> HIDE DEF mask, data, more
    <3> QED BY <3>1, <3>2, <3>4, <3>5
  <2> QED BY <2>1, <2>2
<1> SUFFICES HoldsBits(pushes, more)
  OBVIOUS
<1> HIDE DEF mask, data, more, pushes
<1> QED BY <1>1, <1>2, <1>3, <1>4, <1>5, <1>7, <1>8, <1>9 DEF HoldsBits

LEMMA SequencesAreSeqs ==
  ASSUME NEW item \in BoundedSeq(Letters, MaxLength)
  PROVE  item \in Seq(Letters) /\ item # None
<1>1. PICK m \in 0..MaxLength : item \in [1..m -> Letters]
  BY DEF BoundedSeq, SeqOf
<1>2. m \in Nat
  BY <1>1, LettersAssumption
<1> QED BY <1>1, <1>2, SeqDef, NoneAssumption

LEMMA AppendPrefix ==
  ASSUME NEW S, NEW s \in Seq(S), NEW e \in S, NEW n \in 1..(Len(s) + 1)
  PROVE  SubSeq(Append(s, e), 1, n - 1) = SubSeq(s, 1, n - 1)
<1>1. CASE n = 1
  BY <1>1, SubSeqEmpty
<1>2. CASE n # 1
  <2>1. n - 1 \in 1..Len(s) /\ 1 \in 1..Len(s) /\ <<e>> \in Seq(S)
    BY <1>2, LenProperties
  <2> QED BY <2>1, SubSeqOfConcat1, AppendIsConcat
<1> QED BY <1>1, <1>2

LEMMA ConcatSlice ==
  ASSUME NEW S, NEW s \in Seq(S), NEW t \in Seq(S),
         NEW a \in 1..(Len(s) + 1), NEW b \in 0..Len(s)
  PROVE  SubSeq(s \o t, a, b) = SubSeq(s, a, b)
<1>1. CASE b < a
  BY <1>1, SubSeqEmpty
<1>2. CASE ~ (b < a)
  <2>1. a \in 1..Len(s) /\ b \in 1..Len(s)
    BY <1>2, LenProperties
  <2> QED BY <2>1, SubSeqOfConcat1
<1> QED BY <1>1, <1>2

LEMMA ConcatTail ==
  ASSUME NEW S, NEW s \in Seq(S), NEW t \in Seq(S)
  PROVE  SubSeq(s \o t, Len(s) + 1, Len(s) + Len(t)) = t
<1>1. Len(s) \in Nat /\ Len(t) \in Nat
  BY LenProperties
<1>2. CASE Len(t) = 0
  <2>1. t = <<>>
    BY <1>2, EmptySeq
  <2> QED BY <1>1, <1>2, <2>1, SubSeqEmpty
<1>3. CASE Len(t) # 0
  <2>1. /\ Len(s) + 1 \in Len(s)+1 .. Len(s)+Len(t)
        /\ Len(s) + Len(t) \in Len(s)+1 .. Len(s)+Len(t)
        /\ (Len(s) + 1) - Len(s) = 1
        /\ (Len(s) + Len(t)) - Len(s) = Len(t)
    BY <1>1, <1>3
  <2>2. SubSeq(s \o t, Len(s) + 1, Len(s) + Len(t)) = SubSeq(t, 1, Len(t))
    BY <2>1, SubSeqOfConcat2
  <2> QED BY <2>2, SubSeqFull
<1> QED BY <1>2, <1>3

LEMMA EndsPush ==
  ASSUME NEW raw \in RawType, NEW items \in Seq(Items("OptSeq")),
         HoldsEnds(raw, items), NEW item \in Items("OptSeq")
  PROVE  HoldsEnds(PushSeq(raw, item), Append(items, item))
<1> DEFINE N == Len(items)
           more == Append(items, item)
           pushes == PushSeq(raw, item)
           end == IF item = None THEN NoneEnd ELSE LastEnd(raw.ends) + Len(item)
           tail == IF item = None THEN <<>> ELSE item
           ends == Append(raw.ends, end)
           data == raw.data \o tail
<1>1. item = None \/ (item \in Seq(Letters) /\ item # None)
  BY SequencesAreSeqs DEF Items, Sequential, Optional
<1>2. /\ N \in Nat /\ Len(more) = N + 1 /\ more[N + 1] = item
      /\ \A n \in 1..N : more[n] = items[n]
  BY AppendProperties, LenProperties
<1>3. /\ raw.data \in Seq(Letters) /\ Len(raw.data) \in Nat
      /\ LastEnd(raw.ends) = Len(raw.data)
      /\ raw.ends \in Seq(Ends) /\ Len(raw.ends) = N
  BY LenProperties DEF HoldsEnds, RawType
<1>4. tail \in Seq(Letters) /\ Len(tail) \in Nat
  BY <1>1, LenProperties, EmptySeq
<1>5. data \in Seq(Letters) /\ Len(data) = Len(raw.data) + Len(tail)
  BY <1>3, <1>4, ConcatProperties
<1>6. end \in Ends /\ (item = None => end = NoneEnd)
      /\ (item # None => end = Len(data) /\ end # NoneEnd)
  <2>1. CASE item = None
    BY <2>1 DEF Ends
  <2>2. CASE item # None
    <3>1. end = Len(raw.data) + Len(item) /\ Len(item) \in Nat /\ Len(data) = end
      BY <1>3, <1>4, <1>5, <2>2
    <3> HIDE DEF end, data
    <3> QED BY <1>3, <2>2, <3>1 DEF Ends, NoneEnd
  <2> QED BY <2>1, <2>2
<1>7. /\ Len(ends) = N + 1 /\ ends[N + 1] = end
      /\ \A n \in 1..N : ends[n] = raw.ends[n]
  BY <1>3, <1>6, AppendProperties
<1>8. pushes.ends = ends /\ pushes.data = data
  <2>1. DOMAIN raw = {"mask", "ends", "data"}
    BY DEF RawType
  <2>2. raw.data \o <<>> = raw.data
    BY <1>3, ConcatEmptySeq
  <2> QED BY <2>1, <2>2 DEF PushSeq
<1>9. LastEnd(ends) = Len(data)
  <2>1. LastEnd(ends) = IF end = NoneEnd THEN LastEnd(raw.ends) ELSE end
    BY <1>3, <1>6, LastEndAppend
  <2>2. item = None => Len(tail) = 0
    BY EmptySeq
  <2> HIDE DEF ends, data, end, tail
  <2> QED BY <1>3, <1>5, <1>6, <2>1, <2>2
<1>10. \A n \in 1..(N + 1) : Start(ends, n) = Start(raw.ends, n)
  <2> HIDE DEF end
  <2> QED BY <1>3, <1>6, AppendPrefix DEF Start
<1>11. ASSUME NEW n \in 1..(N + 1)
       PROVE  IF more[n] = None THEN ends[n] = NoneEnd
              ELSE /\ Start(ends, n) \in 1..(Len(data) + 1)
                   /\ ends[n] \in 0..Len(data)
                   /\ more[n] = SubSeq(data, Start(ends, n), ends[n])
  <2>1. CASE n = N + 1
    <3>1. CASE item = None
      BY <1>2, <1>6, <1>7, <2>1, <3>1
    <3>2. CASE item # None
      <4>1. (N + 1) - 1 = N
        BY <1>2
      <4>2. SubSeq(raw.ends, 1, (N + 1) - 1) = raw.ends
        BY <1>3, <4>1, SubSeqFull
      <4>3. Start(ends, N + 1) = Len(raw.data) + 1
        <5>1. N + 1 \in 1..(N + 1)
          BY <1>2
        <5>2. Start(ends, N + 1) = Start(raw.ends, N + 1)
          BY <1>10, <5>1
        <5> HIDE DEF ends
        <5> QED BY <1>3, <4>2, <5>2 DEF Start
      <4>4. tail = item /\ Len(data) = Len(raw.data) + Len(item)
        BY <1>5, <3>2
      <4>5. item = SubSeq(data, Len(raw.data) + 1, Len(data))
        BY <1>3, <1>4, <4>4, ConcatTail
      <4>6. more[n] = item /\ ends[n] = Len(data) /\ Start(ends, n) = Len(raw.data) + 1
        BY <1>2, <1>6, <1>7, <2>1, <3>2, <4>3
      <4>7. Len(item) \in Nat
        BY <1>4, <3>2
      <4> HIDE DEF data, ends, end, more, tail
      <4>8. Start(ends, n) \in 1..(Len(data) + 1) /\ ends[n] \in 0..Len(data)
        BY <1>3, <4>4, <4>6, <4>7
      <4>9. more[n] = SubSeq(data, Start(ends, n), ends[n]) /\ more[n] # None
        BY <3>2, <4>5, <4>6
      <4> QED BY <4>8, <4>9, Zenon
    <3> QED BY <3>1, <3>2
  <2>2. CASE n # N + 1
    <3>1. n \in 1..N /\ more[n] = items[n] /\ ends[n] = raw.ends[n]
          /\ Start(ends, n) = Start(raw.ends, n)
      BY <1>2, <1>7, <1>10, <2>2
    <3>2. IF items[n] = None THEN raw.ends[n] = NoneEnd
          ELSE /\ Start(raw.ends, n) \in 1..(Len(raw.data) + 1)
               /\ raw.ends[n] \in 0..Len(raw.data)
               /\ items[n] = SubSeq(raw.data, Start(raw.ends, n), raw.ends[n])
      BY <3>1 DEF HoldsEnds
    <3>3. CASE items[n] = None
      <4> HIDE DEF data, ends, more
      <4> QED BY <3>1, <3>2, <3>3
    <3>4. CASE items[n] # None
      <4>1. SubSeq(data, Start(raw.ends, n), raw.ends[n])
              = SubSeq(raw.data, Start(raw.ends, n), raw.ends[n])
        <5> HIDE DEF tail
        <5> QED BY <1>3, <1>4, <3>2, <3>4, ConcatSlice
      <4>2. Start(ends, n) \in 1..(Len(raw.data) + 1) /\ ends[n] \in 0..Len(raw.data)
        BY <3>1, <3>2, <3>4
      <4>3. more[n] = SubSeq(data, Start(ends, n), ends[n])
        BY <3>1, <3>2, <3>4, <4>1
      <4>4. more[n] # None
        BY <3>1, <3>4
      <4> HIDE DEF data, ends, more, tail
      <4>5. Start(ends, n) \in 1..(Len(data) + 1) /\ ends[n] \in 0..Len(data)
        BY <1>3, <1>4, <1>5, <4>2
      <4> QED BY <4>3, <4>4, <4>5, Zenon
    <3> QED BY <3>3, <3>4
  <2> QED BY <2>1, <2>2
<1> SUFFICES HoldsEnds(pushes, more)
  OBVIOUS
<1> HIDE DEF ends, data, more, pushes, end, tail
<1> QED BY <1>2, <1>5, <1>7, <1>8, <1>9, <1>11 DEF HoldsEnds

LEMMA PushKeepsType ==
  ASSUME NEW l \in Layouts, NEW raw \in RawType, NEW item \in Items(l)
  PROVE  RawPush(l, raw, item) \in RawType
<1>1. /\ raw.mask \in Seq(BOOLEAN) /\ raw.ends \in Seq(Ends)
      /\ raw.data \in Seq(Bits \cup {None})
      /\ raw = [mask |-> raw.mask, ends |-> raw.ends, data |-> raw.data]
  BY DEF RawType
<1>2. CASE l = "OptBitVec"
  <2>1. item \in Bits \cup {None}
    BY <1>2 DEF Items, Sequential
  <2>2. Append(raw.mask, item # None) \in Seq(BOOLEAN)
    BY <1>1, AppendProperties
  <2>3. Append(raw.data, item) \in Seq(Bits \cup {None})
    BY <1>1, <2>1, AppendProperties
  <2>4. PushOptBitVec(raw, item) \in RawType
    <3>1. CASE item = None
      <4>1. PushOptBitVec(raw, item) = [raw EXCEPT !.mask = Append(@, item # None), !.data = @]
        BY <3>1, Zenon DEF PushOptBitVec
      <4> QED BY <1>1, <2>2, <4>1 DEF RawType
    <3>2. CASE item # None
      <4>1. PushOptBitVec(raw, item)
              = [raw EXCEPT !.mask = Append(@, item # None), !.data = Append(@, item)]
        BY <3>2, Zenon DEF PushOptBitVec
      <4> QED BY <1>1, <2>2, <2>3, <4>1 DEF RawType
    <3> QED BY <3>1, <3>2
  <2> QED BY <1>2, <2>4 DEF RawPush, Sequential
<1>3. CASE l \in Sequential
  <2>1. RawPush(l, raw, item) = PushSeq(raw, item)
    BY <1>3 DEF RawPush, Sequential
  <2>2. CASE item = None
    <3>1. Append(raw.ends, NoneEnd) \in Seq(Ends)
      BY <1>1, AppendProperties DEF Ends
    <3> QED BY <1>1, <2>1, <2>2, <3>1 DEF RawType, PushSeq
  <2>3. CASE item # None
    <3>1. item \in Seq(Letters)
      BY <1>3, <2>3, SequencesAreSeqs DEF Items
    <3>2. item \in Seq(Bits \cup {None}) /\ Len(item) \in Nat
      BY <3>1, LettersAssumption, SeqMonotonic, LenProperties
    <3>3. LastEnd(raw.ends) \in Nat
      <4> DEFINE present == {n \in DOMAIN raw.ends : raw.ends[n] # NoneEnd}
      <4>1. DOMAIN raw.ends = 1..Len(raw.ends) /\ Len(raw.ends) \in Nat
        BY <1>1, LenProperties
      <4>2. CASE present = {}
        BY <4>2 DEF LastEnd
      <4>3. CASE present # {}
        <5>1. present \in SUBSET (0..Len(raw.ends))
          BY <4>1
        <5>2. Max(present) \in present
          <6> HIDE DEF present
          <6> QED BY <4>1, <4>3, <5>1, MaxOfBounded
        <5>3. raw.ends[Max(present)] \in Ends \ {NoneEnd}
          BY <1>1, <4>1, <5>2, ElementOfSeq
        <5>4. LastEnd(raw.ends) = raw.ends[Max(present)]
          BY <4>3 DEF LastEnd
        <5> QED BY <5>3, <5>4 DEF Ends
      <4> QED BY <4>2, <4>3
    <3>4. Append(raw.ends, LastEnd(raw.ends) + Len(item)) \in Seq(Ends)
      <4>1. LastEnd(raw.ends) + Len(item) \in Ends
        BY <3>2, <3>3 DEF Ends
      <4> QED BY <1>1, <4>1, AppendProperties
    <3>5. raw.data \o item \in Seq(Bits \cup {None})
      BY <1>1, <3>2, ConcatProperties
    <3> QED BY <1>1, <2>1, <2>3, <3>4, <3>5 DEF RawType, PushSeq
  <2> QED BY <2>2, <2>3
<1>4. CASE l \notin Sequential \cup {"OptBitVec"}
  <2>1. item \in Bits \cup {None}
    BY <1>4 DEF Items
  <2>2. Append(raw.data, item) \in Seq(Bits \cup {None})
    BY <1>1, <2>1, AppendProperties
  <2>3. RawPush(l, raw, item) = [raw EXCEPT !.data = Append(@, item)]
    BY <1>4 DEF RawPush
  <2> QED BY <1>1, <2>2, <2>3 DEF RawType
<1> QED BY <1>2, <1>3, <1>4

\* Pushing one item keeps the correspondence.
LEMMA PushHolds ==
  ASSUME NEW l \in Layouts, NEW raw, NEW items, Holds(l, raw, items),
         NEW item \in Items(l)
  PROVE  Holds(l, RawPush(l, raw, item), Append(items, item))
<1>1. raw \in RawType /\ items \in Seq(Items(l))
  BY DEF Holds
<1>2. Append(items, item) \in Seq(Items(l))
  BY <1>1, AppendProperties
<1>3. RawPush(l, raw, item) \in RawType
  BY <1>1, PushKeepsType
<1>4. CASE l = "OptBitVec"
  <2>1. Items(l) = Bits \cup {None}
    BY <1>4 DEF Items, Sequential, Optional
  <2>2. HoldsBits(PushOptBitVec(raw, item), Append(items, item))
    BY <1>1, <1>4, <2>1, BitsPush DEF Holds
  <2> QED BY <1>2, <1>3, <1>4, <2>2 DEF Holds, RawPush, Sequential
<1>5. CASE l \in Sequential
  <2>1. Items(l) \subseteq Items("OptSeq")
    BY <1>5 DEF Items, Sequential, Optional
  <2>2. items \in Seq(Items("OptSeq")) /\ item \in Items("OptSeq")
    BY <1>1, <2>1, SeqMonotonic
  <2>3. HoldsEnds(PushSeq(raw, item), Append(items, item))
    BY <1>1, <1>5, <2>2, EndsPush DEF Holds
  <2>4. RawPush(l, raw, item) = PushSeq(raw, item)
    BY <1>5 DEF RawPush, Sequential
  <2> QED BY <1>2, <1>3, <1>5, <2>3, <2>4 DEF Holds, Sequential
<1>6. CASE l \notin Sequential \cup {"OptBitVec"}
  <2>1. RawPush(l, raw, item) = [raw EXCEPT !.data = Append(@, item)]
    BY <1>6 DEF RawPush
  <2>2. raw.data = items
    BY <1>6 DEF Holds, HoldsPlain
  <2>3. RawPush(l, raw, item).data = Append(items, item)
    BY <1>1, <2>1, <2>2 DEF RawType
  <2> QED BY <1>2, <1>3, <1>6, <2>3 DEF Holds, HoldsPlain
<1> QED BY <1>4, <1>5, <1>6

\* And so does collecting a whole sequence, by induction on its length.
LEMMA CollectHolds ==
  ASSUME NEW l \in Layouts, NEW items \in Seq(Items(l))
  PROVE  Holds(l, RawCollect(l, items), items)
<1>1. Len(items) \in Nat
  BY LenProperties
<1>2. PICK f : /\ RawCollect(l, items) = f[Len(items)]
               /\ f[0] = EmptyRaw
               /\ \A n \in 1..Len(items) : f[n] = RawPush(l, f[n - 1], items[n])
  BY <1>1, CollectEquation
<1> DEFINE T == {n \in 0..Len(items) : Holds(l, f[n], SubSeq(items, 1, n))}
<1>3. 0 \in T
  <2>1. SubSeq(items, 1, 0) = <<>>
    BY SubSeqEmpty
  <2>2. Holds(l, f[0], SubSeq(items, 1, 0))
    BY <1>2, <2>1, EmptyHolds
  <2> QED BY <1>1, <2>2
<1>4. ASSUME NEW n \in 1..Len(items), n - 1 \in T PROVE n \in T
  <2>1. items[n] \in Items(l)
    BY ElementOfSeq
  <2>2. SubSeq(items, 1, n) = Append(SubSeq(items, 1, n - 1), items[n])
    <3>1. 1 \in 1..Len(items) /\ n \in 1..Len(items)
      BY <1>1
    <3>2. SubSeq(items, 1, n) = SubSeq(items, 1, n - 1) \o <<items[n]>>
      BY <3>1, SubSeqRecursiveSecond
    <3>3. SubSeq(items, 1, n - 1) \in Seq(Items(l))
      BY <1>4 DEF Holds
    <3> QED BY <2>1, <3>2, <3>3, AppendIsConcat
  <2>3. Holds(l, f[n - 1], SubSeq(items, 1, n - 1))
    BY <1>4
  <2>4. f[n] = RawPush(l, f[n - 1], items[n])
    BY <1>2
  <2>5. Holds(l, f[n], SubSeq(items, 1, n))
    BY <2>1, <2>2, <2>3, <2>4, PushHolds
  <2> QED BY <1>1, <2>5
<1>5. 0..Len(items) \subseteq T
  <2> HIDE DEF T
  <2> QED BY <1>1, <1>3, <1>4, BoundedInduction
<1>6. Holds(l, f[Len(items)], SubSeq(items, 1, Len(items)))
  BY <1>1, <1>5
<1> QED BY <1>2, <1>6, SubSeqFull

----------------------------------------------------------------------------
(* Reading back what the sub-buffers hold.                                 *)

\* The bytes of some sub-buffers.
Body(l, raw) ==
  CASE l = "BitVec" -> [raw EXCEPT !.data = Packed(@, ZeroBit)]
    [] l = "OptBitVec" -> [raw EXCEPT !.mask = Packed(@, FALSE)]
    [] OTHER -> raw

LEMMA PackedExtends ==
  ASSUME NEW S, NEW bits \in Seq(S), NEW zero \in S
  PROVE  /\ Packed(bits, zero) \in Seq(S)
         /\ Len(Packed(bits, zero)) \in Nat
         /\ Len(bits) <= Len(Packed(bits, zero))
         /\ \A n \in 1..Len(bits) : Packed(bits, zero)[n] = bits[n]
         /\ \A n \in (Len(bits) + 1)..Len(Packed(bits, zero)) : Packed(bits, zero)[n] = zero
<1> DEFINE k == (Byte - (Len(bits) % Byte)) % Byte
           fill == [n \in 1..k |-> zero]
<1>1. Len(bits) \in Nat
  BY LenProperties
<1>2. k \in Nat
  BY <1>1, ByteAssumption
<1>3. Packed(bits, zero) = bits \o fill
  BY DEF Packed
<1> HIDE DEF k
<1>4. fill \in Seq(S) /\ Len(fill) = k
  BY <1>2
<1>5. \A n \in 1..k : fill[n] = zero
  OBVIOUS
<1> HIDE DEF fill
<1>6. /\ bits \o fill \in Seq(S)
      /\ Len(bits \o fill) = Len(bits) + k
      /\ \A i \in 1..(Len(bits) + k) :
           (bits \o fill)[i] = IF i <= Len(bits) THEN bits[i] ELSE fill[i - Len(bits)]
  BY <1>4, ConcatProperties
<1>7. \A n \in 1..Len(bits) : (bits \o fill)[n] = bits[n]
  BY <1>1, <1>2, <1>6
<1>8. \A n \in (Len(bits) + 1)..(Len(bits) + k) : (bits \o fill)[n] = zero
  BY <1>1, <1>2, <1>5, <1>6
<1>9. Len(bits \o fill) \in Nat /\ Len(bits) <= Len(bits \o fill)
  BY <1>1, <1>2, <1>6
<1> QED BY <1>3, <1>6, <1>7, <1>8, <1>9

\* Of a mask, the bits that fill the last byte are clear.
LEMMA PackedMask ==
  ASSUME NEW m \in Seq(BOOLEAN)
  PROVE  /\ Len(Packed(m, FALSE)) \in Nat
         /\ Len(m) <= Len(Packed(m, FALSE))
         /\ \A n \in 1..Len(m) : Packed(m, FALSE)[n] = m[n]
         /\ \A n \in (Len(m) + 1)..Len(Packed(m, FALSE)) : ~ Packed(m, FALSE)[n]
<1>1. PICK B, off : off \in B /\ B = BOOLEAN /\ off = FALSE
  OBVIOUS
<1>2. m \in Seq(B) /\ off \in B
  BY <1>1, Zenon
<1>3. /\ Len(Packed(m, off)) \in Nat
      /\ Len(m) <= Len(Packed(m, off))
      /\ \A n \in 1..Len(m) : Packed(m, off)[n] = m[n]
  BY <1>2, PackedExtends
<1>4. \A n \in (Len(m) + 1)..Len(Packed(m, off)) : Packed(m, off)[n] = off
  BY <1>2, PackedExtends
<1> QED BY <1>1, <1>3, <1>4, Zenon

LEMMA BitsDecode ==
  ASSUME NEW raw \in RawType, NEW items \in Seq(Bits \cup {None}), HoldsBits(raw, items)
  PROVE  LET all == DecodeOptBitVec([raw EXCEPT !.mask = Packed(@, FALSE)])
         IN  /\ all \in Seq(Bits \cup {None})
             /\ Len(items) <= Len(all)
             /\ \A n \in 1..Len(items) : all[n] = items[n]
<1> DEFINE N == Len(items)
           body == [raw EXCEPT !.mask = Packed(@, FALSE)]
           all == DecodeOptBitVec(body)
           mask == Packed(raw.mask, FALSE)
<1>1. /\ raw.mask \in Seq(BOOLEAN) /\ raw.data \in Seq(Bits) /\ Len(raw.mask) = N /\ N \in Nat
      /\ Len(raw.data) = Dense(raw.mask, N)
  BY LenProperties DEF RawType, HoldsBits
<1> DEFINE M == Len(mask)
<1>2. /\ M \in Nat /\ N <= M
      /\ \A n \in 1..N : mask[n] = raw.mask[n]
      /\ \A n \in (N + 1)..M : ~ mask[n]
  BY <1>1, PackedMask
<1>3. body.mask = mask /\ body.data = raw.data
  BY DEF RawType
<1> HIDE DEF mask
<1>4. \A n \in 0..N : Dense(mask, n) = Dense(raw.mask, n)
  <2> TAKE n \in 0..N
  <2>1. n \in Nat /\ \A j \in 1..n : mask[j] = raw.mask[j]
    BY <1>1, <1>2
  <2> QED BY <2>1, DenseSame
<1>5. \A n \in (N + 1)..M : Dense(mask, n) = Dense(raw.mask, N)
  <2> TAKE n \in (N + 1)..M
  <2>1. {j \in 1..n : mask[j]} = {j \in 1..N : raw.mask[j]}
    BY <1>1, <1>2
  <2> QED BY <2>1 DEF Dense
<1>6. \A n \in 1..M : Dense(mask, n) <= Len(raw.data)
  <2> TAKE n \in 1..M
  <2>1. CASE n \in 1..N
    <3>1. n \in Nat /\ n <= N /\ Dense(mask, n) = Dense(raw.mask, n)
      BY <1>1, <1>4, <2>1
    <3>2. Dense(raw.mask, n) <= Dense(raw.mask, N)
      BY <1>1, <3>1, DenseGrows
    <3> QED BY <1>1, <3>1, <3>2
  <2>2. CASE n \notin 1..N
    <3>1. n \in (N + 1)..M
      BY <1>1, <1>2, <2>2
    <3>2. Dense(raw.mask, N) \in Nat
      <4>1. N \in Int
        BY <1>1
      <4> QED BY <4>1, DenseType, Zenon
    <3> QED BY <1>1, <1>5, <3>1, <3>2
  <2> QED BY <2>1, <2>2
<1>7. {n \in 1..Len(mask) : Dense(mask, n) <= Len(raw.data)} = 1..M
  BY <1>2, <1>6
<1>8. Cardinality(1..M) = M
  <2>1. 1 \in Int /\ M \in Int
    BY <1>2
  <2>2. Cardinality(1..M) = IF 1 > M THEN 0 ELSE M - 1 + 1
    BY <2>1, FS_Interval, Zenon
  <2> HIDE DEF M
  <2> QED BY <1>2, <2>2
<1>9. all = [n \in 1..M |->
               IF mask[n] THEN raw.data[Dense(mask, n)] ELSE None]
  <2> HIDE DEF body
  <2> QED BY <1>3, <1>7, <1>8 DEF DecodeOptBitVec
<1>10. \A n \in 1..N :
         (IF mask[n] THEN raw.data[Dense(mask, n)] ELSE None) = items[n]
  <2> TAKE n \in 1..N
  <2>1. mask[n] = raw.mask[n] /\ Dense(mask, n) = Dense(raw.mask, n)
    BY <1>1, <1>2, <1>4
  <2>2. /\ raw.mask[n] <=> items[n] # None
        /\ items[n] # None => raw.data[Dense(raw.mask, n)] = items[n]
    BY DEF HoldsBits
  <2> QED BY <2>1, <2>2
<1>11. \A n \in 1..M :
         (IF mask[n] THEN raw.data[Dense(mask, n)] ELSE None) \in Bits \cup {None}
  <2> TAKE n \in 1..M
  <2>1. CASE n \in 1..N
    BY <1>10, <2>1, ElementOfSeq
  <2>2. CASE n \notin 1..N
    BY <1>1, <1>2, <2>2
  <2> QED BY <2>1, <2>2
<1> SUFFICES /\ all \in Seq(Bits \cup {None})
             /\ N <= Len(all)
             /\ \A n \in 1..N : all[n] = items[n]
  OBVIOUS
<1> HIDE DEF all, body
<1>12. Len(all) = M /\ \A n \in 1..M : all[n] = IF mask[n] THEN raw.data[Dense(mask, n)] ELSE None
  BY <1>2, <1>9
<1>13. all \in [1..M -> Bits \cup {None}]
  BY <1>9, <1>11
<1>14. all \in Seq(Bits \cup {None})
  BY <1>2, <1>13, SeqDef
<1>15. \A n \in 1..N : n \in 1..M
  BY <1>1, <1>2
<1> QED BY <1>2, <1>10, <1>12, <1>14, <1>15

LEMMA EndsDecode ==
  ASSUME NEW l, NEW raw \in RawType, NEW items \in Seq(Items(l)), HoldsEnds(raw, items)
  PROVE  DecodeSeq(raw) = items
<1> DEFINE Cell(n) == IF raw.ends[n] = NoneEnd THEN None
                      ELSE SubSeq(raw.data, LastEnd(SubSeq(raw.ends, 1, n - 1)) + 1,
                                  raw.ends[n])
<1>1. /\ Len(raw.ends) = Len(items) /\ Len(items) \in Nat
      /\ items = [n \in 1..Len(items) |-> items[n]] /\ Len(raw.data) \in Nat
  BY LenProperties DEF HoldsEnds
<1>2. ASSUME NEW n \in 1..Len(items) PROVE Cell(n) = items[n]
  <2>1. IF items[n] = None THEN raw.ends[n] = NoneEnd
        ELSE /\ raw.ends[n] \in 0..Len(raw.data)
             /\ items[n] = SubSeq(raw.data, Start(raw.ends, n), raw.ends[n])
    BY DEF HoldsEnds
  <2>2. items[n] # None => raw.ends[n] # NoneEnd
    BY <1>1, <2>1 DEF NoneEnd
  <2> QED BY <2>1, <2>2 DEF Start
<1>3. DecodeSeq(raw) = [n \in 1..Len(items) |-> Cell(n)]
  BY <1>1 DEF DecodeSeq
<1>4. [n \in 1..Len(items) |-> Cell(n)] = [n \in 1..Len(items) |-> items[n]]
  <2> HIDE DEF Cell
  <2> QED BY <1>2
<1> QED BY <1>1, <1>3, <1>4

\* The items come first in what is decoded; the padding may add some.
LEMMA BodyDecodes ==
  ASSUME NEW l \in Layouts, NEW raw, NEW items, Holds(l, raw, items)
  PROVE  LET all == DecodeAll(l, Body(l, raw))
         IN  \E S : /\ all \in Seq(S) /\ items \in Seq(S)
                    /\ Len(items) <= Len(all)
                    /\ \A n \in 1..Len(items) : all[n] = items[n]
<1> DEFINE all == DecodeAll(l, Body(l, raw))
<1>1. raw \in RawType /\ items \in Seq(Items(l)) /\ Len(items) \in Nat
  BY LenProperties DEF Holds
<1>2. CASE l = "OptBitVec"
  <2>1. Items(l) = Bits \cup {None}
    BY <1>2 DEF Items, Sequential, Optional
  <2>2. all = DecodeOptBitVec([raw EXCEPT !.mask = Packed(@, FALSE)])
    BY <1>2 DEF DecodeAll, Body, Sequential
  <2>3. HoldsBits(raw, items)
    BY <1>2 DEF Holds
  <2> HIDE DEF all
  <2>4. /\ all \in Seq(Bits \cup {None})
        /\ Len(items) <= Len(all)
        /\ \A n \in 1..Len(items) : all[n] = items[n]
    BY <1>1, <2>1, <2>2, <2>3, BitsDecode
  <2> QED BY <1>1, <2>1, <2>4 DEF all
<1>3. CASE l \in Sequential
  <2>1. all = DecodeSeq(raw)
    BY <1>3 DEF DecodeAll, Body, Sequential
  <2>2. DecodeSeq(raw) = items
    BY <1>1, <1>3, EndsDecode DEF Holds
  <2>3. all = items
    BY <2>1, <2>2
  <2> HIDE DEF all
  <2> QED BY <1>1, <2>3 DEF all
<1>4. CASE l = "BitVec"
  <2> DEFINE S == Items(l) \cup {ZeroBit}
  <2>1. raw.data = items
    BY <1>4 DEF Holds, HoldsPlain, Sequential
  <2>2. all = Packed(items, ZeroBit)
    BY <1>1, <1>4, <2>1 DEF DecodeAll, Body, Sequential, RawType
  <2>3. items \in Seq(S) /\ ZeroBit \in S
    BY <1>1, SeqMonotonic
  <2> HIDE DEF all, S
  <2>4. /\ all \in Seq(S)
        /\ Len(items) <= Len(all)
        /\ \A n \in 1..Len(items) : all[n] = items[n]
    <3>1. Packed(items, ZeroBit) \in Seq(S) /\ Len(items) <= Len(Packed(items, ZeroBit))
      BY <2>3, PackedExtends
    <3>2. \A n \in 1..Len(items) : Packed(items, ZeroBit)[n] = items[n]
      BY <2>3, PackedExtends
    <3> QED BY <2>2, <3>1, <3>2
  <2> QED BY <2>3, <2>4 DEF all
<1>5. CASE l \notin Sequential \cup {"OptBitVec", "BitVec"}
  <2>1. raw.data = items
    BY <1>5 DEF Holds, HoldsPlain
  <2>2. all = items
    BY <1>5, <2>1 DEF DecodeAll, Body
  <2> HIDE DEF all
  <2> QED BY <1>1, <2>2 DEF all
<1> QED BY <1>2, <1>3, <1>4, <1>5

LEMMA Prefix ==
  ASSUME NEW S, NEW all \in Seq(S), NEW items \in Seq(S), Len(items) <= Len(all),
         \A n \in 1..Len(items) : all[n] = items[n]
  PROVE  SubSeq(all, 1, Len(items)) = items
<1>1. Len(items) \in Nat /\ Len(all) \in Nat
  BY LenProperties
<1>2. SubSeq(all, 1, Len(items)) = [n \in 1..Len(items) |-> all[n]]
  BY <1>1
<1>3. items = [n \in 1..Len(items) |-> items[n]]
  BY LenProperties
<1> QED BY <1>2, <1>3

LEMMA RawCounts ==
  ASSUME NEW l \in Layouts, NEW raw, NEW items, Holds(l, raw, items)
  PROVE  RawCount(l, raw) = Len(items)
BY DEF Holds, RawCount, HoldsBits, HoldsEnds, HoldsPlain, Sequential

----------------------------------------------------------------------------
(* The accumulator. Faithful is what it knows of the items pushed: they    *)
(* are repetitions of one, or its sub-buffers hold them and two differ.    *)

Repeated(item, count) == [n \in 1..count |-> item]

Faithful(l, b, items) ==
  \/ b = Empty /\ items = <<>>
  \/ /\ b.state = "Compact"
     /\ b.item \in Items(l)
     /\ b.count \in Nat \ {0}
     /\ b = Compact(b.item, b.count)
     /\ items = Repeated(b.item, b.count)
  \/ /\ b.state = "Many"
     /\ b = Many(b.raw)
     /\ Holds(l, b.raw, items)
     /\ \E i, j \in DOMAIN items : items[i] # items[j]

LEMMA RepeatedIs ==
  ASSUME NEW item, NEW count \in Nat
  PROVE  /\ Len(Repeated(item, count)) = count
         /\ \A n \in 1..count : Repeated(item, count)[n] = item
BY DEF Repeated

LEMMA RepeatedType ==
  ASSUME NEW S, NEW item \in S, NEW count \in Nat
  PROVE  Repeated(item, count) \in Seq(S)
<1>1. Repeated(item, count) \in [1..count -> S]
  BY DEF Repeated
<1> QED BY <1>1, SeqDef

LEMMA RepeatedNone ==
  ASSUME NEW item
  PROVE  Repeated(item, 0) = <<>>
<1>1. Repeated(item, 0) \in Seq({item})
  BY RepeatedType
<1>2. Len(Repeated(item, 0)) = 0
  BY RepeatedIs
<1> QED BY <1>1, <1>2, EmptySeq

LEMMA RepeatedAgain ==
  ASSUME NEW item, NEW count \in Nat
  PROVE  Append(Repeated(item, count), item) = Repeated(item, count + 1)
<1> DEFINE old == Repeated(item, count)
           new == Repeated(item, count + 1)
<1>1. old \in Seq({item}) /\ new \in Seq({item})
  BY RepeatedType
<1>2. Len(old) = count /\ \A n \in 1..count : old[n] = item
  BY RepeatedIs
<1>3. Len(new) = count + 1 /\ \A n \in 1..(count + 1) : new[n] = item
  <2>1. count + 1 \in Nat
    OBVIOUS
  <2> HIDE DEF new
  <2> QED BY <2>1, RepeatedIs DEF new
<1> HIDE DEF old, new
<1>4. Append(old, item) \in Seq({item}) /\ Len(Append(old, item)) = count + 1
  BY <1>1, <1>2, AppendProperties
<1>5. \A n \in 1..(count + 1) : Append(old, item)[n] = new[n]
  BY <1>1, <1>2, <1>3, AppendProperties
<1>6. Append(old, item) = new
  BY <1>1, <1>3, <1>4, <1>5, SeqEqual
<1> QED BY <1>6 DEF old, new

LEMMA FaithfulType ==
  ASSUME NEW l \in Layouts, NEW b, NEW items, Faithful(l, b, items)
  PROVE  /\ b.state \in {"Empty", "Compact", "Many"}
         /\ items \in Seq(Items(l))
         /\ Count(l, b) = Len(items)
         /\ b # Empty => items # <<>>
<1>1. CASE b = Empty /\ items = <<>>
  BY <1>1, EmptySeq DEF Empty, Count
<1>2. CASE /\ b.state = "Compact"
           /\ b.item \in Items(l)
           /\ b.count \in Nat \ {0}
           /\ items = Repeated(b.item, b.count)
  <2>1. items \in Seq(Items(l)) /\ Len(items) = b.count
    <3>1. b.count \in Nat
      BY <1>2
    <3>2. Repeated(b.item, b.count) \in Seq(Items(l))
      BY <1>2, <3>1, RepeatedType
    <3> QED BY <1>2, <3>1, <3>2, RepeatedIs
  <2>2. Count(l, b) = b.count
    BY <1>2 DEF Count
  <2>3. items # <<>>
    BY <1>2, <2>1, EmptySeq
  <2> QED BY <1>2, <2>1, <2>2, <2>3
<1>3. CASE /\ b.state = "Many"
           /\ Holds(l, b.raw, items)
           /\ \E i, j \in DOMAIN items : items[i] # items[j]
  <2>1. items \in Seq(Items(l))
    BY <1>3 DEF Holds
  <2>2. Count(l, b) = Len(items)
    BY <1>3, RawCounts DEF Count
  <2>3. items # <<>>
    BY <1>3
  <2> QED BY <1>3, <2>1, <2>2, <2>3
<1> QED BY <1>1, <1>2, <1>3 DEF Faithful

LEMMA PushFaithful ==
  ASSUME NEW l \in Layouts, NEW b, NEW items, Faithful(l, b, items),
         NEW item \in Items(l)
  PROVE  Faithful(l, Push(l, b, item), Append(items, item))
<1> DEFINE more == Append(items, item)
<1>1. items \in Seq(Items(l)) /\ more \in Seq(Items(l))
  BY FaithfulType, AppendProperties
<1>2. /\ DOMAIN items = 1..Len(items) /\ DOMAIN more = 1..(Len(items) + 1)
      /\ Len(items) \in Nat
      /\ more[Len(items) + 1] = item /\ \A n \in 1..Len(items) : more[n] = items[n]
  BY <1>1, LenProperties, AppendProperties
<1> SUFFICES Faithful(l, Push(l, b, item), more)
  OBVIOUS
<1>3. CASE b = Empty /\ items = <<>>
  <2>1. Push(l, b, item) = Compact(item, 1)
    BY <1>3 DEF Push, Empty
  <2>2. more = Repeated(item, 1)
    <3>2. Repeated(item, 0) = <<>>
      BY RepeatedNone
    <3>3. Append(Repeated(item, 0), item) = Repeated(item, 0 + 1)
      BY RepeatedAgain
    <3>4. 0 + 1 = 1
      OBVIOUS
    <3>5. more = Append(Repeated(item, 0), item)
      BY <1>3, <3>2
    <3> HIDE DEF more
    <3> QED BY <3>3, <3>4, <3>5
  <2> QED BY <2>1, <2>2 DEF Faithful, Compact
<1>4. CASE /\ b.state = "Compact"
           /\ b.item \in Items(l)
           /\ b.count \in Nat \ {0}
           /\ b = Compact(b.item, b.count)
           /\ items = Repeated(b.item, b.count)
  <2>1. CASE item = b.item
    <3>1. Push(l, b, item) = Compact(item, b.count + 1)
      BY <1>4, <2>1 DEF Push, Compact
    <3>2. more = Repeated(item, b.count + 1)
      BY <1>4, <2>1, RepeatedAgain
    <3> QED BY <1>4, <3>1, <3>2 DEF Faithful, Compact
  <2>2. CASE item # b.item
    <3>1. Push(l, b, item) = Many(RawCollect(l, more))
      BY <1>4, <2>2 DEF Push, Upgrade, Repeated
    <3>2. Holds(l, RawCollect(l, more), more)
      BY <1>1, CollectHolds
    <3>3. Len(items) \in 1..Len(items) /\ items[Len(items)] = b.item
      <4>1. /\ b.count \in Nat /\ Len(items) = b.count
            /\ \A n \in 1..b.count : items[n] = b.item
        <5>1. b.count \in Nat
          BY <1>4
        <5> QED BY <1>4, <5>1, RepeatedIs
      <4> QED BY <1>4, <4>1
    <3>4. \E i, j \in DOMAIN more : more[i] # more[j]
      <4>1. Len(items) \in DOMAIN more /\ Len(items) + 1 \in DOMAIN more
        BY <1>2, <3>3
      <4>2. more[Len(items)] # more[Len(items) + 1]
        BY <1>2, <2>2, <3>3
      <4> QED BY <4>1, <4>2
    <3> HIDE DEF more
    <3> QED BY <3>1, <3>2, <3>4 DEF Faithful, Many
  <2> QED BY <2>1, <2>2
<1>5. CASE /\ b.state = "Many"
           /\ b = Many(b.raw)
           /\ Holds(l, b.raw, items)
           /\ \E i, j \in DOMAIN items : items[i] # items[j]
  <2>1. Push(l, b, item) = Many(RawPush(l, b.raw, item))
    BY <1>5 DEF Push
  <2>2. Holds(l, RawPush(l, b.raw, item), more)
    BY <1>5, PushHolds
  <2>3. \E i, j \in DOMAIN more : more[i] # more[j]
    BY <1>2, <1>5
  <2> HIDE DEF more
  <2> QED BY <2>1, <2>2, <2>3 DEF Faithful, Many
<1> HIDE DEF more
<1> QED
  <2> DEFINE Goal == Faithful(l, Push(l, b, item), more)
  <2>1. (b = Empty /\ items = <<>>) => Goal
    BY <1>3
  <2>2. (/\ b.state = "Compact"
         /\ b.item \in Items(l)
         /\ b.count \in Nat \ {0}
         /\ b = Compact(b.item, b.count)
         /\ items = Repeated(b.item, b.count)) => Goal
    BY <1>4
  <2>3. (/\ b.state = "Many"
         /\ b = Many(b.raw)
         /\ Holds(l, b.raw, items)
         /\ \E i, j \in DOMAIN items : items[i] # items[j]) => Goal
    BY <1>5
  <2> HIDE DEF Goal
  <2>4. Goal
    BY <2>1, <2>2, <2>3 DEF Faithful
  <2> QED BY <2>4 DEF Goal

----------------------------------------------------------------------------
(* Writing it, and reading what was written.                               *)

LEMMA SerializeIsBody ==
  ASSUME NEW l \in Layouts, NEW b
  PROVE  /\ b.state = "Compact" => Serialize(l, b) = Body(l, RawCollect(l, <<b.item>>))
         /\ b.state = "Many" => Serialize(l, b) = Body(l, b.raw)
BY DEF Serialize, Body

LEMMA DescribeCounts ==
  ASSUME NEW l \in Layouts, NEW b
  PROVE  /\ b.state = "Compact" => /\ Describe(l, b).count = b.count
                                   /\ Describe(l, b).kind = "Compact"
         /\ b.state = "Many" => /\ Describe(l, b).count = RawCount(l, b.raw)
                                /\ Describe(l, b).kind # "Compact"
<1>1. CASE b.state = "Compact"
  BY <1>1 DEF Describe, Count, Basic
<1>2. CASE b.state = "Many"
  <2>1. Count(l, b) = RawCount(l, b.raw)
    BY <1>2 DEF Count
  <2>2. CASE l \in Detailing
    <3>1. Describe(l, b) = Detail(b.raw.data, Count(l, b))
      BY <1>2, <2>2 DEF Describe
    <3> QED BY <1>2, <2>1, <3>1 DEF Detail, Basic
  <2>3. CASE l \notin Detailing
    <3>1. Describe(l, b) = Basic(Count(l, b))
      BY <1>2, <2>3 DEF Describe
    <3> QED BY <1>2, <2>1, <3>1 DEF Basic
  <2> QED BY <2>2, <2>3
<1> QED BY <1>1, <1>2

LEMMA FaithfulDecodes ==
  ASSUME NEW l \in Layouts, NEW b, NEW items, Faithful(l, b, items), b # Empty
  PROVE  Decode(l, Store(l, b)) = items
<1>1. CASE /\ b.state = "Compact"
           /\ b.item \in Items(l)
           /\ b.count \in Nat \ {0}
           /\ items = Repeated(b.item, b.count)
  <2> DEFINE one == <<b.item>>
             all == DecodeAll(l, Body(l, RawCollect(l, one)))
  <2>1. one \in Seq(Items(l)) /\ Len(one) = 1 /\ one[1] = b.item
    BY <1>1
  <2>2. Holds(l, RawCollect(l, one), one)
    <3> HIDE DEF one
    <3> QED BY <2>1, CollectHolds
  <2>3. PICK S : /\ all \in Seq(S) /\ Len(one) <= Len(all)
                 /\ \A n \in 1..Len(one) : all[n] = one[n]
    <3> HIDE DEF one
    <3> QED BY <2>2, BodyDecodes
  <2>4. all[1] = b.item
    <3> HIDE DEF one, all
    <3> QED BY <2>1, <2>3
  <2>5. Store(l, b).body = Body(l, RawCollect(l, one))
    BY <1>1, SerializeIsBody DEF Store
  <2>6. DecodeOne(l, Store(l, b).body) = b.item
    BY <2>4, <2>5 DEF DecodeOne
  <2>7. Store(l, b).desc.kind = "Compact" /\ Store(l, b).desc.count = b.count
    BY <1>1, DescribeCounts DEF Store
  <2>8. Decode(l, Store(l, b)) = [n \in 1..b.count |-> DecodeOne(l, Store(l, b).body)]
    BY <2>7 DEF Decode
  <2> QED BY <1>1, <2>6, <2>8 DEF Repeated
<1>2. CASE b.state = "Many" /\ Holds(l, b.raw, items)
  <2> DEFINE all == DecodeAll(l, Body(l, b.raw))
  <2>1. PICK S : /\ all \in Seq(S) /\ items \in Seq(S) /\ Len(items) <= Len(all)
                 /\ \A n \in 1..Len(items) : all[n] = items[n]
    BY <1>2, BodyDecodes
  <2>2. Store(l, b).body = Body(l, b.raw)
    BY <1>2, SerializeIsBody DEF Store
  <2>3. Store(l, b).desc.count = Len(items) /\ Store(l, b).desc.kind # "Compact"
    BY <1>2, DescribeCounts, RawCounts DEF Store
  <2> HIDE DEF all
  <2>4. Decode(l, Store(l, b))
          = SubSeq(all, 1, IF Len(all) < Len(items) THEN Len(all) ELSE Len(items))
    BY <2>2, <2>3 DEF Decode, all
  <2>5. ~ (Len(all) < Len(items))
    BY <2>1, LenProperties
  <2>6. SubSeq(all, 1, Len(items)) = items
    BY <2>1, Prefix
  <2> QED BY <2>4, <2>5, <2>6
<1> QED BY <1>1, <1>2 DEF Faithful

\* Compact runs are repetitions; the others have two different items.
LEMMA FaithfulKind ==
  ASSUME NEW l \in Layouts, NEW b, NEW items, Faithful(l, b, items), b # Empty
  PROVE  (Store(l, b).desc.kind = "Compact") <=> (Cardinality(ToSet(items)) = 1)
<1>1. CASE /\ b.state = "Compact"
           /\ b.item \in Items(l)
           /\ b.count \in Nat \ {0}
           /\ items = Repeated(b.item, b.count)
  <2>1. Store(l, b).desc.kind = "Compact"
    BY <1>1, DescribeCounts DEF Store
  <2>2. DOMAIN items = 1..b.count /\ 1 \in 1..b.count /\ \A n \in 1..b.count : items[n] = b.item
    BY <1>1 DEF Repeated
  <2>3. ToSet(items) = {b.item}
    BY <2>2 DEF ToSet
  <2> QED BY <2>1, <2>3, FS_Singleton
<1>2. CASE /\ b.state = "Many"
           /\ Holds(l, b.raw, items)
           /\ \E i, j \in DOMAIN items : items[i] # items[j]
  <2>1. Store(l, b).desc.kind # "Compact"
    BY <1>2, DescribeCounts DEF Store
  <2>2. IsFiniteSet(ToSet(items))
    <3>1. Len(items) \in Nat /\ DOMAIN items = 1..Len(items)
      BY <1>2, LenProperties DEF Holds
    <3>2. IsFiniteSet(DOMAIN items)
      <4>1. 1 \in Int /\ Len(items) \in Int
        BY <3>1
      <4> QED BY <3>1, <4>1, FS_Interval
    <3>3. [i \in DOMAIN items |-> items[i]] \in Surjection(DOMAIN items, ToSet(items))
      BY DEF Surjection, ToSet
    <3> QED BY <3>2, <3>3, FS_Surjection
  <2>3. ~ \E x : ToSet(items) = {x}
    <3>1. PICK i, j \in DOMAIN items : items[i] # items[j]
      BY <1>2
    <3>2. items[i] \in ToSet(items) /\ items[j] \in ToSet(items)
      BY DEF ToSet
    <3> QED BY <3>1, <3>2
  <2> QED BY <2>1, <2>2, <2>3, FS_Singleton
<1> QED BY <1>1, <1>2 DEF Faithful

----------------------------------------------------------------------------
(* The statistics.                                                         *)

NoWorse(ordering, a, b) == IF ordering = "Less" THEN AtMost(a, b) ELSE AtMost(b, a)

\* The first item that is present.
IsFirst(items, f) ==
  /\ f \in 1..Len(items)
  /\ items[f] # None
  /\ \A k \in 1..(f - 1) : items[k] = None

\* The best of the first n items: none is present, or the first is NaN and
\* stays the best, or the best is ordered and no ordered item is better.
BestOf(items, ordering, n, best) ==
  \/ best = 0 /\ \A k \in 1..n : items[k] = None
  \/ /\ best \in 1..n
     /\ items[best] # None
     /\ \E f \in 1..best :
          /\ IsFirst(items, f)
          /\ items[f] \notin Ordered => best = f
          /\ items[f] \in Ordered =>
               /\ items[best] \in Ordered
               /\ \A k \in 1..n : items[k] \in Ordered =>
                                   NoWorse(ordering, items[best], items[k])

LEMMA NoWorseSelf ==
  ASSUME NEW a \in Ordered, NEW ordering
  PROVE  NoWorse(ordering, a, a)
BY OrderAssumption DEF NoWorse, AtMost

LEMMA BetterOrders ==
  ASSUME NEW a, NEW b, NEW ordering \in {"Less", "Greater"}
  PROVE  /\ Better(ordering, a, b) =>
              /\ a \in Ordered /\ b \in Ordered
              /\ \A c \in Ordered : NoWorse(ordering, b, c) => NoWorse(ordering, a, c)
         /\ (~ Better(ordering, a, b) /\ a \in Ordered /\ b \in Ordered) =>
              NoWorse(ordering, b, a)
<1>1. \A x, y \in Ordered : Rank[x] \in Int /\ Rank[y] \in Int
  BY OrderAssumption
<1>2. CASE ordering = "Less"
  BY <1>1, <1>2 DEF Better, Less, NoWorse, AtMost
<1>3. CASE ordering = "Greater"
  BY <1>1, <1>3 DEF Better, Less, Greater, NoWorse, AtMost
<1> QED BY <1>2, <1>3

LEMMA NoneUnordered == None \notin Ordered
BY OrderAssumption, NoneAssumption

LEMMA ConsiderBest ==
  ASSUME NEW items, Len(items) \in Nat, NEW ordering \in {"Less", "Greater"},
         NEW n \in 1..Len(items), NEW best, BestOf(items, ordering, n - 1, best)
  PROVE  BestOf(items, ordering, n, Consider(items, ordering, best, n))
<1>1. CASE items[n] = None
  <2>1. Consider(items, ordering, best, n) = best
    BY <1>1 DEF Consider
  <2>2. \A k \in 1..n : k \in 1..(n - 1) \/ k = n
    OBVIOUS
  <2>3. best \in 1..(n - 1) => best \in 1..n
    OBVIOUS
  <2> QED BY <1>1, <2>1, <2>2, <2>3, NoneUnordered DEF BestOf
<1>2. CASE items[n] # None /\ best = 0
  <2>1. Consider(items, ordering, best, n) = n
    BY <1>2 DEF Consider
  <2>2. \A k \in 1..(n - 1) : items[k] = None
    BY <1>2 DEF BestOf
  <2>3. IsFirst(items, n)
    BY <1>2, <2>2 DEF IsFirst
  <2>4. \A k \in 1..n : items[k] \in Ordered => k = n
    BY <2>2, NoneUnordered
  <2>5. n \in 1..n
    OBVIOUS
  <2> QED BY <1>2, <2>1, <2>3, <2>4, <2>5, NoWorseSelf DEF BestOf
<1>3. CASE items[n] # None /\ best # 0
  <2>1. best \in 1..(n - 1) /\ items[best] # None
    BY <1>3 DEF BestOf
  <2>2. PICK f \in 1..best :
          /\ IsFirst(items, f)
          /\ items[f] \notin Ordered => best = f
          /\ items[f] \in Ordered =>
               /\ items[best] \in Ordered
               /\ \A k \in 1..(n - 1) : items[k] \in Ordered =>
                                         NoWorse(ordering, items[best], items[k])
    BY <1>3 DEF BestOf
  <2>3. \A k \in 1..n : k \in 1..(n - 1) \/ k = n
    OBVIOUS
  <2>4. CASE Better(ordering, items[n], items[best])
    <3>1. Consider(items, ordering, best, n) = n
      BY <1>3, <2>4 DEF Consider
    <3>2. items[n] \in Ordered /\ items[best] \in Ordered
      BY <2>4, BetterOrders
    <3>3. items[f] \in Ordered
      BY <2>2, <3>2
    <3>4. \A k \in 1..n : items[k] \in Ordered => NoWorse(ordering, items[n], items[k])
      BY <2>2, <2>3, <2>4, <3>2, <3>3, BetterOrders, NoWorseSelf
    <3>5. f \in 1..n /\ n \in 1..n
      BY <2>1
    <3> QED BY <1>3, <2>2, <3>1, <3>2, <3>3, <3>4, <3>5 DEF BestOf
  <2>5. CASE ~ Better(ordering, items[n], items[best])
    <3>1. Consider(items, ordering, best, n) = best
      BY <2>5, <1>3 DEF Consider
    <3>2. items[f] \in Ordered =>
            \A k \in 1..n : items[k] \in Ordered => NoWorse(ordering, items[best], items[k])
      BY <2>2, <2>3, <2>5, BetterOrders
    <3>3. best \in 1..n
      BY <2>1
    <3> QED BY <2>1, <2>2, <3>1, <3>2, <3>3 DEF BestOf
  <2> QED BY <2>4, <2>5
<1> QED BY <1>1, <1>2, <1>3

\* By induction, of all the items.
LEMMA FindBest ==
  ASSUME NEW items, Len(items) \in Nat, NEW ordering \in {"Less", "Greater"}
  PROVE  BestOf(items, ordering, Len(items), Find(items, ordering))
<1>1. PICK f : /\ Find(items, ordering) = f[Len(items)]
               /\ f[0] = 0
               /\ \A n \in 1..Len(items) :
                    f[n] = Consider(items, ordering, f[n - 1], n)
  BY FindEquation
<1> DEFINE T == {n \in 0..Len(items) : BestOf(items, ordering, n, f[n])}
<1>2. 0 \in T
  BY <1>1 DEF BestOf
<1>3. ASSUME NEW n \in 1..Len(items), n - 1 \in T PROVE n \in T
  <2>1. BestOf(items, ordering, n - 1, f[n - 1])
    BY <1>3
  <2>2. BestOf(items, ordering, n, f[n])
    BY <1>1, <2>1, ConsiderBest
  <2> QED BY <2>2
<1>4. 0..Len(items) \subseteq T
  <2> HIDE DEF T
  <2> QED BY <1>2, <1>3, BoundedInduction
<1>5. Len(items) \in 0..Len(items)
  OBVIOUS
<1>6. Len(items) \in T
  BY <1>4, <1>5
<1> QED BY <1>1, <1>6

LEMMA FirstUnique ==
  ASSUME NEW items, NEW f, NEW g, IsFirst(items, f), IsFirst(items, g), Len(items) \in Nat
  PROVE  f = g
<1>1. f \in Int /\ g \in Int /\ 1 <= f /\ 1 <= g
  BY DEF IsFirst
<1>2. ~ (f < g)
  <2>1. f < g => f \in 1..(g - 1)
    BY <1>1
  <2> QED BY <2>1 DEF IsFirst
<1>3. ~ (g < f)
  <2>1. g < f => g \in 1..(f - 1)
    BY <1>1
  <2> QED BY <2>1 DEF IsFirst
<1> QED BY <1>1, <1>2, <1>3

LEMMA FirstIsMin ==
  ASSUME NEW S, NEW items \in Seq(S), NEW f, IsFirst(items, f)
  PROVE  Min({n \in DOMAIN items : items[n] # None}) = f
<1> DEFINE present == {n \in DOMAIN items : items[n] # None}
<1>1. DOMAIN items = 1..Len(items) /\ Len(items) \in Nat
  BY LenProperties
<1>2. f \in present /\ f \in Int
  BY <1>1 DEF IsFirst
<1>3. \A n \in present : n \in Int /\ f <= n
  <2> TAKE n \in present
  <2>1. n \in 1..Len(items) /\ items[n] # None
    BY <1>1
  <2>2. n \notin 1..(f - 1)
    BY <2>1 DEF IsFirst
  <2> QED BY <1>1, <1>2, <2>1, <2>2
<1> HIDE DEF present
<1>4. Min(present) \in present /\ \A n \in present : Min(present) <= n
  BY <1>2, <1>3 DEF Min
<1>5. Min(present) <= f /\ f <= Min(present) /\ Min(present) \in Int
  BY <1>2, <1>3, <1>4
<1>6. Min(present) = f
  BY <1>2, <1>5
<1> QED BY <1>6 DEF present

\* The data sub-buffer has every item that is present, the first one first.
LEMMA DataOfItems ==
  ASSUME NEW l \in Detailing, NEW raw, NEW items, Holds(l, raw, items)
  PROVE  /\ items \in Seq(Bits \cup {None})
         /\ raw.data \in Seq(Bits \cup {None})
         /\ \A n \in 1..Len(items) : items[n] # None =>
              \E k \in 1..Len(raw.data) : raw.data[k] = items[n]
         /\ \A f : IsFirst(raw.data, f) =>
              \E g : IsFirst(items, g) /\ items[g] = raw.data[f]
<1>1. /\ raw.data \in Seq(Bits \cup {None}) /\ Len(raw.data) \in Nat
      /\ items \in Seq(Items(l)) /\ Len(items) \in Nat
  BY LenProperties DEF Holds, RawType
<1>2. items \in Seq(Bits \cup {None})
  <2>1. Items(l) \subseteq Bits \cup {None}
    BY DEF Items, Detailing, Sequential
  <2> QED BY <1>1, <2>1, SeqMonotonic
<1>3. CASE l # "OptBitVec"
  <2>1. raw.data = items
    BY <1>3 DEF Holds, HoldsPlain, Detailing, Sequential
  <2> QED BY <1>1, <1>2, <2>1
<1>4. CASE l = "OptBitVec"
  <2>1. /\ \A n \in 1..Len(items) : raw.mask[n] <=> items[n] # None
        /\ raw.data \in Seq(Bits)
        /\ Len(raw.data) = Dense(raw.mask, Len(items))
        /\ \A n \in 1..Len(items) :
             items[n] # None => raw.data[Dense(raw.mask, n)] = items[n]
    BY <1>4 DEF Holds, HoldsBits
  <2>2. ASSUME NEW n \in 1..Len(items), items[n] # None
        PROVE  Dense(raw.mask, n) \in 1..Len(raw.data)
    <3>1. n \in Nat \ {0} /\ n <= Len(items) /\ raw.mask[n]
      BY <1>1, <2>1, <2>2
    <3> QED BY <1>1, <2>1, <3>1, DenseIndex
  <2>3. ASSUME NEW f, IsFirst(raw.data, f)
        PROVE  \E g : IsFirst(items, g) /\ items[g] = raw.data[f]
    <3> DEFINE present == {k \in 1..Len(items) : items[k] # None}
    <3>1. f \in 1..Len(raw.data)
      BY <2>3 DEF IsFirst
    <3>2. present # {}
      <4>1. CASE present = {}
        <5>1. {k \in 1..Len(items) : raw.mask[k]} = {}
          BY <2>1, <4>1
        <5>2. Dense(raw.mask, Len(items)) = 0
          BY <5>1, FS_EmptySet DEF Dense
        <5> QED BY <2>1, <3>1, <5>2
      <4> QED BY <4>1
    <3>3. PICK g \in present : \A k \in present : g <= k
      <4>1. present \in SUBSET Nat
        BY <1>1
      <4> HIDE DEF present
      <4> QED BY <3>2, <4>1, Smallest
    <3>4. IsFirst(items, g)
      <4>1. \A k \in 1..(g - 1) : k \in 1..Len(items) /\ ~ (g <= k)
        BY <1>1, <3>3
      <4> QED BY <3>3, <4>1 DEF IsFirst
    <3>5. Dense(raw.mask, g) = 1
      <4>1. g \in 1..Len(items) /\ items[g] # None
        BY <3>3
      <4>2. {k \in 1..g : raw.mask[k]} = {g}
        <5>1. \A k \in 1..g : k \in 1..Len(items) /\ (k \in 1..(g - 1) \/ k = g)
          BY <1>1, <4>1
        <5>2. \A k \in 1..g : raw.mask[k] <=> k = g
          BY <2>1, <3>4, <4>1, <5>1 DEF IsFirst
        <5>3. g \in 1..g
          BY <4>1
        <5> QED BY <5>2, <5>3
      <4> QED BY <4>2, FS_Singleton DEF Dense
    <3>6. f = 1
      <4>1. 1 \in 1..Len(raw.data)
        BY <1>1, <3>1
      <4>2. raw.data[1] # None
        BY <2>1, <4>1, ElementOfSeq, NoneAssumption
      <4>3. 1 \notin 1..(f - 1)
        BY <2>3, <4>2 DEF IsFirst
      <4> QED BY <1>1, <3>1, <4>3
    <3>7. items[g] = raw.data[f]
      BY <2>1, <3>3, <3>5, <3>6
    <3> QED BY <3>4, <3>7
  <2> QED BY <1>1, <1>2, <2>1, <2>2, <2>3
<1> QED BY <1>3, <1>4

\* What the statistics of a column say of its items.
Tight(items, min, max) ==
  LET first == items[Min({n \in DOMAIN items : items[n] # None})]
  IN  /\ {min, max} \subseteq Bits
      /\ first \in Ordered =>
           /\ {min, max} \subseteq Ordered
           /\ \A i \in ToSet(items) \cap Ordered : AtMost(min, i) /\ AtMost(i, max)
      /\ first \notin Ordered => min = first /\ max = first

LEMMA FaithfulStatistics ==
  ASSUME NEW l \in Layouts, NEW b, NEW items, Faithful(l, b, items), b # Empty,
         Store(l, b).desc.kind = "Detailed"
  PROVE  /\ items \in Seq(Bits \cup {None})
         /\ Tight(items, MinOf(Store(l, b)), MaxOf(Store(l, b)))
<1> DEFINE data == b.raw.data
           min == Find(data, "Less")
           max == Find(data, "Greater")
<1>1. b.state = "Many" /\ Holds(l, b.raw, items)
  <2>1. b.state = "Compact" => Store(l, b).desc.kind = "Compact"
    BY DescribeCounts DEF Store
  <2> QED BY <2>1 DEF Faithful
<1>2. l \in Detailing
  BY <1>1 DEF Store, Describe, Basic
<1>3. Store(l, b).desc = Detail(data, Count(l, b))
  BY <1>1, <1>2 DEF Store, Describe
<1>4. /\ min # 0 /\ max # 0
      /\ Store(l, b).desc.min = min /\ Store(l, b).desc.max = max
  BY <1>3 DEF Detail, Basic
<1>5. Store(l, b).body.data = data
  <2>1. Store(l, b).body = Body(l, b.raw)
    BY <1>1, SerializeIsBody DEF Store
  <2>2. b.raw \in RawType
    BY <1>1 DEF Holds
  <2> QED BY <1>2, <2>1, <2>2 DEF Body, Detailing, RawType
<1>6. MinOf(Store(l, b)) = data[min] /\ MaxOf(Store(l, b)) = data[max]
  BY <1>4, <1>5 DEF MinOf, MaxOf
<1>7. /\ items \in Seq(Bits \cup {None}) /\ data \in Seq(Bits \cup {None})
      /\ \A n \in 1..Len(items) : items[n] # None =>
           \E k \in 1..Len(data) : data[k] = items[n]
      /\ \A f : IsFirst(data, f) => \E g : IsFirst(items, g) /\ items[g] = data[f]
  BY <1>1, <1>2, DataOfItems
<1>8. Len(data) \in Nat /\ Len(items) \in Nat /\ DOMAIN items = 1..Len(items)
  BY <1>7, LenProperties
<1>9. BestOf(data, "Less", Len(data), min) /\ BestOf(data, "Greater", Len(data), max)
  BY <1>8, FindBest
<1> HIDE DEF data, min, max
<1>10. /\ min \in 1..Len(data) /\ data[min] # None
       /\ max \in 1..Len(data) /\ data[max] # None
  BY <1>4, <1>9 DEF BestOf
<1>11. PICK f : /\ IsFirst(data, f)
                /\ data[f] \notin Ordered => min = f
                /\ data[f] \in Ordered =>
                     /\ data[min] \in Ordered
                     /\ \A k \in 1..Len(data) : data[k] \in Ordered =>
                                                AtMost(data[min], data[k])
  BY <1>4, <1>9 DEF BestOf, NoWorse
<1>12. PICK h : /\ IsFirst(data, h)
                /\ data[h] \notin Ordered => max = h
                /\ data[h] \in Ordered =>
                     /\ data[max] \in Ordered
                     /\ \A k \in 1..Len(data) : data[k] \in Ordered =>
                                                AtMost(data[k], data[max])
  BY <1>4, <1>9 DEF BestOf, NoWorse
<1>13. f = h
  BY <1>8, <1>11, <1>12, FirstUnique
<1>14. PICK g : IsFirst(items, g) /\ items[g] = data[f]
  BY <1>7, <1>11
<1>15. items[Min({n \in DOMAIN items : items[n] # None})] = data[f]
  BY <1>7, <1>14, FirstIsMin
<1>16. data[min] \in Bits /\ data[max] \in Bits
  BY <1>7, <1>10, ElementOfSeq
<1>17. ASSUME data[f] \in Ordered, NEW i \in ToSet(items) \cap Ordered
       PROVE  AtMost(data[min], i) /\ AtMost(i, data[max])
  <2>1. PICK n \in 1..Len(items) : items[n] = i
    BY <1>8 DEF ToSet
  <2>2. items[n] # None
    BY <2>1, NoneUnordered
  <2>3. PICK k \in 1..Len(data) : data[k] = i
    BY <1>7, <2>1, <2>2
  <2> QED BY <1>11, <1>12, <1>13, <1>17, <2>3
<1>18. data[f] \in Ordered => {data[min], data[max]} \subseteq Ordered
  BY <1>11, <1>12, <1>13
<1>19. data[f] \notin Ordered => data[min] = data[f] /\ data[max] = data[f]
  BY <1>11, <1>12, <1>13
<1> QED BY <1>6, <1>7, <1>15, <1>16, <1>17, <1>18, <1>19 DEF Tight

----------------------------------------------------------------------------
(* The component                                                           *)

\* The accumulator is faithful to the items pushed, and every buffer on disk
\* was written by an accumulator faithful to the items acknowledged.
AccInv ==
  /\ layout \in Columns
  /\ Faithful(layout, buf, pushed)
  /\ stored \in Seq(ToSet(stored))
  /\ rows \in Seq(Seq(Items(layout)))
  /\ Len(stored) = Len(rows)
  /\ \A s \in 1..Len(rows) : \E b :
       /\ b # Empty
       /\ Faithful(layout, b, rows[s])
       /\ stored[s] = Store(layout, b)

LEMMA AppendIsSeq ==
  ASSUME NEW s, s \in Seq(ToSet(s)), NEW x
  PROVE  /\ Append(s, x) \in Seq(ToSet(Append(s, x)))
         /\ Len(Append(s, x)) = Len(s) + 1
         /\ Append(s, x)[Len(s) + 1] = x
         /\ \A n \in 1..Len(s) : Append(s, x)[n] = s[n]
<1> DEFINE S == ToSet(s) \cup {x}
           t == Append(s, x)
<1>1. s \in Seq(S) /\ x \in S /\ Len(s) \in Nat
  BY SeqMonotonic, LenProperties
<1> HIDE DEF S
<1>2. /\ t \in Seq(S) /\ Len(t) = Len(s) + 1 /\ t[Len(s) + 1] = x
      /\ \A n \in 1..Len(s) : t[n] = s[n]
  BY <1>1, AppendProperties
<1>3. t \in [1..Len(t) -> ToSet(t)] /\ Len(t) \in Nat
  <2>1. t = [n \in 1..Len(t) |-> t[n]] /\ DOMAIN t = 1..Len(t) /\ Len(t) \in Nat
    BY <1>2, LenProperties
  <2> HIDE DEF t
  <2> QED BY <2>1 DEF ToSet
<1>4. t \in Seq(ToSet(t))
  <2> HIDE DEF t
  <2> QED BY <1>3, SeqDef
<1> QED BY <1>2, <1>4

LEMMA AccInit == Init => AccInv
<1> SUFFICES ASSUME Init PROVE AccInv
  OBVIOUS
<1>1. Len(stored) = 0 /\ Len(rows) = 0 /\ stored \in Seq(ToSet(stored))
      /\ rows \in Seq(Seq(Items(layout)))
  BY EmptySeq DEF Init
<1>2. 1..Len(rows) = {}
  BY <1>1
<1> QED BY <1>1, <1>2 DEF Init, AccInv, Faithful

LEMMA AccStep == AccInv /\ [Next]_vars => AccInv'
<1> SUFFICES ASSUME AccInv, [Next]_vars PROVE AccInv'
  OBVIOUS
<1>1. layout \in Columns /\ layout \in Layouts
  BY ColumnsAssumption DEF AccInv
<1>2. ASSUME NEW item \in Items(layout), PushItem(item) PROVE AccInv'
  <2>1. Faithful(layout, Push(layout, buf, item), Append(pushed, item))
    BY <1>1, PushFaithful DEF AccInv
  <2> QED BY <1>2, <2>1 DEF PushItem, AccInv
<1>3. CASE Discard
  <2>1. Faithful(layout, Empty, <<>>)
    BY DEF Faithful
  <2> QED BY <1>3, <2>1 DEF Discard, AccInv
<1>4. CASE Write
  <2>1. Faithful(layout, Empty, <<>>)
    BY DEF Faithful
  <2>2. /\ Len(stored) \in Nat /\ Len(rows) = Len(stored)
        /\ rows \in Seq(Seq(Items(layout))) /\ pushed \in Seq(Items(layout))
    BY <1>1, FaithfulType, LenProperties DEF AccInv
  <2>3. /\ stored' \in Seq(ToSet(stored')) /\ Len(stored') = Len(rows) + 1
        /\ stored'[Len(rows) + 1] = Store(layout, buf)
        /\ \A n \in 1..Len(rows) : stored'[n] = stored[n]
    BY <1>4, <2>2, AppendIsSeq DEF Write, AccInv
  <2>4. /\ rows' \in Seq(Seq(Items(layout))) /\ Len(rows') = Len(rows) + 1
        /\ rows'[Len(rows) + 1] = pushed
        /\ \A n \in 1..Len(rows) : rows'[n] = rows[n]
    BY <1>4, <2>2, AppendProperties DEF Write
  <2>5. ASSUME NEW s \in 1..(Len(rows) + 1)
        PROVE  \E b : /\ b # Empty
                      /\ Faithful(layout, b, rows'[s])
                      /\ stored'[s] = Store(layout, b)
    <3>1. CASE s = Len(rows) + 1
      BY <1>4, <2>3, <2>4, <3>1 DEF Write, AccInv
    <3>2. CASE s # Len(rows) + 1
      <4>1. s \in 1..Len(rows)
        BY <2>2, <3>2
      <4> QED BY <2>3, <2>4, <4>1 DEF AccInv
    <3> QED BY <3>1, <3>2
  <2>6. layout' = layout /\ buf' = Empty /\ pushed' = <<>>
    BY <1>4 DEF Write
  <2> QED BY <1>1, <2>1, <2>3, <2>4, <2>5, <2>6 DEF AccInv
<1>5. CASE UNCHANGED vars
  BY <1>5 DEF AccInv, vars
<1> QED BY <1>2, <1>3, <1>4, <1>5 DEF Next

\* The accumulator and the file hold exactly what was pushed and acknowledged,
\* in the layout of the column: the invariant of Buffer::push, discard and
\* register under any sequence of calls.
THEOREM AccumulatorInvariant == Spec => []AccInv
<1> QED BY AccInit, AccStep, PTL DEF Spec

\* A state predicate that the invariant implies holds throughout: what each
\* buffer on disk is known to be.
LEMMA StoredIs ==
  ASSUME AccInv
  PROVE  /\ layout \in Layouts
         /\ DOMAIN stored = 1..Len(rows)
         /\ \A s \in 1..Len(rows) : \E b :
              /\ b # Empty
              /\ Faithful(layout, b, rows[s])
              /\ stored[s] = Store(layout, b)
BY ColumnsAssumption, LenProperties DEF AccInv

\* The count of the accumulator, from which register takes the number of items
\* of the segment, is the number pushed since it was empty.
THEOREM AccumulatorTyped == Spec => []TypeOK
<1>1. AccInv => TypeOK
  <2> SUFFICES ASSUME AccInv PROVE TypeOK
    OBVIOUS
  <2>1. layout \in Layouts
    BY ColumnsAssumption DEF AccInv
  <2> QED BY <2>1, FaithfulType DEF AccInv, TypeOK
<1> QED BY <1>1, AccumulatorInvariant, PTL

\* Reading a column back gives the items acknowledged, bit for bit and in
\* order, for every layout, length of run, padding and placing of None.
THEOREM ItemsReadBack == Spec => []RoundTrip
<1>1. AccInv => RoundTrip
  BY StoredIs, FaithfulDecodes DEF RoundTrip
<1> QED BY <1>1, AccumulatorInvariant, PTL

\* A buffer is stored compact exactly when all of its items are bit-identical.
THEOREM CompactIsExact == Spec => []CompactExactly
<1>1. AccInv => CompactExactly
  BY StoredIs, FaithfulKind DEF CompactExactly
<1> QED BY <1>1, AccumulatorInvariant, PTL

\* The minimum and the maximum in the manifest are ordered and bound every
\* ordered item of the buffer, whichever of the others are NaN or None, unless
\* the buffer opens with NaN.
THEOREM StatisticsAreBounds == Spec => []StatisticsBound
<1>1. ASSUME AccInv, NEW s \in DOMAIN stored, stored[s].desc.kind = "Detailed"
      PROVE  Tight(rows[s], MinOf(stored[s]), MaxOf(stored[s]))
  BY <1>1, StoredIs, FaithfulStatistics
<1>2. AccInv => StatisticsBound
  <2> SUFFICES ASSUME AccInv, NEW s \in DOMAIN stored, stored[s].desc.kind = "Detailed",
                      Opening(rows[s]) \in Ordered
               PROVE  LET min == MinOf(stored[s])
                          max == MaxOf(stored[s])
                      IN  /\ {min, max} \subseteq Ordered
                          /\ \A i \in ToSet(rows[s]) \cap Ordered :
                               AtMost(min, i) /\ AtMost(i, max)
    BY DEF StatisticsBound
  <2> QED BY <1>1 DEF Tight, Opening
<1> QED BY <1>2, AccumulatorInvariant, PTL

\* What Query.tla assumes of its tables: a buffer on disk has an item for each
\* row of its segment, which has some, and its statistics are sound.
Admissible ==
  \A s \in DOMAIN stored :
    /\ Len(rows[s]) \in Nat \ {0}
    /\ DOMAIN Decode(layout, stored[s]) = 1..Len(rows[s])
    /\ stored[s].desc.kind = "Detailed" => Bounded(layout, stored[s])

\* The buffers that accumulators write satisfy the assumption under which a
\* query over them is proved sound (Query!TablesAssumption).
THEOREM StoredIsAdmissible == Spec => []Admissible
<1>1. ASSUME AccInv, NEW s \in DOMAIN stored
      PROVE  /\ Len(rows[s]) \in Nat \ {0}
             /\ DOMAIN Decode(layout, stored[s]) = 1..Len(rows[s])
             /\ stored[s].desc.kind = "Detailed" => Bounded(layout, stored[s])
  <2>1. PICK b : /\ b # Empty /\ Faithful(layout, b, rows[s])
                 /\ stored[s] = Store(layout, b) /\ layout \in Layouts
    BY <1>1, StoredIs
  <2>2. Decode(layout, stored[s]) = rows[s]
    BY <2>1, FaithfulDecodes
  <2>3. /\ rows[s] \in Seq(Items(layout)) /\ rows[s] # <<>>
        /\ Len(rows[s]) \in Nat \ {0} /\ DOMAIN rows[s] = 1..Len(rows[s])
    BY <2>1, FaithfulType, LenProperties, EmptySeq
  <2>4. ASSUME stored[s].desc.kind = "Detailed" PROVE Bounded(layout, stored[s])
    <3> DEFINE min == MinOf(stored[s])
               max == MaxOf(stored[s])
    <3>1. rows[s] \in Seq(Bits \cup {None}) /\ Tight(rows[s], min, max)
      BY <2>1, <2>4, FaithfulStatistics
    <3> HIDE DEF min, max
    <3>2. {min, max} \subseteq Bits
      BY <3>1 DEF Tight
    <3>3. ASSUME NEW n \in DOMAIN rows[s]
          PROVE  /\ rows[s][n] \in Bits \cup {None}
                 /\ rows[s][n] \in Ordered =>
                      /\ min \in Ordered => AtMost(min, rows[s][n])
                      /\ max \in Ordered => AtMost(rows[s][n], max)
      <4>1. rows[s][n] \in Bits \cup {None} /\ rows[s][n] \in ToSet(rows[s])
        BY <2>3, <3>1, ElementOfSeq DEF ToSet
      <4> QED BY <3>1, <4>1 DEF Tight
    <3> QED BY <2>2, <3>2, <3>3 DEF Bounded, min, max
  <2> QED BY <2>2, <2>3, <2>4
<1>2. AccInv => Admissible
  BY <1>1 DEF Admissible
<1> QED BY <1>2, AccumulatorInvariant, PTL

=============================================================================
