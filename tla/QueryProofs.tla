---------------------------- MODULE QueryProofs ----------------------------
(***************************************************************************)
(* Pruning is sound for every schema, table, filter tree and bound, as far *)
(* as the items a key filter looks for are ordered (the run query_nan      *)
(* shows what happens when they are not).                                  *)
(***************************************************************************)
EXTENDS Query, FiniteSetTheorems, TLAPS

\* A key filter prunes by PartialOrd but matches bit for bit: it is offered
\* for items that are all ordered.
KeysOrdered ==
  (\E c \in Columns : \E f \in Filters[c] : f.op \in Keyed) => Ordered = Bits

----------------------------------------------------------------------------
(* One filter, one buffer                                                  *)

\* Statistics that bound an item never exclude a range that holds it.
LEMMA RangeSound ==
  ASSUME NEW min, NEW max, NEW item,
         NEW start \in Bound, NEW end \in Bound,
         item \in Ordered =>
           /\ min \in Ordered => AtMost(min, item)
           /\ max \in Ordered => AtMost(item, max),
         Within(InRange(start, end), item)
  PROVE  ~ Disjoint(min, max, InRange(start, end))
<1>1. \A b \in Ordered : Rank[b] \in Int
  BY OrderAssumption
<1>2. InRange(start, end).start = start /\ InRange(start, end).end = end
  BY DEF InRange
<1>3. ASSUME end.bound = "Included", Greater(min, end.at) PROVE FALSE
  BY <1>1, <1>2, <1>3 DEF Greater, Less, AtMost, Within
<1>4. ASSUME end.bound = "Excluded", AtMost(end.at, min) PROVE FALSE
  BY <1>1, <1>2, <1>4 DEF Less, AtMost, Within
<1>5. ASSUME start.bound = "Included", Less(max, start.at) PROVE FALSE
  BY <1>1, <1>2, <1>5 DEF Less, AtMost, Within
<1>6. ASSUME start.bound = "Excluded", AtMost(max, start.at) PROVE FALSE
  BY <1>1, <1>2, <1>6 DEF Less, AtMost, Within
<1> QED BY <1>2, <1>3, <1>4, <1>5, <1>6 DEF Disjoint

\* Bisecting the keys with the two statistics finds that one lies between.
LEMMA BisectionSound ==
  ASSUME NEW keys, IsFiniteSet(keys), NEW min, NEW max, NEW item \in keys,
         AtMost(min, item), AtMost(item, max)
  PROVE  Cardinality({k \in keys : Less(k, min)})
           < Cardinality({k \in keys : AtMost(k, max)})
<1> DEFINE Below == {k \in keys : Less(k, min)}
<1> DEFINE NotAbove == {k \in keys : AtMost(k, max)}
<1>1. \A b \in Ordered : Rank[b] \in Int
  BY OrderAssumption
<1>2. Below \subseteq NotAbove
  BY <1>1 DEF Less, AtMost
<1>3. item \in NotAbove /\ item \notin Below
  BY <1>1 DEF Less, AtMost
<1>4. IsFiniteSet(NotAbove)
  BY FS_Subset
<1>5. IsFiniteSet(Below) /\ Cardinality(Below) <= Cardinality(NotAbove)
  BY <1>2, <1>4, FS_Subset
<1>6. Cardinality(Below) # Cardinality(NotAbove)
  BY <1>2, <1>3, <1>4, FS_Subset
<1>7. Cardinality(Below) \in Nat /\ Cardinality(NotAbove) \in Nat
  BY <1>4, <1>5, FS_CardinalityType
<1> QED BY <1>5, <1>6, <1>7

\* The test of a buffer never excludes one with an item that passes.
LEMMA KeepsSound ==
  ASSUME KeysOrdered,
         NEW t \in Tables, NEW c \in Columns, NEW f \in Filters[c],
         NEW s \in Segments, NEW n \in 1..Counts[s],
         Passes(f, Decode(Layout[c], t[c][s])[n])
  PROVE  Keeps(f, Layout[c], t[c][s])
<1> DEFINE stored == t[c][s]
<1> DEFINE item == Decode(Layout[c], stored)[n]
<1>1. DOMAIN Decode(Layout[c], stored) = 1..Counts[s]
  BY TablesAssumption
<1>2. IsFilter(f)
  BY FiltersAssumption
<1>3. CASE stored.desc.kind = "Compact"
  <2>1. Decode(Layout[c], stored)
          = [k \in 1..stored.desc.count |-> DecodeOne(Layout[c], stored.body)]
    BY <1>3 DEF Decode
  <2>2. item = DecodeOne(Layout[c], stored.body)
    BY <1>1, <2>1
  <2> QED BY <1>3, <2>2 DEF Keeps
<1>4. CASE stored.desc.kind = "Detailed"
  <2> DEFINE min == MinOf(stored)
  <2> DEFINE max == MaxOf(stored)
  <2>1. Bounded(Layout[c], stored)
    BY <1>4, TablesAssumption
  <2>2. /\ min \in Bits /\ max \in Bits /\ item \in Bits \cup {None}
        /\ item \in Ordered =>
             /\ min \in Ordered => AtMost(min, item)
             /\ max \in Ordered => AtMost(item, max)
    BY <1>1, <2>1 DEF Bounded
  <2>3. Possible(f, min, max)
    <3>1. CASE f \in {IsSome, IsNone} \/ f.op = "none_of"
      BY <3>1 DEF Possible, IsSome, IsNone
    <3>2. CASE f \in {InRange(start, end) : start, end \in Bound}
      <4>1. PICK start \in Bound, end \in Bound : f = InRange(start, end)
        BY <3>2
      <4>2. f.op = "range"
        BY <4>1 DEF InRange
      <4>3. Within(f, item)
        BY <4>2 DEF Passes, Keyed
      <4>4. ~ Disjoint(min, max, f)
        BY <2>2, <4>1, <4>3, RangeSound
      <4> QED BY <4>2, <4>4 DEF Possible
    <3>3. CASE f.op \in Keyed /\ IsFiniteSet(f.keys) /\ None \notin f.keys
      <4>1. item \in f.keys
        BY <3>3 DEF Passes, Keyed
      <4>2. AtMost(min, item) /\ AtMost(item, max)
        BY <2>2, <3>3, <4>1 DEF KeysOrdered
      <4>3. CASE f.op = "one_of"
        BY <4>1, <4>2, <4>3 DEF Possible
      <4>4. CASE f.op = "one_of_sorted"
        <5>1. Cardinality({k \in f.keys : Less(k, min)})
                < Cardinality({k \in f.keys : AtMost(k, max)})
          BY <3>3, <4>1, <4>2, BisectionSound
        <5> QED BY <4>4, <5>1 DEF Possible
      <4> QED BY <3>3, <4>3, <4>4 DEF Keyed
    <3> QED BY <1>2, <3>1, <3>2, <3>3 DEF IsFilter
  <2> QED BY <1>4, <2>3 DEF Keeps
<1>5. CASE stored.desc.kind \notin {"Compact", "Detailed"}
  BY <1>5 DEF Keeps
<1> QED BY <1>3, <1>4, <1>5

----------------------------------------------------------------------------
(* The tree                                                                *)

\* Segment s is held back by one of the first n unions.
HeldBack(s, n) == \E i \in 1..n : s \in frames[i].kept

\* No row that a frame remembers is lost: neither those offered to it nor
\* those of its first leg.
FramesSound ==
  \A i \in 1..Len(frames) :
    /\ \A r \in frames[i].base : r[1] \in frames[i].offered \/ HeldBack(r[1], i - 1)
    /\ \A r \in frames[i].first : HeldBack(r[1], i)
    /\ frames[i].leg = 1 => frames[i].kept = {} /\ frames[i].first = {}

HitsSound == \A r \in hits : r[1] \in mask \/ HeldBack(r[1], Len(frames))

\* A union is offered no more than the unions around it have left.
Nested ==
  \A i, j \in 1..Len(frames) :
    i < j => /\ frames[j].offered \subseteq frames[i].offered
             /\ frames[j].offered \cap frames[i].kept = {}

MaskInv == TypeOK /\ Nested /\ Subtractive /\ LegsDisjoint

Inv == MaskInv /\ FramesSound /\ HitsSound

LEMMA InitInv == Init => Inv
<1> SUFFICES ASSUME Init PROVE Inv
  OBVIOUS
<1>1. Len(frames) = 0
  BY DEF Init
<1>2. 1..Len(frames) = {}
  BY <1>1
<1>3. TypeOK
  BY DEF Init, TypeOK
<1>4. HitsSound
  BY DEF Init, HitsSound, Rows
<1> QED BY <1>2, <1>3, <1>4 DEF Inv, MaskInv, Nested, Subtractive, LegsDisjoint, FramesSound

\* What Append(Pop, frame) and Append(frames, frame) are, place by place.
LEMMA Pushed ==
  ASSUME NEW fs \in Seq(Frame), NEW frame \in Frame
  PROVE  /\ Append(fs, frame) \in Seq(Frame)
         /\ Len(Append(fs, frame)) = Len(fs) + 1
         /\ \A i \in 1..Len(fs) : Append(fs, frame)[i] = fs[i]
         /\ Append(fs, frame)[Len(fs) + 1] = frame
  OBVIOUS

LEMMA Popped ==
  ASSUME frames \in Seq(Frame), frames # <<>>
  PROVE  /\ Len(frames) \in Nat \ {0}
         /\ Top \in Frame
         /\ Pop \in Seq(Frame)
         /\ Len(Pop) = Len(frames) - 1
         /\ \A i \in 1..(Len(frames) - 1) : Pop[i] = frames[i]
<1>1. Len(frames) \in Nat \ {0}
  OBVIOUS
<1>2. Top \in Frame
  BY <1>1 DEF Top
<1>3. Pop \in Seq(Frame) /\ Len(Pop) = Len(frames) - 1
  BY <1>1 DEF Pop
<1>4. \A i \in 1..(Len(frames) - 1) : Pop[i] = frames[i]
  BY <1>1 DEF Pop
<1> QED BY <1>1, <1>2, <1>3, <1>4

\* What the mask and the frames keep of their own, whatever the rows.
LEMMA MaskStep == MaskInv /\ [Next]_vars => MaskInv'
<1> SUFFICES ASSUME MaskInv, [Next]_vars PROVE MaskInv'
  OBVIOUS
<1> USE DEF MaskInv
<1>1. ASSUME NEW c \in Columns, NEW f \in Filters[c], Test(c, f)
      PROVE  MaskInv'
  <2>1. mask' \subseteq mask /\ hits' \subseteq hits /\ UNCHANGED <<table, frames>>
    BY <1>1 DEF Test
  <2>2. TypeOK'
    BY <1>1, <2>1 DEF Test, TypeOK
  <2> QED BY <2>1, <2>2 DEF Nested, Subtractive, LegsDisjoint
<1>2. ASSUME NEW join \in Joins, Enter(join)
      PROVE  MaskInv'
  <2> DEFINE top == [join |-> join, leg |-> 1, offered |-> mask,
                     base |-> hits, kept |-> {}, first |-> {}]
  <2>1. top \in Frame /\ frames \in Seq(Frame)
    BY DEF Frame, TypeOK
  <2>2. frames' = Append(frames, top) /\ UNCHANGED <<table, mask, hits, tests>>
    BY <1>2 DEF Enter
  <2>3. /\ frames' \in Seq(Frame) /\ Len(frames') = Len(frames) + 1
        /\ \A i \in 1..Len(frames) : frames'[i] = frames[i]
        /\ frames'[Len(frames) + 1] = top
    BY <2>1, <2>2, Pushed
  <2>4. Len(frames) \in Nat
    BY <2>1
  <2>5. TypeOK'
    BY <2>2, <2>3 DEF TypeOK
  <2> HIDE DEF top
  <2>6. top.offered = mask /\ top.kept = {}
    BY DEF top
  <2>7. Nested'
    BY <2>2, <2>3, <2>4, <2>6 DEF Nested, Subtractive, LegsDisjoint
  <2>8. Subtractive' /\ LegsDisjoint'
    BY <2>2, <2>3, <2>4, <2>6 DEF Subtractive, LegsDisjoint
  <2> QED BY <2>5, <2>7, <2>8
<1>3. CASE Second
  <2> DEFINE n == Len(frames)
  <2> DEFINE top == [Top EXCEPT !.leg = 2, !.kept = mask, !.first = hits]
  <2>1. /\ n \in Nat \ {0} /\ Top \in Frame /\ Pop \in Seq(Frame)
        /\ Len(Pop) = n - 1
        /\ \A i \in 1..(n - 1) : Pop[i] = frames[i]
    BY <1>3, Popped DEF Second, TypeOK
  <2>2. /\ frames' = Append(Pop, top) /\ mask' = Offer(Top.offered, mask)
        /\ hits' = Top.base /\ UNCHANGED <<table, tests>>
    BY <1>3 DEF Second
  <2>3. top \in Frame /\ top.kept = mask /\ top.offered = Top.offered
    BY <2>1 DEF Frame, TypeOK
  <2> HIDE DEF top
  <2>4. /\ frames' \in Seq(Frame) /\ Len(frames') = n
        /\ \A i \in 1..(n - 1) : frames'[i] = frames[i]
        /\ frames'[n] = top
    BY <2>1, <2>2, <2>3, Pushed
  <2>5. mask \subseteq Top.offered
    BY <2>1 DEF Subtractive, Top
  <2>6. mask' = Top.offered \ mask
    BY <2>2, <2>5 DEF Offer
  <2>7. TypeOK'
    BY <2>1, <2>2, <2>4, <2>6 DEF TypeOK, Frame
  <2>8. \A i \in 1..(n - 1) : /\ Top.offered \subseteq frames[i].offered
                             /\ Top.offered \cap frames[i].kept = {}
    BY <2>1 DEF Nested, Top
  <2>9. Nested'
    BY <2>1, <2>3, <2>4, <2>8 DEF Nested
  <2>10. Subtractive' /\ LegsDisjoint'
    <3> SUFFICES ASSUME NEW i \in 1..n
                 PROVE  /\ mask' \cup frames'[i].kept \subseteq frames'[i].offered
                        /\ mask' \cap frames'[i].kept = {}
      BY <2>4 DEF Subtractive, LegsDisjoint
    <3>1. CASE i = n
      BY <2>3, <2>4, <2>5, <2>6, <3>1
    <3>2. CASE i # n
      <4>1. i \in 1..(n - 1)
        BY <2>1, <3>2
      <4>2. frames'[i] = frames[i] /\ frames[i].kept \subseteq frames[i].offered
        BY <2>4, <4>1 DEF Subtractive
      <4> QED BY <2>6, <2>8, <4>1, <4>2
    <3> QED BY <3>1, <3>2
  <2> QED BY <2>7, <2>9, <2>10
<1>4. CASE Leave
  <2> DEFINE n == Len(frames)
  <2>1. /\ n \in Nat \ {0} /\ Top \in Frame /\ Pop \in Seq(Frame)
        /\ Len(Pop) = n - 1
        /\ \A i \in 1..(n - 1) : Pop[i] = frames[i]
    BY <1>4, Popped DEF Leave, TypeOK
  <2>2. /\ frames' = Pop /\ mask' = mask \cup Top.kept
        /\ hits' = Combine(Top.join, Top.first, hits) /\ UNCHANGED <<table, tests>>
    BY <1>4 DEF Leave
  <2>3. TypeOK'
    BY <2>1, <2>2 DEF TypeOK, Frame, Combine
  <2>4. Nested'
    BY <2>1, <2>2 DEF Nested
  <2>5. Subtractive' /\ LegsDisjoint'
    <3> SUFFICES ASSUME NEW i \in 1..(n - 1)
                 PROVE  /\ mask' \cup frames'[i].kept \subseteq frames'[i].offered
                        /\ mask' \cap frames'[i].kept = {}
      BY <2>1, <2>2 DEF Subtractive, LegsDisjoint
    <3>1. frames'[i] = frames[i] /\ i \in 1..n /\ n \in 1..n /\ i < n
      BY <2>1, <2>2
    <3>2. /\ Top.offered \subseteq frames[i].offered
          /\ Top.offered \cap frames[i].kept = {}
      BY <3>1 DEF Nested, Top
    <3>3. Top.kept \subseteq Top.offered
      BY <3>1 DEF Subtractive, Top
    <3>4. /\ mask \cup frames[i].kept \subseteq frames[i].offered
          /\ mask \cap frames[i].kept = {}
      BY <3>1 DEF Subtractive, LegsDisjoint
    <3> QED BY <2>2, <3>1, <3>2, <3>3, <3>4
  <2> QED BY <2>3, <2>4, <2>5
<1>5. CASE UNCHANGED vars
  BY <1>5 DEF vars, TypeOK, Nested, Subtractive, LegsDisjoint
<1> QED BY <1>1, <1>2, <1>3, <1>4, <1>5 DEF Next

\* The rows: every step but Test only moves them between the frames.
LEMMA RowStep ==
  ASSUME KeysOrdered
  PROVE  Inv /\ [Next]_vars => FramesSound' /\ HitsSound'
<1> SUFFICES ASSUME Inv, [Next]_vars PROVE FramesSound' /\ HitsSound'
  OBVIOUS
<1> USE DEF Inv, MaskInv
<1>1. ASSUME NEW c \in Columns, NEW f \in Filters[c], Test(c, f)
      PROVE  FramesSound' /\ HitsSound'
  <2>1. /\ mask' = {s \in mask : Keeps(f, Layout[c], table[c][s])}
        /\ hits' = {r \in hits : Passes(f, ItemAt(c, r))}
        /\ UNCHANGED <<table, frames>>
    BY <1>1 DEF Test
  <2>2. FramesSound'
    BY <2>1 DEF FramesSound, HeldBack
  <2>3. HitsSound'
    <3> SUFFICES ASSUME NEW r \in hits' PROVE r[1] \in mask' \/ HeldBack(r[1], Len(frames))
      BY <2>1 DEF HitsSound, HeldBack
    <3>1. r \in hits /\ Passes(f, Decode(Layout[c], table[c][r[1]])[r[2]])
      BY <2>1 DEF ItemAt
    <3>2. r[1] \in Segments /\ r[2] \in 1..Counts[r[1]] /\ table \in Tables
      BY <3>1 DEF TypeOK, Rows
    <3>3. Keeps(f, Layout[c], table[c][r[1]])
      BY <3>1, <3>2, KeepsSound
    <3> QED BY <2>1, <3>1, <3>3 DEF HitsSound
  <2> QED BY <2>2, <2>3
<1>2. ASSUME NEW join \in Joins, Enter(join)
      PROVE  FramesSound' /\ HitsSound'
  <2> DEFINE n == Len(frames)
  <2> DEFINE top == [join |-> join, leg |-> 1, offered |-> mask,
                     base |-> hits, kept |-> {}, first |-> {}]
  <2>1. top \in Frame /\ frames \in Seq(Frame)
    BY DEF Frame, TypeOK
  <2>2. frames' = Append(frames, top) /\ UNCHANGED <<mask, hits>>
    BY <1>2 DEF Enter
  <2>3. /\ n \in Nat /\ Len(frames') = n + 1
        /\ \A i \in 1..n : frames'[i] = frames[i]
        /\ frames'[n + 1] = top
    BY <2>1, <2>2, Pushed
  <2>4. top.offered = mask /\ top.base = hits /\ top.kept = {} /\ top.first = {}
    OBVIOUS
  <2> HIDE DEF top
  <2>5. \A s, k : k \in 0..n => (HeldBack(s, k) => HeldBack(s, k)')
    BY <2>3 DEF HeldBack
  <2>6. \A s : HeldBack(s, n) => HeldBack(s, Len(frames))'
    BY <2>3 DEF HeldBack
  <2>7. FramesSound'
    <3> SUFFICES ASSUME NEW i \in 1..(n + 1)
                 PROVE  /\ \A r \in frames'[i].base :
                             r[1] \in frames'[i].offered \/ HeldBack(r[1], i - 1)'
                        /\ \A r \in frames'[i].first : HeldBack(r[1], i)'
                        /\ frames'[i].leg = 1 =>
                             frames'[i].kept = {} /\ frames'[i].first = {}
      BY <2>3 DEF FramesSound, HeldBack
    <3>1. CASE i \in 1..n
      <4>1. i - 1 \in 0..n /\ i \in 0..n /\ frames'[i] = frames[i]
        BY <2>3, <3>1
      <4> QED BY <2>5, <3>1, <4>1 DEF FramesSound
    <3>2. CASE i = n + 1
      <4>1. i - 1 = n /\ n \in 0..n /\ frames'[i] = top
        BY <2>3, <3>2
      <4> QED BY <2>4, <2>5, <4>1 DEF HitsSound
    <3> QED BY <2>3, <3>1, <3>2
  <2>8. HitsSound'
    BY <2>2, <2>3, <2>6 DEF HitsSound, HeldBack
  <2> QED BY <2>7, <2>8
<1>3. CASE Second
  <2> DEFINE n == Len(frames)
  <2> DEFINE top == [Top EXCEPT !.leg = 2, !.kept = mask, !.first = hits]
  <2>1. /\ n \in Nat \ {0} /\ Top \in Frame /\ Pop \in Seq(Frame)
        /\ Len(Pop) = n - 1
        /\ \A i \in 1..(n - 1) : Pop[i] = frames[i]
    BY <1>3, Popped DEF Second, TypeOK
  <2>2. /\ frames' = Append(Pop, top) /\ mask' = Offer(Top.offered, mask)
        /\ hits' = Top.base /\ Top.leg = 1
    BY <1>3 DEF Second
  <2>3. /\ top \in Frame /\ top.leg = 2 /\ top.kept = mask /\ top.first = hits
        /\ top.base = Top.base /\ top.offered = Top.offered
    BY <2>1 DEF Frame, TypeOK
  <2> HIDE DEF top
  <2>4. /\ Len(frames') = n
        /\ \A i \in 1..(n - 1) : frames'[i] = frames[i]
        /\ frames'[n] = top
    BY <2>1, <2>2, <2>3, Pushed
  <2>5. Top = frames[n] /\ n \in 1..n /\ Top.kept = {}
    BY <2>1, <2>2 DEF FramesSound, Top
  <2>6. \A s, k : k \in 0..(n - 1) => (HeldBack(s, k) => HeldBack(s, k)')
    <3>1. \A k \in 0..(n - 1) : \A i \in 1..k : frames'[i] = frames[i]
      BY <2>1, <2>4
    <3> QED BY <3>1 DEF HeldBack
  <2>7. \A s : HeldBack(s, n) => HeldBack(s, n - 1)
    BY <2>1, <2>5 DEF HeldBack
  <2>8. \A s : s \in mask \/ HeldBack(s, n - 1) => HeldBack(s, Len(frames))'
    BY <2>1, <2>3, <2>4 DEF HeldBack
  <2>9. FramesSound'
    <3> SUFFICES ASSUME NEW i \in 1..n
                 PROVE  /\ \A r \in frames'[i].base :
                             r[1] \in frames'[i].offered \/ HeldBack(r[1], i - 1)'
                        /\ \A r \in frames'[i].first : HeldBack(r[1], i)'
                        /\ frames'[i].leg = 1 =>
                             frames'[i].kept = {} /\ frames'[i].first = {}
      BY <2>4 DEF FramesSound, HeldBack
    <3>1. i - 1 \in 0..(n - 1)
      BY <2>1
    <3>2. \A r \in frames[i].base : r[1] \in frames[i].offered \/ HeldBack(r[1], i - 1)'
      BY <2>6, <3>1 DEF FramesSound
    <3>3. CASE i \in 1..(n - 1)
      <4>1. frames'[i] = frames[i] /\ i \in 0..(n - 1)
        BY <2>1, <2>4, <3>3
      <4> QED BY <2>6, <3>2, <4>1 DEF FramesSound
    <3>4. CASE i = n
      BY <2>3, <2>4, <2>5, <2>7, <2>8, <3>2, <3>4 DEF HitsSound
    <3> QED BY <2>1, <3>3, <3>4
  <2>10. HitsSound'
    <3> SUFFICES ASSUME NEW r \in Top.base PROVE r[1] \in mask' \/ HeldBack(r[1], Len(frames))'
      BY <2>2, <2>4 DEF HitsSound, HeldBack
    <3>1. r[1] \in Top.offered \/ HeldBack(r[1], n - 1)
      BY <2>5 DEF FramesSound
    <3> QED BY <2>2, <2>8, <3>1 DEF Offer
  <2> QED BY <2>9, <2>10
<1>4. CASE Leave
  <2> DEFINE n == Len(frames)
  <2>1. /\ n \in Nat \ {0} /\ Top \in Frame
        /\ Len(Pop) = n - 1
        /\ \A i \in 1..(n - 1) : Pop[i] = frames[i]
    BY <1>4, Popped DEF Leave, TypeOK
  <2>2. /\ frames' = Pop /\ mask' = mask \cup Top.kept
        /\ hits' = Combine(Top.join, Top.first, hits)
    BY <1>4 DEF Leave
  <2>3. \A s, k : k \in 0..(n - 1) => (HeldBack(s, k) => HeldBack(s, k)')
    BY <2>1, <2>2 DEF HeldBack
  <2>4. \A s : HeldBack(s, n) => s \in mask' \/ HeldBack(s, Len(frames))'
    <3> SUFFICES ASSUME NEW s, NEW i \in 1..n, s \in frames[i].kept
                 PROVE  s \in mask' \/ \E j \in 1..(n - 1) : s \in frames'[j].kept
      BY <2>1, <2>2 DEF HeldBack
    <3>1. CASE i = n
      BY <2>2, <3>1 DEF Top
    <3>2. CASE i # n
      <4>1. i \in 1..(n - 1)
        BY <2>1, <3>2
      <4>2. frames'[i] = frames[i]
        BY <2>1, <2>2, <4>1
      <4> QED BY <4>1, <4>2
    <3> QED BY <3>1, <3>2
  <2>5. FramesSound'
    <3> SUFFICES ASSUME NEW i \in 1..(n - 1)
                 PROVE  /\ \A r \in frames'[i].base :
                             r[1] \in frames'[i].offered \/ HeldBack(r[1], i - 1)'
                        /\ \A r \in frames'[i].first : HeldBack(r[1], i)'
                        /\ frames'[i].leg = 1 =>
                             frames'[i].kept = {} /\ frames'[i].first = {}
      BY <2>1, <2>2 DEF FramesSound, HeldBack
    <3>1. i - 1 \in 0..(n - 1) /\ i \in 0..(n - 1) /\ i \in 1..n /\ frames'[i] = frames[i]
      BY <2>1, <2>2
    <3> QED BY <2>3, <3>1 DEF FramesSound
  <2>6. HitsSound'
    <3> SUFFICES ASSUME NEW r \in hits' PROVE r[1] \in mask' \/ HeldBack(r[1], Len(frames))'
      BY <2>1, <2>2 DEF HitsSound, HeldBack
    <3>1. r \in Top.first \/ r \in hits
      BY <2>2 DEF Combine
    <3>2. r \in Top.first => HeldBack(r[1], n)
      BY <2>1 DEF FramesSound, Top
    <3>3. r \in hits => r[1] \in mask \/ HeldBack(r[1], n)
      BY DEF HitsSound
    <3> QED BY <2>2, <2>4, <3>1, <3>2, <3>3
  <2> QED BY <2>5, <2>6
<1>5. CASE UNCHANGED vars
  BY <1>5 DEF vars, FramesSound, HitsSound, HeldBack
<1> QED BY <1>1, <1>2, <1>3, <1>4, <1>5 DEF Next

----------------------------------------------------------------------------
(* Compact buffers                                                         *)

AllCompact(s) == \A c \in Columns : table[c][s].desc.kind = "Compact"

\* For a segment s whose buffers are all compact, the mask and the frames say
\* exactly which rows passed: s is in the mask unless none of its rows did or
\* a first leg holds it back.
FrameExact(s, i) ==
  /\ s \in frames[i].offered <=>
       s \in SegmentsOf(frames[i].base) /\ ~ HeldBack(s, i - 1)
  /\ s \in frames[i].kept <=>
       s \in SegmentsOf(frames[i].first) /\ ~ HeldBack(s, i - 1)
  /\ frames[i].leg = 1 => frames[i].kept = {} /\ frames[i].first = {}

MaskExact(s) ==
  s \in mask <=> s \in SegmentsOf(hits) /\ ~ HeldBack(s, Len(frames))

ExactInv ==
  \A s \in Segments :
    AllCompact(s) => /\ MaskExact(s)
                     /\ \A i \in 1..Len(frames) : FrameExact(s, i)

\* A filter treats the rows of a compact buffer alike, and as it treats the
\* buffer.
LEMMA CompactAlike ==
  ASSUME TypeOK, NEW c \in Columns, NEW f \in Filters[c], NEW r \in Rows,
         table[c][r[1]].desc.kind = "Compact"
  PROVE  Passes(f, ItemAt(c, r)) <=> Keeps(f, Layout[c], table[c][r[1]])
<1> DEFINE stored == table[c][r[1]]
<1>1. r[1] \in Segments /\ r[2] \in 1..Counts[r[1]] /\ table \in Tables
  BY DEF Rows, TypeOK
<1>2. DOMAIN Decode(Layout[c], stored) = 1..Counts[r[1]]
  BY <1>1, TablesAssumption
<1>3. Decode(Layout[c], stored)
        = [k \in 1..stored.desc.count |-> DecodeOne(Layout[c], stored.body)]
  BY DEF Decode
<1>4. ItemAt(c, r) = DecodeOne(Layout[c], stored.body)
  BY <1>1, <1>2, <1>3 DEF ItemAt
<1> QED BY <1>4 DEF Keeps

\* The frames below the one a step replaces say what they said.
LEMMA ExactKept ==
  ASSUME TypeOK, NEW s, NEW m \in Nat, m <= Len(frames), m <= Len(frames'),
         \A i \in 1..m : frames'[i] = frames[i],
         \A i \in 1..m : FrameExact(s, i)
  PROVE  /\ HeldBack(s, m)' <=> HeldBack(s, m)
         /\ \A i \in 1..m : FrameExact(s, i)'
<1>1. \A k \in 0..m : HeldBack(s, k)' <=> HeldBack(s, k)
  <2>1. \A k \in 0..m : \A i \in 1..k : frames'[i] = frames[i]
    OBVIOUS
  <2> QED BY <2>1 DEF HeldBack
<1>2. m \in 0..m /\ \A i \in 1..m : i - 1 \in 0..m
  OBVIOUS
<1> QED BY <1>1, <1>2 DEF FrameExact, SegmentsOf

LEMMA ExactStep ==
  ASSUME "xor" \notin Joins, MaskInv, ExactInv, [Next]_vars
  PROVE  ExactInv'
<1> SUFFICES ASSUME NEW s \in Segments, AllCompact(s)'
             PROVE  /\ MaskExact(s)'
                    /\ \A i \in 1..Len(frames') : FrameExact(s, i)'
  BY DEF ExactInv
<1>a. TypeOK /\ frames \in Seq(Frame)
  BY DEF MaskInv, TypeOK
<1>b. UNCHANGED table
  BY DEF Next, Test, Enter, Second, Leave, vars
<1>c. PICK n \in Nat : n = Len(frames)
  BY <1>a
<1>1. TypeOK /\ n = Len(frames) /\ UNCHANGED table /\ frames \in Seq(Frame)
  BY <1>a, <1>b, <1>c
<1>2. /\ AllCompact(s) /\ MaskExact(s)
      /\ \A i \in 1..n : FrameExact(s, i)
  BY <1>1 DEF ExactInv, AllCompact
<1>3. ASSUME NEW c \in Columns, NEW f \in Filters[c], Test(c, f)
      PROVE  /\ MaskExact(s)'
             /\ \A i \in 1..Len(frames') : FrameExact(s, i)'
  <2>1. /\ mask' = {q \in mask : Keeps(f, Layout[c], table[c][q])}
        /\ hits' = {r \in hits : Passes(f, ItemAt(c, r))}
        /\ UNCHANGED frames
    BY <1>3 DEF Test
  <2>2. \A r \in hits : r[1] = s =>
          (Passes(f, ItemAt(c, r)) <=> Keeps(f, Layout[c], table[c][s]))
    BY <1>1, <1>2, CompactAlike DEF TypeOK, AllCompact
  <2>3. s \in SegmentsOf(hits)' <=>
          s \in SegmentsOf(hits) /\ Keeps(f, Layout[c], table[c][s])
    BY <2>1, <2>2 DEF SegmentsOf
  <2>4. /\ HeldBack(s, Len(frames))' <=> HeldBack(s, Len(frames))
        /\ \A i \in 1..n : FrameExact(s, i) => FrameExact(s, i)'
    BY <2>1 DEF HeldBack, FrameExact, SegmentsOf
  <2>5. MaskExact(s)'
    BY <1>2, <2>1, <2>3, <2>4 DEF MaskExact
  <2> QED BY <1>1, <1>2, <2>1, <2>4, <2>5
<1>4. ASSUME NEW join \in Joins, Enter(join)
      PROVE  /\ MaskExact(s)'
             /\ \A i \in 1..Len(frames') : FrameExact(s, i)'
  <2> DEFINE top == [join |-> join, leg |-> 1, offered |-> mask,
                     base |-> hits, kept |-> {}, first |-> {}]
  <2>1. top \in Frame
    BY <1>1 DEF Frame, TypeOK
  <2>2. frames' = Append(frames, top) /\ UNCHANGED <<mask, hits>>
    BY <1>4 DEF Enter
  <2>3. /\ Len(frames') = n + 1
        /\ \A i \in 1..n : frames'[i] = frames[i]
        /\ frames'[n + 1] = top
    BY <1>1, <2>1, <2>2, Pushed
  <2>4. top.offered = mask /\ top.base = hits /\ top.kept = {} /\ top.first = {}
    OBVIOUS
  <2> HIDE DEF top
  <2>5. /\ HeldBack(s, n)' <=> HeldBack(s, n)
        /\ \A i \in 1..n : FrameExact(s, i)'
    <3>1. n \in Nat /\ n <= Len(frames) /\ n <= Len(frames')
      BY <1>1, <2>3
    <3> QED BY <1>1, <1>2, <2>3, <3>1, ExactKept
  <2>6. HeldBack(s, n + 1)' <=> HeldBack(s, n)'
    BY <1>1, <2>3, <2>4 DEF HeldBack
  <2>7. FrameExact(s, n + 1)'
    <3>1. (n + 1) - 1 = n
      BY <1>1
    <3> QED BY <1>2, <2>2, <2>3, <2>4, <2>5, <3>1 DEF FrameExact, MaskExact, SegmentsOf
  <2>8. MaskExact(s)'
    BY <1>1, <1>2, <2>2, <2>3, <2>5, <2>6 DEF MaskExact, SegmentsOf
  <2>9. \A i \in 1..(n + 1) : i \in 1..n \/ i = n + 1
    OBVIOUS
  <2> QED BY <2>3, <2>5, <2>7, <2>8, <2>9
<1>5. CASE Second
  <2> DEFINE top == [Top EXCEPT !.leg = 2, !.kept = mask, !.first = hits]
  <2>1. /\ n \in Nat \ {0} /\ Top \in Frame /\ Pop \in Seq(Frame)
        /\ Len(Pop) = n - 1
        /\ \A i \in 1..(n - 1) : Pop[i] = frames[i]
    BY <1>1, <1>5, Popped DEF Second
  <2>2. /\ frames' = Append(Pop, top) /\ mask' = Offer(Top.offered, mask)
        /\ hits' = Top.base /\ Top.leg = 1
    BY <1>5 DEF Second
  <2>3. /\ top \in Frame /\ top.leg = 2 /\ top.kept = mask /\ top.first = hits
        /\ top.base = Top.base /\ top.offered = Top.offered
    BY <1>1, <2>1 DEF Frame, TypeOK
  <2> HIDE DEF top
  <2>4. /\ Len(frames') = n
        /\ \A i \in 1..(n - 1) : frames'[i] = frames[i]
        /\ frames'[n] = top
    BY <2>1, <2>2, <2>3, Pushed
  <2>m. PICK m \in Nat : n = m + 1
    BY <2>1
  <2>a. m = n - 1 /\ n \in 1..n /\ m \in 0..m /\ m <= n
    BY <2>1, <2>m
  <2>b. Top = frames[n] /\ FrameExact(s, n)
    BY <1>1, <1>2, <2>a DEF Top
  <2>5. Top.kept = {}
    BY <2>2, <2>b DEF FrameExact
  <2>c. \A i \in 1..m : i \in 1..(n - 1) /\ frames'[i] = frames[i]
    BY <2>4, <2>a
  <2>6. /\ HeldBack(s, m)' <=> HeldBack(s, m)
        /\ \A i \in 1..m : FrameExact(s, i)'
    <3>1. m \in Nat /\ m <= Len(frames) /\ m <= Len(frames')
      BY <1>1, <2>4, <2>a
    <3>2. \A i \in 1..m : FrameExact(s, i) /\ frames'[i] = frames[i]
      BY <1>2, <2>c, <2>a
    <3> QED BY <1>1, <3>1, <3>2, ExactKept
  <2>d. \A i : i \in 1..n <=> i = n \/ i \in 1..m
    BY <2>m
  <2>7. HeldBack(s, n) <=> HeldBack(s, m)
    BY <2>5, <2>b, <2>d DEF HeldBack
  <2>8. HeldBack(s, n)' <=> HeldBack(s, m)' \/ s \in mask
    BY <2>3, <2>4, <2>d DEF HeldBack
  <2>e. s \in mask <=> s \in SegmentsOf(hits) /\ ~ HeldBack(s, m)
    BY <1>1, <1>2, <2>7 DEF MaskExact
  <2>f. s \in Top.offered <=> s \in SegmentsOf(Top.base) /\ ~ HeldBack(s, m)
    BY <2>a, <2>b DEF FrameExact
  <2>9. FrameExact(s, n)'
    BY <2>3, <2>4, <2>6, <2>a, <2>e, <2>f DEF FrameExact, SegmentsOf
  <2>10. mask \subseteq Top.offered
    BY <1>1, <2>a, <2>b DEF MaskInv, Subtractive
  <2>11. MaskExact(s)'
    <3>1. SegmentsOf(hits)' = SegmentsOf(Top.base)
      BY <2>2 DEF SegmentsOf
    <3>2. s \in mask' <=> s \in Top.offered /\ s \notin mask
      BY <2>2, <2>10 DEF Offer
    <3> QED BY <2>4, <2>6, <2>8, <2>f, <3>1, <3>2 DEF MaskExact
  <2> QED BY <2>4, <2>6, <2>9, <2>11, <2>d
<1>6. CASE Leave
  <2>1. /\ n \in Nat \ {0} /\ Top \in Frame
        /\ Len(Pop) = n - 1
        /\ \A i \in 1..(n - 1) : Pop[i] = frames[i]
    BY <1>1, <1>6, Popped DEF Leave
  <2>2. Top.join = "or"
    BY <2>1, JoinsAssumption DEF Frame
  <2>3. /\ frames' = Pop /\ mask' = mask \cup Top.kept
        /\ hits' = Top.first \cup hits
    BY <1>6, <2>2 DEF Leave, Combine
  <2>m. PICK m \in Nat : n = m + 1
    BY <2>1
  <2>a. m = n - 1 /\ n \in 1..n /\ m \in 0..m /\ m <= n
    BY <2>1, <2>m
  <2>4. Top = frames[n] /\ FrameExact(s, n)
    BY <1>1, <1>2, <2>a DEF Top
  <2>b. /\ Len(frames') = m /\ m <= Len(frames') /\ m <= Len(frames)
        /\ \A i \in 1..m : i \in 1..(n - 1) /\ frames'[i] = frames[i]
    BY <1>1, <2>1, <2>3, <2>a
  <2>c. \A i : i \in 1..n <=> i = n \/ i \in 1..m
    BY <2>m
  <2>5. /\ HeldBack(s, m)' <=> HeldBack(s, m)
        /\ \A i \in 1..m : FrameExact(s, i)'
    <3>1. \A i \in 1..m : FrameExact(s, i) /\ frames'[i] = frames[i]
      BY <1>2, <2>b, <2>c
    <3> QED BY <1>1, <2>b, <3>1, ExactKept
  <2>6. HeldBack(s, n) <=> HeldBack(s, m) \/ s \in Top.kept
    BY <2>4, <2>c DEF HeldBack
  <2>7. SegmentsOf(hits)' = SegmentsOf(Top.first) \cup SegmentsOf(hits)
    BY <2>3 DEF SegmentsOf
  <2>8. MaskExact(s)'
    BY <1>1, <1>2, <2>3, <2>4, <2>5, <2>6, <2>7, <2>a, <2>b DEF FrameExact, MaskExact
  <2> QED BY <2>5, <2>8, <2>b
<1>7. CASE UNCHANGED vars
  BY <1>1, <1>2, <1>7 DEF vars, MaskExact, FrameExact, HeldBack, SegmentsOf
<1> QED BY <1>3, <1>4, <1>5, <1>6, <1>7 DEF Next

----------------------------------------------------------------------------
(* Theorems                                                                *)

\* What the mask and the frames keep of their own is inductive.
LEMMA MaskInvariant == Spec => []MaskInv
<1>1. Init => MaskInv
  BY InitInv DEF Inv
<1> QED BY <1>1, MaskStep, PTL DEF Spec

\* The mask stays positional and the frames well nested.
THEOREM MaskTyped == Spec => []TypeOK
<1>1. MaskInv => TypeOK
  BY DEF MaskInv
<1> QED BY <1>1, MaskInvariant, PTL

\* Within a union the mask never regains a buffer excluded before it.
THEOREM UnionsSubtract == Spec => []Subtractive
<1>1. MaskInv => Subtractive
  BY DEF MaskInv
<1> QED BY <1>1, MaskInvariant, PTL

\* No union offers a buffer to its second leg that its first has kept.
THEOREM LegsShareTheWork == Spec => []LegsDisjoint
<1>1. MaskInv => LegsDisjoint
  BY DEF MaskInv
<1> QED BY <1>1, MaskInvariant, PTL

\* No filter tree excludes a buffer that holds a row of its result, when the
\* keys it looks for are ordered.
THEOREM PruningSound == ASSUME KeysOrdered PROVE Spec => []MaskSound
<1>1. Inv /\ [Next]_vars => Inv'
  BY MaskStep, RowStep, KeysOrdered DEF Inv
<1>2. Inv => MaskSound
  <2> SUFFICES ASSUME Inv, NEW r \in hits PROVE r[1] \in mask \cup Kept(Len(frames))
    BY DEF MaskSound, SegmentsOf
  <2>1. r[1] \in mask \/ HeldBack(r[1], Len(frames))
    BY DEF Inv, HitsSound
  <2> QED BY <2>1 DEF HeldBack, Kept
<1> QED BY <1>1, <1>2, InitInv, PTL DEF Spec

\* Without a symmetric difference, a segment stored as compact buffers is read
\* exactly if its rows are in the result.
THEOREM CompactIsDecided == ASSUME "xor" \notin Joins PROVE Spec => []CompactDecided
<1>1. Init => ExactInv
  <2> SUFFICES ASSUME Init, NEW s \in Segments
               PROVE  MaskExact(s) /\ \A i \in 1..Len(frames) : FrameExact(s, i)
    BY DEF ExactInv
  <2>1. 1..Len(frames) = {}
    BY DEF Init
  <2>2. Counts[s] \in Nat \ {0}
    BY CountsAssumption DEF Segments
  <2>3. <<s, 1>> \in Rows
    BY <2>2 DEF Rows
  <2>4. s \in SegmentsOf(hits)
    BY <2>3 DEF Init, SegmentsOf
  <2> QED BY <2>1, <2>4 DEF Init, MaskExact, HeldBack
<1>2. MaskInv /\ ExactInv /\ [Next]_vars => ExactInv'
  BY ExactStep
<1>3. ExactInv => CompactDecided
  <2> SUFFICES ASSUME ExactInv, frames = <<>>, NEW s \in Segments, AllCompact(s)
               PROVE  s \in mask <=> s \in SegmentsOf(hits)
    BY DEF CompactDecided, AllCompact
  <2>1. 1..Len(frames) = {}
    OBVIOUS
  <2> QED BY <2>1 DEF ExactInv, MaskExact, HeldBack
<1> QED BY <1>1, <1>2, <1>3, MaskInvariant, PTL DEF Spec

=============================================================================
