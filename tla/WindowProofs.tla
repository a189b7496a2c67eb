---------------------------- MODULE WindowProofs ----------------------------
(***************************************************************************)
(* A chain of takes, filters and at most one skip, in any order and over   *)
(* buffers of any lengths, reads exactly the slots it describes.  The mask *)
(* and the residuals are a faithful picture of the window: a slot is in it *)
(* when its buffer is included and no residual cuts it off.  The residual  *)
(* of the skip lies in the first buffer included and that of a take in the *)
(* last, so that the slots before a given one can be counted.  A second    *)
(* skip breaks this: the run of two skips shows how.                       *)
(***************************************************************************)
EXTENDS Window, DataInduction, FiniteSetTheorems

----------------------------------------------------------------------------
(* The inductive invariant                                                 *)

\* The slots that a residual cuts off.
Skipped(s) == \E i \in DOMAIN skips : s[1] = skips[i].buffer /\ s[2] <= skips[i].origin
Cut(s) == \E i \in DOMAIN takes : s[1] = takes[i].limit /\ s[2] > takes[i].keep

ChainType ==
  /\ mask \subseteq Buffers
  /\ skips \in Seq([buffer : Nat, origin : Int])
  /\ takes \in Seq([limit : Nat, keep : Int])
  /\ Len(skips) <= 1

PictureInv == window = {s \in Slots : s[1] \in mask /\ ~ Skipped(s) /\ ~ Cut(s)}

\* The residual of the skip is part of the first buffer included.
SkipInv ==
  \A i \in DOMAIN skips :
    skips[i].buffer \in mask =>
      /\ skips[i].origin \in 0..Counts[skips[i].buffer] - 1
      /\ \A b \in mask : skips[i].buffer <= b

\* That of a take is part of the last, and empty only if there is no other.
TakeInv ==
  \A i \in DOMAIN takes :
    takes[i].limit \in mask =>
      /\ \A b \in mask : b <= takes[i].limit
      /\ takes[i].keep >= 1 \/ \A b \in mask : takes[i].limit <= b

WindowInv == ChainType /\ PictureInv /\ SkipInv /\ TakeInv

----------------------------------------------------------------------------
(* Counting slots                                                          *)

LEMMA BuffersNumbered ==
  /\ Len(Counts) \in Nat /\ Buffers = 1..Len(Counts)
  /\ \A b \in Buffers : Counts[b] \in Nat \ {0}
BY CountsAssumption DEF Buffers

LEMMA SlotPlace ==
  /\ \A b \in Buffers : \A k \in 1..Counts[b] : <<b, k>> \in Slots
  /\ \A s \in Slots : /\ s[1] \in Buffers /\ s[2] \in 1..Counts[s[1]]
                      /\ s = <<s[1], s[2]>>
BY DEF Slots

\* The first k slots of a buffer.
FirstSlots(b, k) == {b} \X (1..k)

LEMMA FirstSlotsSize ==
  ASSUME NEW b, NEW k \in Nat
  PROVE  IsFiniteSet(FirstSlots(b, k)) /\ Cardinality(FirstSlots(b, k)) = k
<1>1. IsFiniteSet({b}) /\ Cardinality({b}) = 1
  BY FS_Singleton
<1>2. IsFiniteSet(1..k) /\ Cardinality(1..k) = k
  BY FS_Interval
<1> DEFINE S == {b}
           T == 1..k
<1> HIDE DEF S, T
<1>3. IsFiniteSet(S \X T) /\ Cardinality(S \X T) = Cardinality(S) * Cardinality(T)
  BY <1>1, <1>2, FS_Product DEF S, T
<1>4. FirstSlots(b, k) = S \X T
  BY DEF FirstSlots, S, T
<1>5. Cardinality(S) = 1 /\ Cardinality(T) = k
  BY <1>1, <1>2 DEF S, T
<1> QED BY <1>3, <1>4, <1>5

LEMMA SlotsFinite == IsFiniteSet(Slots)
<1> DEFINE Upto(n) == {s \in Slots : s[1] <= n}
           T == {n \in 0..Len(Counts) : IsFiniteSet(Upto(n))}
<1>1. 0 \in T
  <2>1. Upto(0) = {}
    BY SlotPlace, BuffersNumbered
  <2>2. IsFiniteSet(Upto(0))
    BY <2>1, FS_EmptySet
  <2> HIDE DEF Upto
  <2> QED BY <2>2, BuffersNumbered
<1>2. ASSUME NEW n \in 1..Len(Counts), n - 1 \in T PROVE n \in T
  <2>1. n \in Buffers /\ Counts[n] \in Nat
    BY BuffersNumbered
  <2>2. \A s : s \in Upto(n) => s \in Upto(n - 1) \/ s \in FirstSlots(n, Counts[n])
    BY SlotPlace, BuffersNumbered DEF FirstSlots
  <2> HIDE DEF Upto
  <2>3. IsFiniteSet(Upto(n - 1)) /\ IsFiniteSet(FirstSlots(n, Counts[n]))
    BY <1>2, <2>1, FirstSlotsSize
  <2>4. IsFiniteSet(Upto(n - 1) \cup FirstSlots(n, Counts[n]))
    BY <2>3, FS_Union
  <2>5. Upto(n) \in SUBSET (Upto(n - 1) \cup FirstSlots(n, Counts[n]))
    BY <2>2
  <2>6. IsFiniteSet(Upto(n))
    BY <2>4, <2>5, FS_Subset
  <2>7. n \in 0..Len(Counts)
    BY BuffersNumbered
  <2> QED BY <2>6, <2>7
<1>3. Len(Counts) \in T
  <2>1. Len(Counts) \in Nat
    BY BuffersNumbered
  <2> HIDE DEF T
  <2>2. 0..Len(Counts) \subseteq T
    BY <1>1, <1>2, <2>1, BoundedInduction
  <2> QED BY <2>1, <2>2
<1>4. Upto(Len(Counts)) = Slots
  BY SlotPlace, BuffersNumbered
<1> QED BY <1>3, <1>4

\* The slots of the included buffers before b.
Before(b) == {s \in Slots : s[1] \in mask /\ s[1] < b}

LEMMA BeforeSize ==
  ASSUME NEW b
  PROVE  /\ IsFiniteSet(Before(b)) /\ ItemsBefore(b) = Cardinality(Before(b))
         /\ ItemsBefore(b) \in Nat
<1>1. Before(b) \in SUBSET Slots
  BY DEF Before
<1>2. IsFiniteSet(Before(b))
  BY <1>1, SlotsFinite, FS_Subset
<1> QED BY <1>2, FS_CardinalityType DEF Before, ItemsBefore

\* A buffer comes after all the items of one before it.
LEMMA BeforeGrows ==
  ASSUME mask \subseteq Buffers, NEW b \in mask, NEW c \in Nat, b < c
  PROVE  ItemsBefore(b) + Counts[b] <= ItemsBefore(c)
<1>1. Counts[b] \in Nat /\ b \in Buffers
  BY BuffersNumbered
<1>2. \A s : s \in Before(b) \/ s \in FirstSlots(b, Counts[b]) => s \in Before(c)
  BY <1>1, SlotPlace, BuffersNumbered DEF Before, FirstSlots
<1>3. \A s : ~ (s \in Before(b) /\ s \in FirstSlots(b, Counts[b]))
  BY <1>1, BuffersNumbered DEF Before, FirstSlots
<1>4. Before(b) \cap FirstSlots(b, Counts[b]) = {}
  BY <1>3
<1>5. Before(b) \cup FirstSlots(b, Counts[b]) \in SUBSET Before(c)
  BY <1>2
<1>6. IsFiniteSet(FirstSlots(b, Counts[b])) /\ Cardinality(FirstSlots(b, Counts[b])) = Counts[b]
  BY <1>1, FirstSlotsSize
<1>7. Cardinality(Before(b) \cup FirstSlots(b, Counts[b])) = ItemsBefore(b) + Counts[b]
  <2>1. Cardinality(Before(b) \cup FirstSlots(b, Counts[b])) =
          Cardinality(Before(b)) + Cardinality(FirstSlots(b, Counts[b])) - Cardinality({})
    BY <1>4, <1>6, BeforeSize, FS_Union
  <2> QED BY <1>1, <1>6, <2>1, BeforeSize, FS_EmptySet
<1> QED BY <1>5, <1>7, BeforeSize, FS_Subset

\* It comes right after those of the one before it, if there is one.
LEMMA BeforeFirst ==
  ASSUME NEW b, \A c \in mask : ~ (c < b) PROVE ItemsBefore(b) = 0
<1>1. Before(b) = {}
  BY DEF Before
<1> QED BY <1>1, BeforeSize, FS_EmptySet

LEMMA BeforeNext ==
  ASSUME mask \subseteq Buffers, NEW b \in Nat, NEW c \in mask, c < b
  PROVE  \E p \in mask : p < b /\ ItemsBefore(b) = ItemsBefore(p) + Counts[p]
<1> DEFINE T == {n \in mask : n < b}
<1>1. T \in SUBSET (0..Len(Counts)) /\ T # {} /\ Len(Counts) \in Nat
  <2>1. c \in T
    OBVIOUS
  <2>2. \A n \in T : n \in 0..Len(Counts)
    BY BuffersNumbered
  <2> HIDE DEF T
  <2> QED BY <2>1, <2>2, BuffersNumbered
<1> HIDE DEF T
<1>2. PICK p \in T : \A m \in T : m <= p
  BY <1>1, Largest
<1>3. p \in mask /\ p < b /\ p \in Buffers /\ \A m \in mask : m < b => m <= p
  BY <1>2 DEF T
<1>4. Counts[p] \in Nat
  BY <1>3, BuffersNumbered
<1>5. \A s : s \in Before(b) <=> s \in Before(p) \/ s \in FirstSlots(p, Counts[p])
  BY <1>3, <1>4, SlotPlace, BuffersNumbered DEF Before, FirstSlots
<1>6. Before(b) = Before(p) \cup FirstSlots(p, Counts[p])
  BY <1>5
<1>7. Before(p) \cap FirstSlots(p, Counts[p]) = {}
  BY <1>3, <1>4, BuffersNumbered DEF Before, FirstSlots
<1>8. IsFiniteSet(FirstSlots(p, Counts[p])) /\ Cardinality(FirstSlots(p, Counts[p])) = Counts[p]
  BY <1>4, FirstSlotsSize
<1>9. Cardinality(Before(b)) =
        Cardinality(Before(p)) + Cardinality(FirstSlots(p, Counts[p])) - Cardinality({})
  BY <1>6, <1>7, <1>8, BeforeSize, FS_Union
<1>10. ItemsBefore(b) = ItemsBefore(p) + Counts[p]
  BY <1>4, <1>8, <1>9, BeforeSize, FS_EmptySet
<1> QED BY <1>3, <1>10

----------------------------------------------------------------------------
(* The residual of the skip                                                *)

LEMMA ResidualTypes ==
  ASSUME ChainType
  PROVE  /\ Len(skips) \in {0, 1} /\ DOMAIN skips = 1..Len(skips)
         /\ \A i \in DOMAIN skips : skips[i].buffer \in Nat /\ skips[i].origin \in Int
         /\ Len(takes) \in Nat /\ DOMAIN takes = 1..Len(takes)
         /\ \A i \in DOMAIN takes : takes[i].limit \in Nat /\ takes[i].keep \in Int
<1> DEFINE S == [buffer : Nat, origin : Int]
           T == [limit : Nat, keep : Int]
<1>1. skips \in Seq(S) /\ takes \in Seq(T) /\ Len(skips) <= 1
  BY DEF ChainType
<1>2. /\ \A x \in S : x.buffer \in Nat /\ x.origin \in Int
      /\ \A x \in T : x.limit \in Nat /\ x.keep \in Int
  OBVIOUS
<1> HIDE DEF S, T
<1>3. Len(skips) \in Nat /\ DOMAIN skips = 1..Len(skips)
      /\ \A i \in 1..Len(skips) : skips[i] \in S
  BY <1>1
<1>4. Len(takes) \in Nat /\ DOMAIN takes = 1..Len(takes)
      /\ \A i \in 1..Len(takes) : takes[i] \in T
  BY <1>1
<1>5. Len(skips) \in {0, 1}
  BY <1>1, <1>3
<1> QED BY <1>2, <1>3, <1>4, <1>5

LEMMA OriginIs ==
  ASSUME ChainType, NEW S
  PROVE  /\ Len(skips) = 0 => Origin(S) = 0
         /\ Len(skips) = 1 =>
              Origin(S) = IF skips[1].buffer \in S THEN skips[1].origin ELSE 0
<1> DEFINE Eq(g) ==
      g = [i \in 0..Len(skips) |->
             IF i = 0 THEN 0
             ELSE IF skips[i].buffer \in S THEN g[i - 1] + skips[i].origin
             ELSE g[i - 1]]
           f == CHOOSE g : Eq(g)
           first == IF skips[1].buffer \in S THEN skips[1].origin ELSE 0
<1>1. Origin(S) = f[Len(skips)]
  BY DEF Origin
<1>2. Len(skips) \in {0, 1} /\ (Len(skips) = 1 => first \in Int)
  <2>1. Len(skips) = 1 => skips[1].origin \in Int
    BY ResidualTypes
  <2> QED BY <2>1, ResidualTypes
<1>3. \E g : Eq(g)
  <2>1. CASE Len(skips) = 0
    <3>1. Eq([i \in 0..0 |-> 0])
      BY <2>1
    <3> QED BY <3>1
  <2>2. CASE Len(skips) = 1
    <3> DEFINE h == [i \in 0..1 |-> IF i = 0 THEN 0 ELSE first]
    <3>1. h[0] = 0 /\ h[1] = first /\ h = [i \in 0..1 |-> h[i]]
      OBVIOUS
    <3>2. first = IF skips[1].buffer \in S THEN 0 + skips[1].origin ELSE 0
      BY <2>2, ResidualTypes
    <3> HIDE DEF h, first
    <3>3. \A i \in 0..1 :
            h[i] = IF i = 0 THEN 0
                   ELSE IF skips[i].buffer \in S THEN h[i - 1] + skips[i].origin
                   ELSE h[i - 1]
      <4> TAKE i \in 0..1
      <4>1. i = 0 \/ (i = 1 /\ i - 1 = 0)
        OBVIOUS
      <4> QED BY <3>1, <3>2, <4>1
    <3>4. Eq(h)
      BY <2>2, <3>1, <3>3
    <3> QED BY <3>4
  <2> QED BY <1>2, <2>1, <2>2
<1>4. Eq(f)
  <2> HIDE DEF Eq
  <2> QED BY <1>3
<1> HIDE DEF f
<1>5. f[0] = 0
  BY <1>2, <1>4
<1>6. Len(skips) = 1 => f[1] = first
  <2> SUFFICES ASSUME Len(skips) = 1 PROVE f[1] = first
    OBVIOUS
  <2>1. f[1] = IF skips[1].buffer \in S THEN f[0] + skips[1].origin ELSE f[0]
    BY <1>4
  <2>2. skips[1].origin \in Int
    BY ResidualTypes
  <2> QED BY <1>5, <2>1, <2>2
<1> QED BY <1>1, <1>5, <1>6

\* What the stream still skips is the first slots of the first buffer.
LEMMA OriginPlace ==
  ASSUME WindowInv
  PROVE  \/ Origin(mask) = 0 /\ \A s \in Slots : s[1] \in mask => ~ Skipped(s)
         \/ \E b \in mask :
              /\ Origin(mask) \in 0..Counts[b] - 1 /\ \A c \in mask : b <= c
              /\ \A s \in Slots :
                   s[1] \in mask => (Skipped(s) <=> s[1] = b /\ s[2] <= Origin(mask))
<1>1. Len(skips) \in {0, 1} /\ DOMAIN skips = 1..Len(skips)
  BY ResidualTypes DEF WindowInv
<1>2. CASE Len(skips) = 0
  <2>1. Origin(mask) = 0 /\ DOMAIN skips = {}
    BY <1>1, <1>2, OriginIs DEF WindowInv
  <2> QED BY <2>1 DEF Skipped
<1>3. CASE Len(skips) = 1
  <2>1. DOMAIN skips = {1}
    BY <1>1, <1>3
  <2>2. CASE skips[1].buffer \in mask
    <3>1. Origin(mask) = skips[1].origin
      BY <1>3, <2>2, OriginIs DEF WindowInv
    <3> QED BY <2>1, <2>2, <3>1 DEF Skipped, WindowInv, SkipInv
  <2>3. CASE skips[1].buffer \notin mask
    <3>1. Origin(mask) = 0
      BY <1>3, <2>3, OriginIs DEF WindowInv
    <3> QED BY <2>1, <2>3, <3>1 DEF Skipped
  <2> QED BY <2>2, <2>3
<1> QED BY <1>1, <1>2, <1>3

----------------------------------------------------------------------------
(* The place of a slot in the window                                       *)

LEMMA RetainedIs ==
  ASSUME ChainType, NEW s
  PROVE  s \in Retained <=> s \in Slots /\ s[1] \in mask /\ ~ Cut(s)
<1>1. s \in Slots => s[2] \in Int
  BY SlotPlace, BuffersNumbered
<1>2. \A i \in DOMAIN takes : takes[i].keep \in Int
  BY ResidualTypes
<1> QED BY <1>1, <1>2 DEF Retained, Cut

LEMMA WindowIs ==
  ASSUME WindowInv, NEW s
  PROVE  s \in window <=> s \in Retained /\ ~ Skipped(s)
BY RetainedIs DEF WindowInv, PictureInv

\* No residual of a take is in the way before the last buffer.
LEMMA Uncut ==
  ASSUME WindowInv, NEW s \in Retained, NEW t \in Slots, t[1] \in mask, Precedes(t, s)
  PROVE  t \in Retained
<1>1. s \in Slots /\ s[1] \in mask /\ ~ Cut(s) /\ mask \subseteq Buffers
  BY RetainedIs DEF WindowInv, ChainType
<1>2. /\ s[1] \in Nat /\ t[1] \in Nat /\ s[2] \in Nat /\ t[2] \in Nat
  BY <1>1, SlotPlace, BuffersNumbered
<1>3. ASSUME NEW i \in DOMAIN takes, t[1] = takes[i].limit, t[2] > takes[i].keep
      PROVE  FALSE
  <2>1. s[1] <= takes[i].limit /\ takes[i].keep \in Int
    BY <1>1, <1>3, ResidualTypes DEF WindowInv, TakeInv
  <2>2. s[1] = takes[i].limit /\ s[2] > takes[i].keep
    BY <1>2, <1>3, <2>1 DEF Precedes
  <2> QED BY <1>1, <2>2 DEF Cut
<1>4. ~ Cut(t)
  BY <1>3 DEF Cut
<1> QED BY <1>4, RetainedIs DEF WindowInv

LEMMA RetainedAhead ==
  ASSUME WindowInv, NEW s \in Retained
  PROVE  /\ IsFiniteSet({t \in Retained : Precedes(t, s)})
         /\ Cardinality({t \in Retained : Precedes(t, s)}) =
              ItemsBefore(s[1]) + s[2] - 1
<1> DEFINE ahead == {t \in Retained : Precedes(t, s)}
           here == FirstSlots(s[1], s[2] - 1)
<1>1. s \in Slots /\ s[1] \in mask /\ mask \subseteq Buffers
  BY RetainedIs DEF WindowInv, ChainType
<1>2. /\ s[1] \in Buffers /\ s[1] \in Nat /\ s[2] \in 1..Counts[s[1]] /\ s[2] - 1 \in Nat
      /\ Counts[s[1]] \in Nat
  BY <1>1, SlotPlace, BuffersNumbered
<1>3. \A t : t \in ahead <=> t \in Slots /\ t[1] \in mask /\ Precedes(t, s)
  BY Uncut, RetainedIs DEF WindowInv
<1>4. \A t : t \in here <=> t \in Slots /\ t[1] = s[1] /\ t[2] < s[2]
  <2> TAKE t
  <2>1. ASSUME t \in here PROVE t \in Slots /\ t[1] = s[1] /\ t[2] < s[2]
    <3>1. t = <<s[1], t[2]>> /\ t[2] \in 1..s[2] - 1
      BY <2>1 DEF FirstSlots
    <3>2. t[2] \in 1..Counts[s[1]] /\ t[1] = s[1] /\ t[2] < s[2]
      BY <1>2, <3>1
    <3> QED BY <1>2, <3>1, <3>2, SlotPlace
  <2>2. ASSUME t \in Slots, t[1] = s[1], t[2] < s[2] PROVE t \in here
    <3>1. t = <<s[1], t[2]>> /\ t[2] \in 1..Counts[s[1]]
      BY <2>2, SlotPlace
    <3>2. t[2] \in 1..s[2] - 1
      BY <1>2, <2>2, <3>1
    <3> QED BY <3>1, <3>2 DEF FirstSlots
  <2> QED BY <2>1, <2>2
<1> HIDE DEF ahead, here
<1>5. ahead = Before(s[1]) \cup here
  <2>1. \A t : t \in ahead <=> t \in Before(s[1]) \/ t \in here
    BY <1>1, <1>3, <1>4 DEF Before, Precedes
  <2> QED BY <2>1
<1>6. Before(s[1]) \cap here = {}
  <2>1. \A t : ~ (t \in Before(s[1]) /\ t \in here)
    BY <1>2, <1>4 DEF Before
  <2> QED BY <2>1
<1>7. IsFiniteSet(here) /\ Cardinality(here) = s[2] - 1
  BY <1>2, FirstSlotsSize DEF here
<1>8. IsFiniteSet(ahead) /\ Cardinality(ahead) =
        Cardinality(Before(s[1])) + Cardinality(here) - Cardinality({})
  BY <1>5, <1>6, <1>7, BeforeSize, FS_Union
<1>9. Cardinality(ahead) = ItemsBefore(s[1]) + s[2] - 1
  BY <1>2, <1>7, <1>8, BeforeSize, FS_EmptySet
<1> QED BY <1>8, <1>9 DEF ahead

\* In the window the skipped slots are missing.
LEMMA WindowAhead ==
  ASSUME WindowInv, NEW s \in window
  PROVE  Cardinality({t \in window : Precedes(t, s)}) =
           ItemsBefore(s[1]) + s[2] - 1 - Origin(mask)
<1> DEFINE all == {t \in Retained : Precedes(t, s)}
           ahead == {t \in window : Precedes(t, s)}
<1>1. s \in Retained /\ s \in Slots /\ s[1] \in mask /\ ~ Skipped(s)
      /\ mask \subseteq Buffers
  BY WindowIs, RetainedIs DEF WindowInv, ChainType
<1>2. IsFiniteSet(all) /\ Cardinality(all) = ItemsBefore(s[1]) + s[2] - 1
  BY <1>1, RetainedAhead
<1>3. /\ s[1] \in Nat /\ s[2] \in Nat /\ ItemsBefore(s[1]) \in Nat
  BY <1>1, SlotPlace, BuffersNumbered, BeforeSize
<1>4. \A t : t \in ahead <=> t \in all /\ ~ Skipped(t)
  BY WindowIs
<1>5. \A t \in all : t \in Slots /\ t[1] \in mask
  BY RetainedIs DEF WindowInv
<1>6. CASE Origin(mask) = 0 /\ \A t \in Slots : t[1] \in mask => ~ Skipped(t)
  <2>1. ahead = all
    BY <1>4, <1>5, <1>6
  <2> HIDE DEF ahead, all
  <2> QED BY <1>2, <1>3, <1>6, <2>1 DEF ahead
<1>7. ASSUME NEW b \in mask, Origin(mask) \in 0..Counts[b] - 1, \A c \in mask : b <= c,
             \A t \in Slots :
               t[1] \in mask => (Skipped(t) <=> t[1] = b /\ t[2] <= Origin(mask))
      PROVE  Cardinality(ahead) = ItemsBefore(s[1]) + s[2] - 1 - Origin(mask)
  <2> DEFINE O == Origin(mask)
             gone == FirstSlots(b, O)
  <2>1. b \in Buffers /\ b \in Nat /\ Counts[b] \in Nat /\ O \in Nat /\ O < Counts[b]
    BY <1>1, <1>7, BuffersNumbered
  <2>2. ASSUME NEW t \in gone PROVE t \in all /\ Skipped(t)
    <3>1. t = <<b, t[2]>> /\ t[2] \in 1..O
      BY <2>2 DEF FirstSlots
    <3> HIDE DEF O, gone, all
    <3>2. t[2] \in 1..Counts[b]
      BY <2>1, <3>1
    <3>3. t \in Slots /\ t[1] = b
      BY <2>1, <3>1, <3>2, SlotPlace
    <3>4. Skipped(t)
      BY <1>7, <3>1, <3>3 DEF O
    <3>5. b < s[1] \/ (b = s[1] /\ O < s[2])
      <4>1. b <= s[1]
        BY <1>1, <1>7
      <4>2. b = s[1] => ~ (s[2] <= O)
        BY <1>1, <1>7 DEF O
      <4> QED BY <1>3, <2>1, <4>1, <4>2
    <3>6. Precedes(t, s)
      BY <1>3, <2>1, <3>1, <3>3, <3>5 DEF Precedes
    <3>7. t \in Retained
      BY <1>1, <1>7, <3>3, <3>6, Uncut
    <3> QED BY <3>4, <3>6, <3>7 DEF all
  <2>3. ASSUME NEW t \in all, Skipped(t) PROVE t \in gone
    <3>1. t \in Slots /\ t[1] = b /\ t[2] <= O
      BY <1>5, <1>7, <2>3
    <3>2. t = <<b, t[2]>> /\ t[2] \in 1..O
      BY <2>1, <3>1, SlotPlace, BuffersNumbered
    <3> HIDE DEF O
    <3> QED BY <3>2 DEF FirstSlots
  <2>4. IsFiniteSet(gone) /\ Cardinality(gone) = O
    BY <2>1, FirstSlotsSize
  <2> HIDE DEF O, gone, all, ahead
  <2>5. ahead = all \ gone /\ all \cap gone = gone
    <3>1. \A t : t \in ahead <=> t \in all /\ t \notin gone
      BY <1>4, <2>2, <2>3
    <3>2. \A t \in gone : t \in all
      BY <2>2
    <3> QED BY <3>1, <3>2
  <2>6. Cardinality(all \ gone) = Cardinality(all) - Cardinality(all \cap gone)
    BY <1>2, FS_Difference
  <2>7. Cardinality(ahead) = ItemsBefore(s[1]) + s[2] - 1 - O
    <3>1. Cardinality(ahead) = Cardinality(all) - Cardinality(gone)
      BY <2>5, <2>6
    <3> QED BY <1>2, <1>3, <2>1, <2>4, <3>1
  <2> QED BY <2>7 DEF O
<1> HIDE DEF all, ahead
<1>8. Cardinality(ahead) = ItemsBefore(s[1]) + s[2] - 1 - Origin(mask)
  BY <1>6, <1>7, OriginPlace DEF ahead
<1> QED BY <1>8 DEF ahead

----------------------------------------------------------------------------
(* The steps                                                               *)

LEMMA FirstBufferIs ==
  ASSUME NEW S, S \subseteq Buffers
  PROVE  \/ S = {} /\ FirstBuffer(S) = PastTheEnd
         \/ FirstBuffer(S) \in S /\ \A b \in S : FirstBuffer(S) <= b
<1>1. CASE S = {}
  BY <1>1 DEF FirstBuffer
<1>2. CASE S # {}
  <2>1. \A b \in S : b \in Nat
    BY BuffersNumbered
  <2>2. S \in SUBSET Nat
    BY <2>1
  <2>3. \E b \in S : \A c \in S : b <= c
    BY <1>2, <2>2, Smallest
  <2>4. FirstBuffer(S) = CHOOSE x \in S : \A y \in S : x <= y
    BY <1>2 DEF FirstBuffer, Min
  <2> QED BY <2>3, <2>4
<1> QED BY <1>1, <1>2

LEMMA EndIsPast == PastTheEnd \in Nat /\ \A b \in Buffers : b < PastTheEnd
BY BuffersNumbered DEF PastTheEnd

LEMMA WindowInit == Init => WindowInv
<1> SUFFICES ASSUME Init PROVE WindowInv
  OBVIOUS
<1>1. ChainType
  BY DEF Init, ChainType
<1>2. PictureInv
  BY SlotPlace DEF Init, PictureInv, Skipped, Cut
<1>3. SkipInv /\ TakeInv
  BY DEF Init, SkipInv, TakeInv
<1> QED BY <1>1, <1>2, <1>3 DEF WindowInv

LEMMA SkippedToIsNat ==
  ASSUME mask \subseteq Buffers, NEW n PROVE SkipTo(n) \in Nat
<1> DEFINE S == {b \in mask : n < ItemsBefore(b) + Counts[b]}
<1>1. S \subseteq Buffers
  OBVIOUS
<1>2. SkipTo(n) = FirstBuffer(S)
  BY DEF SkipTo
<1> HIDE DEF S
<1>3. FirstBuffer(S) = PastTheEnd \/ FirstBuffer(S) \in Buffers
  BY <1>1, FirstBufferIs
<1>4. \A b \in Buffers : b \in Nat
  BY BuffersNumbered
<1> QED BY <1>2, <1>3, <1>4, EndIsPast

\* A chain only grows.
SkipsTyped ==
  /\ mask \subseteq Buffers
  /\ skips \in Seq([buffer : Nat, origin : Int])

LEMMA SkipsInit == Init => SkipsTyped
BY DEF Init, SkipsTyped

LEMMA SkipsGrow ==
  ASSUME SkipsTyped, [Next]_vars
  PROVE  /\ SkipsTyped' /\ Len(skips) \in Nat /\ Len(skips') \in Nat
         /\ Len(skips) <= Len(skips')
<1>1. Len(skips) \in Nat
  BY DEF SkipsTyped
<1>2. ASSUME NEW n \in 0..MaxN, Skip(n)
      PROVE  SkipsTyped' /\ Len(skips') = Len(skips) + 1
  <2> DEFINE to == SkipTo(n)
             residual == [buffer |-> to, origin |-> n - ItemsBefore(to)]
  <2>1. skips' = Append(skips, residual) /\ mask' \subseteq mask
    BY <1>2 DEF Skip
  <2>2. to \in Nat
    BY SkippedToIsNat DEF SkipsTyped
  <2>3. n \in Int /\ ItemsBefore(to) \in Nat
    BY BeforeSize, BoundsAssumption
  <2> HIDE DEF to
  <2>4. residual \in [buffer : Nat, origin : Int]
    BY <2>2, <2>3
  <2> HIDE DEF residual
  <2>5. mask' \subseteq Buffers
    BY <2>1 DEF SkipsTyped
  <2> QED BY <2>1, <2>4, <2>5 DEF SkipsTyped
<1>3. ASSUME NEW excluded, Prune(excluded) PROVE SkipsTyped' /\ skips' = skips
  BY <1>3 DEF Prune, SkipsTyped
<1>4. ASSUME NEW n, Take(n) PROVE SkipsTyped' /\ skips' = skips
  BY <1>4 DEF Take, SkipsTyped
<1>5. CASE UNCHANGED vars
  BY <1>1, <1>5 DEF vars, SkipsTyped
<1> QED BY <1>1, <1>2, <1>3, <1>4, <1>5 DEF Next

LEMMA PruneStep ==
  ASSUME WindowInv, NEW excluded, Prune(excluded) PROVE WindowInv'
<1>1. /\ skips' = skips /\ takes' = takes /\ mask' = mask \ excluded
      /\ window' = {s \in window : s[1] \notin excluded}
  BY DEF Prune
<1>2. ChainType'
  BY <1>1 DEF WindowInv, ChainType
<1>3. PictureInv'
  <2>1. \A s : s \in window' <=>
                s \in Slots /\ s[1] \in mask' /\ ~ Skipped(s) /\ ~ Cut(s)
    BY <1>1, RetainedIs, WindowIs DEF WindowInv
  <2>2. \A s : Skipped(s)' = Skipped(s) /\ Cut(s)' = Cut(s)
    BY <1>1 DEF Skipped, Cut
  <2> QED BY <2>1, <2>2 DEF PictureInv
<1>4. SkipInv' /\ TakeInv'
  BY <1>1 DEF WindowInv, SkipInv, TakeInv
<1> QED BY <1>2, <1>3, <1>4 DEF WindowInv

\* The n slots that a skip drops are those before the residual.
LEMMA SkipStep ==
  ASSUME WindowInv, NEW n \in Nat, Skip(n), Len(skips') <= 1 PROVE WindowInv'
<1> DEFINE to == SkipTo(n)
           origin == n - ItemsBefore(to)
<1>1. /\ skips' = Append(skips, [buffer |-> to, origin |-> origin])
      /\ mask' = {b \in mask : b >= to} /\ takes' = takes
      /\ window' = window \ FirstOf(window, n)
  BY DEF Skip
<1>2. mask \subseteq Buffers /\ \A b \in mask : b \in Nat /\ Counts[b] \in Nat
  BY BuffersNumbered DEF WindowInv, ChainType
<1>3. /\ to \in Nat /\ ItemsBefore(to) \in Nat
      /\ to \in mask => n < ItemsBefore(to) + Counts[to]
      /\ \A b \in mask : b < to => ItemsBefore(b) + Counts[b] <= n
      /\ to \notin mask => \A b \in mask : b < to
  <2> DEFINE S == {b \in mask : n < ItemsBefore(b) + Counts[b]}
  <2>1. to = FirstBuffer(S)
    BY DEF SkipTo
  <2>2. S \subseteq Buffers
    BY <1>2
  <2>3. ItemsBefore(to) \in Nat /\ \A b \in mask : ItemsBefore(b) \in Nat
    BY BeforeSize
  <2>4. \A b : b \in S <=> b \in mask /\ n < ItemsBefore(b) + Counts[b]
    OBVIOUS
  <2> HIDE DEF S, to
  <2>5. CASE S = {} /\ to = PastTheEnd
    BY <1>2, <2>3, <2>4, <2>5, EndIsPast
  <2>6. CASE to \in S /\ \A b \in S : to <= b
    BY <1>2, <2>3, <2>4, <2>6
  <2> QED BY <2>1, <2>2, <2>5, <2>6, FirstBufferIs
<1>4. Len(skips) = 0 /\ origin \in Int
  <2>1. Len(skips') = Len(skips) + 1
    BY <1>1 DEF WindowInv, ChainType
  <2> QED BY <1>3, <2>1, ResidualTypes DEF WindowInv
<1>5. Origin(mask) = 0 /\ \A s : ~ Skipped(s)
  BY <1>4, OriginIs, ResidualTypes DEF WindowInv, Skipped
<1> HIDE DEF to, origin
<1>6. /\ Len(skips') = 1 /\ DOMAIN skips' = {1}
      /\ skips'[1].buffer = to /\ skips'[1].origin = origin
  <2> DEFINE residual == [buffer |-> to, origin |-> origin]
  <2>1. skips' = Append(skips, residual) /\ skips = <<>>
    BY <1>1, <1>4 DEF WindowInv, ChainType
  <2>2. residual.buffer = to /\ residual.origin = origin
    OBVIOUS
  <2> HIDE DEF residual
  <2> QED BY <2>1, <2>2
<1>7. ChainType'
  <2>1. [buffer |-> to, origin |-> origin] \in [buffer : Nat, origin : Int]
    BY <1>3, <1>4
  <2>2. skips' \in Seq([buffer : Nat, origin : Int])
    BY <1>1, <2>1 DEF WindowInv, ChainType
  <2>3. mask' \subseteq Buffers
    BY <1>1, <1>2
  <2> QED BY <1>1, <1>6, <2>2, <2>3 DEF WindowInv, ChainType
<1>8. ASSUME to \in mask PROVE origin \in 0..Counts[to] - 1
  <2>1. ItemsBefore(to) <= n
    <3>1. CASE \A b \in mask : ~ (b < to)
      BY <1>3, <3>1, BeforeFirst
    <3>2. CASE \E b \in mask : b < to
      <4>1. PICK p \in mask : p < to /\ ItemsBefore(to) = ItemsBefore(p) + Counts[p]
        BY <1>2, <1>3, <3>2, BeforeNext
      <4> QED BY <1>3, <4>1
    <3> QED BY <3>1, <3>2
  <2> QED BY <1>2, <1>3, <1>8, <2>1 DEF origin
<1>9. SkipInv'
  BY <1>1, <1>2, <1>3, <1>6, <1>8 DEF SkipInv
<1>10. TakeInv'
  BY <1>1 DEF WindowInv, TakeInv
<1>11. PictureInv'
  <2>1. ASSUME NEW s \in window
        PROVE  s \in FirstOf(window, n) <=> s[1] < to \/ (s[1] = to /\ s[2] <= origin)
    <3> DEFINE before == Cardinality({t \in window : Precedes(t, s)})
    <3>1. s \in FirstOf(window, n) <=> before < n
      BY DEF FirstOf
    <3>2. before = ItemsBefore(s[1]) + s[2] - 1
      <4>1. before = ItemsBefore(s[1]) + s[2] - 1 - Origin(mask)
        BY WindowAhead
      <4>2. s[2] \in Nat /\ ItemsBefore(s[1]) \in Nat
        BY <1>2, RetainedIs, WindowIs, SlotPlace, BeforeSize DEF WindowInv
      <4> HIDE DEF before
      <4> QED BY <1>5, <4>1, <4>2
    <3>3. /\ s[1] \in mask /\ s[2] \in 1..Counts[s[1]] /\ s[1] \in Nat
          /\ ItemsBefore(s[1]) \in Nat
      BY <1>2, RetainedIs, WindowIs, SlotPlace, BeforeSize DEF WindowInv
    <3> HIDE DEF before
    <3>4. s \in FirstOf(window, n) <=> ItemsBefore(s[1]) + s[2] <= n
      BY <1>2, <3>1, <3>2, <3>3
    <3>5. CASE s[1] < to
      BY <1>2, <1>3, <3>3, <3>4, <3>5
    <3>6. CASE s[1] = to
      BY <1>2, <1>3, <3>3, <3>4, <3>6 DEF origin
    <3>7. CASE to < s[1]
      <4>1. to \in mask
        BY <1>3, <3>3, <3>7
      <4>2. ItemsBefore(to) + Counts[to] <= ItemsBefore(s[1])
        BY <1>2, <3>3, <3>7, <4>1, BeforeGrows
      <4> QED BY <1>2, <1>3, <3>3, <3>4, <3>7, <4>1, <4>2
    <3> QED BY <1>3, <3>3, <3>5, <3>6, <3>7
  <2>2. \A s : Skipped(s)' <=> s[1] = to /\ s[2] <= origin
    BY <1>6 DEF Skipped
  <2>3. \A s : Cut(s)' = Cut(s)
    BY <1>1 DEF Cut
  <2>4. ASSUME NEW s
        PROVE  s \in window' <=>
                 s \in Slots /\ s[1] \in mask' /\ ~ Skipped(s)' /\ ~ Cut(s)'
    <3>1. s \in window <=> s \in Slots /\ s[1] \in mask /\ ~ Cut(s)
      BY <1>5, WindowIs, RetainedIs DEF WindowInv
    <3>2. s \in window' <=> s \in window /\ s \notin FirstOf(window, n)
      BY <1>1
    <3>3. s[1] \in mask' <=> s[1] \in mask /\ ~ (s[1] < to)
      BY <1>1, <1>2, <1>3
    <3> QED BY <2>1, <2>2, <2>3, <3>1, <3>2, <3>3
  <2> QED BY <2>4 DEF PictureInv
<1> QED BY <1>7, <1>9, <1>10, <1>11 DEF WindowInv

\* The n slots that a take keeps are those up to the residual.
LEMMA TakeStep ==
  ASSUME WindowInv, NEW n \in Nat, Take(n) PROVE WindowInv'
<1> DEFINE to == TakeTo(n)
           O == Origin(mask)
           keep == n + O - ItemsBefore(to)
<1>1. /\ takes' = Append(takes, [limit |-> to, keep |-> keep])
      /\ mask' = {b \in mask : b <= to} /\ skips' = skips
      /\ window' = FirstOf(window, n)
  BY DEF Take
<1>2. mask \subseteq Buffers /\ \A b \in mask : b \in Nat /\ Counts[b] \in Nat
  BY BuffersNumbered DEF WindowInv, ChainType
<1>3. O \in Nat
  BY <1>2, OriginPlace
<1> HIDE DEF O
<1>4. /\ to \in Nat /\ ItemsBefore(to) \in Nat
      /\ to \in mask => n + O <= ItemsBefore(to) + Counts[to]
      /\ \A b \in mask : b < to => ItemsBefore(b) + Counts[b] < n + O
      /\ to \notin mask => \A b \in mask : b < to
  <2> DEFINE S == {b \in mask : n + O <= ItemsBefore(b) + Counts[b]}
  <2>1. to = FirstBuffer(S)
    BY DEF TakeTo, O
  <2>2. S \subseteq Buffers
    BY <1>2
  <2>3. ItemsBefore(to) \in Nat /\ \A b \in mask : ItemsBefore(b) \in Nat
    BY BeforeSize
  <2>4. \A b : b \in S <=> b \in mask /\ n + O <= ItemsBefore(b) + Counts[b]
    OBVIOUS
  <2> HIDE DEF S, to
  <2>5. CASE S = {} /\ to = PastTheEnd
    BY <1>2, <1>3, <2>3, <2>4, <2>5, EndIsPast
  <2>6. CASE to \in S /\ \A b \in S : to <= b
    BY <1>2, <1>3, <2>3, <2>4, <2>6
  <2> QED BY <2>1, <2>2, <2>5, <2>6, FirstBufferIs
<1> HIDE DEF to
<1>5. keep \in Int
  BY <1>3, <1>4
<1>6. ASSUME to \in mask
      PROVE  keep >= 1 \/ \A b \in mask : to <= b
  <2>1. CASE \A b \in mask : ~ (b < to)
    BY <1>2, <1>4, <2>1
  <2>2. CASE \E b \in mask : b < to
    <3>1. PICK p \in mask : p < to /\ ItemsBefore(to) = ItemsBefore(p) + Counts[p]
      BY <1>2, <1>4, <2>2, BeforeNext
    <3>2. ItemsBefore(to) < n + O
      BY <1>4, <3>1
    <3> QED BY <1>3, <1>4, <3>2
  <2> QED BY <2>1, <2>2
<1> HIDE DEF keep
<1>7. /\ Len(takes) \in Nat /\ DOMAIN takes' = 1..Len(takes) + 1
      /\ \A i \in 1..Len(takes) : takes'[i] = takes[i]
      /\ takes'[Len(takes) + 1].limit = to /\ takes'[Len(takes) + 1].keep = keep
  <2> DEFINE residual == [limit |-> to, keep |-> keep]
  <2>1. takes' = Append(takes, residual) /\ takes \in Seq([limit : Nat, keep : Int])
    BY <1>1 DEF WindowInv, ChainType
  <2>2. residual.limit = to /\ residual.keep = keep
    OBVIOUS
  <2> HIDE DEF residual
  <2> QED BY <2>1, <2>2
<1>8. DOMAIN takes = 1..Len(takes) /\ \A i \in DOMAIN takes' :
        i \in DOMAIN takes \/ i = Len(takes) + 1
  BY <1>7, ResidualTypes DEF WindowInv
<1>9. ChainType'
  <2>1. [limit |-> to, keep |-> keep] \in [limit : Nat, keep : Int]
    BY <1>4, <1>5
  <2>2. takes' \in Seq([limit : Nat, keep : Int])
    BY <1>1, <2>1 DEF WindowInv, ChainType
  <2>3. mask' \subseteq Buffers
    BY <1>1, <1>2
  <2> QED BY <1>1, <2>2, <2>3 DEF WindowInv, ChainType
<1>10. SkipInv'
  BY <1>1 DEF WindowInv, SkipInv
<1>11. TakeInv'
  <2> SUFFICES ASSUME NEW i \in DOMAIN takes', takes'[i].limit \in mask'
               PROVE  /\ \A b \in mask' : b <= takes'[i].limit
                      /\ takes'[i].keep >= 1 \/ \A b \in mask' : takes'[i].limit <= b
    BY DEF TakeInv
  <2>1. CASE i \in DOMAIN takes
    BY <1>1, <1>7, <1>8, <2>1 DEF WindowInv, TakeInv
  <2>2. CASE i = Len(takes) + 1
    BY <1>1, <1>6, <1>7, <2>2
  <2> QED BY <1>8, <2>1, <2>2
<1>12. PictureInv'
  <2>1. ASSUME NEW s \in window
        PROVE  s \in FirstOf(window, n) <=> s[1] < to \/ (s[1] = to /\ s[2] <= keep)
    <3> DEFINE before == Cardinality({t \in window : Precedes(t, s)})
    <3>1. s \in FirstOf(window, n) <=> before < n
      BY DEF FirstOf
    <3>2. before = ItemsBefore(s[1]) + s[2] - 1 - O
      BY WindowAhead DEF O
    <3>3. /\ s[1] \in mask /\ s[2] \in 1..Counts[s[1]] /\ s[1] \in Nat
          /\ ItemsBefore(s[1]) \in Nat
      BY <1>2, RetainedIs, WindowIs, SlotPlace, BeforeSize DEF WindowInv
    <3> HIDE DEF before
    <3>4. s \in FirstOf(window, n) <=> ItemsBefore(s[1]) + s[2] <= n + O
      BY <1>2, <1>3, <3>1, <3>2, <3>3
    <3>5. CASE s[1] < to
      BY <1>2, <1>3, <1>4, <3>3, <3>4, <3>5
    <3>6. CASE s[1] = to
      BY <1>2, <1>3, <1>4, <3>3, <3>4, <3>6 DEF keep
    <3>7. CASE to < s[1]
      <4>1. to \in mask
        BY <1>4, <3>3, <3>7
      <4>2. ItemsBefore(to) + Counts[to] <= ItemsBefore(s[1])
        BY <1>2, <3>3, <3>7, <4>1, BeforeGrows
      <4> QED BY <1>2, <1>3, <1>4, <3>3, <3>4, <3>7, <4>1, <4>2
    <3> QED BY <1>4, <3>3, <3>5, <3>6, <3>7
  <2>2. \A s : Skipped(s)' = Skipped(s)
    BY <1>1 DEF Skipped
  <2>3. \A s : Cut(s)' <=> Cut(s) \/ (s[1] = to /\ s[2] > keep)
    BY <1>7, <1>8 DEF Cut
  <2>4. ASSUME NEW s
        PROVE  s \in window' <=>
                 s \in Slots /\ s[1] \in mask' /\ ~ Skipped(s)' /\ ~ Cut(s)'
    <3>1. s \in window <=> s \in Slots /\ s[1] \in mask /\ ~ Skipped(s) /\ ~ Cut(s)
      BY WindowIs, RetainedIs DEF WindowInv
    <3>2. s \in window' <=> s \in window /\ s \in FirstOf(window, n)
      BY <1>1 DEF FirstOf
    <3>3. s[1] \in mask' <=> s[1] \in mask /\ (s[1] < to \/ s[1] = to)
      BY <1>1, <1>2, <1>4
    <3>4. s \in Slots => s[2] \in Nat
      BY SlotPlace, BuffersNumbered
    <3>5. s[1] \in mask => s[1] \in Nat
      BY <1>2
    <3> QED BY <1>4, <1>5, <2>1, <2>2, <2>3, <3>1, <3>2, <3>3, <3>4, <3>5
  <2> QED BY <2>4 DEF PictureInv
<1> QED BY <1>9, <1>10, <1>11, <1>12 DEF WindowInv

----------------------------------------------------------------------------
(* Reading                                                                 *)

LEMMA ReadsWindow == WindowInv => WindowExact
<1> SUFFICES ASSUME WindowInv PROVE Read = window
  BY DEF WindowExact
<1>1. ASSUME NEW s \in Retained
      PROVE  s \in FirstOf(Retained, Origin(mask)) <=> Skipped(s)
  <2> DEFINE before == Cardinality({t \in Retained : Precedes(t, s)})
             O == Origin(mask)
  <2>1. s \in FirstOf(Retained, O) <=> before < O
    BY DEF FirstOf
  <2>2. before = ItemsBefore(s[1]) + s[2] - 1
    BY RetainedAhead
  <2>3. mask \subseteq Buffers /\ s \in Slots /\ s[1] \in mask
    BY RetainedIs DEF WindowInv, ChainType
  <2>4. s[1] \in Nat /\ s[2] \in Nat \ {0} /\ ItemsBefore(s[1]) \in Nat
    BY <2>3, SlotPlace, BuffersNumbered, BeforeSize
  <2> HIDE DEF before
  <2>5. CASE O = 0 /\ \A t \in Slots : t[1] \in mask => ~ Skipped(t)
    BY <2>1, <2>2, <2>3, <2>4, <2>5
  <2>6. ASSUME NEW b \in mask, O \in 0..Counts[b] - 1, \A c \in mask : b <= c,
               \A t \in Slots : t[1] \in mask => (Skipped(t) <=> t[1] = b /\ t[2] <= O)
        PROVE  before < O <=> Skipped(s)
    <3>1. b \in Nat /\ Counts[b] \in Nat /\ ItemsBefore(b) \in Nat
      BY <2>3, BuffersNumbered, BeforeSize
    <3> HIDE DEF O
    <3>2. CASE s[1] = b
      <4>1. \A c \in mask : ~ (c < b)
        BY <2>3, <2>6, <3>1, BuffersNumbered
      <4>2. ItemsBefore(b) = 0
        BY <4>1, BeforeFirst
      <4> QED BY <2>2, <2>3, <2>4, <2>6, <3>1, <3>2, <4>2
    <3>3. CASE s[1] # b
      <4>1. b < s[1]
        BY <2>3, <2>4, <2>6, <3>1, <3>3
      <4>2. ItemsBefore(b) + Counts[b] <= ItemsBefore(s[1])
        BY <2>3, <2>4, <4>1, BeforeGrows
      <4> QED BY <2>2, <2>3, <2>4, <2>6, <3>1, <3>3, <4>2
    <3> QED BY <3>2, <3>3
  <2> QED BY <2>1, <2>5, <2>6, OriginPlace
<1>2. \A s : s \in Read <=> s \in window
  BY <1>1, WindowIs DEF Read
<1> QED BY <1>2

LEMMA EveryBufferUsed == WindowInv => NoWastedBuffer
<1> SUFFICES ASSUME WindowInv, NEW b \in mask, NEW w \in window
             PROVE  \E s \in window : s[1] = b
  BY DEF NoWastedBuffer
<1>1. mask \subseteq Buffers
  BY DEF WindowInv, ChainType
<1>2. b \in Buffers /\ b \in Nat /\ Counts[b] \in Nat \ {0}
  BY <1>1, BuffersNumbered
<1>3. w \in Slots /\ w[1] \in mask /\ ~ Skipped(w) /\ ~ Cut(w)
  BY WindowIs, RetainedIs DEF WindowInv
<1>4. w[1] \in Nat /\ w[2] \in Nat \ {0}
  BY <1>3, SlotPlace, BuffersNumbered
\* The first slot of b that is not skipped.
<1>5. \E k \in 1..Counts[b] : /\ ~ Skipped(<<b, k>>) /\ (w[1] = b => k <= w[2])
                              /\ k = 1 \/ \A d \in mask : b <= d
  <2> DEFINE O == Origin(mask)
  <2>1. CASE O = 0 /\ \A t \in Slots : t[1] \in mask => ~ Skipped(t)
    <3>1. <<b, 1>> \in Slots /\ 1 \in 1..Counts[b]
      BY <1>2, SlotPlace
    <3>2. ~ Skipped(<<b, 1>>)
      BY <2>1, <3>1
    <3> QED BY <1>4, <3>1, <3>2
  <2>2. ASSUME NEW c \in mask, O \in 0..Counts[c] - 1, \A d \in mask : c <= d,
               \A t \in Slots : t[1] \in mask => (Skipped(t) <=> t[1] = c /\ t[2] <= O)
        PROVE  \E k \in 1..Counts[b] : /\ ~ Skipped(<<b, k>>)
                                       /\ w[1] = b => k <= w[2]
                                       /\ k = 1 \/ \A d \in mask : b <= d
    <3> HIDE DEF O
    <3>1. O \in Nat
      BY <2>2
    <3>2. CASE b = c
      <4>1. O + 1 \in 1..Counts[b]
        BY <1>2, <2>2, <3>1, <3>2
      <4>2. <<b, O + 1>> \in Slots
        BY <1>2, <4>1, SlotPlace
      <4>3. ~ Skipped(<<b, O + 1>>)
        BY <2>2, <3>1, <4>2
      <4>4. w[1] = b => O + 1 <= w[2]
        BY <1>3, <1>4, <2>2, <3>1, <3>2
      <4> QED BY <2>2, <3>2, <4>1, <4>3, <4>4
    <3>3. CASE b # c
      <4>1. 1 \in 1..Counts[b] /\ <<b, 1>> \in Slots
        BY <1>2, SlotPlace
      <4>2. ~ Skipped(<<b, 1>>)
        BY <2>2, <3>3, <4>1
      <4> QED BY <1>4, <4>1, <4>2
    <3> QED BY <3>2, <3>3
  <2> QED BY <2>1, <2>2, OriginPlace
<1>6. PICK k \in 1..Counts[b] : /\ ~ Skipped(<<b, k>>) /\ (w[1] = b => k <= w[2])
                                /\ k = 1 \/ \A d \in mask : b <= d
  BY <1>5
\* A take that cuts it off leaves b alone in the mask, and cuts off w too.
<1>7. ASSUME NEW i \in DOMAIN takes, takes[i].limit = b, k > takes[i].keep
      PROVE  FALSE
  <2>1. takes[i].keep \in Int
    BY ResidualTypes DEF WindowInv
  <2>2. (\A d \in mask : d <= b) /\ (\A d \in mask : b <= d)
    BY <1>6, <1>7, <2>1 DEF WindowInv, TakeInv
  <2>3. w[1] = b
    BY <1>2, <1>3, <1>4, <2>2
  <2>4. k <= w[2]
    BY <1>6, <2>3
  <2>5. ~ (w[2] > takes[i].keep)
    BY <1>3, <1>7, <2>3 DEF Cut
  <2> QED BY <1>4, <1>7, <2>1, <2>4, <2>5
<1>8. ~ Cut(<<b, k>>)
  BY <1>7 DEF Cut
<1>9. <<b, k>> \in Slots /\ <<b, k>>[1] = b
  BY <1>2, SlotPlace
<1>10. <<b, k>> \in window
  BY <1>6, <1>8, <1>9, WindowIs, RetainedIs DEF WindowInv
<1> QED BY <1>9, <1>10

----------------------------------------------------------------------------
(* Theorems                                                                *)

\* For buffers of any lengths: as long as the chain has at most one skip, mask
\* and residuals picture its window.
THEOREM WindowInvariant == Spec => [](Len(skips) <= 1 => WindowInv)
<1>1. Init => (Len(skips) <= 1 => WindowInv)
  BY WindowInit
<1>2. SkipsTyped /\ (Len(skips) <= 1 => WindowInv) /\ [Next]_vars
      => (Len(skips) <= 1 => WindowInv)'
  <2> SUFFICES ASSUME SkipsTyped, Len(skips) <= 1 => WindowInv, [Next]_vars,
                      Len(skips') <= 1
               PROVE  WindowInv'
    OBVIOUS
  <2>1. WindowInv
    BY SkipsGrow
  <2>2. ASSUME NEW n \in 0..MaxN, Skip(n) PROVE WindowInv'
    <3>1. n \in Nat
      BY BoundsAssumption
    <3> QED BY <2>1, <2>2, <3>1, SkipStep
  <2>3. ASSUME NEW n \in 0..MaxN, Take(n) PROVE WindowInv'
    <3>1. n \in Nat
      BY BoundsAssumption
    <3> QED BY <2>1, <2>3, <3>1, TakeStep
  <2>4. CASE UNCHANGED vars
    <3>1. /\ mask' = mask /\ skips' = skips /\ takes' = takes /\ window' = window
      BY <2>4 DEF vars
    <3>2. Retained' = Retained
      BY <3>1 DEF Retained
    <3> QED BY <2>1, <3>1 DEF WindowInv, ChainType, PictureInv, SkipInv, TakeInv,
                              Skipped, Cut
  <2> QED BY <2>1, <2>2, <2>3, <2>4, PruneStep DEF Next
<1>3. Spec => []SkipsTyped
  BY SkipsInit, SkipsGrow, PTL DEF Spec
<1> QED BY <1>1, <1>2, <1>3, PTL DEF Spec

\* A chain of takes, filters and at most one skip reads exactly the slots that
\* its adapters describe, in whichever order they are chained.
THEOREM WindowsAreExact == Spec => [](Len(skips) <= 1 => WindowExact)
BY ReadsWindow, WindowInvariant, PTL

\* It reads no buffer that has no slot in the window.
THEOREM WindowsAreTight == Spec => [](Len(skips) <= 1 => NoWastedBuffer)
BY EveryBufferUsed, WindowInvariant, PTL

=============================================================================
