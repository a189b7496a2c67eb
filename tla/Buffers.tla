------------------------------ MODULE Buffers ------------------------------
(***************************************************************************)
(* One column of one data segment: how pushed items become a buffer on     *)
(* disk and a descriptor in the manifest (accumulate.rs), and how items    *)
(* are read back from the two (read.rs, query/mod.rs).                     *)
(*                                                                         *)
(* An item is a bit pattern, None, or a sequence of bit patterns. Equality *)
(* of items is bit identity (schema::BitMatch); the partial order of the   *)
(* statistics is Less, in which distinct bit patterns may be equal (the    *)
(* two zeros of a float) or incomparable to everything (NaN).              *)
(***************************************************************************)
EXTENDS Integers, Sequences, FiniteSets, SequencesExt

CONSTANTS
  Bits,       \* the bit patterns of a fixed-width item
  Ordered,    \* those that PartialOrd compares; the others are NaN
  Rank,       \* where an ordered bit pattern stands
  None,       \* the absent item of an optional column
  Byte,       \* the number of bits a bit vector is padded to a multiple of
  Letters,    \* the bit patterns among the elements of a sequence
  MaxLength   \* items of a sequence column are no longer than this

ASSUME OrderAssumption == Ordered \subseteq Bits /\ Rank \in [Ordered -> Int]
ASSUME LettersAssumption == Letters \subseteq Bits /\ MaxLength \in Nat
ASSUME NoneAssumption == None \notin Bits \cup BoundedSeq(Letters, MaxLength)
ASSUME ByteAssumption == Byte \in Nat \ {0}

\* The accumulators (Unfold::RawAcc, OptAcc) a column can have.
Layouts == {"Vec", "BitVec", "OptInSitu", "OptBitVec", "Seq", "OptSeq"}

Optional == {"OptInSitu", "OptBitVec", "OptSeq"}
Sequential == {"Seq", "OptSeq"}

\* The accumulators that implement MinMax for a type that is not bool.
Detailing == {"Vec", "OptInSitu", "OptBitVec"}

Items(layout) ==
  (IF layout \in Sequential THEN BoundedSeq(Letters, MaxLength) ELSE Bits)
    \cup (IF layout \in Optional THEN {None} ELSE {})

\* PartialOrd: partial_cmp is Some(Less), Some(Greater); a <= b.
Less(a, b) == {a, b} \subseteq Ordered /\ Rank[a] < Rank[b]
Greater(a, b) == Less(b, a)
AtMost(a, b) == {a, b} \subseteq Ordered /\ Rank[a] <= Rank[b]

----------------------------------------------------------------------------
(* Raw accumulators, as their three sub-buffers; a layout leaves empty     *)
(* those it does not have.                                                 *)

NoneEnd == -1        \* u64::MAX among the ends of an OptSeq

EmptyRaw == [mask |-> <<>>, ends |-> <<>>, data |-> <<>>]

\* Mutant: the last end is taken even when it is the None mark.
LastEndAny(ends) == IF ends = <<>> THEN 0 ELSE Last(ends)

\* Where the next sequence begins: the last end that is not the None mark.
LastEnd(ends) ==
  LET present == {n \in DOMAIN ends : ends[n] # NoneEnd}
  IN  IF present = {} THEN 0 ELSE ends[Max(present)]

PushOptBitVec(raw, item) ==
  [raw EXCEPT !.mask = Append(@, item # None),
              !.data = IF item = None THEN @ ELSE Append(@, item)]

PushSeq(raw, item) ==
  IF item = None THEN [raw EXCEPT !.ends = Append(@, NoneEnd)]
  ELSE [raw EXCEPT !.ends = Append(@, LastEnd(@) + Len(item)),
                   !.data = @ \o item]

RawPush(layout, raw, item) ==
  CASE layout = "OptBitVec" -> PushOptBitVec(raw, item)
    [] layout \in Sequential -> PushSeq(raw, item)
    [] OTHER -> [raw EXCEPT !.data = Append(@, item)]

RawCollect(layout, items) ==
  LET collected[n \in 0..Len(items)] ==
        IF n = 0 THEN EmptyRaw
        ELSE RawPush(layout, collected[n - 1], items[n])
  IN  collected[Len(items)]

RawCount(layout, raw) ==
  Len(CASE layout = "OptBitVec" -> raw.mask
        [] layout \in Sequential -> raw.ends
        [] OTHER -> raw.data)

----------------------------------------------------------------------------
(* The accumulator of a column: Empty, Compact or Many.                    *)

Empty == [state |-> "Empty"]
Compact(item, count) == [state |-> "Compact", item |-> item, count |-> count]
Many(raw) == [state |-> "Many", raw |-> raw]

\* Mutant: the repetitions are written out once.
UpgradeOnce(layout, buf, item) == Many(RawCollect(layout, <<buf.item, item>>))

\* The repetitions so far, then the first item that differs from them.
Upgrade(layout, buf, item) ==
  Many(RawCollect(layout, Append([n \in 1..buf.count |-> buf.item], item)))

\* Mutant: runs are recognised by PartialOrd instead of bit identity.
PushEqual(layout, buf, item) ==
  CASE buf.state = "Empty" -> Compact(item, 1)
    [] buf.state = "Compact" ->
         IF \/ item = buf.item
            \/ /\ layout \in Detailing
               /\ AtMost(item, buf.item) /\ AtMost(buf.item, item)
         THEN [buf EXCEPT !.count = @ + 1]
         ELSE Upgrade(layout, buf, item)
    [] buf.state = "Many" -> Many(RawPush(layout, buf.raw, item))

Push(layout, buf, item) ==
  CASE buf.state = "Empty" -> Compact(item, 1)
    [] buf.state = "Compact" ->
         IF item = buf.item THEN [buf EXCEPT !.count = @ + 1]
         ELSE Upgrade(layout, buf, item)
    [] buf.state = "Many" -> Many(RawPush(layout, buf.raw, item))

Count(layout, buf) ==
  CASE buf.state = "Empty" -> 0
    [] buf.state = "Compact" -> buf.count
    [] buf.state = "Many" -> RawCount(layout, buf.raw)

----------------------------------------------------------------------------
(* What a write puts in the manifest and in the file.                      *)

\* Ordering::Less looks for a minimum, Ordering::Greater for a maximum.
Better(ordering, a, b) ==
  IF ordering = "Less" THEN Less(a, b) ELSE Greater(a, b)

\* Mutant: the index is counted over the items that are present.
FindDense(items, ordering) ==
  LET present == SelectSeq(items, LAMBDA i : i # None)
  IN  FoldLeft(LAMBDA best, n :
                 IF best = 0 \/ Better(ordering, present[n], present[best])
                 THEN n ELSE best,
               0, [n \in 1..Len(present) |-> n])

\* The index of the best item: absent ones are skipped without shifting the
\* others, later ones win only when strictly better; 0 when there is none.
Find(items, ordering) ==
  LET found[n \in 0..Len(items)] ==
        IF n = 0 THEN 0
        ELSE LET best == found[n - 1]
             IN  IF \/ items[n] = None
                    \/ best # 0 /\ ~ Better(ordering, items[n], items[best])
                 THEN best ELSE n
  IN  found[Len(items)]

Basic(count) == [kind |-> "Basic", count |-> count, min |-> 0, max |-> 0]

\* MinMax::detail: the statistics are places in the data sub-buffer.
Detail(items, count) ==
  LET min == Find(items, "Less")
      max == Find(items, "Greater")
  IN  IF min = 0 \/ max = 0 THEN Basic(count)
      ELSE [kind |-> "Detailed", count |-> count, min |-> min, max |-> max]

Describe(layout, buf) ==
  CASE buf.state = "Compact" ->
         [Basic(Count(layout, buf)) EXCEPT !.kind = "Compact"]
    [] buf.state = "Many" ->
         IF layout \in Detailing
         THEN Detail(buf.raw.data, Count(layout, buf))
         ELSE Basic(Count(layout, buf))

\* A bit vector is stored in whole bytes, the last one filled with zeros.
Packed(bits, zero) ==
  bits \o [n \in 1..((Byte - (Len(bits) % Byte)) % Byte) |-> zero]

ZeroBit == CHOOSE b \in Bits : TRUE

\* The bytes: neither the number of items nor the number of bits is among
\* them, and a compact buffer holds its item once.
Serialize(layout, buf) ==
  LET raw == IF buf.state = "Compact" THEN RawCollect(layout, <<buf.item>>)
             ELSE buf.raw
  IN  CASE layout = "BitVec" -> [raw EXCEPT !.data = Packed(@, ZeroBit)]
        [] layout = "OptBitVec" -> [raw EXCEPT !.mask = Packed(@, FALSE)]
        [] OTHER -> raw

Store(layout, buf) ==
  [desc |-> Describe(layout, buf), body |-> Serialize(layout, buf)]

----------------------------------------------------------------------------
(* Reading the bytes back: Decoder::iter, Decoder::one, iter::Src.         *)

\* The number of items with data among the first n.
Dense(mask, n) == Cardinality({k \in 1..n : mask[k]})

\* Mutant: the data of an item is looked up at its own position.
DecodeSparse(body) ==
  [n \in 1..Len(body.mask) |->
     IF body.mask[n] /\ n <= Len(body.data) THEN body.data[n] ELSE None]

\* The iterator ends with the data, whatever the mask has left.
DecodeOptBitVec(body) ==
  LET readable == {n \in 1..Len(body.mask) :
                     Dense(body.mask, n) <= Len(body.data)}
  IN  [n \in 1..Cardinality(readable) |->
         IF body.mask[n] THEN body.data[Dense(body.mask, n)] ELSE None]

\* A None end yields no data and leaves the start where it was.
DecodeSeq(body) ==
  [n \in 1..Len(body.ends) |->
     IF body.ends[n] = NoneEnd THEN None
     ELSE SubSeq(body.data, LastEnd(SubSeq(body.ends, 1, n - 1)) + 1,
                 body.ends[n])]

DecodeAll(layout, body) ==
  CASE layout = "OptBitVec" -> DecodeOptBitVec(body)
    [] layout \in Sequential -> DecodeSeq(body)
    [] OTHER -> body.data

DecodeOne(layout, body) == Head(DecodeAll(layout, body))

Decode(layout, stored) ==
  LET count == stored.desc.count
  IN  IF stored.desc.kind = "Compact"
      THEN [n \in 1..count |-> DecodeOne(layout, stored.body)]
      ELSE LET all == DecodeAll(layout, stored.body)
           IN  SubSeq(all, 1, IF Len(all) < count THEN Len(all) ELSE count)

----------------------------------------------------------------------------
(* The statistics of a buffer, as a query uses them (mask.rs).             *)

MinOf(stored) == stored.body.data[stored.desc.min]
MaxOf(stored) == stored.body.data[stored.desc.max]

\* The statistics are items, and bound the items that they can be compared to.
Bounded(layout, stored) ==
  /\ {MinOf(stored), MaxOf(stored)} \subseteq Bits
  /\ \A n \in DOMAIN Decode(layout, stored) :
       LET item == Decode(layout, stored)[n]
       IN  /\ item \in Bits \cup {None}
           /\ item \in Ordered =>
                /\ MinOf(stored) \in Ordered => AtMost(MinOf(stored), item)
                /\ MaxOf(stored) \in Ordered => AtMost(item, MaxOf(stored))

=============================================================================
