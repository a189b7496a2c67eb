-------------------------------- MODULE Codec --------------------------------
(***************************************************************************)
(* The bytes of one column buffer: the type a schema records, the          *)
(* accumulator that type unfolds to, what it serializes to, and how the    *)
(* reader of the same type takes the bytes apart (schema.rs, accumulate.rs,*)
(* io.rs, read.rs).                                                        *)
(*                                                                         *)
(* Items: a number or a char is an integer (a float its bit pattern), a    *)
(* bool a Boolean, a String or a Vec a sequence, an Option a sequence of   *)
(* at most one. The bytes of a String are any bytes: UTF-8 is left out.    *)
(***************************************************************************)
EXTENDS Integers, Sequences, FiniteSets, FiniteSetsExt

CONSTANTS
  Primitives,  \* the types of the numbers, of bool and of char
  MaxDepth,    \* of the options and sequences within each other
  Bit,         \* the number of bits in a byte
  Word,        \* the number of bytes in a u64, which buffers are aligned to
  CharWidth,   \* the number of bytes in a char
  Scalars,     \* the integers that are a char
  NaNs         \* the float bit patterns that PartialOrd does not compare

Power(base, n) ==
  LET power[k \in 0..n] == IF k = 0 THEN 1 ELSE base * power[k - 1]
  IN  power[n]

\* The number of values of a byte, and of a number of some width.
Byte == Power(2, Bit)
Limit(width) == Power(Byte, width)

Bytes == 0..Byte - 1
MaxU64 == Limit(Word) - 1

\* None of an Option<char> is u32::MAX, "outside the valid scalar range".
NoChar == Limit(CharWidth) - 1

ASSUME WidthAssumption == {Bit, Word, CharWidth} \subseteq Nat \ {0}
ASSUME ScalarsAssumption == Scalars \subseteq 0..NoChar - 1
ASSUME NaNsAssumption == NaNs \subseteq Nat

----------------------------------------------------------------------------
(* Types *)

Number(kind, size) == [type |-> "Number", kind |-> kind, size |-> size]
Bool == [type |-> "Bool"]
Char == [type |-> "Char"]
String == [type |-> "String"]
Option(t) == [type |-> "Option", subtype |-> t]
Vec(t) == [type |-> "Sequence", subtype |-> t]

\* Type::option: "flatten nested options".
TypeOption(t) == IF t.type = "Option" THEN t ELSE Option(t)

Kinds == {"UInt", "Int", "Float", "NonZeroUInt", "NonZeroInt"}

ASSUME PrimitivesAssumption ==
  /\ Number("UInt", 1) \in Primitives
  /\ \A t \in Primitives : \/ t \in [type : {"Number"}, kind : Kinds, size : Nat \ {0}]
                            \/ t \in {Bool, Char}
ASSUME DepthAssumption == MaxDepth \in Nat

\* One more option or sequence around types; a String is a sequence of bytes.
Around(types) ==
  types \cup {String} \cup {Option(t) : t \in types} \cup {Vec(t) : t \in types}

\* The types with no more than n options and sequences within each other.
TypesTo(n) ==
  LET types[k \in 0..n] == IF k = 0 THEN Primitives ELSE Around(types[k - 1])
  IN  types[n]

Types == TypesTo(MaxDepth)

\* Unfolder::unfold, the type a schema records for a Rust type.
Unfold[t \in Types] ==
  CASE t.type = "Option" -> TypeOption(Unfold[t.subtype])
    [] t.type = "Sequence" -> Vec(Unfold[t.subtype])
    [] t.type \notin {"Option", "Sequence"} -> t

\* Fixed-width types, and those with a bit pattern to spare for None.
Fixed(t) == t.type \in {"Number", "Char"}
NonZero(t) == t.type = "Number" /\ t.kind \in {"NonZeroUInt", "NonZeroInt"}
Niche(t) == t.type = "Char" \/ NonZero(t)
Listed(t) == t.type \in {"String", "Sequence"}

Width(t) == IF t.type = "Char" THEN CharWidth ELSE t.size

\* Unfold::OptAcc
OptAcc(t) ==
  CASE Niche(t) -> "OptInSitu"
    [] Listed(t) -> "OptSeq"
    [] OTHER -> "OptBitVec"

\* Unfold::RawAcc of a recorded type, whose options are flattened.
RawAcc(t) ==
  CASE t.type = "Bool" -> "BitVec"
    [] Fixed(t) -> "Vec"
    [] Listed(t) -> "Seq"
    [] t.type = "Option" -> OptAcc(t.subtype)

\* Decode::Src, the reader of a column or of an element.
OptSrc(t) ==
  CASE Listed(t) -> "Seq"
    [] Niche(t) -> "OptInSitu"
    [] OTHER -> "OptBitVec"

Src(t) ==
  CASE t.type = "Bool" -> "BitSlice"
    [] Fixed(t) -> "slice"
    [] Listed(t) -> "Seq"
    [] t.type = "Option" -> OptSrc(t.subtype)

\* A present item, and the type of the elements of one that is a sequence.
Bare(t) == IF t.type = "Option" THEN t.subtype ELSE t
Element(t) ==
  IF Bare(t).type = "String" THEN Number("UInt", 1) ELSE Bare(t).subtype

\* The numbers that a type can hold.
Numerals(t) ==
  LET half == Limit(t.size) \div 2
      all == IF t.kind \in {"Int", "NonZeroInt"} THEN -half..half - 1
             ELSE 0..Limit(t.size) - 1
  IN  IF NonZero(t) THEN all \ {0} ELSE all

Optional(items) == {item \in Seq(items) : Len(item) <= 1}

\* The items of a type.
ItemsOf[t \in Types] ==
  CASE t.type = "Option" -> Optional(ItemsOf[t.subtype])
    [] t.type = "Sequence" -> Seq(ItemsOf[t.subtype])
    [] t.type = "String" -> Seq(Bytes)
    [] t.type = "Number" -> Numerals(t)
    [] t.type = "Bool" -> BOOLEAN
    [] t.type = "Char" -> Scalars

\* Flatten::push: Some(None) is stored as None.
Flattened[t \in Types] ==
  [item \in ItemsOf[t] |->
     CASE t.type = "Option" ->
            IF t.subtype.type = "Option" /\ item # <<>> THEN Flattened[t.subtype][item[1]]
            ELSE [i \in DOMAIN item |-> Flattened[t.subtype][item[i]]]
       [] t.type = "Sequence" ->
            [i \in DOMAIN item |-> Flattened[t.subtype][item[i]]]
       [] t.type \notin {"Option", "Sequence"} -> item]

----------------------------------------------------------------------------
(* Numbers *)

\* Digit i of a number, the least significant one first, and back.
Digit(base, n, i) == (n \div Power(base, i - 1)) % base

FromDigits(base, digits) ==
  LET high[k \in 0..Len(digits)] ==
        IF k = 0 THEN 0 ELSE high[k - 1] * base + digits[Len(digits) - k + 1]
  IN  high[Len(digits)]

\* to_le_bytes; the bytes of a negative number are its two's complement.
ToBytes(n, width) == [i \in 1..width |-> Digit(Byte, n, i)]

\* from_le_bytes of an unsigned number, a float or a char.
FromBytes(bytes) == FromDigits(Byte, bytes)

\* from_le_bytes of a signed number.
Signed(n, width) ==
  IF 2 * n >= Limit(width) THEN n - Limit(width) ELSE n

\* Serialize of a number, a float or a char, little-endian and in its width.
Encoded(t, n) == ToBytes(n, Width(t))

\* Mutant: None is zero whatever the type.
NoneBytesZero(t) == ToBytes(0, Width(t))

\* The bytes that stand for None among the items themselves.
NoneBytes(t) ==
  ToBytes(IF t.type = "Char" THEN NoChar ELSE 0, Width(t))

\* What Deserialize accepts: a NonZero is not zero, a char is a scalar value.
Valid(t, n) ==
  CASE NonZero(t) -> n # 0
    [] t.type = "Char" -> n \in Scalars
    [] ~ NonZero(t) /\ t.type # "Char" -> TRUE

Decoded(t, bytes) ==
  LET n == FromBytes(bytes)
  IN  IF t.type = "Number" /\ t.kind \in {"Int", "NonZeroInt"}
      THEN Signed(n, t.size) ELSE n

\* PartialOrd: floats are ordered by magnitude below their sign bit, so that
\* the two zeros are equal, and a NaN is ordered with nothing.
Rank(t, n) ==
  IF t.type = "Number" /\ t.kind = "Float" /\ 2 * n >= Limit(t.size)
  THEN Limit(t.size) \div 2 - n ELSE n

Comparable(t, n) == ~ (t.type = "Number" /\ t.kind = "Float" /\ n \in NaNs)

LessThan(t, a, b) ==
  Comparable(t, a) /\ Comparable(t, b) /\ Rank(t, a) < Rank(t, b)

----------------------------------------------------------------------------
(* Writing *)

\* Align::pad and Align::align
Pad(n) == (Word - (n % Word)) % Word
Align(n) == n + Pad(n)

Zeros(n) == [i \in 1..n |-> 0]

\* SizedBuf::serialize_into
SizedBuf(bytes) == ToBytes(Len(bytes), Word) \o bytes \o Zeros(Pad(Len(bytes)))

\* Lsb0 order, the last byte filled with zeros.
Pack(bits) ==
  LET Weight(j) == IF j <= Len(bits) /\ bits[j] THEN 1 ELSE 0
  IN  [i \in 1..((Len(bits) + Bit - 1) \div Bit) |->
         FromDigits(2, [k \in 1..Bit |-> Weight((i - 1) * Bit + k)])]

Unpack(bytes) ==
  [j \in 1..Len(bytes) * Bit |->
     Digit(2, bytes[((j - 1) \div Bit) + 1], ((j - 1) % Bit) + 1) = 1]

\* Some sequences one after the other.
Concat(parts) ==
  LET upto[n \in 0..Len(parts)] ==
        IF n = 0 THEN <<>> ELSE upto[n - 1] \o parts[n]
  IN  upto[Len(parts)]

\* The items that are present: an option is a sequence of one or none.
Values(t, items) == IF t.type = "Option" THEN Concat(items) ELSE items

\* The elements of all sequences.
Elements(t, items) == Concat(Values(t, items))

\* Where each sequence ends among the elements; u64::MAX marks a None.
Ends(t, items) ==
  [i \in DOMAIN items |->
     IF t.type = "Option" /\ items[i] = <<>> THEN MaxU64
     ELSE Len(Elements(t, SubSeq(items, 1, i)))]

\* The second sub-buffer is left out when it has no items.
Compound(first, second) ==
  IF second = <<>> THEN SizedBuf(first) ELSE SizedBuf(first) \o SizedBuf(second)

Mask(items) == [i \in DOMAIN items |-> items[i] # <<>>]

\* The accumulators with a second sub-buffer, the type of its items, and what
\* is in it: the items that are present, or the elements of all of them.
Nested(t) == RawAcc(t) \in {"OptBitVec", "Seq", "OptSeq"}
Inner(t) == IF RawAcc(t) = "OptBitVec" THEN t.subtype ELSE Element(t)
Content(t, items) ==
  IF RawAcc(t) = "OptBitVec" THEN Values(t, items) ELSE Elements(t, items)

\* The first sub-buffer: the mask, or the ends.
Heads(t, items) ==
  IF RawAcc(t) = "OptBitVec" THEN Pack(Mask(items))
  ELSE Concat([i \in DOMAIN items |-> ToBytes(Ends(t, items)[i], Word)])

\* The bytes of the others: bit by bit, or item by item.
Leaf(t, items) ==
  CASE RawAcc(t) = "BitVec" -> Pack(items)
    [] RawAcc(t) = "Vec" -> Concat([i \in DOMAIN items |-> Encoded(t, items[i])])
    [] RawAcc(t) = "OptInSitu" ->
         Concat([i \in DOMAIN items |-> IF items[i] = <<>> THEN NoneBytes(t.subtype)
                                        ELSE Encoded(t.subtype, items[i][1])])

Serialize[t \in Types] ==
  [items \in Seq(ItemsOf[t]) |->
     IF items = <<>> THEN <<>>
     ELSE IF Nested(t)
     THEN Compound(Heads(t, items), Serialize[Inner(t)][Content(t, items)])
     ELSE Leaf(t, items)]

\* BitMatch: a buffer is compact when its items are the same bit for bit.
Uniform(items) == \A i \in DOMAIN items : items[i] = items[1]

\* Buffer::serialize: a compact buffer holds its item once.
Body(t, items) ==
  LET once == IF Uniform(items) THEN SubSeq(items, 1, 1) ELSE items
  IN  Serialize[Unfold[t]][[i \in DOMAIN once |-> Flattened[t][once[i]]]]

----------------------------------------------------------------------------
(* Statistics *)

\* Sector::find: the place of the least or the greatest item, among those
\* that are present; a later one wins only if it is strictly better. 0 when
\* there is none.
Find(t, items, least) ==
  LET Better(i, j) == IF least THEN LessThan(t, items[i][1], items[j][1])
                      ELSE LessThan(t, items[j][1], items[i][1])
      found[n \in 0..Len(items)] ==
        IF n = 0 THEN 0
        ELSE LET best == found[n - 1]
             IN  IF items[n] = <<>> \/ (best # 0 /\ ~ Better(n, best)) THEN best ELSE n
  IN  found[Len(items)]

\* Mutant: the statistics of a nullable column are sought where its body
\* begins, before the mask.
OriginZero(t, items) == 0

\* OptBitVec::origin: the data begin after the mask and a prefix.
Origin(t, items) ==
  IF RawAcc(t) = "OptBitVec" THEN Len(SizedBuf(Pack(Mask(items)))) + Word ELSE 0

Measured(t) ==
  RawAcc(t) \in {"Vec", "OptInSitu", "OptBitVec"} /\ Bare(t).type # "Bool"

\* MinMax::detail: the sectors of the least and the greatest of the items that
\* are present; origin is where the first of them is.
Detail(desc, type, cells, origin) ==
  LET Statistic(i) == [offset |-> origin + (i - 1) * Width(type), size |-> Width(type)]
      min == Find(type, cells, TRUE)
  IN  IF min = 0 THEN desc
      ELSE [buffer |-> desc.buffer, count |-> desc.count, kind |-> "Detailed",
            min |-> Statistic(min), max |-> Statistic(Find(type, cells, FALSE))]

\* What Find scans: the data of a masked buffer are the items present.
Scanned(type, items) ==
  CASE RawAcc(type) = "Vec" -> [i \in DOMAIN items |-> <<items[i]>>]
    [] RawAcc(type) = "OptBitVec" ->
         [i \in DOMAIN Values(type, items) |-> <<Values(type, items)[i]>>]
    [] RawAcc(type) \notin {"Vec", "OptBitVec"} -> items

\* Descriptor::describe of the buffer in a sector of the memory map, with its
\* statistics as sectors of their own.
Describe(t, items, sector) ==
  LET type == Unfold[t]
      flat == [i \in DOMAIN items |-> Flattened[t][items[i]]]
      desc == [buffer |-> sector, count |-> Len(items),
               kind |-> IF Uniform(items) THEN "Compact" ELSE "Basic"]
  IN  IF Uniform(items) \/ ~ Measured(type) THEN desc
      ELSE Detail(desc, Bare(type), Scanned(type, flat),
                  sector.offset + Origin(type, flat))

----------------------------------------------------------------------------
(* Reading *)

Err == [ok |-> FALSE]
Ok(x) == [ok |-> TRUE, it |-> x]

\* SizedBuf::deserialize: what the prefix delimits, and what follows the
\* padding.
Sized(src) ==
  LET size == FromBytes(SubSeq(src, 1, Word))
      data == SubSeq(src, Word + 1, Len(src))
  IN  IF Len(src) < Word \/ size = 0 \/ Align(size) > Len(data) THEN Err
      ELSE Ok([data |-> SubSeq(data, 1, size),
               rest |-> SubSeq(data, Align(size) + 1, Len(data))])

\* The sub-buffers of OptBitVec and of Seq; a second that is left out is
\* the empty one.
Halves(src) ==
  LET first == Sized(src)
      second == Sized(first.it.rest)
  IN  IF ~ first.ok THEN Err
      ELSE IF first.it.rest = <<>> THEN Ok(<<first.it.data, <<>>>>)
      ELSE IF ~ second.ok THEN Err ELSE Ok(<<first.it.data, second.it.data>>)

\* Fixed-width items one after the other, each decoded on its own.
Cells(t, src) ==
  [i \in 1..Len(src) \div Width(t) |->
     SubSeq(src, (i - 1) * Width(t) + 1, i * Width(t))]

Numbers(t, src) ==
  LET cells == Cells(t, src)
      numbers == [i \in DOMAIN cells |-> Decoded(t, cells[i])]
  IN  IF Len(src) % Width(t) # 0 \/ \E i \in DOMAIN numbers : ~ Valid(t, numbers[i])
      THEN Err ELSE Ok(numbers)

\* Option::deserialize: the niche is None, anything else must be an item.
Niches(t, src) ==
  LET cells == Cells(t, src)
      Absent(i) == cells[i] = NoneBytes(t)
  IN  IF \/ Len(src) % Width(t) # 0
         \/ \E i \in DOMAIN cells : ~ Absent(i) /\ ~ Valid(t, Decoded(t, cells[i]))
      THEN Err
      ELSE Ok([i \in DOMAIN cells |->
                 IF Absent(i) THEN <<>> ELSE <<Decoded(t, cells[i])>>])

\* A value for each bit that is set; the items end with the values.
Masked(mask, values) ==
  LET Dense(n) == Cardinality({k \in 1..n : mask[k]})
      readable == {n \in DOMAIN mask : Dense(n) <= Len(values)}
  IN  [n \in 1..Cardinality(readable) |->
         IF mask[n] THEN <<values[Dense(n)]>> ELSE <<>>]

\* Where sequence n begins: at the last end before that is not of a None.
Start(t, ends, n) ==
  LET before == {m \in 1..n - 1 : t.type = "Option" => ends[m] # MaxU64}
  IN  IF before = {} THEN 0 ELSE ends[Max(before)]

\* The elements up to each end; None takes none of them.
Delimited(t, ends, elements) ==
  [n \in DOMAIN ends |->
     IF t.type = "Option" /\ ends[n] = MaxU64 THEN <<>>
     ELSE LET item == SubSeq(elements, Start(t, ends, n) + 1, ends[n])
          IN  IF t.type = "Option" THEN <<item>> ELSE item]

\* Decoder::iter of a recorded type, to its end. The reader of the second
\* sub-buffer is built before the first item is asked for, so its error is the
\* error of the whole buffer.
Iter[t \in Types] ==
  [src \in Seq(Bytes) |->
     LET halves == Halves(src)
         inner == Iter[Inner(t)][halves.it[2]]
         ends == Numbers(Number("UInt", Word), halves.it[1])
     IN  CASE Src(t) = "slice" -> Numbers(t, src)
           [] Src(t) = "BitSlice" -> Ok(Unpack(src))
           [] Src(t) = "OptInSitu" -> Niches(t.subtype, src)
           [] Src(t) = "OptBitVec" ->
                IF ~ halves.ok THEN Err
                ELSE IF ~ inner.ok THEN Err
                ELSE Ok(Masked(Unpack(halves.it[1]), inner.it))
           [] Src(t) = "Seq" ->
                IF ~ halves.ok THEN Err
                ELSE IF ~ ends.ok \/ ~ inner.ok THEN Err
                ELSE Ok(Delimited(t, ends.it, inner.it))]

\* iter::Src: the items of one buffer of a column of type t. The one item of
\* a compact buffer is repeated; of the others no more than count are taken.
Read(t, desc, src) ==
  LET items == Iter[t][src]
  IN  IF ~ items.ok THEN Err
      ELSE Ok(IF desc.kind = "Compact" THEN [n \in 1..desc.count |-> items.it[1]]
              ELSE SubSeq(items.it, 1, desc.count))

\* Items without a single element, whose elements' reader begins with a
\* prefix: the sub-buffer it wants was left out.
Hollow[t \in Types] ==
  [items \in Seq(ItemsOf[t]) |->
     /\ Bare(t).type = "Sequence"
     /\ IF Elements(t, items) = <<>> THEN Nested(Element(t))
        ELSE Hollow[Element(t)][Elements(t, items)]]

=============================================================================
