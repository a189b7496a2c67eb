------------------------------ MODULE MCReader ------------------------------
(* A column of integers and two of sequences of sequences, the first of    *)
(* them optional, whose buffers cannot be read when they have no element.  *)
EXTENDS Reader

CONSTANTS A, B, C

Written(layout, items) ==
  Store(layout, FoldLeft(LAMBDA buf, i : Push(layout, buf, i), Empty, items))

ThreeColumns == {A, B, C}
ThreeFields == <<A, B, C>>
ThreeLayouts == (A :> "Vec") @@ (B :> "OptSeq") @@ (C :> "Seq")
TwoPrefixed == {B, C}
TwoSegments == <<2, 1>>
TwoBits == 1..2
TwoRank == [b \in TwoBits |-> b]

\* The buffers of a column, two items in the first segment and one in the
\* second.
ColumnOf(layout, items) ==
  {<<Written(layout, <<i, j>>), Written(layout, <<k>>)>> : i, j, k \in items}

\* Every table is built once: TLC evaluates a definition of its own once, and
\* the value of a constant whenever it is used.
BuiltTables ==
  {(A :> a) @@ (B :> b) @@ (C :> c) :
     a \in {<<Written("Vec", <<1, 2>>), Written("Vec", <<i>>)>> : i \in TwoBits},
     b \in ColumnOf("OptSeq", {None, <<>>, <<1>>}),
     c \in ColumnOf("Seq", {<<>>, <<1>>})}

ThreeTables == BuiltTables

ThreeFilters == (A :> {OneOf({1})}) @@ (B :> {IsSome, IsNone}) @@ (C :> {OneOf({<<1>>})})

BuiltRequests ==
  [joins : [1..2 -> {"and", "or", "xor"}],
   filters : {<<a, b, c>> : a \in {<<>>, <<OneOf({1})>>},
                            b \in {<<>>, <<IsSome>>, <<IsNone>>},
                            c \in {<<>>, <<OneOf({<<1>>})>>}}]

AllRequests == BuiltRequests

=============================================================================
