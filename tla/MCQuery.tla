------------------------------ MODULE MCQuery ------------------------------
(* Every filter against every buffer of three items, in unions two deep;   *)
(* the tables are written by the accumulators of Buffers.tla.              *)
EXTENDS Query

CONSTANTS A, B, NaN

Accumulated(layout, items) ==
  FoldLeft(LAMBDA buf, i : Push(layout, buf, i), Empty, items)

Written(layout, items) == Store(layout, Accumulated(layout, items))

\* The buffers of a column: every sequence of items in the first segment, and
\* one item in the second.
ColumnOf(layout, items, last) ==
  {<<Written(layout, i), Written(layout, <<last>>)>> : i \in [1..3 -> items]}

TwoSegments == <<3, 1>>

Integers3 == 1..3

TwoColumns == {A, B}

\* An optional column of integers and a required one of floats, every buffer
\* of either next to a compact one of the other.
FilterBits == {0, 1, 2, 3, NaN}    \* as floats, 0 and 1 are -0.0 and +0.0
FilterOrdered == 0..3
FilterRank == [b \in FilterOrdered |-> IF b = 0 THEN 1 ELSE b]
FilterLayouts == (A :> "OptInSitu") @@ (B :> "Vec")
Same(layout, item, last) ==
  <<Written(layout, <<item, item, item>>), Written(layout, <<last>>)>>

\* TLC evaluates a definition of its own once, and the value of a constant
\* whenever it is used.
BuiltTables ==
  {(A :> a) @@ (B :> Same("Vec", NaN, 1)) :
     a \in ColumnOf("OptInSitu", Integers3 \cup {None}, 2)}
    \cup {(A :> Same("OptInSitu", None, 2)) @@ (B :> b) :
            b \in ColumnOf("Vec", {0, 1, 2, NaN}, 1)}

FilterTables == BuiltTables

Bounds(at) == {Unbounded} \cup {Included(k) : k \in at} \cup {Excluded(k) : k \in at}
Ranges(at) == {InRange(s, e) : s, e \in Bounds(at)}
Keys == SUBSET Integers3 \ {{}}

BuiltFilters ==
  (A :> Ranges(Integers3) \cup {IsSome, IsNone}
          \cup UNION {{OneOf(k), OneOfSorted(k), NoneOf(k)} : k \in Keys})
    @@ (B :> Ranges({1, 2, NaN}))

AllFilters == BuiltFilters

NaNFilters == (A :> {}) @@ (B :> {OneOf({2})})

=============================================================================
