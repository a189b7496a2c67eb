------------------------------- MODULE Query -------------------------------
(***************************************************************************)
(* How a query decides which buffers to read (query/mask.rs): a tree of    *)
(* filters, conjunctions and unions is resolved depth first against one    *)
(* mask, which has a bit for each data segment. Filters clear bits on what *)
(* the manifest and the compact buffers say; only the segments left are    *)
(* read and their items filtered one by one (query/mod.rs, iter).          *)
(*                                                                         *)
(* A node that is being resolved is a frame; a leg of a union is any       *)
(* number of filters and unions, hence every tree is some behaviour.       *)
(***************************************************************************)
EXTENDS Buffers

CONSTANTS
  Columns,    \* the columns of the schema
  Layout,     \* the accumulator of each
  Counts,     \* the number of rows in each segment
  Tables,     \* the stored buffers, [Columns -> sequence over the segments]
  Filters,    \* the filters that the type of each column admits
  Joins,      \* the unions the query may use, among "or" and "xor"
  MaxTests,   \* filters in the whole tree
  MaxDepth    \* nesting of unions

Segments == DOMAIN Counts

\* The place of an item in a column: the items of a row have the same.
Rows == UNION {{s} \X (1..Counts[s]) : s \in Segments}

Included(bits) == [bound |-> "Included", at |-> bits]
Excluded(bits) == [bound |-> "Excluded", at |-> bits]
Unbounded == [bound |-> "Unbounded"]

\* Filters. "one_of" stands for BitMatch, OneOf, OneOfSet and SemiJoin, which
\* test one key or several alike; "none_of" for AntiJoin and for any closure,
\* which no statistic decides.
InRange(start, end) == [op |-> "range", start |-> start, end |-> end]
OneOf(keys) == [op |-> "one_of", keys |-> keys]
OneOfSorted(keys) == [op |-> "one_of_sorted", keys |-> keys]
NoneOf(keys) == [op |-> "none_of", keys |-> keys]
IsSome == [op |-> "is_some"]
IsNone == [op |-> "is_none"]

Keyed == {"one_of", "one_of_sorted"}
Bound == {Unbounded} \cup {Included(b) : b \in Bits} \cup {Excluded(b) : b \in Bits}

IsFilter(f) ==
  \/ f \in {IsSome, IsNone}
  \/ f \in {InRange(start, end) : start, end \in Bound}
  \/ f.op \in Keyed \cup {"none_of"} /\ IsFiniteSet(f.keys) /\ None \notin f.keys

ASSUME CountsAssumption == Counts \in Seq(Nat \ {0})
ASSUME LayoutAssumption == Layout \in [Columns -> Layouts]

\* What AccumulateProofs establishes of the buffers of a column on disk.
ASSUME TablesAssumption ==
  \A t \in Tables, c \in Columns, s \in Segments :
    /\ DOMAIN Decode(Layout[c], t[c][s]) = 1..Counts[s]
    /\ t[c][s].desc.kind = "Detailed" => Bounded(Layout[c], t[c][s])
ASSUME FiltersAssumption == \A c \in Columns : \A f \in Filters[c] : IsFilter(f)
ASSUME JoinsAssumption == Joins \subseteq {"or", "xor"}
ASSUME BoundsAssumption == MaxTests \in Nat /\ MaxDepth \in Nat

VARIABLES
  table,      \* the buffers of the queried schema, fixed
  mask,       \* the segments not excluded so far
  hits,       \* the rows that pass the filters of the tree so far
  frames,     \* the unions being resolved, outermost first
  tests       \* the number of filters resolved

vars == <<table, mask, hits, frames, tests>>

----------------------------------------------------------------------------
(* One filter against one buffer, and against one item                     *)

\* RangeBounds::contains
Within(f, item) ==
  /\ CASE f.start.bound = "Included" -> AtMost(f.start.at, item)
       [] f.start.bound = "Excluded" -> Less(f.start.at, item)
       [] f.start.bound = "Unbounded" -> TRUE
  /\ CASE f.end.bound = "Included" -> AtMost(item, f.end.at)
       [] f.end.bound = "Excluded" -> Less(item, f.end.at)
       [] f.end.bound = "Unbounded" -> TRUE

\* Evaluate: a structural test sees the option, every other filter the item
\* in it, and an absent item passes none of those.
Passes(f, item) ==
  CASE f.op = "is_some" -> item # None
    [] f.op = "is_none" -> item = None
    [] f.op = "range" -> item # None /\ Within(f, item)
    [] f.op \in Keyed -> item \in f.keys
    [] f.op = "none_of" -> item # None /\ item \notin f.keys

\* Mutant: every bound is taken as one that excludes its end.
DisjointClosed(min, max, f) ==
  \/ f.end.bound # "Unbounded" /\ AtMost(f.end.at, min)
  \/ f.start.bound # "Unbounded" /\ AtMost(max, f.start.at)

\* Buffer::disjoint
Disjoint(min, max, f) ==
  \/ f.end.bound = "Included" /\ Greater(min, f.end.at)
  \/ f.end.bound = "Excluded" /\ AtMost(f.end.at, min)
  \/ f.start.bound = "Included" /\ Less(max, f.start.at)
  \/ f.start.bound = "Excluded" /\ AtMost(max, f.start.at)

\* Whether the statistics leave room for an item that passes. Sorted keys are
\* bisected twice (partition_point): those below the minimum, exclusive, and
\* those up to the maximum, inclusive.
Possible(f, min, max) ==
  CASE f.op = "range" -> ~ Disjoint(min, max, f)
    [] f.op = "one_of" -> \E k \in f.keys : AtMost(min, k) /\ AtMost(k, max)
    [] f.op = "one_of_sorted" ->
         Cardinality({k \in f.keys : Less(k, min)})
           < Cardinality({k \in f.keys : AtMost(k, max)})
    [] OTHER -> TRUE

\* Mutant: a compact buffer, like a basic one, is left to the item filters.
KeepsCompact(f, layout, stored) ==
  stored.desc.kind = "Detailed" => Possible(f, MinOf(stored), MaxOf(stored))

\* Exclude::with_item and with_min_max: the test of one buffer.
Keeps(f, layout, stored) ==
  CASE stored.desc.kind = "Compact" -> Passes(f, DecodeOne(layout, stored.body))
    [] stored.desc.kind = "Detailed" -> Possible(f, MinOf(stored), MaxOf(stored))
    [] OTHER -> TRUE

ItemAt(c, r) == Decode(Layout[c], table[c][r[1]])[r[2]]

----------------------------------------------------------------------------
(* Resolving the tree *)

\* Mutant: the mask has one bit more than there are buffers.
InitWide ==
  /\ table \in Tables
  /\ mask = 1..(Len(Counts) + 1)
  /\ hits = Rows
  /\ frames = <<>>
  /\ tests = 0

Init ==
  /\ table \in Tables
  /\ mask = Segments
  /\ hits = Rows
  /\ frames = <<>>
  /\ tests = 0

\* A filter tests the buffers not yet excluded (Src::try_exclude), and later
\* every item of the buffers that are read.
Test(c, f) ==
  /\ tests < MaxTests
  /\ mask' = {s \in mask : Keeps(f, Layout[c], table[c][s])}
  /\ hits' = {r \in hits : Passes(f, ItemAt(c, r))}
  /\ tests' = tests + 1
  /\ UNCHANGED <<table, frames>>

Top == frames[Len(frames)]
Pop == SubSeq(frames, 1, Len(frames) - 1)

\* The first leg works on a copy of the mask.
Enter(join) ==
  /\ Len(frames) < MaxDepth
  /\ frames' = Append(frames, [join |-> join, leg |-> 1, offered |-> mask,
                               base |-> hits, kept |-> {}, first |-> {}])
  /\ UNCHANGED <<table, mask, hits, tests>>

\* Mutant: the second leg is offered what the first was.
OfferAll(offered, kept) == offered

\* Mutant: the second leg is offered every buffer the first did not keep,
\* those excluded before the union among them.
OfferComplement(offered, kept) == Segments \ kept

\* mask ^= other: the second leg is offered what the first excluded.
Offer(offered, kept) == (offered \ kept) \cup (kept \ offered)

Second ==
  /\ frames # <<>>
  /\ Top.leg = 1
  /\ frames' = Append(Pop, [Top EXCEPT !.leg = 2, !.kept = mask, !.first = hits])
  /\ mask' = Offer(Top.offered, mask)
  /\ hits' = Top.base
  /\ UNCHANGED <<table, tests>>

\* A row passes a Disjunct on either leg, an Adjunct on exactly one.
Combine(join, first, second) ==
  IF join = "or" THEN first \cup second
  ELSE (first \ second) \cup (second \ first)

\* Mutant: the buffers the first leg kept are not put back.
LeaveForgets ==
  /\ frames # <<>>
  /\ Top.leg = 2
  /\ frames' = Pop
  /\ hits' = Combine(Top.join, Top.first, hits)
  /\ UNCHANGED <<table, mask, tests>>

\* mask |= other; an Adjunct keeps the same buffers as a Disjunct.
Leave ==
  /\ frames # <<>>
  /\ Top.leg = 2
  /\ frames' = Pop
  /\ mask' = mask \cup Top.kept
  /\ hits' = Combine(Top.join, Top.first, hits)
  /\ UNCHANGED <<table, tests>>

Next ==
  \/ \E c \in Columns : \E f \in Filters[c] : Test(c, f)
  \/ \E join \in Joins : Enter(join)
  \/ Second
  \/ Leave

Spec == Init /\ [][Next]_vars

----------------------------------------------------------------------------
(* Properties *)

Frame == [join : Joins, leg : {1, 2}, offered : SUBSET Segments,
          base : SUBSET Rows, kept : SUBSET Segments, first : SUBSET Rows]

\* The mask is positional over the segments and the frames are well nested.
TypeOK ==
  /\ table \in Tables
  /\ mask \in SUBSET Segments
  /\ hits \in SUBSET Rows
  /\ frames \in Seq(Frame)
  /\ tests \in Nat

SegmentsOf(rows) == {r[1] : r \in rows}

\* What the first legs of the unions numbered up to n have kept.
Kept(n) == UNION {frames[i].kept : i \in 1..n}

\* No buffer that holds a row of the result is excluded: "provably disjoint
\* from the requested results set". Within the second leg of a union the
\* buffers that the first leg kept are not in the mask, but not lost either.
MaskSound == SegmentsOf(hits) \subseteq mask \cup Kept(Len(frames))

\* "Without resurrecting a buffer an enclosing node cleared first": within a
\* union the mask stays below what the union was offered.
Subtractive ==
  \A i \in 1..Len(frames) : mask \cup frames[i].kept \subseteq frames[i].offered

\* The legs of a union share the work: no buffer is offered to the second
\* that the first has kept.
LegsDisjoint == \A i \in 1..Len(frames) : mask \cap frames[i].kept = {}

\* Compact buffers are decided before they are read: without "xor", a segment
\* whose buffers are all compact is retained exactly if its rows pass.
CompactDecided ==
  frames = <<>> =>
    \A s \in Segments :
      (\A c \in Columns : table[c][s].desc.kind = "Compact") =>
        (s \in mask <=> s \in SegmentsOf(hits))

=============================================================================
