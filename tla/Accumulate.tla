---------------------------- MODULE Accumulate ----------------------------
(***************************************************************************)
(* The life of one column accumulator: items are pushed, the accumulator   *)
(* is discarded, or it is written as one more segment and a clone, which   *)
(* starts empty, takes its place (accumulate.rs, Dataset::write).          *)
(***************************************************************************)
EXTENDS Buffers

CONSTANTS
  Columns,     \* the layouts the accumulator may have
  MaxItems     \* items pushed and not discarded, in all segments together

ASSUME ColumnsAssumption == Columns \subseteq Layouts

VARIABLES
  layout,      \* the type of the column, fixed by its schema
  buf,         \* the accumulator
  pushed,      \* the items pushed into it since it was empty
  stored,      \* the buffers of the column on disk, in segment order
  rows         \* the items acknowledged as written, one sequence a segment

vars == <<layout, buf, pushed, stored, rows>>

Init ==
  /\ layout \in Columns
  /\ buf = Empty
  /\ pushed = <<>>
  /\ stored = <<>>
  /\ rows = <<>>

PushItem(item) ==
  /\ Len(pushed) + Len(FlattenSeq(rows)) < MaxItems
  /\ buf' = Push(layout, buf, item)
  /\ pushed' = Append(pushed, item)
  /\ UNCHANGED <<layout, stored, rows>>

\* Accumulate::discard; a failed write has the same effect, since it takes
\* the accumulator by value.
Discard ==
  /\ buf # Empty
  /\ buf' = Empty
  /\ pushed' = <<>>
  /\ UNCHANGED <<layout, stored, rows>>

\* Dataset::write; "empty accumulators are ignored".
Write ==
  /\ buf # Empty
  /\ stored' = Append(stored, Store(layout, buf))
  /\ rows' = Append(rows, pushed)
  /\ buf' = Empty
  /\ pushed' = <<>>
  /\ UNCHANGED layout

Next ==
  \/ \E item \in Items(layout) : PushItem(item)
  \/ Discard
  \/ Write

Spec == Init /\ [][Next]_vars

----------------------------------------------------------------------------
(* Properties *)

\* The state of the accumulator is one of the three of the enum, and counts
\* what was pushed.
TypeOK ==
  /\ layout \in Columns
  /\ buf.state \in {"Empty", "Compact", "Many"}
  /\ pushed \in Seq(Items(layout))
  /\ Count(layout, buf) = Len(pushed)
  /\ Len(stored) = Len(rows)

\* A query over the column reads exactly the items acknowledged, in order and
\* bit for bit, whatever states the accumulators went through: the compact
\* run that was upgraded, the dense payload under a mask, the padding bits,
\* the ends around a None.
RoundTrip ==
  \A s \in DOMAIN stored : Decode(layout, stored[s]) = rows[s]

\* A buffer is compact exactly when its items are bit-identical, so that a
\* filter decides a compact buffer by its one item.
CompactExactly ==
  \A s \in DOMAIN stored :
    (stored[s].desc.kind = "Compact") <=> (Cardinality(ToSet(rows[s])) = 1)

\* The first item that is present.
Opening(items) == items[Min({n \in DOMAIN items : items[n] # None})]

\* The statistics of a buffer that does not open with NaN are ordered, and
\* bound every ordered item, however many NaN and None are among the others.
\* A NaN that opens a buffer is its statistics (find in io.rs), although
\* manifest.md says that unordered items are excluded from them.
StatisticsBound ==
  \A s \in DOMAIN stored :
    stored[s].desc.kind = "Detailed" /\ Opening(rows[s]) \in Ordered =>
      LET min == MinOf(stored[s])
          max == MaxOf(stored[s])
      IN  /\ {min, max} \subseteq Ordered
          /\ \A i \in ToSet(rows[s]) \cap Ordered :
               AtMost(min, i) /\ AtMost(i, max)

=============================================================================
