------------------------------- MODULE Reader -------------------------------
(***************************************************************************)
(* How a struct is read back (msca-derive/src/read.rs): every field is a   *)
(* column with filters of its own, the columns are combined from the left, *)
(* ((first . second) . third), the tree is resolved against one mask as in *)
(* Query.tla, and one stream for each column is built from what is left    *)
(* (query/mod.rs, iter). The streams are then pulled in lockstep, and the  *)
(* items of one pull are the fields of one row.                            *)
(***************************************************************************)
EXTENDS Query

CONSTANTS
  Fields,     \* the columns of the struct, in the order of its fields
  Prefixed,   \* the columns whose elements are read through a prefix
  Requests    \* the combinations and filters asked for

FieldNumbers == DOMAIN Fields

ASSUME FieldsAssumption == Fields \in Seq(Columns) \ {<<>>} /\ IsInjective(Fields)
ASSUME PrefixedAssumption == \A c \in Prefixed : Layout[c] \in Sequential
ASSUME RequestsAssumption ==
  \A q \in Requests :
    /\ q.joins \in [1..Len(Fields) - 1 -> Joins \cup {"and"}]
    /\ DOMAIN q.filters = FieldNumbers
    /\ \A i \in FieldNumbers : q.filters[i] \in Seq(Filters[Fields[i]])

VARIABLES
  request,    \* the combination that is read, fixed
  phase,      \* "open", "select", "stream", "ended" or "failed"
  node,       \* nodes of the tree not opened yet; the last is the root
  leg,        \* the field whose filters are resolved
  applied,    \* how many of them have been
  streams,    \* what each stream yields from the buffers, pulled or not
  rows        \* the outcomes yielded so far

reader == <<request, phase, node, leg, applied, streams, rows>>
readVars == <<vars, reader>>

----------------------------------------------------------------------------
(* Buffers that cannot be read *)

\* Seq leaves out the sub-buffer of the elements when there are none, and the
\* reader of elements that are options or sequences begins with a prefix, so
\* that S::deserialize fails (Hollow in Codec.tla).
Unreadable(c, s) ==
  /\ c \in Prefixed
  /\ \A n \in 1..Counts[s] : ItemAt(c, <<s, n>>) \in {None, <<>>}

\* A filter reads the item of a compact buffer that is not excluded yet.
Readable(c) ==
  \A s \in mask : table[c][s].desc.kind = "Compact" => ~ Unreadable(c, s)

----------------------------------------------------------------------------
(* Selecting *)

ReadInit ==
  /\ Init
  /\ request \in Requests
  /\ phase = "open"
  /\ node = Len(Fields) - 1
  /\ leg = 1
  /\ applied = 0
  /\ streams = <<>>
  /\ rows = <<>>

\* The root is opened first; a conjunction has no mask of its own.
Open ==
  /\ phase = "open"
  /\ node > 0
  /\ IF request.joins[node] = "and" THEN UNCHANGED vars
     ELSE Enter(request.joins[node])
  /\ node' = node - 1
  /\ UNCHANGED <<request, phase, leg, applied, streams, rows>>

Descend ==
  /\ phase = "open"
  /\ node = 0
  /\ phase' = "select"
  /\ UNCHANGED <<vars, request, node, leg, applied, streams, rows>>

Pending == applied < Len(request.filters[leg])
Due == request.filters[leg][applied + 1]

Narrow ==
  /\ phase = "select"
  /\ Pending
  /\ Readable(Fields[leg])
  /\ Test(Fields[leg], Due)
  /\ applied' = applied + 1
  /\ UNCHANGED <<request, phase, node, leg, streams, rows>>

\* "?": nothing is built and the query returns the error.
Fail ==
  /\ phase = "select"
  /\ Pending
  /\ ~ Readable(Fields[leg])
  /\ phase' = "failed"
  /\ UNCHANGED <<vars, request, node, leg, applied, streams, rows>>

\* The column that was resolved is the second leg of its union.
Closing == frames # <<>> /\ Top.leg = 2

\* Mutant: the buffers that the first leg of a union kept are not put back.
CloseReset ==
  /\ phase = "select"
  /\ ~ Pending
  /\ Closing
  /\ frames' = Pop
  /\ mask' = mask
  /\ hits' = Combine(Top.join, Top.first, hits)
  /\ UNCHANGED <<table, tests, reader>>

Close ==
  /\ phase = "select"
  /\ ~ Pending
  /\ Closing
  /\ Leave
  /\ UNCHANGED reader

\* Mutant: the filters of the next column are counted from where those of the
\* last one ended.
AdvanceKeeps ==
  /\ phase = "select"
  /\ ~ Pending
  /\ ~ Closing
  /\ leg < Len(Fields)
  /\ IF request.joins[leg] = "and" THEN UNCHANGED vars ELSE Second
  /\ leg' = leg + 1
  /\ UNCHANGED <<request, phase, node, applied, streams, rows>>

\* What has been resolved is the first leg of the node above it; the second
\* is the next column.
Advance ==
  /\ phase = "select"
  /\ ~ Pending
  /\ ~ Closing
  /\ leg < Len(Fields)
  /\ IF request.joins[leg] = "and" THEN UNCHANGED vars ELSE Second
  /\ leg' = leg + 1
  /\ applied' = 0
  /\ UNCHANGED <<request, phase, node, streams, rows>>

----------------------------------------------------------------------------
(* Streaming *)

\* A structural filter takes the item out of its option, and leaves a slot
\* without an item where there is none; every other filter marks the item.
Slot(i, r) ==
  LET item == ItemAt(Fields[i], r)
      filters == ToSet(request.filters[i])
  IN  [at |-> r,
       outcome |-> IF IsSome \in filters /\ item = None THEN "Absent"
                   ELSE IF \A f \in filters : Passes(f, item) THEN "Include"
                   ELSE "Exclude"]

\* iter::Src: the items of a buffer, or its error once.
Slots(i, s) ==
  IF Unreadable(Fields[i], s) THEN <<[at |-> <<s, 0>>, outcome |-> "Error"]>>
  ELSE [n \in 1..Counts[s] |-> Slot(i, <<s, n>>)]

\* Mutant: a stream reads the buffers its column would keep by itself.
RetainedOwn(i) ==
  LET Own(s) == \A f \in ToSet(request.filters[i]) :
                   Keeps(f, Layout[Fields[i]], table[Fields[i]][s])
  IN  {s \in Segments : Own(s)}

\* The buffers a stream reads are those the mask retains.
Retained(i) == mask

\* The parts in S, one after the other.
InOrder(S, parts) ==
  LET upto[s \in 0..Len(parts)] ==
        IF s = 0 THEN <<>>
        ELSE IF s \in S THEN upto[s - 1] \o parts[s]
        ELSE upto[s - 1]
  IN  upto[Len(parts)]

\* They are read in the order of the file.
Stream(i) == InOrder(Retained(i), [s \in Segments |-> Slots(i, s)])

\* One stream is built for each field, all of them from the same mask.
Build ==
  /\ phase = "select"
  /\ ~ Pending
  /\ ~ Closing
  /\ leg = Len(Fields)
  /\ phase' = "stream"
  /\ streams' = [i \in FieldNumbers |-> Stream(i)]
  /\ UNCHANGED <<vars, request, node, leg, applied, rows>>

Judge(join, a, b) ==
  CASE join = "and" -> a /\ b
    [] join = "or" -> a \/ b
    [] join = "xor" -> a # b

\* Combine::combine, from the innermost pair to the root.
Verdict(keeps) ==
  LET upto[i \in FieldNumbers] ==
        IF i = 1 THEN keeps[1] ELSE Judge(request.joins[i - 1], upto[i - 1], keeps[i])
  IN  upto[Len(Fields)]

\* Mutant: a slot without an item of any but the first field is an exclusion.
RowFirst(slots) ==
  LET keeps == [i \in FieldNumbers |-> slots[i].outcome = "Include"]
  IN  IF slots[1].outcome \in {"Error", "Absent"}
      THEN [outcome |-> slots[1].outcome]
      ELSE [outcome |-> IF Verdict(keeps) THEN "Include" ELSE "Exclude",
            from |-> [i \in FieldNumbers |-> slots[i].at]]

\* The first field that has no item decides; otherwise the verdict does.
Row(slots) ==
  LET keeps == [i \in FieldNumbers |-> slots[i].outcome = "Include"]
      without == {i \in FieldNumbers : slots[i].outcome \in {"Error", "Absent"}}
      first == CHOOSE i \in without : \A j \in without : i <= j
  IN  IF without # {} THEN [outcome |-> slots[first].outcome]
      ELSE [outcome |-> IF Verdict(keeps) THEN "Include" ELSE "Exclude",
            from |-> [i \in FieldNumbers |-> slots[i].at]]

\* Every stream is pulled before any outcome is looked at.
Pull ==
  /\ phase = "stream"
  /\ \A i \in FieldNumbers : Len(rows) < Len(streams[i])
  /\ rows' = Append(rows, Row([i \in FieldNumbers |-> streams[i][Len(rows) + 1]]))
  /\ UNCHANGED <<vars, request, phase, node, leg, applied, streams>>

\* The end of any stream is the end of all.
End ==
  /\ phase = "stream"
  /\ \E i \in FieldNumbers : Len(rows) = Len(streams[i])
  /\ phase' = "ended"
  /\ UNCHANGED <<vars, request, node, leg, applied, streams, rows>>

ReadNext ==
  \/ Open \/ Descend
  \/ Narrow \/ Fail \/ Close \/ Advance \/ Build
  \/ Pull \/ End

ReadSpec == ReadInit /\ [][ReadNext]_readVars

----------------------------------------------------------------------------
(* Properties *)

Outcomes ==
  [outcome : {"Include", "Exclude"}, from : [FieldNumbers -> Rows]]
    \cup [outcome : {"Error", "Absent"}]

\* The phases go hand in hand with the tree: it is open until it has been
\* descended, and resolved when there are rows.
ReaderTypeOK ==
  /\ TypeOK
  /\ request \in Requests
  /\ phase \in {"open", "select", "stream", "ended", "failed"}
  /\ node \in 0..Len(Fields) - 1
  /\ leg \in FieldNumbers
  /\ applied \in 0..Len(request.filters[leg])
  /\ phase # "open" => node = 0
  /\ phase \in {"stream", "ended"} => leg = Len(Fields) /\ frames = <<>>
  /\ rows \in Seq(Outcomes)

\* No buffer that holds a row of the result is left out of the streams
\* (Query.tla's MaskSound once the whole tree has been resolved).
NothingPruned == phase \in {"stream", "ended"} => SegmentsOf(hits) \subseteq mask

\* The slot that came n-th from a field before the one whose slot is an
\* error had no item, and hid that error from the caller.
Concealed(n) ==
  \E i, j \in FieldNumbers :
    i < j /\ streams[i][n].outcome = "Absent" /\ streams[j][n].outcome = "Error"

Warned(n) == \E m \in 1..n : rows[m].outcome = "Error" \/ Concealed(m)

\* The fields of a row are items of one row, up to the first error.
RowsWhole ==
  \A n \in DOMAIN rows :
    rows[n].outcome \in {"Include", "Exclude"} /\ ~ Warned(n) =>
      \A i, j \in FieldNumbers : rows[n].from[i] = rows[n].from[j]

\* A row that no structural filter leaves without a field.
Whole(r) == \A i \in FieldNumbers : Slot(i, r).outcome # "Absent"

\* The order of the rows in the file.
Before(r, q) == r[1] < q[1] \/ (r[1] = q[1] /\ r[2] < q[2])

\* A read that ends without an error has yielded exactly the rows that pass
\* the filters, each once and in the order of the file, save those that a
\* structural filter left without a field.
ReadExact ==
  phase = "ended" /\ ~ Warned(Len(rows)) =>
    LET included == {n \in DOMAIN rows : rows[n].outcome = "Include"}
    IN  /\ {rows[n].from[1] : n \in included} = {r \in hits : Whole(r)}
        /\ \A m, n \in included : m < n => Before(rows[m].from[1], rows[n].from[1])

=============================================================================
