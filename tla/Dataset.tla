------------------------------- MODULE Dataset -------------------------------
(***************************************************************************)
(* A dataset as its caller sees it (dataset.rs), down to the bytes: row    *)
(* types are registered, rows are pushed into accumulators and written as  *)
(* data segments, or interned, and binary payloads are stored. A write may *)
(* fail in each phase of File::write; WriteCycle.tla has its steps one by  *)
(* one, here a call is one step, as `&mut self` makes it for the caller.   *)
(*                                                                         *)
(* A row type is a sequence of fields in the order of their declaration, a *)
(* row the sequence of its items in that order; field names are numbers.   *)
(***************************************************************************)
EXTENDS Codec, SequencesExt

CONSTANTS
  Names,        \* the names of schemas
  Worlds,       \* the row types the callers use for each name, per behaviour
  Rows,         \* the rows of each row type
  Payloads,     \* the binary payloads, in order; payload i is named i
  IndexTypes,   \* the largest value of each type of index used to intern
  MaxItems,     \* items in one call that interns
  MaxRows,      \* rows of each schema, written or not
  MaxSegments,  \* segments in the file
  MaxFaults     \* writes that fail

ASSUME BoundsAssumption ==
  /\ Worlds \subseteq [Names -> SUBSET DOMAIN Rows]
  /\ IndexTypes \subseteq Nat
  /\ MaxRows \in [Names -> Nat]
  /\ {MaxItems, MaxSegments, MaxFaults} \subseteq Nat

\* The fields of a row type have names of their own.
ASSUME RowsAssumption ==
  \A rt \in DOMAIN Rows :
    /\ rt \in Seq([field : Nat, type : Types]) /\ rt # <<>>
    /\ \A i, j \in DOMAIN rt : rt[i].field = rt[j].field => i = j
    /\ \A row \in Rows[rt] :
         /\ DOMAIN row = DOMAIN rt
         /\ \A k \in DOMAIN rt : row[k] \in ItemsOf[rt[k].type]

ASSUME PayloadsAssumption == Payloads \in Seq(Seq(Bytes))

\* The variant of a segment is one byte.
ASSUME VariantAssumption == 1..3 \subseteq Bytes

VARIABLES
  world,    \* the row types in use
  db,       \* the segments in the file, the map and the manifest in memory
  accs,     \* an accumulator for each name, once its schema was asked for
  stored,   \* the batches of rows of each schema the manifest lists, in order
  granted   \* the indices returned for interned items

vars == <<world, db, accs, stored, granted>>

NoAcc == [rows |-> <<>>, open |-> FALSE]

----------------------------------------------------------------------------
(* Row types *)

\* The order of a BTreeMap: what has n before it is in place n + 1.
Sorted(rt) ==
  [k \in DOMAIN rt |-> CHOOSE i \in DOMAIN rt :
     Cardinality({j \in DOMAIN rt : rt[j].field < rt[i].field}) = k - 1]

\* Mutant: columns in the order of their declaration.
ColumnsDeclared(rt) == [k \in DOMAIN rt |-> k]

\* crate::fields sorts the fields by name, as the BTreeMap of the manifest
\* does: buffers and columns are matched by position.
Columns(rt) == Sorted(rt)

\* The columns of a schema: a BTreeMap.
Schema(rt) ==
  [k \in DOMAIN rt |-> [field |-> rt[Sorted(rt)[k]].field,
                        ty |-> Unfold[rt[Sorted(rt)[k]].type], buffers |-> {}]]

\* One column of a few rows.
Column(rows, k) == [n \in DOMAIN rows |-> rows[n][k]]

----------------------------------------------------------------------------
(* Segments: a variant, the size of what follows, the body, a checksum     *)

HEADER == 3 * Word              \* of the file; the memory map begins after it
SegmentHeader == 1 + Word
DataHeader == SegmentHeader + 2 * Word
Checksum == [i \in 1..Word |-> Byte - 1]

\* The offset in the file of the next segment.
End(d) == HEADER + Len(d.file)

\* Mutant: the body follows the metadata at once.
BodyUnaligned(offset, header) == offset + header

\* Where the body of a segment begins, on an absolute 64-bit boundary.
BodyAt(offset, header) == Align(offset + header)

Segment(variant, size, meta, offset, body) ==
  LET head == <<variant>> \o ToBytes(size, Word) \o meta
      pad == BodyAt(offset, Len(head)) - (offset + Len(head))
  IN  head \o Zeros(pad) \o body \o Checksum

\* Schema::wrap; schemas are not aligned. Their CBOR is opaque.
SchemaSegment(rt) ==
  LET body == Zeros(2 * Len(rt) + 1)
  IN  <<1>> \o ToBytes(Len(body), Word) \o body \o Checksum

\* The column buffers of an accumulator, each behind its size.
ColumnBuffers(rt, rows) ==
  Concat([k \in DOMAIN rt |->
    SizedBuf(Body(rt[Columns(rt)[k]].type, Column(rows, Columns(rt)[k])))])

\* Mutant: the size leaves out the padding.
DataSegmentTight(d, rt, rows, schema) ==
  LET body == ColumnBuffers(rt, rows)
  IN  Segment(2, 2 * Word + Len(body),
              ToBytes(schema, Word) \o ToBytes(Len(rows), Word), End(d), body)

\* Accumulator::wrap: the size counts the metadata and the padding.
DataSegment(d, rt, rows, schema) ==
  LET body == ColumnBuffers(rt, rows)
      pad == BodyAt(End(d), DataHeader) - (End(d) + DataHeader)
  IN  Segment(2, 2 * Word + pad + Len(body),
              ToBytes(schema, Word) \o ToBytes(Len(rows), Word), End(d), body)

\* Bin::wrap: the size is the one of the payload alone.
BinSegment(d, payload) == Segment(3, Len(payload), <<>>, End(d), payload)

----------------------------------------------------------------------------
(* The manifest *)

\* BTreeMap::insert
Put(map, key, value) ==
  [k \in DOMAIN map \cup {key} |-> IF k = key THEN value ELSE map[k]]

\* Mutant: buffers are told apart by their size.
InsertSized(buffers, desc) ==
  IF \E b \in buffers : b.buffer.size = desc.buffer.size THEN buffers
  ELSE buffers \cup {desc}

\* BTreeSet::insert; buffers are told apart by their sector.
Insert(buffers, desc) ==
  IF \E b \in buffers : b.buffer = desc.buffer THEN buffers
  ELSE buffers \cup {desc}

\* Register::register of one buffer, which follows what r has registered.
Registering(r, k, type, items) ==
  LET sector == [offset |-> r.offset + Word, size |-> Len(Body(type, items))]
  IN  [offset |-> Align(sector.offset + sector.size),
       columns |-> [r.columns EXCEPT ![k].buffers =
                      Insert(@, Describe(type, items, sector))]]

\* Accumulator::register: buffer after buffer, in step with the columns.
Register(d, columns, rt, rows) ==
  LET registered[k \in 0..Len(rt)] ==
        IF k = 0 THEN [offset |-> BodyAt(End(d), DataHeader) - HEADER, columns |-> columns]
        ELSE Registering(registered[k - 1], k, rt[Columns(rt)[k]].type,
                         Column(rows, Columns(rt)[k]))
  IN  registered[Len(rt)].columns

\* Ordered by sector.
InOrder(buffers) ==
  LET Before(a, b) == \/ a.buffer.offset < b.buffer.offset
                      \/ a.buffer.offset = b.buffer.offset /\ a.buffer.size < b.buffer.size
  IN  [n \in 1..Cardinality(buffers) |-> CHOOSE b \in buffers :
         Cardinality({a \in buffers : Before(a, b)}) = n - 1]

\* Schema::count: the items of the first column.
Count(columns) ==
  LET buffers == InOrder(columns[1].buffers)
      sum[n \in 0..Len(buffers)] == IF n = 0 THEN 0 ELSE sum[n - 1] + buffers[n].count
  IN  sum[Len(buffers)]

EndOf(sector) == sector.offset + sector.size

\* Every sector the manifest lists in the memory map.
Sectors(d) ==
  LET columns == UNION {ToSet(d.schemas[name].columns) : name \in DOMAIN d.schemas}
  IN  (UNION {{b.buffer : b \in c.buffers} : c \in columns})
        \cup {d.bins[i] : i \in DOMAIN d.bins}

\* The manifest lists a segment that is not in the file. The next commit would
\* put other bytes there: that is the finding of WriteCycle.tla (CatalogSound),
\* and such a dataset is only read from here.
Phantom(d) == \E sector \in Sectors(d) : EndOf(sector) > Len(d.file)

----------------------------------------------------------------------------
(* Calls: the outcomes a call may have, [result, db] *)

\* File::write. The segment is registered once it is written, and is in the
\* file for good once the next manifest is; an error in a later phase undoes
\* neither. Dataset::write renews the map, Dataset::schema does not.
Commit(d, variant, segment, registered) ==
  LET longer == [registered EXCEPT
                   !.file = @ \o segment,
                   !.segments = Append(@, [variant |-> variant, at |-> Len(d.file)])]
      Failed(x, phase) == [result |-> phase, db |-> [x EXCEPT !.faults = @ + 1]]
  IN  IF Phantom(d) \/ Len(d.segments) = MaxSegments THEN {}
      ELSE {[result |-> "ok",
             db |-> [longer EXCEPT !.mapped =
                       IF variant = 1 THEN @ ELSE Len(longer.file)]]}
        \cup IF d.faults = MaxFaults THEN {}
             ELSE {Failed(d, "segment"), Failed(registered, "manifest"),
                   Failed(longer, "header")}

\* Mutant: a schema is reused whatever its types.
SameTypesAny(columns, rt) == TRUE

\* Schema::occupied: columns are equal when their types are.
SameTypes(columns, rt) ==
  [k \in DOMAIN columns |-> [columns[k] EXCEPT !.buffers = {}]] = Schema(rt)

\* Dataset::schema
SchemaCall(d, name, rt) ==
  IF name \in DOMAIN d.schemas
  THEN {[result |-> IF SameTypes(d.schemas[name].columns, rt) THEN "ok" ELSE "collision",
         db |-> d]}
  ELSE Commit(d, 1, SchemaSegment(rt),
              [d EXCEPT !.schemas =
                 Put(@, name, [at |-> End(d), columns |-> Schema(rt)])])

\* Dataset::write of an accumulator
WriteCall(d, name, rt, rows, at) ==
  Commit(d, 2, DataSegment(d, rt, rows, at),
         [d EXCEPT !.schemas[name].columns = Register(d, @, rt, rows)])

----------------------------------------------------------------------------
(* Reading *)

\* Sector::slice and iter::Src: one buffer, or an error.
ReadBuffer(d, ty, desc) ==
  IF EndOf(desc.buffer) > d.mapped THEN Err
  ELSE Read(ty, desc, SubSeq(d.file, desc.buffer.offset + 1, EndOf(desc.buffer)))

ReadColumn(d, c) ==
  LET buffers == InOrder(c.buffers)
  IN  [i \in DOMAIN buffers |-> ReadBuffer(d, c.ty, buffers[i])]

\* The rows of columns that are read buffer by buffer, in lockstep.
Zipped(read) ==
  LET items == [k \in DOMAIN read |->
                  Concat([i \in DOMAIN read[k] |-> read[k][i].it])]
  IN  IF \E k \in DOMAIN read : \E i \in DOMAIN read[k] : ~ read[k][i].ok THEN Err
      ELSE Ok([n \in DOMAIN items[1] |-> [k \in DOMAIN items |-> items[k][n]]])

\* Query::iter up to its first error.
ReadRows(d, columns) == Zipped([k \in DOMAIN columns |-> ReadColumn(d, columns[k])])

----------------------------------------------------------------------------
(* Interning *)

FirstIndex(rows, row) ==
  CHOOSE i \in DOMAIN rows : rows[i] = row /\ \A j \in 1..i - 1 : rows[j] # row

\* Mutant: an item is new each time it is given.
NewItemsEach(old, items) == SelectSeq(items, LAMBDA item : item \notin ToSet(old))

\* The items that the map does not hold yet, in the order they are given.
NewItems(old, items) ==
  LET new[n \in 0..Len(items)] ==
        IF n = 0 THEN <<>>
        ELSE IF items[n] \in ToSet(old) \cup ToSet(new[n - 1]) THEN new[n - 1]
        ELSE Append(new[n - 1], items[n])
  IN  new[Len(items)]

\* Mutant: the next index is the number of distinct items.
FirstFreeDistinct(columns, old) == Cardinality(ToSet(old))

\* "Initial number of items (includes duplicates)".
FirstFree(columns, old) == Count(columns)

\* Query::intern numbers the items in the order they are read, the first of
\* equal ones wins; Dataset::insert goes on where they end.
IndexOf(old, new, next, item) ==
  IF item \in ToSet(old) THEN FirstIndex(old, item) - 1
  ELSE next + FirstIndex(new, item) - 1

----------------------------------------------------------------------------
(* Actions *)

Batch(rows, acked, interned) ==
  [rows |-> rows, acked |-> acked, interned |-> interned]

\* What is read back of a row: its items in column order, options flattened.
Plain(rt, row) ==
  [k \in DOMAIN rt |-> Flattened[rt[Columns(rt)[k]].type][row[Columns(rt)[k]]]]

PlainRows(rt, rows) == [n \in DOMAIN rows |-> Plain(rt, rows[n])]

RowsOf(batches) == Concat([b \in DOMAIN batches |-> batches[b].rows])

\* How many more rows a schema may get.
Room(name) ==
  MaxRows[name] - Len(RowsOf(stored[name])) - Len(accs[name].rows)

Init ==
  /\ world \in Worlds
  /\ db = [file |-> <<>>, segments |-> <<>>, mapped |-> 0,
           schemas |-> <<>>, bins |-> <<>>, faults |-> 0]
  /\ accs = [name \in Names |-> NoAcc]
  /\ stored = [name \in Names |-> <<>>]
  /\ granted = {}

\* Dataset::schema and the accumulator it returns.
GetSchema(name, rt) ==
  /\ ~ accs[name].open
  /\ \E outcome \in SchemaCall(db, name, rt) :
       /\ db' = outcome.db
       /\ accs' = IF outcome.result # "ok" THEN accs
                  ELSE [accs EXCEPT ![name] =
                          [rows |-> <<>>, open |-> TRUE, rt |-> rt,
                           at |-> outcome.db.schemas[name].at]]
  /\ UNCHANGED <<world, stored, granted>>

Push(name, row) ==
  /\ Room(name) > 0
  /\ accs' = [accs EXCEPT ![name].rows = Append(@, row)]
  /\ UNCHANGED <<world, db, stored, granted>>

Discard(name) ==
  /\ accs[name].rows # <<>>
  /\ accs' = [accs EXCEPT ![name].rows = <<>>]
  /\ UNCHANGED <<world, db, stored, granted>>

\* Dataset::write; the accumulator is consumed, its clone is empty. Nothing
\* happens if it has no rows.
Write(name) ==
  /\ accs[name].rows # <<>>
  /\ LET acc == accs[name] IN
     \E outcome \in WriteCall(db, name, acc.rt, acc.rows, acc.at) :
       /\ db' = outcome.db
       /\ stored' = IF outcome.result = "segment" THEN stored
                    ELSE [stored EXCEPT ![name] = Append(@,
                            Batch(PlainRows(acc.rt, acc.rows), outcome.result = "ok", FALSE))]
       /\ accs' = [accs EXCEPT ![name].rows = <<>>]
  /\ UNCHANGED <<world, granted>>

\* Only Eq + Hash rows whose type has a reader can be interned.
Internable(rt) ==
  \A k \in DOMAIN rt :
    /\ Unfold[rt[k].type] = rt[k].type
    /\ ~ (Bare(rt[k].type).type = "Number" /\ Bare(rt[k].type).kind = "Float")

\* The rest of get_or_insert over the rows that are stored: [db, answers,
\* batches]. Nothing is written unless an item is new.
Interned(d, name, rt, items, old, max) ==
  LET given == [i \in DOMAIN items |-> Plain(rt, items[i])]
      new == NewItems(old, given)
      next == FirstFree(d.schemas[name].columns, old)
      fresh == [i \in DOMAIN new |-> items[FirstIndex(given, new[i])]]
      answers == {[name |-> name, item |-> item,
                   index |-> IndexOf(old, new, next, item)] : item \in ToSet(given)}
      nothing == [db |-> d, answers |-> {}, batches |-> <<>>]
      Written(o) == [db |-> o.db,
                     answers |-> IF o.result = "ok" THEN answers ELSE {},
                     batches |-> IF o.result = "segment" THEN <<>>
                                 ELSE <<Batch(new, o.result = "ok", TRUE)>>]
  IN  IF Len(old) > max + 1 \/ (new # <<>> /\ next + Len(new) - 1 > max) THEN {nothing}
      ELSE IF new = <<>> THEN {[nothing EXCEPT !.answers = answers]}
      ELSE {Written(o) : o \in WriteCall(d, name, rt, fresh, d.schemas[name].at)}

\* What was opened is read, to its first error.
Reading(opened, name, rt, items, read, max) ==
  IF opened.result # "ok" \/ ~ read.ok
  THEN {[db |-> opened.db, answers |-> {}, batches |-> <<>>]}
  ELSE Interned(opened.db, name, rt, items, read.it, max)

\* Dataset::get_or_insert. Whatever fails, nothing is returned.
GetOrInsert(name, rt, items, max) ==
  /\ \E opened \in SchemaCall(db, name, rt) :
     \E outcome \in Reading(opened, name, rt, items,
                            ReadRows(opened.db, opened.db.schemas[name].columns), max) :
       /\ db' = outcome.db
       /\ granted' = granted \cup outcome.answers
       /\ stored' = [stored EXCEPT ![name] = @ \o outcome.batches]
  /\ UNCHANGED <<world, accs>>

\* Dataset::write of a binary payload, with a name of its own.
WriteBin(i) ==
  /\ i \notin DOMAIN db.bins
  /\ LET sector == [offset |-> BodyAt(End(db), SegmentHeader) - HEADER,
                    size |-> Len(Payloads[i])] IN
     \E outcome \in Commit(db, 3, BinSegment(db, Payloads[i]),
                           [db EXCEPT !.bins = Put(@, i, sector)]) :
       db' = outcome.db
  /\ UNCHANGED <<world, accs, stored, granted>>

Next ==
  \/ \E name \in Names :
       \/ \E rt \in world[name] : GetSchema(name, rt)
       \/ accs[name].open /\ \E row \in Rows[accs[name].rt] : Push(name, row)
       \/ Discard(name)
       \/ Write(name)
       \/ \E rt \in world[name], max \in IndexTypes :
            /\ Internable(rt)
            /\ \E items \in BoundedSeq(Rows[rt], Min({MaxItems, Room(name)})) :
                 GetOrInsert(name, rt, items, max)
  \/ \E i \in DOMAIN Payloads : WriteBin(i)

Spec == Init /\ [][Next]_vars

----------------------------------------------------------------------------
(* Properties *)

TypeOK ==
  /\ world \in Worlds
  /\ db.mapped \in 0..Len(db.file)
  /\ db.file \in Seq(0..Byte - 1)
  /\ DOMAIN db.schemas \subseteq Names
  /\ db.faults \in 0..MaxFaults
  /\ \A name \in Names :
       /\ stored[name] # <<>> \/ accs[name].open => name \in DOMAIN db.schemas
       /\ \A c \in IF name \in DOMAIN db.schemas THEN ToSet(db.schemas[name].columns) ELSE {} :
            Cardinality(c.buffers) = Len(stored[name])

\* The buffers of a schema: [name, k, i], column k of its batch i.
Placed ==
  UNION {{[name |-> name, k |-> k, i |-> i] :
            k \in DOMAIN db.schemas[name].columns, i \in DOMAIN stored[name]} :
         name \in DOMAIN db.schemas}

DescOf(c) == InOrder(db.schemas[c.name].columns[c.k].buffers)[c.i]
TypeOf(c) == db.schemas[c.name].columns[c.k].ty
ColumnOf(c) == Column(stored[c.name][c.i].rows, c.k)

\* Every row acknowledged is read back, column by column and bit for bit, and
\* nothing else is ever read in its place: whatever the order in which fields
\* are declared, the width and the niche of their types, the segments before
\* it and the writes that failed. A hollow batch may be an error instead.
AckedReadable ==
  /\ \A c \in Placed :
       LET read == ReadBuffer(db, TypeOf(c), DescOf(c))
           hollow == Hollow[TypeOf(c)][ColumnOf(c)]
       IN  /\ read.ok => read.it = ColumnOf(c)
           /\ stored[c.name][c.i].acked /\ ~ hollow => read.ok
  /\ \A i \in DOMAIN db.bins :
       EndOf(db.bins[i]) <= db.mapped =>
         SubSeq(db.file, db.bins[i].offset + 1, EndOf(db.bins[i])) = Payloads[i]

\* The statistics the manifest points at are items of the buffer, and no item
\* is below the minimum or above the maximum. Nothing is below or above NaN,
\* which a buffer that opens with it has as both, unlike what manifest.md says.
StatisticsAddressed ==
  \A c \in Placed :
    LET desc == DescOf(c)
        type == Bare(TypeOf(c))
        items == IF TypeOf(c).type = "Option" THEN ToSet(Values(TypeOf(c), ColumnOf(c)))
                 ELSE ToSet(ColumnOf(c))
        At(sector) == Decoded(type, SubSeq(db.file, sector.offset + 1, EndOf(sector)))
    IN  desc.kind = "Detailed" /\ EndOf(desc.buffer) <= Len(db.file) =>
          /\ {At(desc.min), At(desc.max)} \subseteq items
          /\ \A item \in items : ~ LessThan(type, item, At(desc.min))
                                 /\ ~ LessThan(type, At(desc.max), item)

\* "All data buffers are guaranteed to begin at a 64-bit boundary", and so do
\* the binary payloads, whatever odd-sized segments come before them.
BuffersAligned == \A sector \in Sectors(db) : sector.offset % Word = 0

\* Columns stay in step: the i-th buffers of all columns of a schema hold the
\* same number of items, and come from the same segment.
LockStep ==
  \A name \in DOMAIN db.schemas :
    LET columns == db.schemas[name].columns
    IN  \A k \in DOMAIN columns :
          /\ Cardinality(columns[k].buffers) = Cardinality(columns[1].buffers)
          /\ \A i \in DOMAIN InOrder(columns[k].buffers) :
               InOrder(columns[k].buffers)[i].count = InOrder(columns[1].buffers)[i].count

\* The size in the header of segment s leads to the next one, or to the end.
LeadsOn(s) ==
  LET at == db.segments[s].at
      next == IF s = Len(db.segments) THEN Len(db.file) ELSE db.segments[s + 1].at
      size == FromBytes(SubSeq(db.file, at + 2, at + 1 + Word))
  IN  at + SegmentHeader + size + Word = next

\* A binary payload behind padding.
PaddedPayload(s) ==
  /\ db.segments[s].variant = 3
  /\ Pad(HEADER + db.segments[s].at + SegmentHeader) > 0

\* A sequential reader gets from every schema, data segment and unpadded
\* payload to the next segment by the size in its header.
SegmentsWalk == \A s \in DOMAIN db.segments : ~ PaddedPayload(s) => LeadsOn(s)

\* "A sequential reader can walk the segment region end-to-end using
\* information contained solely in the segment headers", whose size includes
\* "64-bit alignment padding if present" (on-disk-format.md).
SelfDescribing == \A s \in DOMAIN db.segments : LeadsOn(s)

\* An index, once returned, is the place of the item among the rows a query
\* reads, whatever is pushed, interned or fails afterwards.
IndexResolves ==
  \A g \in granted :
    LET rows == RowsOf(stored[g.name])
    IN  g.index < Len(rows) /\ rows[g.index + 1] = g.item

\* An item is interned once: never twice in a batch, nor when the schema
\* holds it already, not even after a write whose outcome was an error.
InternedOnce ==
  \A name \in Names : \A b \in DOMAIN stored[name] :
    stored[name][b].interned =>
      /\ IsInjective(stored[name][b].rows)
      /\ \A earlier \in 1..b - 1 :
           ToSet(stored[name][earlier].rows) \cap ToSet(stored[name][b].rows) = {}

=============================================================================
