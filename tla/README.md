# Verification of `msca`

TLA+ models, TLC runs and TLAPS proofs for the `msca` storage engine: a single
append-only file of segments with a manifest behind them, in-memory
accumulators that become segments, and queries that prune and read the mapped
segments. Paths below are relative to `src/`.

## 1. The system

| component | source | state | operations |
|---|---|---|---|
| File and write cycle | `msca-core/src/io.rs`, `dataset.rs` | file handle, header, manifest, memory map; the file itself | create, open, write (five phases), mmap |
| Segment framing | `segment.rs`, `wrap` in each segment type | none | wrap, align, checksum, write |
| Manifest registry | `manifest.rs`, `Register` impls | schemas, columns, buffers with statistics, binaries | entry, register, encode, from_file; rebuild is `unimplemented!` |
| Schema builder | `schema.rs` | columns under construction | column, finish (dedupe, collision) |
| Accumulators | `accumulate.rs` | Empty / Compact / Many buffers, counts, min and max | push, buffers, serialize |
| Interning | `dataset.rs` `get_or_insert` | hash map over a stored column | look up, assign the next index, write |
| Queries | `query/mod.rs` | per-column masks over borrowed manifest buffers | column, filters, iter, read, count, nth |
| Masks | `query/mask.rs` | none | resolve per buffer: exclude, retain, filter |
| Binary payloads | `binary.rs` | bytes | wrap, register |
| Codecs | `io.rs`, `accumulate.rs` | none | serialize, deserialize |
| Composite readers | `read.rs`, `msca-derive/` | one stream per field | combine columns, resolve, pull in lockstep |

How they interact: `Dataset::schema` builds a schema, commits it with
`File::write` unless the manifest already has it, and returns an accumulator;
`Dataset::write` hands the accumulator to `File::write` and remaps the file; a
query borrows the dataset's manifest and map. `File::write` reserves a manifest
entry, appends the segment over the manifest on disk, registers the segment in
memory, appends the new manifest, and points the header at it. Every arrow to
the file is an `await`: it can fail, be cancelled, or be the last thing the
process does, and other handles may read the file at any moment.

## 2. Hard behaviours

`PROJECT.json` lists them as hazards, each at its line. In short: the write
cycle overwrites the only manifest before the new one is in place; registration
in memory precedes the writes that can still fail (the same phantom lets the
retry of a failed schema write be "deduplicated" without I/O); errors of the asynchronous
file surface late; readers open the file in two steps while a writer moves both;
memory maps outlive the writes that follow them. A buffer's place is computed
three times: when it is wrapped, when it is registered, and when its statistics
are; the reader trusts the manifest for all of it. The type of a column decides
which of six layouts its bytes have, at writing and again at reading. Every
adapter of a query narrows one shared mask, and the streams of a struct's fields
must stay in step although each filters for itself.

## 3. Write cycle

`WriteCycle.tla` models the file, one writing process (a `Dataset` and its
pending future) and any number of other handles.

* The disk is a set of *intact extents*. Writing an extent destroys those it
  overlaps; a write cut short destroys what its first bytes overlap. An extent
  absent from the set is what the code sees as a checksum mismatch
  (`Checksum::verify`). This keeps every overlap, order and length and leaves
  out the bytes.
* `pc` names the `await` at which the future is suspended: `segment`
  (Phase 2), `manifest` (4), `header` (5), `remap`; `new_manifest`, `new_header`
  and `mount` in `File::create` / `Dataset::open`. Phase 3 has no `await` and is
  part of `WriteSegment`.
* `man`, `head`, `mapped` are `File.manifest`, `File.header.manifest` and the
  length of `Dataset.mmap`; `hdr` is the header on disk; `catalog` remembers the
  manifest that was encoded when the header last moved.
* `Fail` covers an error at any `await` and a dropped future: the disk may hold
  any prefix of the write (`Cut`), memory keeps what `?` leaves. `late` and
  `Surface` model `smol::fs`, which reports a background error at the next
  operation. `Crash` cuts the same way and ends the process.
* `PeekHeader` / `PeekManifest` are the two reads of `File::open` in another
  handle. `ShareMap` is a clone of the `pub mmap: Arc<Mmap>`.
* A descriptor stands for all buffers of a segment. `Listed` keeps the one place
  where buffers are compared: the `BTreeSet` ordered by sector alone.

`SegmentLog.tla` is what the file promises: a log that grows by one whole
segment at a time, of which each reader sees one moment. `Log` in `WriteCycle` maps
one to the other, and `ImplementsSegmentLog` is checked by the run `crashes` and
proved (section 7).

### Runs

| run | checks | instance |
|---|---|---|
| `faults` | acknowledged segments survive, the segment region is tiled, memory and disk agree between successful writes, maps never change, an open returns the newest commit; once the writer rests after a successful write, a handle that retries gets in | 4 segments, 1 reader, 2 faults, 1 crash |
| `crashes` | the committed manifest and the live one index intact, mapped segments; granted schema sectors are real; refinement of `SegmentLog` | 7 segments, 1 reader, no fault, 1 crash |
| `no_crash_safety` | violation: a crash in Phases 2 to 5 leaves a file that does not open | |
| `phantom` | violation: a failed write's descriptor is committed by the next one | |

The bounds. Two faults allow a failure and the failure of its retry, or a
failure and a late error; one crash after them is enough to meet every disk they
leave. `crashes` has two schemas of one name and layout (dedupe), one of another
layout (collision), two equal-sized data segments (the `BTreeSet` case), and two
binaries of one name; `faults` has one schema, both data segments and a binary, and
leaves the early returns to `crashes`. A manifest is 1 unit plus 1 per entry, so that a
segment is shorter, as long as, and longer than the manifest it overwrites, the
three cases `doc/write-cycle.md` tells apart. `CHECK_DEADLOCK FALSE`, as the
system may really stop: after the last crash with an unreadable file, or when no
segment is left.

Fairness (for `RestOpens`): weak fairness of the steps of a started operation and of
the report of a late error, since the executor polls a woken future, and of an
opener's two reads, since it retries. Nobody is obliged to create, write, share or
close.

`RestOpens` claims as much as the code gives. A write makes the file unreadable from
Phase 2 to Phase 5, also without any fault: a handle that has read the header finds
segment bytes where the manifest was, although `README.md:57` has "Lock-free
concurrent readers" and `doc/write-cycle.md:5-6` "the previous manifest is never
overwritten before a new manifest pointer is committed". A write that failed makes it
unreadable until the next that succeeds; nothing in the code keeps a writer that goes
on from starving the openers, and no fairness of theirs would. Hence the premise that the writer comes
to rest: a session is open, no write is in flight, and the last one succeeded. It
may have failed, been cancelled, and crashed before. A writer that never rests
needs a file without bound, which no run has; nothing is claimed of it.

`GrantedStored` holds until the first I/O error only. The registration that `phantom`
shows being committed also misleads `Schema::finish`: a schema whose write failed
after Phase 3 is granted to the retry without I/O, and nothing is stored in its
sector, although `dataset.rs:104` says that unseen schemas are "eagerly written to
disk". The runs and theorems with `GrantedStored` have no error before.

## 4. Column buffers

`Buffers.tla` holds the pure functions of one column of one segment, and
`Accumulate.tla` the accumulator that uses them over its life.

* An item is a bit pattern, `None`, or a sequence of bit patterns. Bit identity
  is TLA+ equality, as `schema::BitMatch` is; `Less` and `AtMost` are the partial
  order. `Rank` lets two patterns be equal without being identical (-0.0 and
  +0.0), and patterns outside `Ordered` are NaN. All pruning hazards come from
  the difference.
* `Push`, `Upgrade`, `Count` are the `Accumulate` impl of the `Empty` / `Compact`
  / `Many` enum; `RawPush` those of the six raw accumulators, as three
  sub-buffers (mask, ends, data). `Describe`, `Detail`, `Find` make the
  descriptor; `Serialize` keeps what the bytes lose: neither the number of items
  nor of bits is in them, a bit vector grows to whole bytes (`Byte`), a compact
  buffer holds its item once.
* `Decode` is the way back: `DecodeOptBitVec` walks a dense payload under a
  mask, `DecodeSeq` the ends around the `u64::MAX` of a `None`.
* Actions: `PushItem`, `Discard`, `Write`. `layout` is the column's type,
  `stored` and `rows` the buffers on disk and the items acknowledged for each.

| run | checks | instance |
|---|---|---|
| `accumulate` | what is read is what was pushed; compact exactly when identical; the statistics of a buffer that does not open with NaN are ordered and bound the items | all six layouts; four floats with both zeros and NaN, sequences of 2 letters and lengths 0 to 2, `None`; 5 items in any number of segments |

`StatisticsBound` is about buffers that do not open with NaN, because there the code
and its documents disagree. `doc/manifest.md:26` and `doc/on-disk-format.md:319-320` say that unordered items such as NaN are
excluded from the statistics; `find` (`io.rs:193-197`) keeps one that opens the
buffer, as the comment there says, and it is then minimum and maximum of ordered items. Range filters stay sound, key filters do not
(`query_nan`).

The bounds. Five items reach a compact run of four and its upgrade, items after
it, and two segments; with `Byte = 3` a bit vector is shorter than, as long as,
and longer than one byte; five optional sequences have several `None` between
others.

## 5. Queries

### Masks (`Query.tla`)

`Exclude` resolves a filter tree depth first against one mask with a bit per data
segment. The model runs over the tree instead of holding it: `Test` is a filter
leaf (`Src::try_exclude` on each buffer the mask still has), `Enter`, `Second`
and `Leave` are the three places where `Disjunct` and `Adjunct` copy, `^=` and
`|=` the mask, and `frames` is the call stack. A conjunction is one test after
another. Every tree within the bounds is therefore some behaviour, and `hits` is
the reference: the rows that pass it item by item (`Evaluate`). `Combine`, the
item test of a union, is external: its code is not in the tree, only the types
`Disjunct` and `Adjunct` and their documentation.

`one_of` stands for the four filters that try each key against the statistics,
`one_of_sorted` for the bisection, `none_of` for everything that no statistic
decides. The stored tables are a CONSTANT with `TablesAssumption`: a stored
buffer decodes to its row count, and statistics bound its items. `MCQuery` builds
them with the accumulators of `Buffers.tla`, so that TLC evaluates the assumption
on real ones, and the theorem `StoredIsAdmissible` proves it of every buffer that
`Accumulate.tla` can store.

| run | checks | instance |
|---|---|---|
| `query` | no buffer with a row of the result is excluded, also with both zeros and NaN as items, statistics and bounds; the mask is subtractive within a union; the legs share no buffer; compact buffers are decided exactly | 2 columns, segments of 3 and 1 rows; every buffer of 3 optional integers and of 3 floats, each next to a compact one of the other; 2 filters of any kind, nested `or` |
| `query_nan` | violation: a NaN statistic makes a key filter lose rows | |

The bounds. Two filters put one before, within either leg of, or behind a union
and another in any other of these places; nesting of two meets a union in either
leg of another; one filter shows every relation of two bounds to a minimum and a
maximum over three values. `xor` is in `reader`, and the theorems of section 7
have none of these bounds. `CHECK_DEADLOCK FALSE`: a resolved tree is the end.

`doc/query-filters.md:37-38` and `51-52` say that `None` items are "always
retained" by the range and equality filters. The `Evaluate` of an option
(`read.rs:903-908`) drops them, and `Passes` follows the code.

### Windows (`Window.tla`)

`skip`, `take` and filters chained on one column, in any order. `Skip` and `Take`
are `resolve`: whole buffers leave the mask and a residual is kept (`origin` at
`buffer`; `limit` and `keep`). `Prune` is any filter that excludes buffers.
`window` applies the adapters one by one to the slots; `Read` applies the
residuals to the buffers left. The reader of a take's residual is not in the tree
and is modelled from the fields it is given; it is marked external.

| run | checks | instance |
|---|---|---|
| `window_one_skip` | the slots read are exactly those the chain describes; no included buffer is outside the window | buffers of 2, 1, 3; 1 skip, 2 takes, 2 prunes, `n` up to 7 |
| `window_two_skips` | violation: `skip(1).skip(2)` reads an item that is to be skipped | 2 skips |

The bounds. Buffers of 2, 1 and 3 items have a skip end within, at the end of,
and past each of them; `n` goes one beyond all six items.

## 6. Datasets and readers

### Bytes (`Codec.tla`, `Dataset.tla`)

`Dataset.tla` is the system as its caller sees it, one action per call, over a
file of real bytes. `Codec.tla` has the pure functions from items to bytes and
back.

* A type is a term (`Number`, `Char`, `String`, `Option(t)`, `Vec(t)`); `Types` are
  those with at most `MaxDepth` options and sequences within each other around the
  `Primitives`, and `ItemsOf[t]` are the items of one. `Unfold` is the type a schema
  records, `RawAcc` the accumulator it unfolds to and `Src` the reader that takes
  its bytes apart: the code decides these in two separate families of trait impls,
  and that they agree for every type is what `AckedReadable` is about. Options of
  options are pushed through `Flattened`.
* `Serialize` and `Iter` are recursive functions on the types, as the impls are:
  numbers in little-endian two's complement, the niche of `NonZero` and `char`,
  masks packed into bytes, ends with `u64::MAX` for `None`, sub-buffers behind a
  length and before padding. A nested buffer has `Heads` (mask or ends) and
  `Content`, the others are a `Leaf`.
* `Segment`, `BodyAt`, `DataSegment`, `SchemaSegment` and `BinSegment` are the
  three `wrap`s; `Register` computes the offsets a second time, as
  `Accumulator::register` does; `Insert` is the `BTreeSet` that tells buffers
  apart by their sector. Checksums and the CBOR of schemas are opaque bytes.
* `Commit` has the outcomes of `File::write`: success, or an error in Phase 2, 4
  or 5 with what each leaves in memory and in the file. `WriteCycle.tla` has the
  steps in between and shows that the manifest may then list a segment that the
  next write replaces (run `phantom`); such a dataset is only read further here.
* `GetOrInsert` is `Dataset::get_or_insert` with every early return: collision,
  unreadable column, index type too small for the stored or the new items, and
  a failed write after the indices were chosen. `Read`, `ReadBuffer`, `ReadRows`
  are `Query::iter` on an unfiltered struct.
* `stored` and `granted` remember what the caller was told: the rows of each
  write, whether it was acknowledged, and the indices returned.

| run | checks | instance |
|---|---|---|
| `dataset` | acknowledged rows are read back bit for bit and nothing is read in their place; statistics address items and bound them; buffers are aligned; columns stay in step; the sizes in the headers lead on from all but padded payloads; an index once returned stays the place of its item; no item is interned twice | 18 column types alone; two declaration orders and a clash under one name; two schemas of different width side by side; one payload |
| `dataset_walk` | violation: the size in the header of a padded payload does not lead to the next segment | |

The bounds. A byte has 3 bits, a word 3 bytes and a `char` 2, so that a bit vector
of 2 or 3 items fills a byte or not, every padding occurs, and files stay short.
Four segments are a schema, two batches and another schema or payload between
them; three rows make a compact batch, a batch of three different items, and two
batches; two items per `get_or_insert` include a duplicate pair; index types with
a maximum of 1 and 7 overflow or do not. One failed write, because a dataset whose
manifest is ahead of its file is not written further. `CHECK_DEADLOCK FALSE`:
the segments run out.

Two promises of the documents do not hold, and the passing properties leave out the
cases concerned:

* A column of sequences whose elements are strings, options or sequences cannot be
  read from a batch that has no element at all (`Hollow`). The writer leaves out an
  empty second sub-buffer (`accumulate.rs:2061`, `2095`), the reader of such
  elements begins with a length and fails on nothing (`read.rs:342`, `361`).
  `todo.md:61` has "Fix `Seq::deserialize` to accept an omitted data sub-buffer" as
  done, which covers the outer sequence but not the reader of its elements.
  `AckedReadable` requires the other batches to be read, and whatever is read of any
  batch to be what was written.
* `Bin::wrap` writes a size that leaves out the padding before the payload
  (`binary.rs:203`), although `doc/on-disk-format.md:112-115` says that it counts,
  and that a reader can "walk the segment region end-to-end". Schema and data
  segments include it. `SegmentsWalk` is about these and unpadded payloads, and the
  run `dataset_walk` shows a padded one.

`StatisticsAddressed` is met by a NaN statistic whatever the other items are, since
nothing compares less or greater (section 4).

### Structs (`Reader.tla`)

`Reader.tla` extends `Query.tla` with the code that `#[derive]` generates to read
a struct. `request` is the combination asked for: a join between neighbouring
fields and filters for each. `Open` goes down the left-nested tree
(`((a . b) . c)`), `Narrow`, `Advance` and `Close` resolve it against one mask, so
that each step is a step of `Query.tla`; `Fail` is the `?` of a filter that has to
read a compact buffer and cannot. `Build` makes one stream per field from the mask
that is left, `Pull` takes one slot from each, `Row` decides the outcome as the
generated code does: the first field with an error or without an item, else
`Verdict`, the joins of the fields' own outcomes. `Combine::combine` is external:
only its uses are in the tree.

| run | checks | instance |
|---|---|---|
| `reader` | the streams have every buffer with a row of the result; the fields of a row belong together up to the first error; a read without an error yields exactly the rows that pass, in order | 3 fields, all 9 pairs of `and`, `or`, `xor`, all filters or none on each; segments of 2 and 1 rows, among them unreadable ones |

The bounds. Three fields make a tree of two nodes, the smallest in which a union
is within the first leg of another node. Two segments let one be pruned, or
unreadable, and the other not; two rows in the first tell a slot of a later row
from the end of the stream. `CHECK_DEADLOCK FALSE`: a read ends.

Two promises of the generated reader do not hold:

* A buffer that cannot be read yields one error slot, however
  many items it has (`query/mod.rs:1013`), so that the rows after it combine fields
  of different rows, although "Every field stream is pulled before any outcome is
  inspected" (`msca-derive/src/read.rs:293`). A caller must stop at the first error:
  `RowsWhole` claims nothing after it.
* An absent slot of an earlier field hides the error of a later one
  (`msca-derive/src/read.rs:316-326`; `todo.md:49` has "Surfaces `Outcome::Error`
  eagerly"). The caller is then not warned (`Concealed`), and `RowsWhole` claims
  nothing after it either.

## 7. What is proved

`WriteCycleProofs.tla`, for every set of segments, sizes, manifest sizes,
readers, and numbers of faults and crashes, from the assumptions that sizes are
positive integers and kinds are the three the code has:

* `TypeCorrect`: `Spec => []TypeOK`.
* `Invariant`: `Spec => []WriteInv`. None of the safety properties is inductive
  alone: that an acknowledged segment stays intact needs to know that every
  write is issued at or above `hdr.off` (`OffsetsInv`), that a pending manifest
  is placed behind the pending segment (`PendingInv`), that what is mapped ends
  at or below `hdr.off`, and that the on-disk offset never decreases.
  `StepBeyond` is the heart of it: no step touches anything below `hdr.off`.
* `DurabilityOfAcks`, `SegmentsTile`, `MapsAreImmutable`: the properties
  `AckedDurable`, `RegionWalkable`, `MappedImmutable` of the runs.

Its second part, in the same generality, is about what the header designates,
through any number of failed writes, cancelled futures and crashes:

* `CommitInvariant`: `Spec => []CommitInv`. Intact extents never overlap
  (`DisjointInv`); an intact manifest at the header's offset is the committed one
  (`DesignatedInv`); the header only moves to a manifest that is in place
  (`ReadyInv`). They need `WriteInv`, since a manifest is only ever written above
  the header's offset, and `RegionWalkable`, which places every segment.
* `MemoryMatchesDisk`, `OpensAreCurrent`: `QuiescentSynced` and `OpenIsCurrent` of
  the runs. `File::open` reads header and manifest in two steps without a lock. A
  header that was read some time ago can name an intact manifest only if it is
  still the header's: offsets never decrease, and everything below the header's is
  tiled by segments (`StaleSector`).
* `OpensBetweenWrites`: the file fails to open only while a write is in flight, or
  after one that failed.

Its third part is about the same system until its first I/O error, through any
number of crashes. Every result there is under `faults = 0`, which is what the
code gives: the run `phantom` shows that after a failed write a segment that
never landed may be registered, and then none of them holds.

* `LogInvariant`: the committed manifest, the live registry and what the session
  has mapped and handed out are one list, up to the segment in flight, and
  everything on it lies below the header's offset (`LogInv`).
* `CatalogIsSound`, `RegistryIsReadable`, `GrantsAreStored`: `CatalogSound`,
  `LiveReadable`, `GrantedStored` of the run `crashes`.
* `WriteCycleIsALog`, `ErrorFreeIsALog`: `WriteCycle` implements `SegmentLog`.
  `PointAppends` is the only step that is not a stutter of the writer: the log
  grows when the header moves, not when the segment is written.

`DataInduction.tla` states induction over the naturals for a *set* of numbers. The
library's theorems take an operator as a parameter, which the provers cannot
instantiate; the set of the arguments for which a lemma holds can be. Every
argument below about a recursive function goes through it.

`AccumulateProofs.tla`, for every set of bit patterns with any ranking, some of them
unordered, every layout, and any number of items and segments:

* `AccumulatorInvariant`: `Spec => []AccInv`. The raw accumulators are recursive
  functions of the items; `Holds` says what their sub-buffers contain after the
  first n of them (which bits of the mask are set, which end belongs to which
  item, and that the data between two ends is that item). `Faithful` carries it
  over the upgrade from `Empty` to `Compact` to `Many`, whose first push replays
  the compact item.
* `AccumulatorTyped`, `ItemsReadBack`, `CompactIsExact`, `StatisticsAreBounds`:
  `TypeOK`, `RoundTrip`, `CompactExactly`, `StatisticsBound` of the run
  `accumulate`, the last for buffers that do not open with NaN. `PackedExtends` is why a bit vector may grow to whole bytes on
  disk and still decode.
* `StoredIsAdmissible`: every buffer the accumulators store satisfies what
  `Query.tla` assumes of its tables (`TablesAssumption`), so that the theorems
  below are about the buffers that are written.

`QueryProofs.tla`, for every schema, table, filter and nesting:

* `MaskTyped`, `UnionsSubtract`, `LegsShareTheWork`: `TypeOK`, `Subtractive` and
  `LegsDisjoint` of the run `query`. The invariant (`MaskInv`) adds that a frame's
  first leg kept no more than it was offered, and that each frame was offered what
  the enclosing one had left, less what that one's first leg kept (`Nested`). The
  second leg's `^=` is a set difference only because of it.
* `PruningSound`: `KeysOrdered` implies `Spec => []MaskSound`. `KeysOrdered` says
  that key filters are used on columns without NaN; `query_nan` shows that it is
  needed. The invariant adds, for each frame, that the rows it began with lie in
  the buffers it was offered, and those of its first leg in the buffers that leg
  kept (`FramesSound`, `HitsSound`). The lemmas `RangeSound` and
  `BisectionSound` are the two pruning tests against one item, for any
  statistics, inclusive, exclusive and absent bounds, and any finite key set;
  `KeepsSound` joins them with the compact case.
* `CompactIsDecided`: without `xor`, `Spec => []CompactDecided`. The converse of
  `PruningSound` for the buffers that hold one item: such a segment is kept only
  if its rows pass. `ExactInv` says it of each frame. It fails for `xor`, whose
  mask is that of `or`, and the hypothesis excludes just that.

`ReaderProofs.tla`, for every struct, combination of its columns, and filters:

* `ReaderImplementsQuery`: `ReadSpec => Spec`. Every step of the reader is a step
  of the query or leaves its variables alone. That `Close` and `Advance` meet the
  guards of `Leave` and `Second` needs to know which unions are open: `ReaderInv`
  says that their number is the number of union nodes above the current column
  (`Cardinality(Unions(leg))`), that all of these are in their first leg, and that
  one more is in its second exactly when the column ends it.
* `StreamsComplete`: with `KeysOrdered`, `ReadSpec => []NothingPruned`. `PruningSound`
  carries over by the refinement, and the same count shows that no union is open
  when the streams are built, so that nothing is kept back in a frame.
* `ReaderTyped`: `ReaderTypeOK`.
* `FieldsOfOneRow`: `RowsWhole`. A stream has the slots of the rows of the retained
  buffers, in the order of the file, up to its first error (`Follows`; `FollowsStep`
  is the step of that induction, through one more buffer). All streams are
  built from one mask, hence follow the same rows, and a yielded row is made of
  their n-th slots (`YieldInv`). `UnwarnedClean` is where the caller comes in: if
  none of the rows so far told of an error, no stream has had one.
* `ReadsAreExact`: with `KeysOrdered`, `ReadExact`. It joins both arguments: the
  streams have every buffer with a row of the result (`StreamsComplete`), the rows
  follow the streams, and the verdict on a row whose fields are its own is
  whether it is in the result. For the last, `HitsInv` says at every point of the
  tree which rows `hits` are: those that pass the fields resolved so far
  (`Passing`), with the second leg of an open union apart (`Resolved`); `TreeInv`
  finds the join of each open union in its frame (`Depth`).

`WindowProofs.tla`, for any number of buffers of any lengths, and takes and filters
in any number and order, with at most one `skip`:

* `WindowInvariant`: as long as `Len(skips) <= 1`, the mask and the residuals are a
  picture of the window (`PictureInv`): a slot is in it when its buffer is included
  and no residual cuts it off. The code counts items from the start of the included
  buffers, so that a step is right only if the residual of the skip lies in the
  first of them (`SkipInv`) and that of a take in the last (`TakeInv`); otherwise
  the slots before a given one could not be counted from the lengths alone, which
  `RetainedAhead` and `WindowAhead` do. `Origin` counts a residual as long as its
  buffer is included, hence a filter may clear that buffer.
* `WindowsAreExact`, `WindowsAreTight`: `WindowExact` and `NoWastedBuffer` of the run
  `window_one_skip`. The hypothesis on the skips cannot be dropped: a second skip
  counts from the start of the buffer that holds the first one's residual, which
  is what `window_two_skips` shows.

`CodecProofs.tla`, for any set of primitive types, any widths of a byte, a word and
a `char`, any scalars and NaNs, and any depth of nesting:

* `ScalarRoundTrip`: `Decoded` inverts `Encoded` for every kind and width. The two
  halves are `FromDigitsOf` and `DigitsOfNumber`, inductions over the digits.
* `BufferReadsBack`: the buffer of any items of any type reads back, compact or not,
  unless the column is hollow, and then the reader reports an error. The
  functions are recursive in types, which are terms. They ask no more of
  themselves than their value at the subtype (the lemmas `...Same`), and the
  subtype is shallower (`InnerIn`), so they have the equations that define them
  (`...Equation`) and an induction over the depth carries `RoundTrip` from one
  level to the next (`RoundTripsNext`). It has to be weaker than equality: a bit
  vector comes back longer than it was, up to whole bytes, at every level of
  nesting. `Reads` says that what is read *begins* with the items; then a mask
  finds its values (`MaskRoundTrip`) and ends find their elements
  (`EndsRoundTrip`) in what is read of the inner buffer, and the count of the
  descriptor cuts off the rest at the top.
* `AllScanned`, `FindBest`: the minimum and maximum are the place of an item that
  none is below, or above, and that place, behind the mask if there is one, has the
  bytes of that item.

`DatasetProofs.tla`, for every set of names, row types of any number of columns of any
types, rows, payloads, index types, bounds and numbers of failed writes:

* `DatasetInvariant`: `Spec => []IInv`. None of the properties is inductive alone.
  `Sound` says what the file and the manifest have to do with each other: headers
  tile the file (`WellSegments`); each column has one descriptor for each batch, in
  the order of the file (`Ordered`), so that the `BTreeSet` loses none; and
  whatever a descriptor says is true of the bytes in its sector *once the file has
  that sector* (`WellBuffer`). That condition is what failed writes need: a write
  that fails after registration leaves a descriptor beyond the end of the file, and
  such a dataset is not written further (`Phantom`). `RegisterIs` and `DataLaid`
  show that the two computations of the same offsets, when a segment is wrapped and
  when it is registered, agree for any number of columns. `WellAccs` says that an
  open accumulator is of a row type that its schema has the columns of, in either
  order of declaration.
* `TypesHold`, `Aligned`, `ColumnsInStep`, `StatisticsHold`: `TypeOK`,
  `BuffersAligned`, `LockStep` and `StatisticsAddressed` of the run `dataset`.
* `RowsReadBack`, `Walks`, `IndicesResolve`, `OnceInterned`: `AckedReadable`,
  `SegmentsWalk`, `IndexResolves` and `InternedOnce`, in every state with `Fits`; the
  exceptions of the first two (hollow batches, padded payloads) are in the properties.
  `get_or_insert` chooses indices from what it reads, so that the last two are in
  the invariant (`Settled`) behind the first: `ReadRowsIs` says that a query that
  meets no error returns the rows of all batches in order, `CountIs` that the
  manifest counts the same, and `InternedIs` what follows from both for each
  outcome of the write.

`Fits` says that the size of the file in bits is less than `u64::MAX`. It is what the
code has: sizes, ends and offsets are `u64`, an end of `u64::MAX` stands for `None`,
and a sequence of booleans counts bits. It holds in every state of the run `dataset`,
and in every file of less than 2^61 bytes. The file never shrinks (`FitsBefore`), so
the hypothesis is about the state alone and not about its past.

Model-checked only:

* `RestOpens`: liveness under fairness and `ENABLED` are out of the
  prover's reach.

The provers know nothing of `SortSeq`, `SelectSeq` and the library's folds, which
are defined by recursion over an operator. Where a model that is proved about
needs one of them, it has a recursive function (`RawCollect`, `Find`, `InOrder`,
`Verdict`) or says the same of sets and indices (`ReadExact`).

## 8. Order of the work

`SegmentLog`, `WriteCycle` (the commit protocol is the one part whose failure loses
data), `WriteCycleProofs`, `Buffers`, `Accumulate`, `Query`, `QueryProofs`, `Window`,
`Codec`, `Dataset`, `Reader`, `ReaderProofs`, `DataInduction`, `AccumulateProofs`,
`WindowProofs`, `CodecProofs`, `DatasetProofs`.

## 9. Not modelled, and why

* Power loss: `flush` is not `fsync`, so that after one the header may be durable
  and the manifest or the segment it designates not. The model's disk is the one
  that other processes see.
* A second writer: `File` is documented as exclusive and takes no lock. The
  processes that open the file while it is written are modelled.
* The rebuild of a lost manifest is `unimplemented!`; `RegionWalkable` and
  `SegmentsWalk` are what it will need, and a repair of what `dataset_walk` shows.
* Checksums and CBOR are opaque: an extent is intact or it is not, a manifest
  decodes to what was encoded. UTF-8 validation of strings, and the checked
  additions that fail beyond 2^63 bytes, are left out.
* Windows inside the legs of a union or conjunction: the code that would decide
  the origin of such a node is not in the tree.
* `Query::nth` calls a trait method that only a test implements.
* The parsing of attributes, generics and bounds in `msca-derive` runs inside the
  compiler; the code it emits is modelled for structs with named fields.
* The older `query.rs` imports modules that no longer exist.
* Error enums, conversions and re-exports have no state.
