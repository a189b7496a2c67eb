----------------------------- MODULE WriteCycle -----------------------------
(***************************************************************************)
(* The write cycle of an msca file: File::create, File::open, File::write  *)
(* and the Dataset facade above them, with the Manifest registration each  *)
(* segment goes through, other handles that open or map the same file      *)
(* while it is being written, I/O errors and cancellation at every await,  *)
(* and a crash of the writing process in any phase.                        *)
(*                                                                         *)
(* The disk is the set of INTACT extents: a segment or an encoded manifest *)
(* all of whose bytes are in place.  Writing an extent removes every       *)
(* extent it overlaps; a write cut short removes the extents that its      *)
(* first n bytes overlap and adds nothing.  An extent that is missing from *)
(* the set is what the code sees as a checksum mismatch.  A segment is one *)
(* descriptor: its columns' buffers lie inside it and live or die with it. *)
(***************************************************************************)
EXTENDS Integers, FiniteSets

CONSTANTS
  Segs,          \* segments offered for writing, each one consumed once
  KindOf,        \* Segs -> Kinds
  NameOf,        \* Segs -> schema or binary name
  LayoutOf,      \* Segs -> column layout (schemas only)
  SizeOf,        \* Segs -> size of the framed segment
  ManifestSize,  \* SUBSET Segs -> size of the framed manifest listing them
  HEADER,        \* size of the file header
  Readers,       \* other handles and holders of a cloned memory map
  MaxFaults,     \* bound: I/O errors and cancelled writes
  MaxCrashes,    \* bound: crashes of the writing process
  NoSeg          \* no segment

Kinds == {"schema", "data", "binary"}

ASSUME KindAssumption == KindOf \in [Segs -> Kinds]
ASSUME SizeAssumption ==
  /\ HEADER \in Nat \ {0}
  /\ SizeOf \in [Segs -> Nat \ {0}]
  /\ ManifestSize \in [SUBSET Segs -> Nat \ {0}]
  /\ NoSeg \notin Segs
ASSUME BoundAssumption == MaxFaults \in Nat /\ MaxCrashes \in Nat

VARIABLES
  \* the file
  exists,   \* a file is present at the path
  disk,     \* the intact extents
  hdr,      \* the manifest sector recorded in the on-disk header
  \* the writing process: File, Dataset and the locals of a pending future
  pc,       \* where the pending future is suspended
  job,      \* the segment being written
  sec,      \* where it landed (the local of File::write)
  man,      \* File.manifest
  head,     \* File.header.manifest
  mapped,   \* end of Dataset.mmap
  late,     \* a background write failed and nobody has been told yet
  \* other handles
  peek,     \* Readers -> header sector read by an open in progress
  view,     \* Readers -> manifest and mapped end
  \* history
  catalog,  \* the manifest the on-disk header was last pointed at
  tried,    \* segments consumed
  acked,    \* descriptors File::write returned Ok for
  granted,  \* schema sectors Dataset::schema returned in this session
  dirty,    \* a write has failed since the header last agreed with memory
  faults,
  crashes

file    == <<exists, disk, hdr, catalog>>
session == <<job, sec, man, head, mapped, late>>
handles == <<peek, view>>
history == <<tried, acked, granted, dirty>>
bounds  == <<faults, crashes>>
vars    == <<file, pc, session, handles, history, bounds>>

-----------------------------------------------------------------------------
(* Data *)

Sector     == [off : Nat, size : Nat]
Descriptor == [seg : Segs, off : Nat]

SegmentExtents  == [kind : {"segment"}, body : Segs,
                    off : Nat, size : Nat \ {0}]
ManifestExtents == [kind : {"manifest"}, body : SUBSET Descriptor,
                    off : Nat, size : Nat \ {0}]
Extents         == SegmentExtents \cup ManifestExtents

\* What the zero bytes of a header that was never written decode to:
\* NonZeroU64::deserialize rejects the size.
Blank  == [off |-> 0, size |-> 0]
NoView == [man |-> {}, end |-> 0]

SegmentAt(s, o) ==
  [kind |-> "segment", body |-> s, off |-> o, size |-> SizeOf[s]]
ManifestAt(m, o) ==
  [kind |-> "manifest", body |-> m, off |-> o,
   size |-> ManifestSize[{d.seg : d \in m}]]

\* The sector Segment::write returns.
SectorOf(x) == [off |-> x.off, size |-> x.size]
Stored(d)   == SegmentAt(d.seg, d.off) \in disk
EndOf(d)    == d.off + SizeOf[d.seg]

\* What Manifest::from_file accepts at sector h: framing and checksum hold.
Decodes(h, x) == x \in disk /\ x.kind = "manifest" /\ SectorOf(x) = h
Openable      == exists /\ \E x \in disk : Decodes(hdr, x)

Overlaps(x, o, n) == n > 0 /\ x.off < o + n /\ o < x.off + x.size
Clear(o, n)       == {x \in disk : ~Overlaps(x, o, n)}
\* A write_all that completes, one that stops short, and one of unknown fate.
Land(x)      == disk' = Clear(x.off, x.size) \cup {x}
Short(x)     == \E n \in 0 .. x.size - 1 : disk' = Clear(x.off, n)
Uncertain(x) == Land(x) \/ Short(x)

-----------------------------------------------------------------------------
(* Manifest: reservation and registration *)

Entries(k, n) == {d \in man : KindOf[d.seg] = k /\ NameOf[d.seg] = n}

\* Register::entry: a vacant name for a schema or a binary payload, an
\* existing schema for a data segment.
Reserves(s) ==
  IF KindOf[s] = "data" THEN Entries("schema", NameOf[s]) # {}
                        ELSE Entries(KindOf[s], NameOf[s]) = {}

\* Register::register: the buffers of a column are a BTreeSet ordered by
\* sector alone, so inserting a descriptor whose sector is already listed
\* changes nothing.
Listed(s, o) ==
  KindOf[s] = "data" /\ \E d \in Entries("data", NameOf[s]) :
                          d.off = o /\ SizeOf[d.seg] = SizeOf[s]
\* Mutant: the descriptor records where the segment ends.
InsertEnd(s, o) == man \cup {[seg |-> s, off |-> o + SizeOf[s]]}

Insert(s, o) == IF Listed(s, o) THEN man ELSE man \cup {[seg |-> s, off |-> o]}

-----------------------------------------------------------------------------
(* Offsets *)

\* Mutants: append after the old manifest, a manifest one byte early or late,
\* the manifest recorded at the segment's offset, a map over the manifest.
AppendAfterManifest  == head.off + head.size
ManifestTooEarly     == IF pc = "new_manifest" THEN HEADER
                                               ELSE sec + SizeOf[job] - 1
ManifestTooLate      == IF pc = "new_manifest" THEN HEADER
                                               ELSE sec + SizeOf[job] + 1
MapOverManifest(h)   == h.off + h.size

AppendOffset   == head.off                    \* Phase 2
ManifestOffset == IF pc = "new_manifest" THEN HEADER ELSE sec + SizeOf[job]
MapEnd(h)      == h.off                       \* File::mmap, manifest excluded

SectorOverSegment == [off |-> IF pc = "new_manifest" THEN HEADER ELSE sec,
                      size |-> ManifestAt(man, ManifestOffset).size]

\* What Manifest::write returns in Phase 4.
ManifestSector == SectorOf(ManifestAt(man, ManifestOffset))

-----------------------------------------------------------------------------
(* Opening and closing a session *)

Init ==
  /\ exists = FALSE /\ disk = {} /\ hdr = Blank /\ catalog = {}
  /\ pc = "closed" /\ job = NoSeg /\ sec = 0 /\ man = {} /\ head = Blank
  /\ mapped = 0 /\ late = FALSE
  /\ peek = [r \in Readers |-> Blank] /\ view = [r \in Readers |-> NoView]
  /\ tried = {} /\ acked = {} /\ granted = {} /\ dirty = FALSE
  /\ faults = 0 /\ crashes = 0

\* File::create up to its first write_all: create_new refuses a path in use.
CreateNew ==
  /\ pc = "closed" /\ ~exists
  /\ exists' = TRUE
  /\ pc' = "new_manifest"
  /\ UNCHANGED <<disk, hdr, catalog, session, handles, history, bounds>>

\* File::open: header, then the manifest it points at.
Open ==
  /\ pc = "closed" /\ exists
  /\ \E x \in disk : Decodes(hdr, x) /\ man' = x.body
  /\ head' = hdr
  /\ dirty' = FALSE
  /\ pc' = "mount"
  /\ UNCHANGED <<file, job, sec, mapped, late, handles,
                 tried, acked, granted, bounds>>

\* The Dataset is gone: dropped, crashed, or never handed to the caller.
EndSession ==
  /\ pc' = "closed"
  /\ job' = NoSeg /\ sec' = 0 /\ man' = {} /\ head' = Blank
  /\ mapped' = 0 /\ late' = FALSE /\ granted' = {}

Close ==
  /\ pc = "idle"
  /\ EndSession
  /\ UNCHANGED <<file, handles, tried, acked, dirty, bounds>>

-----------------------------------------------------------------------------
(* File::write *)

\* Phase 1: the reservation succeeds.  (Dataset::write of an empty
\* accumulator returns Ok(0) before this and changes nothing.)
Begin(s) ==
  /\ pc = "idle" /\ s \notin tried
  /\ Reserves(s)
  /\ pc' = "segment" /\ job' = s /\ tried' = tried \cup {s}
  /\ UNCHANGED <<file, sec, man, head, mapped, late, handles,
                 acked, granted, dirty, bounds>>

\* Schema::finish on a name already registered with the same columns
\* returns the registered sector without I/O.
Dedupe(s) ==
  /\ pc = "idle" /\ s \notin tried
  /\ KindOf[s] = "schema"
  /\ \E d \in Entries("schema", NameOf[s]) :
       /\ LayoutOf[d.seg] = LayoutOf[s]
       /\ granted' = granted \cup {d}
  /\ tried' = tried \cup {s}
  /\ UNCHANGED <<file, pc, session, handles, acked, dirty, bounds>>

\* Collision or NotFound: the segment is consumed and nothing else happens.
Reject(s) ==
  /\ pc = "idle" /\ s \notin tried
  /\ ~Reserves(s)
  /\ KindOf[s] = "schema" =>
       \A d \in Entries("schema", NameOf[s]) : LayoutOf[d.seg] # LayoutOf[s]
  /\ tried' = tried \cup {s}
  /\ UNCHANGED <<file, pc, session, handles, acked, granted, dirty, bounds>>

\* The bytes of x reach the disk, or they stop short in the background and
\* the error waits for the next operation on the file.
Issue(x) ==
  \/ Land(x) /\ UNCHANGED <<late, faults>>
  \/ /\ faults < MaxFaults /\ faults' = faults + 1
     /\ Short(x) /\ late' = TRUE

\* Phases 2 and 3: append over the on-disk manifest, then register.  Nothing
\* is awaited between the two.
WriteSegment ==
  /\ pc = "segment" /\ ~late
  /\ Issue(SegmentAt(job, AppendOffset))
  /\ sec' = AppendOffset
  /\ man' = Insert(job, AppendOffset)
  /\ pc' = "manifest"
  /\ UNCHANGED <<exists, hdr, catalog, job, head, mapped, handles, history,
                 crashes>>

\* Phase 4, and the first half of File::create.
WriteManifest ==
  /\ pc \in {"new_manifest", "manifest"} /\ ~late
  /\ Issue(ManifestAt(man, ManifestOffset))
  /\ head' = ManifestSector
  /\ pc' = IF pc = "manifest" THEN "header" ELSE "new_header"
  /\ UNCHANGED <<exists, hdr, catalog, job, sec, man, mapped, handles, history,
                 crashes>>

\* Mutant: the header takes the segment's offset for the manifest's.
PointAtSegment == hdr' = [head EXCEPT !.off = sec] /\ catalog' = man

PointHeader == hdr' = head /\ catalog' = man

\* Dataset::write takes a new map; Schema::finish does not.  Mutant: nobody.
NeverRemaps(s) == KindOf[s] \notin Kinds
Remaps(s)      == KindOf[s] # "schema"

\* Phase 5.
WriteHeader ==
  /\ pc = "header" /\ ~late
  /\ PointHeader
  /\ LET d == [seg |-> job, off |-> sec] IN
       /\ acked' = acked \cup {d}
       /\ granted' = IF KindOf[job] = "schema" THEN granted \cup {d} ELSE granted
  /\ pc' = IF Remaps(job) THEN "remap" ELSE "idle"
  /\ dirty' = FALSE
  /\ job' = NoSeg /\ sec' = 0
  /\ UNCHANGED <<exists, disk, man, head, mapped, late, handles, tried, bounds>>

\* The second half of File::create.
CreateHeader ==
  /\ pc = "new_header" /\ ~late
  /\ PointHeader
  /\ dirty' = FALSE
  /\ pc' = "mount"
  /\ UNCHANGED <<exists, disk, session, handles, tried, acked, granted, bounds>>

\* Dataset::new, Dataset::open and Dataset::write take a new memory map.
Remap ==
  /\ pc \in {"mount", "remap"}
  /\ mapped' = MapEnd(head)
  /\ pc' = "idle"
  /\ UNCHANGED <<file, job, sec, man, head, late, handles, history, bounds>>

-----------------------------------------------------------------------------
(* Failures *)

\* What the file may hold once the pending operation is cut short.
Cut ==
  \/ UNCHANGED <<disk, hdr, catalog>>
  \/ /\ pc = "segment" /\ ~late
     /\ Uncertain(SegmentAt(job, AppendOffset))
     /\ UNCHANGED <<hdr, catalog>>
  \/ /\ pc \in {"new_manifest", "manifest"} /\ ~late
     /\ Uncertain(ManifestAt(man, ManifestOffset))
     /\ UNCHANGED <<hdr, catalog>>
  \/ /\ pc \in {"new_header", "header"} /\ ~late
     /\ PointHeader
     /\ UNCHANGED disk

\* File::create, File::open or their mmap failed: no handle is returned.
Unborn == pc \in {"new_manifest", "new_header", "mount"}

\* Mutant: the phase is left open.
ReturnInPhase ==
  /\ pc' = pc
  /\ job' = NoSeg /\ sec' = 0
  /\ dirty' = (dirty \/ pc # "remap")
  /\ UNCHANGED <<man, head, mapped, granted>>

\* The early return of `?`: the in-memory state stays as it is.
Return ==
  /\ pc' = "idle"
  /\ job' = NoSeg /\ sec' = 0
  /\ dirty' = (dirty \/ pc # "remap")
  /\ UNCHANGED <<man, head, mapped, granted>>

\* An awaited operation returns an error, or its future is dropped.
Fail ==
  /\ pc \notin {"closed", "idle"}
  /\ faults < MaxFaults /\ faults' = faults + 1
  /\ Cut
  /\ \/ Unborn /\ EndSession /\ UNCHANGED dirty
     \/ ~Unborn /\ Return /\ UNCHANGED late
  /\ UNCHANGED <<exists, handles, tried, acked, crashes>>

\* The next operation on the file reports the background error.
Surface ==
  /\ late
  /\ pc \in {"segment", "manifest", "header", "new_header"}
  /\ \/ Unborn /\ EndSession /\ UNCHANGED dirty
     \/ ~Unborn /\ Return /\ late' = FALSE
  /\ UNCHANGED <<file, handles, tried, acked, bounds>>

Crash ==
  /\ pc # "closed"
  /\ crashes < MaxCrashes /\ crashes' = crashes + 1
  /\ Cut
  /\ EndSession
  /\ UNCHANGED <<exists, handles, tried, acked, dirty, faults>>

-----------------------------------------------------------------------------
(* Other handles on the file *)

\* File::open elsewhere: the header now, the manifest in a later read.
PeekHeader(r) ==
  /\ exists /\ hdr # Blank
  /\ peek[r] = Blank /\ view[r] = NoView
  /\ peek' = [peek EXCEPT ![r] = hdr]
  /\ UNCHANGED <<file, pc, session, view, history, bounds>>

PeekManifest(r) ==
  /\ peek[r] # Blank
  /\ peek' = [peek EXCEPT ![r] = Blank]
  /\ \/ \E x \in disk :
          /\ Decodes(peek[r], x)
          /\ view' = [view EXCEPT ![r] =
                        [man |-> x.body, end |-> MapEnd(peek[r])]]
     \/ (~\E x \in disk : Decodes(peek[r], x)) /\ UNCHANGED view
  /\ UNCHANGED <<file, pc, session, history, bounds>>

\* A clone of Dataset.mmap outlives the write that replaces it.
ShareMap(r) ==
  /\ pc = "idle" /\ peek[r] = Blank /\ view[r] = NoView
  /\ view' = [view EXCEPT ![r] = [man |-> {}, end |-> mapped]]
  /\ UNCHANGED <<file, pc, session, peek, history, bounds>>

DropView(r) ==
  /\ view[r] # NoView
  /\ view' = [view EXCEPT ![r] = NoView]
  /\ UNCHANGED <<file, pc, session, peek, history, bounds>>

-----------------------------------------------------------------------------

Write(s) == Begin(s) \/ Dedupe(s) \/ Reject(s)
Proceed  == WriteSegment \/ WriteManifest \/ WriteHeader \/ CreateHeader \/ Remap
Handle(r) == PeekHeader(r) \/ PeekManifest(r) \/ ShareMap(r) \/ DropView(r)

Next ==
  \/ CreateNew \/ Open \/ Close
  \/ \E s \in Segs : Write(s)
  \/ Proceed
  \/ Fail \/ Surface \/ Crash
  \/ \E r \in Readers : Handle(r)

Spec == Init /\ [][Next]_vars

\* The executor polls a started operation until it returns, be it an error of
\* the background, and a handle that wants the file retries its open.  Nobody
\* is obliged to create, write or close, and no handle wins a race for ever.
Fairness ==
  /\ WF_vars(Proceed) /\ WF_vars(Surface)
  /\ \A r \in Readers : WF_vars(PeekHeader(r)) /\ WF_vars(PeekManifest(r))

FairSpec == Spec /\ Fairness

-----------------------------------------------------------------------------
(* Properties *)

Phases == {"closed", "new_manifest", "new_header", "mount", "idle",
           "segment", "manifest", "header", "remap"}

\* Every variable has its type, and a write in progress has its segment.
TypeOK ==
  /\ exists \in BOOLEAN /\ disk \subseteq Extents
  /\ hdr \in Sector /\ catalog \subseteq Descriptor
  /\ pc \in Phases /\ job \in Segs \cup {NoSeg} /\ sec \in Nat
  /\ pc \in {"segment", "manifest", "header"} => job \in Segs
  /\ man \subseteq Descriptor /\ head \in Sector
  /\ mapped \in Nat /\ late \in BOOLEAN
  /\ peek \in [Readers -> Sector]
  /\ view \in [Readers -> [man : SUBSET Descriptor, end : Nat]]
  /\ tried \subseteq Segs /\ acked \subseteq Descriptor
  /\ granted \subseteq Descriptor /\ dirty \in BOOLEAN
  /\ faults \in 0 .. MaxFaults /\ crashes \in 0 .. MaxCrashes

\* No step destroys an extent inside the region somebody has mapped, or puts
\* one there, whatever fails or crashes (File::mmap relies on it for safety).
MappedImmutable ==
  [][\A r \in Readers : view'[r].end = view[r].end =>
       /\ \A x \in disk : x.off + x.size <= view[r].end => x \in disk'
       /\ \A x \in disk' \ disk : view[r].end <= x.off]_vars

\* A segment File::write returned Ok for stays in place, in the region the
\* on-disk header leaves to segments, through every later failure and crash.
AckedDurable == \A d \in acked : Stored(d) /\ EndOf(d) <= hdr.off

\* The segments lie end to end from the file header to the manifest, so a
\* sequential reader can walk them (the basis of Manifest::rebuild).
Tiled(D, end) ==
  \A i \in HEADER .. end - 1 : \E x \in D :
    /\ x.kind = "segment"
    /\ x.off <= i /\ i < x.off + x.size /\ x.off + x.size <= end
RegionWalkable == hdr # Blank => Tiled(disk, hdr.off)

\* Between writes, unless the last one failed, the file opens and its header
\* and manifest are those the process holds in memory.
Synced == /\ hdr = head /\ catalog = man
          /\ \E x \in disk : Decodes(hdr, x) /\ x.body = man
QuiescentSynced == pc \in {"mount", "idle", "remap"} /\ ~dirty => Synced

\* An open that succeeds returns the newest manifest committed, even when
\* the header it read was overwritten before it read the manifest.
OpenIsCurrent ==
  [][\A r \in Readers : peek[r] # Blank /\ view'[r] # view[r]
       => view'[r].man = catalog /\ view'[r].end = hdr.off]_vars

\* Each committed descriptor names an intact segment of its own: "the
\* manifest correctly indexing all committed segments" (write-cycle.md).
CatalogSound == \A d \in catalog : Stored(d)

\* Everything the live manifest offers to a query can be read: it lies in
\* the mapped region, intact.
LiveReadable ==
  pc = "idle" => \A d \in man : /\ Stored(d)
                               /\ KindOf[d.seg] # "schema" => EndOf(d) <= mapped

\* A schema sector handed out by Dataset::schema designates that schema on
\* disk: "unseen schema are eagerly written to disk" (dataset.rs).
GrantedStored == \A d \in granted : Stored(d)

\* A crash at any instant leaves a file that opens: the README's "crash-safe
\* atomic commits".
CrashSafe == pc = "closed" /\ catalog # {} => Openable

\* A session is up, no segment is in flight, and the last write went well.
Resting == pc # "closed" /\ job = NoSeg /\ ~dirty

\* Every write makes the file unreadable for a while, and a failed one until
\* the next that succeeds.  Once the writer rests, a handle that keeps trying
\* gets in, as often as it tries, whatever failed, was cancelled or crashed
\* before.  Nothing is claimed of a writer that never rests: the code lets it
\* starve the others.
RestOpens ==
  \A r \in Readers : <>[]Resting => []<>(view[r] # NoView)

-----------------------------------------------------------------------------
(* Refinement *)

\* The log is the manifest the on-disk header designates, and it ends where
\* that manifest begins.
Log == INSTANCE SegmentLog WITH
         log  <- catalog,
         tail <- IF hdr = Blank THEN HEADER ELSE hdr.off,
         seen <- [r \in Readers |-> view[r].man]

\* Without I/O errors, and however often the process crashes, File::write
\* appends one segment at a time and File::open reads one such log.
ImplementsSegmentLog == Log!Spec

=============================================================================
