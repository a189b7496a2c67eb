-------------------------- MODULE WriteCycleProofs --------------------------
(***************************************************************************)
(* Safety of the write cycle for every set of segments, every size and     *)
(* every number of readers, I/O errors and crashes, in three parts: what   *)
(* is written stays (WriteInv), what the header on disk designates         *)
(* (CommitInv), and, until the first error, the log that the file is       *)
(* (LogInv).                                                               *)
(***************************************************************************)
EXTENDS WriteCycle, TLAPS

-----------------------------------------------------------------------------
(* The disk *)

\* Nothing that ends at or below o is lost, and nothing new begins below o.
Beyond(o) ==
  /\ \A x \in disk : x.off + x.size <= o => x \in disk'
  /\ \A x \in disk' \ disk : o <= x.off

\* Framing keeps sizes positive.
LEMMA SegmentAtType ==
  ASSUME NEW s \in Segs, NEW o \in Nat
  PROVE  SegmentAt(s, o) \in SegmentExtents
BY SizeAssumption DEF SegmentAt, SegmentExtents

LEMMA ManifestAtType ==
  ASSUME NEW m \in SUBSET Descriptor, NEW o \in Nat
  PROVE  ManifestAt(m, o) \in ManifestExtents
<1>1. {d.seg : d \in m} \in SUBSET Segs
  BY DEF Descriptor
<1>2. ManifestSize[{d.seg : d \in m}] \in Nat \ {0}
  BY <1>1, SizeAssumption
<1>3. QED
  BY <1>2 DEF ManifestAt, ManifestExtents

\* A write at or above o, however it ends, leaves what lies below o alone.
LEMMA WriteBeyond ==
  ASSUME NEW x \in Extents, NEW o \in Nat, o <= x.off, disk \subseteq Extents,
         Uncertain(x)
  PROVE  Beyond(o) /\ disk' \subseteq Extents
<1>1. /\ x.off \in Nat /\ x.size \in Nat \ {0}
      /\ \A y \in disk : y.off \in Nat /\ y.size \in Nat \ {0}
  BY DEF Extents, SegmentExtents, ManifestExtents
<1>2. \A n \in Nat : /\ Clear(x.off, n) \subseteq disk
                     /\ \A y \in disk : y.off + y.size <= o => y \in Clear(x.off, n)
  BY <1>1 DEF Clear, Overlaps
<1>3. CASE Land(x)
  BY <1>1, <1>2, <1>3 DEF Land, Beyond
<1>4. CASE Short(x)
  <2>1. PICK n \in 0 .. x.size - 1 : disk' = Clear(x.off, n)
    BY <1>4 DEF Short
  <2>2. n \in Nat
    BY <1>1
  <2>3. QED
    BY <2>1, <2>2, <1>2 DEF Beyond
<1>5. QED
  BY <1>3, <1>4 DEF Uncertain

\* What Manifest::write is about to put on disk, and where.
LEMMA PendingTypes ==
  ASSUME TypeOK
  PROVE  /\ pc = "segment" => SegmentAt(job, AppendOffset) \in SegmentExtents
         /\ pc \in {"new_manifest", "manifest"} =>
              /\ ManifestOffset \in Nat
              /\ ManifestAt(man, ManifestOffset) \in ManifestExtents
<1>1. head.off \in Nat /\ man \in SUBSET Descriptor
  BY DEF TypeOK, Sector
<1>2. ASSUME pc = "segment"
      PROVE  SegmentAt(job, AppendOffset) \in SegmentExtents
  <2>1. job \in Segs
    BY <1>2 DEF TypeOK
  <2>2. QED
    BY <1>1, <2>1, SegmentAtType DEF AppendOffset
<1>3. ASSUME pc \in {"new_manifest", "manifest"}
      PROVE  ManifestOffset \in Nat
  <2>1. pc = "manifest" => job \in Segs /\ sec \in Nat
    BY DEF TypeOK
  <2>2. QED
    BY <1>3, <2>1, SizeAssumption DEF ManifestOffset
<1>4. QED
  BY <1>1, <1>2, <1>3, ManifestAtType

LEMMA EndSessionType ==
  ASSUME EndSession
  PROVE  /\ pc' \in Phases \ {"segment", "manifest", "header"}
         /\ job' \in Segs \cup {NoSeg} /\ sec' \in Nat
         /\ man' \subseteq Descriptor /\ head' \in Sector
         /\ mapped' \in Nat /\ late' \in BOOLEAN /\ granted' \subseteq Descriptor
BY DEF EndSession, Phases, Sector, Blank

LEMMA ReturnType ==
  ASSUME TypeOK, Return
  PROVE  /\ pc' \in Phases \ {"segment", "manifest", "header"}
         /\ job' \in Segs \cup {NoSeg} /\ sec' \in Nat
         /\ man' \subseteq Descriptor /\ head' \in Sector
         /\ mapped' \in Nat /\ granted' \subseteq Descriptor
         /\ dirty' \in BOOLEAN
BY DEF TypeOK, Return, Phases

\* Whatever an interrupted step leaves behind is well typed.
LEMMA CutType ==
  ASSUME TypeOK, Cut
  PROVE  disk' \subseteq Extents /\ hdr' \in Sector /\ catalog' \subseteq Descriptor
<1>1. CASE UNCHANGED <<disk, hdr, catalog>>
  BY <1>1 DEF TypeOK
<1>2. CASE /\ pc = "segment" /\ ~late
           /\ Uncertain(SegmentAt(job, AppendOffset))
           /\ UNCHANGED <<hdr, catalog>>
  <2>1. SegmentAt(job, AppendOffset) \in Extents
    BY <1>2, PendingTypes DEF Extents
  <2>2. disk' \subseteq Extents
    BY <1>2, <2>1, WriteBeyond DEF TypeOK, SegmentAt, AppendOffset, Sector
  <2>3. QED
    BY <1>2, <2>2 DEF TypeOK
<1>3. CASE /\ pc \in {"new_manifest", "manifest"} /\ ~late
           /\ Uncertain(ManifestAt(man, ManifestOffset))
           /\ UNCHANGED <<hdr, catalog>>
  <2>1. ManifestOffset \in Nat /\ ManifestAt(man, ManifestOffset) \in Extents
    BY <1>3, PendingTypes DEF Extents
  <2>2. disk' \subseteq Extents
    BY <1>3, <2>1, WriteBeyond DEF TypeOK, ManifestAt
  <2>3. QED
    BY <1>3, <2>2 DEF TypeOK
<1>4. CASE /\ pc \in {"new_header", "header"} /\ ~late
           /\ PointHeader
           /\ UNCHANGED disk
  BY <1>4 DEF TypeOK, PointHeader
<1>5. QED
  BY <1>1, <1>2, <1>3, <1>4 DEF Cut

LEMMA IssueType ==
  ASSUME TypeOK, NEW x \in Extents, Issue(x)
  PROVE  /\ disk' \subseteq Extents /\ late' \in BOOLEAN /\ faults' \in 0 .. MaxFaults
         /\ Uncertain(x)
<1>1. Uncertain(x)
  BY DEF Issue, Uncertain
<1>2. x.off \in Nat
  BY DEF Extents, SegmentExtents, ManifestExtents
<1>3. disk' \subseteq Extents
  BY <1>1, <1>2, WriteBeyond DEF TypeOK
<1>4. late' \in BOOLEAN /\ faults' \in 0 .. MaxFaults
  <2>1. CASE UNCHANGED <<late, faults>>
    BY <2>1 DEF TypeOK
  <2>2. CASE faults < MaxFaults /\ faults' = faults + 1 /\ late' = TRUE
    BY <2>2, BoundAssumption DEF TypeOK
  <2>3. QED
    BY <2>1, <2>2 DEF Issue
<1>5. QED
  BY <1>1, <1>3, <1>4

-----------------------------------------------------------------------------
(* Types *)

\* Every action keeps the type of every variable.
LEMMA TypeStep ==
  ASSUME TypeOK, [Next]_vars
  PROVE  TypeOK'
<1>1. CASE CreateNew
  BY <1>1 DEF CreateNew, TypeOK, Phases, session, handles, history, bounds
<1>2. CASE Open
  <2>1. man' \subseteq Descriptor
    BY <1>2 DEF Open, TypeOK, Decodes, Extents, SegmentExtents, ManifestExtents
  <2>2. QED
    BY <1>2, <2>1 DEF Open, TypeOK, Phases, file, handles, bounds
<1>3. CASE Close
  BY <1>3, EndSessionType DEF Close, TypeOK, file, handles, bounds
<1>4. ASSUME NEW s \in Segs, Begin(s)
      PROVE  TypeOK'
  BY <1>4 DEF Begin, TypeOK, Phases, file, handles, bounds
<1>5. ASSUME NEW s \in Segs, Dedupe(s)
      PROVE  TypeOK'
  <2>1. granted' \subseteq Descriptor /\ tried' \subseteq Segs
    BY <1>5 DEF Dedupe, TypeOK, Entries
  <2>2. QED
    BY <1>5, <2>1 DEF Dedupe, TypeOK, file, session, handles, bounds
<1>6. ASSUME NEW s \in Segs, Reject(s)
      PROVE  TypeOK'
  BY <1>6 DEF Reject, TypeOK, file, session, handles, bounds
<1>7. CASE WriteSegment
  <2>1. SegmentAt(job, AppendOffset) \in Extents
    BY <1>7, PendingTypes DEF WriteSegment, Extents
  <2>2. /\ disk' \subseteq Extents /\ late' \in BOOLEAN
        /\ faults' \in 0 .. MaxFaults
    BY <1>7, <2>1, IssueType DEF WriteSegment
  <2>3. job \in Segs /\ AppendOffset \in Nat
    BY <1>7 DEF WriteSegment, TypeOK, AppendOffset, Sector
  <2>4. man' \subseteq Descriptor
    BY <1>7, <2>3 DEF WriteSegment, TypeOK, Insert, Descriptor
  <2>5. QED
    BY <1>7, <2>2, <2>3, <2>4
    DEF WriteSegment, TypeOK, Phases, handles, history
<1>8. CASE WriteManifest
  <2>1. /\ ManifestOffset \in Nat
        /\ ManifestAt(man, ManifestOffset) \in ManifestExtents
    BY <1>8, PendingTypes DEF WriteManifest
  <2>2. /\ disk' \subseteq Extents /\ late' \in BOOLEAN
        /\ faults' \in 0 .. MaxFaults
    BY <1>8, <2>1, IssueType DEF WriteManifest, Extents
  <2>3. head' \in Sector
    BY <1>8, <2>1
    DEF WriteManifest, ManifestSector, SectorOf, Sector, ManifestExtents
  <2>4. QED
    BY <1>8, <2>2, <2>3
    DEF WriteManifest, TypeOK, Phases, handles, history
<1>9. CASE WriteHeader
  <2>1. [seg |-> job, off |-> sec] \in Descriptor
    BY <1>9 DEF WriteHeader, TypeOK, Descriptor
  <2>2. acked' \subseteq Descriptor /\ granted' \subseteq Descriptor
    BY <1>9, <2>1 DEF WriteHeader, TypeOK
  <2>3. hdr' \in Sector /\ catalog' \subseteq Descriptor
    BY <1>9 DEF WriteHeader, PointHeader, TypeOK
  <2>4. QED
    BY <1>9, <2>2, <2>3 DEF WriteHeader, TypeOK, Phases, handles, bounds
<1>10. CASE CreateHeader
  BY <1>10
  DEF CreateHeader, PointHeader, TypeOK, Phases, session, handles, bounds
<1>11. CASE Remap
  BY <1>11
  DEF Remap, MapEnd, TypeOK, Phases, Sector, file, handles, history, bounds
<1>12. CASE Fail
  <2>1. faults' \in 0 .. MaxFaults
    BY <1>12, BoundAssumption DEF Fail, TypeOK
  <2>2. disk' \subseteq Extents /\ hdr' \in Sector /\ catalog' \subseteq Descriptor
    BY <1>12, CutType DEF Fail
  <2>3. CASE Unborn /\ EndSession /\ UNCHANGED dirty
    BY <1>12, <2>1, <2>2, <2>3, EndSessionType DEF Fail, TypeOK, handles
  <2>4. CASE ~Unborn /\ Return /\ UNCHANGED late
    BY <1>12, <2>1, <2>2, <2>4, ReturnType DEF Fail, TypeOK, handles
  <2>5. QED
    BY <1>12, <2>3, <2>4 DEF Fail
<1>13. CASE Surface
  <2>1. CASE Unborn /\ EndSession /\ UNCHANGED dirty
    BY <1>13, <2>1, EndSessionType DEF Surface, TypeOK, file, handles, bounds
  <2>2. CASE ~Unborn /\ Return /\ late' = FALSE
    BY <1>13, <2>2, ReturnType DEF Surface, TypeOK, file, handles, bounds
  <2>3. QED
    BY <1>13, <2>1, <2>2 DEF Surface
<1>14. CASE Crash
  <2>1. crashes' \in 0 .. MaxCrashes
    BY <1>14, BoundAssumption DEF Crash, TypeOK
  <2>2. disk' \subseteq Extents /\ hdr' \in Sector /\ catalog' \subseteq Descriptor
    BY <1>14, CutType DEF Crash
  <2>3. QED
    BY <1>14, <2>1, <2>2, EndSessionType DEF Crash, TypeOK, handles
<1>15. ASSUME NEW r \in Readers, PeekHeader(r)
       PROVE  TypeOK'
  BY <1>15 DEF PeekHeader, TypeOK, file, session, history, bounds
<1>16. ASSUME NEW r \in Readers, PeekManifest(r)
       PROVE  TypeOK'
  <2>1. peek' \in [Readers -> Sector]
    BY <1>16 DEF PeekManifest, TypeOK, Sector, Blank
  <2>2. view' \in [Readers -> [man : SUBSET Descriptor, end : Nat]]
    BY <1>16
    DEF PeekManifest, TypeOK, Decodes, MapEnd, Sector,
        Extents, SegmentExtents, ManifestExtents
  <2>3. QED
    BY <1>16, <2>1, <2>2
    DEF PeekManifest, TypeOK, file, session, history, bounds
<1>17. ASSUME NEW r \in Readers, ShareMap(r)
       PROVE  TypeOK'
  BY <1>17 DEF ShareMap, TypeOK, file, session, history, bounds
<1>18. ASSUME NEW r \in Readers, DropView(r)
       PROVE  TypeOK'
  BY <1>18 DEF DropView, TypeOK, NoView, file, session, history, bounds
<1>19. CASE UNCHANGED vars
  BY <1>19 DEF TypeOK, vars, file, session, handles, history, bounds
<1>20. QED
  BY <1>1, <1>2, <1>3, <1>4, <1>5, <1>6, <1>7, <1>8, <1>9, <1>10, <1>11,
     <1>12, <1>13, <1>14, <1>15, <1>16, <1>17, <1>18, <1>19
  DEF Next, Write, Proceed, Handle

\* Every variable keeps its type through every action.
THEOREM TypeCorrect == Spec => []TypeOK
<1>1. Init => TypeOK
  <2> SUFFICES ASSUME Init
               PROVE  TypeOK
    OBVIOUS
  <2>1. Blank \in Sector /\ NoView \in [man : SUBSET Descriptor, end : Nat]
    BY DEF Blank, Sector, NoView
  <2>2. /\ peek \in [Readers -> Sector]
        /\ view \in [Readers -> [man : SUBSET Descriptor, end : Nat]]
    BY <2>1 DEF Init
  <2>3. faults \in 0 .. MaxFaults /\ crashes \in 0 .. MaxCrashes
    BY BoundAssumption DEF Init
  <2>4. exists \in BOOLEAN /\ late \in BOOLEAN /\ dirty \in BOOLEAN
    BY DEF Init
  <2>5. QED
    BY <2>1, <2>2, <2>3, <2>4 DEF Init, TypeOK, Phases
<1>2. TypeOK /\ [Next]_vars => TypeOK'
  BY TypeStep
<1>3. QED
  BY <1>1, <1>2, PTL DEF Spec

-----------------------------------------------------------------------------
(* The inductive invariant *)

\* A session past Dataset::new holds a header, and every write it issues lies
\* at or above the offset in it; outside a session nothing is written.
Live == pc \in {"mount", "idle", "segment", "manifest", "header", "remap"}

\* Where writes go never falls below what anybody has mapped.
OffsetsInv ==
  /\ Live => hdr.off <= head.off
  /\ pc \in {"mount", "remap"} => head.off = hdr.off
  /\ pc \in {"new_manifest", "new_header"} => hdr = Blank
  /\ pc = "new_header" => head.off = HEADER
  /\ ~exists => hdr = Blank
  /\ mapped <= hdr.off
  /\ \A r \in Readers : view[r].end <= hdr.off /\ peek[r].off <= hdr.off

\* The segment being committed is in place until its write is acknowledged.
PendingInv ==
  /\ pc = "manifest" => sec = head.off
  /\ pc = "manifest" /\ ~late => SegmentAt(job, sec) \in disk
  /\ pc = "header" => head.off = sec + SizeOf[job] /\ SegmentAt(job, sec) \in disk

TiledInv ==
  /\ hdr # Blank => Tiled(disk, hdr.off)
  /\ Live => Tiled(disk, head.off)

\* A session exists only for a file that does.
ExistsInv == pc # "closed" => exists

WriteInv == ExistsInv /\ OffsetsInv /\ PendingInv /\ AckedDurable /\ TiledInv

\* Every pending write lies above the segments already committed.
LEMMA PendingAbove ==
  ASSUME TypeOK, OffsetsInv, PendingInv
  PROVE  /\ hdr.off \in Nat /\ head.off \in Nat
         /\ pc = "segment" => hdr.off <= AppendOffset /\ head.off <= AppendOffset
         /\ pc = "manifest" =>
              hdr.off <= ManifestOffset /\ head.off <= ManifestOffset
         /\ pc = "new_manifest" => hdr.off <= ManifestOffset
<1>1. hdr.off \in Nat /\ head.off \in Nat /\ HEADER \in Nat
  BY SizeAssumption DEF TypeOK, Sector
<1>2. ASSUME pc = "manifest"
      PROVE  hdr.off <= ManifestOffset /\ head.off <= ManifestOffset
  <2>1. job \in Segs /\ sec = head.off /\ hdr.off <= head.off
    BY <1>2 DEF TypeOK, OffsetsInv, PendingInv, Live
  <2>2. SizeOf[job] \in Nat
    BY <2>1, SizeAssumption
  <2>3. QED
    BY <1>1, <1>2, <2>1, <2>2 DEF ManifestOffset
<1>3. pc = "segment" => hdr.off <= AppendOffset /\ head.off <= AppendOffset
  BY <1>1 DEF OffsetsInv, Live, AppendOffset
<1>4. pc = "new_manifest" => hdr.off <= ManifestOffset
  BY <1>1 DEF OffsetsInv, ManifestOffset, Blank
<1>5. QED
  BY <1>1, <1>2, <1>3, <1>4

LEMMA UncertainBeyond ==
  ASSUME TypeOK, OffsetsInv, PendingInv,
         \/ pc = "segment" /\ Uncertain(SegmentAt(job, AppendOffset))
         \/ /\ pc \in {"new_manifest", "manifest"}
            /\ Uncertain(ManifestAt(man, ManifestOffset))
  PROVE  Beyond(hdr.off) /\ (Live => Beyond(head.off))
<1>1. disk \subseteq Extents /\ hdr.off \in Nat /\ head.off \in Nat
  BY PendingAbove DEF TypeOK
<1>2. CASE pc = "segment" /\ Uncertain(SegmentAt(job, AppendOffset))
  <2>1. /\ SegmentAt(job, AppendOffset) \in Extents
        /\ SegmentAt(job, AppendOffset).off = AppendOffset
    BY <1>2, PendingTypes DEF Extents, SegmentAt
  <2>2. hdr.off <= AppendOffset /\ head.off <= AppendOffset
    BY <1>2, PendingAbove
  <2>3. QED
    BY <1>1, <1>2, <2>1, <2>2, WriteBeyond
<1>3. CASE /\ pc \in {"new_manifest", "manifest"}
           /\ Uncertain(ManifestAt(man, ManifestOffset))
  <2>1. /\ ManifestAt(man, ManifestOffset) \in Extents
        /\ ManifestAt(man, ManifestOffset).off = ManifestOffset
    BY <1>3, PendingTypes DEF Extents, ManifestAt
  <2>2. /\ hdr.off <= ManifestOffset
        /\ Live => head.off <= ManifestOffset
    BY <1>3, PendingAbove DEF Live
  <2>3. QED
    BY <1>1, <1>3, <2>1, <2>2, WriteBeyond
<1>4. QED
  BY <1>2, <1>3

LEMMA UnchangedBeyond ==
  ASSUME NEW o, UNCHANGED disk
  PROVE  Beyond(o)
BY DEF Beyond

LEMMA CutBeyond ==
  ASSUME TypeOK, OffsetsInv, PendingInv, Cut
  PROVE  /\ Beyond(hdr.off) /\ (Live => Beyond(head.off))
         /\ \/ hdr' = hdr
            \/ pc \in {"new_header", "header"} /\ hdr' = head /\ UNCHANGED disk
<1>1. CASE UNCHANGED <<disk, hdr, catalog>>
  BY <1>1, UnchangedBeyond
<1>2. CASE /\ pc = "segment" /\ ~late
           /\ Uncertain(SegmentAt(job, AppendOffset))
           /\ UNCHANGED <<hdr, catalog>>
  BY <1>2, UncertainBeyond
<1>3. CASE /\ pc \in {"new_manifest", "manifest"} /\ ~late
           /\ Uncertain(ManifestAt(man, ManifestOffset))
           /\ UNCHANGED <<hdr, catalog>>
  BY <1>3, UncertainBeyond
<1>4. CASE /\ pc \in {"new_header", "header"} /\ ~late
           /\ PointHeader
           /\ UNCHANGED disk
  BY <1>4, UnchangedBeyond DEF PointHeader
<1>5. QED
  BY <1>1, <1>2, <1>3, <1>4 DEF Cut

LEMMA IssueUncertain ==
  ASSUME NEW x, Issue(x)
  PROVE  Uncertain(x)
BY DEF Issue, Uncertain

\* No step disturbs the segment region, and the header only moves forward.
LEMMA StepBeyond ==
  ASSUME TypeOK, OffsetsInv, PendingInv, [Next]_vars
  PROVE  /\ Beyond(hdr.off) /\ (Live => Beyond(head.off))
         /\ \/ hdr' = hdr
            \/ pc \in {"new_header", "header"} /\ hdr' = head /\ UNCHANGED disk
<1>1. CASE WriteSegment
  BY <1>1, IssueUncertain, UncertainBeyond DEF WriteSegment
<1>2. CASE WriteManifest
  BY <1>2, IssueUncertain, UncertainBeyond DEF WriteManifest
<1>3. CASE Fail \/ Crash
  BY <1>3, CutBeyond DEF Fail, Crash
<1>4. CASE WriteHeader \/ CreateHeader
  BY <1>4, UnchangedBeyond DEF WriteHeader, CreateHeader, PointHeader
<1>5. CASE UNCHANGED <<disk, hdr>>
  BY <1>5, UnchangedBeyond
<1>6. CASE \/ CreateNew \/ Open \/ Close \/ Remap \/ Surface
           \/ \E s \in Segs : Write(s)
           \/ \E r \in Readers : Handle(r)
           \/ UNCHANGED vars
  <2>1. UNCHANGED <<disk, hdr>>
    BY <1>6
    DEF CreateNew, Open, Close, Remap, Surface, Write, Begin, Dedupe, Reject,
        Handle, PeekHeader, PeekManifest, ShareMap, DropView, vars, file
  <2>2. QED
    BY <1>5, <2>1
<1>7. QED
  BY <1>1, <1>2, <1>3, <1>4, <1>6 DEF Next, Proceed

LEMMA HeaderGrows ==
  ASSUME TypeOK, OffsetsInv, PendingInv, [Next]_vars
  PROVE  hdr'.off \in Nat /\ hdr.off <= hdr'.off
<1>1. hdr.off \in Nat /\ head.off \in Nat
  BY PendingAbove
<1>2. CASE hdr' = hdr
  BY <1>1, <1>2
<1>3. CASE pc \in {"new_header", "header"} /\ hdr' = head
  BY <1>1, <1>3 DEF OffsetsInv, Live, Blank
<1>4. QED
  BY <1>2, <1>3, StepBeyond

-----------------------------------------------------------------------------
(* Preservation *)

\* Closing the session leaves only the readers and the header to relate.
LEMMA OffsetsClosed ==
  ASSUME TypeOK, OffsetsInv, PendingInv, [Next]_vars,
         EndSession, UNCHANGED <<exists, peek, view>>,
         exists
  PROVE  OffsetsInv'
<1>1. hdr'.off \in Nat /\ hdr.off <= hdr'.off /\ hdr.off \in Nat
  BY HeaderGrows, PendingAbove
<1>2. \A r \in Readers : /\ view[r].end \in Nat /\ peek[r].off \in Nat
                         /\ view[r].end <= hdr.off /\ peek[r].off <= hdr.off
  BY DEF TypeOK, OffsetsInv, Sector
<1>3. \A r \in Readers : view[r].end <= hdr'.off /\ peek[r].off <= hdr'.off
  BY <1>1, <1>2
<1>4. QED
  BY <1>1, <1>3 DEF EndSession, OffsetsInv, Live

LEMMA OffsetsReturned ==
  ASSUME TypeOK, OffsetsInv, PendingInv, Live, Return,
         UNCHANGED <<exists, peek, view>>, exists,
         hdr' = hdr \/ (pc = "header" /\ hdr' = head)
  PROVE  OffsetsInv'
<1>1. /\ hdr.off \in Nat /\ head.off \in Nat /\ hdr.off <= head.off
      /\ mapped \in Nat /\ mapped <= hdr.off
  BY PendingAbove DEF OffsetsInv, TypeOK
<1>2. hdr'.off \in Nat /\ hdr.off <= hdr'.off /\ hdr'.off <= head.off
  BY <1>1
<1>3. \A r \in Readers : /\ view[r].end \in Nat /\ peek[r].off \in Nat
                         /\ view[r].end <= hdr.off /\ peek[r].off <= hdr.off
  BY DEF TypeOK, OffsetsInv, Sector
<1>4. \A r \in Readers : view[r].end <= hdr'.off /\ peek[r].off <= hdr'.off
  BY <1>1, <1>2, <1>3
<1>5. QED
  BY <1>1, <1>2, <1>4 DEF Return, OffsetsInv, Live

LEMMA OffsetsStep ==
  ASSUME TypeOK, OffsetsInv, PendingInv, ExistsInv, [Next]_vars
  PROVE  OffsetsInv'
<1>0. /\ hdr.off \in Nat /\ head.off \in Nat /\ mapped \in Nat
      /\ \A r \in Readers : view[r].end \in Nat /\ peek[r].off \in Nat
  BY PendingAbove DEF TypeOK, Sector
<1>1. CASE CreateNew
  BY <1>0, <1>1
  DEF CreateNew, OffsetsInv, Live, session, handles, history, bounds
<1>2. CASE Open
  BY <1>0, <1>2 DEF Open, OffsetsInv, Live, file, handles, bounds
<1>3. CASE Close
  BY <1>3, OffsetsClosed DEF Close, ExistsInv, file, handles
<1>4. ASSUME NEW s \in Segs, Write(s)
      PROVE  OffsetsInv'
  BY <1>0, <1>4
  DEF Write, Begin, Dedupe, Reject, OffsetsInv, Live, file, session, handles
<1>5. CASE WriteSegment
  BY <1>0, <1>5 DEF WriteSegment, OffsetsInv, Live, handles
<1>6. CASE WriteManifest
  <2>1. head'.off = ManifestOffset
    BY <1>6 DEF WriteManifest, ManifestSector, SectorOf, ManifestAt
  <2>2. pc = "manifest" => hdr.off <= ManifestOffset
    BY PendingAbove
  <2>3. pc = "new_manifest" => ManifestOffset = HEADER
    BY DEF ManifestOffset
  <2>4. QED
    BY <1>0, <1>6, <2>1, <2>2, <2>3 DEF WriteManifest, OffsetsInv, Live, handles
<1>7. CASE WriteHeader
  <2>1. hdr' = head /\ head' = head /\ hdr.off <= head.off
    BY <1>7 DEF WriteHeader, PointHeader, OffsetsInv, Live
  <2>2. QED
    BY <1>0, <1>7, <2>1, SizeAssumption
    DEF WriteHeader, OffsetsInv, ExistsInv, Live, handles
<1>8. CASE CreateHeader
  <2>1. hdr' = head /\ head' = head /\ hdr.off <= head.off
    BY <1>0, <1>8 DEF CreateHeader, PointHeader, OffsetsInv, Blank, session
  <2>2. QED
    BY <1>0, <1>8, <2>1
    DEF CreateHeader, OffsetsInv, ExistsInv, Live, session, handles
<1>9. CASE Remap
  BY <1>0, <1>9 DEF Remap, MapEnd, OffsetsInv, Live, file, handles
<1>10. CASE Fail
  <2>1. exists /\ UNCHANGED <<exists, peek, view>>
    BY <1>10 DEF Fail, ExistsInv, handles
  <2>2. hdr' = hdr \/ (pc \in {"new_header", "header"} /\ hdr' = head)
    BY StepBeyond
  <2>3. CASE Unborn /\ EndSession
    BY <2>1, <2>3, OffsetsClosed
  <2>4. CASE ~Unborn /\ Return
    <3>1. Live
      BY <1>10, <2>4 DEF Fail, Unborn, Live, TypeOK, Phases
    <3>2. hdr' = hdr \/ (pc = "header" /\ hdr' = head)
      BY <2>2, <2>4 DEF Unborn
    <3>3. QED
      BY <2>1, <2>4, <3>1, <3>2, OffsetsReturned
  <2>5. QED
    BY <1>10, <2>3, <2>4 DEF Fail
<1>11. CASE Surface
  <2>1. exists /\ UNCHANGED <<exists, hdr, peek, view>>
    BY <1>11 DEF Surface, ExistsInv, file, handles
  <2>2. CASE Unborn /\ EndSession
    BY <2>1, <2>2, OffsetsClosed
  <2>3. CASE ~Unborn /\ Return
    <3>1. Live
      BY <1>11, <2>3 DEF Surface, Unborn, Live
    <3>2. QED
      BY <2>1, <2>3, <3>1, OffsetsReturned
  <2>4. QED
    BY <1>11, <2>2, <2>3 DEF Surface
<1>12. CASE Crash
  BY <1>12, OffsetsClosed DEF Crash, ExistsInv, handles
<1>13. ASSUME NEW r \in Readers, Handle(r)
       PROVE  OffsetsInv'
  <2>1. UNCHANGED <<exists, hdr, pc, head, mapped>>
    BY <1>13
    DEF Handle, PeekHeader, PeekManifest, ShareMap, DropView, file, session
  <2>2. \A q \in Readers : view'[q].end <= hdr.off /\ peek'[q].off <= hdr.off
    BY <1>0, <1>13
    DEF Handle, PeekHeader, PeekManifest, ShareMap, DropView, TypeOK, OffsetsInv,
        Blank, NoView, MapEnd
  <2>3. QED
    BY <2>1, <2>2 DEF OffsetsInv, Live
<1>14. CASE UNCHANGED vars
  BY <1>14 DEF OffsetsInv, Live, vars, file, session, handles
<1>15. QED
  BY <1>1, <1>2, <1>3, <1>4, <1>5, <1>6, <1>7, <1>8, <1>9, <1>10, <1>11,
     <1>12, <1>13, <1>14 DEF Next, Proceed

LEMMA ExistsStep ==
  ASSUME ExistsInv, [Next]_vars
  PROVE  ExistsInv'
BY DEF ExistsInv, Next, Write, Proceed, Handle, CreateNew, Open, Close, Begin,
       Dedupe, Reject, WriteSegment, WriteManifest, WriteHeader, CreateHeader,
       Remap, Fail, Surface, Crash, PeekHeader, PeekManifest, ShareMap, DropView,
       EndSession, vars, file

\* The segment the manifest is about to list is not touched by the manifest.
LEMMA PendingStep ==
  ASSUME TypeOK, OffsetsInv, PendingInv, [Next]_vars
  PROVE  PendingInv'
<1>1. CASE WriteSegment
  <2>1. ~late' => SegmentAt(job, AppendOffset) \in disk'
    BY <1>1 DEF WriteSegment, Issue, Land
  <2>2. QED
    BY <1>1, <2>1 DEF WriteSegment, PendingInv, AppendOffset, SegmentAt
<1>2. CASE WriteManifest
  <2>1. CASE pc = "new_manifest"
    BY <1>2, <2>1 DEF WriteManifest, PendingInv
  <2>2. CASE pc = "manifest"
    <3>1. /\ SegmentAt(job, sec) \in disk
          /\ job \in Segs /\ sec \in Nat /\ SizeOf[job] \in Nat
          /\ ManifestOffset = sec + SizeOf[job]
      BY <1>2, <2>2, SizeAssumption
      DEF WriteManifest, PendingInv, TypeOK, ManifestOffset
    <3>2. /\ ManifestOffset \in Nat
          /\ ManifestAt(man, ManifestOffset) \in Extents
          /\ ManifestAt(man, ManifestOffset).off = ManifestOffset
      BY <2>2, PendingTypes DEF Extents, ManifestAt
    <3>3. Beyond(ManifestOffset)
      BY <1>2, <3>2, IssueUncertain, WriteBeyond DEF WriteManifest, TypeOK
    <3>4. SegmentAt(job, sec) \in disk'
      BY <3>1, <3>3 DEF Beyond, SegmentAt
    <3>5. head'.off = sec + SizeOf[job]
      BY <1>2, <3>1 DEF WriteManifest, ManifestSector, SectorOf, ManifestAt
    <3>6. QED
      BY <1>2, <2>2, <3>4, <3>5 DEF WriteManifest, PendingInv, SegmentAt
  <2>3. QED
    BY <1>2, <2>1, <2>2 DEF WriteManifest
<1>3. CASE pc' \notin {"manifest", "header"}
  BY <1>3 DEF PendingInv
<1>4. CASE UNCHANGED <<pc, job, sec, head, late, disk>>
  BY <1>4 DEF PendingInv, SegmentAt
<1>5. CASE CreateNew \/ Open \/ Close \/ WriteHeader \/ CreateHeader \/ Remap
           \/ Fail \/ Surface \/ Crash
  BY <1>3, <1>5
  DEF CreateNew, Open, Close, WriteHeader, CreateHeader, Remap, Fail, Surface,
      Crash, EndSession, Return
<1>6. CASE (\E s \in Segs : Begin(s))
  BY <1>3, <1>6 DEF Begin
<1>7. CASE \/ \E s \in Segs : Dedupe(s) \/ Reject(s)
           \/ \E r \in Readers : Handle(r)
           \/ UNCHANGED vars
  BY <1>4, <1>7
  DEF Dedupe, Reject, Handle, PeekHeader, PeekManifest, ShareMap, DropView,
      vars, file, session
<1>8. QED
  BY <1>1, <1>2, <1>5, <1>6, <1>7 DEF Next, Write, Proceed

LEMMA AckedStep ==
  ASSUME TypeOK, OffsetsInv, PendingInv, AckedDurable, [Next]_vars
  PROVE  AckedDurable'
<1>1. /\ hdr.off \in Nat /\ hdr'.off \in Nat /\ hdr.off <= hdr'.off
      /\ Beyond(hdr.off)
  BY PendingAbove, HeaderGrows, StepBeyond
<1>2. ASSUME NEW d \in acked
      PROVE  SegmentAt(d.seg, d.off) \in disk' /\ EndOf(d) <= hdr'.off
  <2>1. d.off \in Nat /\ SizeOf[d.seg] \in Nat
    BY SizeAssumption DEF TypeOK, Descriptor
  <2>2. SegmentAt(d.seg, d.off) \in disk /\ EndOf(d) <= hdr.off
    BY DEF AckedDurable, Stored
  <2>3. SegmentAt(d.seg, d.off) \in disk'
    BY <1>1, <2>2 DEF Beyond, SegmentAt, EndOf
  <2>4. QED
    BY <1>1, <2>1, <2>2, <2>3 DEF EndOf
<1>3. CASE WriteHeader
  <2>1. /\ acked' = acked \cup {[seg |-> job, off |-> sec]}
        /\ UNCHANGED disk /\ hdr' = head
    BY <1>3 DEF WriteHeader, PointHeader
  <2>2. SegmentAt(job, sec) \in disk /\ head.off = sec + SizeOf[job]
    BY <1>3 DEF WriteHeader, PendingInv
  <2>3. sec + SizeOf[job] <= head.off
    BY <2>2, PendingAbove
  <2>4. QED
    BY <1>2, <2>1, <2>2, <2>3 DEF AckedDurable, Stored, EndOf, SegmentAt
<1>4. CASE acked' = acked
  BY <1>2, <1>4 DEF AckedDurable, Stored, EndOf, SegmentAt
<1>5. CASE ~WriteHeader
  <2>1. acked' = acked
    BY <1>5
    DEF Next, Write, Proceed, Handle, CreateNew, Open, Close, Begin, Dedupe,
        Reject, WriteSegment, WriteManifest, CreateHeader, Remap, Fail,
        Surface, Crash, PeekHeader, PeekManifest, ShareMap, DropView, vars, history
  <2>2. QED
    BY <1>4, <2>1
<1>6. QED
  BY <1>3, <1>5

LEMMA TiledKept ==
  ASSUME NEW D, NEW E, NEW end \in Nat, Tiled(D, end),
         \A x \in D : x.off + x.size <= end => x \in E
  PROVE  Tiled(E, end)
BY DEF Tiled

LEMMA TiledEmpty == \A D : Tiled(D, HEADER)
BY SizeAssumption DEF Tiled

\* A segment that begins where the tiling ends extends it.
LEMMA TiledExtend ==
  ASSUME NEW D \in SUBSET Extents, NEW o \in Nat, Tiled(D, o),
         NEW x \in D, x \in SegmentExtents, x.off = o
  PROVE  Tiled(D, o + x.size)
<1>1. x.size \in Nat \ {0} /\ x.kind = "segment"
  BY DEF SegmentExtents
<1>2. SUFFICES ASSUME NEW i \in HEADER .. (o + x.size) - 1
               PROVE  \E y \in D : /\ y.kind = "segment"
                                   /\ y.off <= i /\ i < y.off + y.size
                                   /\ y.off + y.size <= o + x.size
  BY DEF Tiled
<1>3. i \in Nat /\ HEADER \in Nat
  BY SizeAssumption
<1>4. CASE i < o
  <2>1. i \in HEADER .. o - 1
    BY <1>3, <1>4
  <2>2. PICK y \in D : /\ y.kind = "segment"
                       /\ y.off <= i /\ i < y.off + y.size
                       /\ y.off + y.size <= o
    BY <2>1 DEF Tiled
  <2>3. y.off \in Nat /\ y.size \in Nat
    BY DEF Extents, SegmentExtents, ManifestExtents
  <2>4. y.off + y.size <= o + x.size
    BY <1>1, <2>2, <2>3
  <2>5. QED
    BY <2>2, <2>4
<1>5. CASE o <= i
  BY <1>1, <1>3, <1>5
<1>6. QED
  BY <1>3, <1>4, <1>5

LEMMA TiledHeader ==
  ASSUME TypeOK, WriteInv, [Next]_vars, hdr' # Blank
  PROVE  Tiled(disk', hdr'.off)
<1>1. TypeOK /\ OffsetsInv /\ PendingInv /\ TiledInv
  BY DEF WriteInv
<1>2. hdr.off \in Nat /\ head.off \in Nat
  BY <1>1, PendingAbove
<1>3. CASE hdr' = hdr
  <2>1. Beyond(hdr.off)
    BY <1>1, StepBeyond
  <2>2. QED
    BY <1>1, <1>2, <1>3, <2>1, TiledKept DEF Beyond, TiledInv
<1>4. CASE pc = "header" /\ hdr' = head /\ UNCHANGED disk
  BY <1>1, <1>4 DEF TiledInv, Live
<1>5. CASE pc = "new_header" /\ hdr' = head
  BY <1>1, <1>5, TiledEmpty DEF OffsetsInv
<1>6. QED
  BY <1>1, <1>3, <1>4, <1>5, StepBeyond

LEMMA TiledMemory ==
  ASSUME TypeOK, WriteInv, [Next]_vars, Live'
  PROVE  Tiled(disk', head'.off)
<1>1. TypeOK /\ OffsetsInv /\ PendingInv /\ TiledInv
  BY DEF WriteInv
<1>2. hdr.off \in Nat /\ head.off \in Nat
  BY <1>1, PendingAbove
<1>3. CASE Live /\ head' = head
  <2>1. Beyond(head.off)
    BY <1>1, <1>3, StepBeyond
  <2>2. QED
    BY <1>1, <1>2, <1>3, <2>1, TiledKept DEF Beyond, TiledInv
<1>4. CASE Open
  <2>1. hdr # Blank
    BY <1>4
    DEF Open, Decodes, TypeOK, Extents, SegmentExtents, ManifestExtents, SectorOf,
        Blank
  <2>2. QED
    BY <1>1, <1>4, <2>1 DEF Open, TiledInv, file
<1>5. CASE CreateHeader
  BY <1>1, <1>5, TiledEmpty DEF CreateHeader, OffsetsInv, session
<1>6. CASE WriteManifest
  <2>1. pc = "manifest" /\ pc' = "header" /\ job' = job /\ sec' = sec
    BY <1>6 DEF WriteManifest, Live
  <2>2. /\ head'.off = sec + SizeOf[job] /\ SegmentAt(job, sec) \in disk'
        /\ sec = head.off /\ job \in Segs
    BY <1>1, <2>1, PendingStep DEF PendingInv, SegmentAt, TypeOK
  <2>3. Beyond(head.off)
    BY <1>1, <2>1, StepBeyond DEF Live
  <2>4. Tiled(disk', sec)
    BY <1>1, <1>2, <2>1, <2>2, <2>3, TiledKept DEF Beyond, TiledInv, Live
  <2>5. disk' \in SUBSET Extents
    <3>1. ManifestAt(man, ManifestOffset) \in Extents
      BY <2>1, PendingTypes DEF Extents
    <3>2. QED
      BY <1>6, <3>1, IssueType DEF WriteManifest
  <2>6. /\ SegmentAt(job, sec) \in SegmentExtents
        /\ SegmentAt(job, sec).off = sec /\ SegmentAt(job, sec).size = SizeOf[job]
    BY <1>2, <2>2, SegmentAtType DEF SegmentAt
  <2>7. QED
    BY <1>2, <2>2, <2>4, <2>5, <2>6, TiledExtend
<1>7. CASE CreateNew \/ Close \/ Crash
  BY <1>7 DEF CreateNew, Close, Crash, EndSession, Live
<1>8. CASE Fail \/ Surface
  <2>1. CASE Unborn /\ EndSession
    BY <2>1 DEF EndSession, Live
  <2>2. CASE ~Unborn /\ Return
    <3>1. Live /\ head' = head
      BY <1>8, <2>2 DEF Fail, Surface, Unborn, Return, Live, TypeOK, Phases
    <3>2. QED
      BY <1>3, <3>1
  <2>3. QED
    BY <1>8, <2>1, <2>2 DEF Fail, Surface
<1>9. CASE \/ WriteSegment \/ WriteHeader
           \/ \E s \in Segs : Begin(s)
  BY <1>3, <1>9 DEF WriteSegment, WriteHeader, Begin, Live
<1>10. CASE Remap
  BY <1>3, <1>10 DEF Remap, Live
<1>11. CASE \/ \E s \in Segs : Dedupe(s) \/ Reject(s)
            \/ \E r \in Readers : Handle(r)
            \/ UNCHANGED vars
  <2>1. pc' = pc /\ head' = head
    BY <1>11
    DEF Dedupe, Reject, Handle, PeekHeader, PeekManifest, ShareMap, DropView,
        vars, session
  <2>2. QED
    BY <1>3, <2>1 DEF Live
<1>12. QED
  BY <1>4, <1>5, <1>6, <1>7, <1>8, <1>9, <1>10, <1>11 DEF Next, Write, Proceed

-----------------------------------------------------------------------------
(* Theorems *)

\* The strengthening that makes the safety properties inductive.
THEOREM Invariant == Spec => []WriteInv
<1>1. Init => WriteInv
  BY SizeAssumption
  DEF Init, WriteInv, ExistsInv, OffsetsInv, PendingInv, AckedDurable, TiledInv,
      Live, Blank, NoView
<1>2. TypeOK /\ WriteInv /\ [Next]_vars => WriteInv'
  <2> SUFFICES ASSUME TypeOK, WriteInv, [Next]_vars
               PROVE  WriteInv'
    OBVIOUS
  <2>1. ExistsInv /\ OffsetsInv /\ PendingInv /\ AckedDurable
    BY DEF WriteInv
  <2>2. ExistsInv' /\ OffsetsInv' /\ PendingInv' /\ AckedDurable'
    BY <2>1, ExistsStep, OffsetsStep, PendingStep, AckedStep
  <2>3. TiledInv'
    BY TiledHeader, TiledMemory DEF TiledInv, Tiled
  <2>4. QED
    BY <2>2, <2>3 DEF WriteInv
<1>3. QED
  BY <1>1, <1>2, TypeCorrect, PTL DEF Spec

\* A segment File::write acknowledged is never lost, however many segments,
\* I/O errors and crashes follow.
THEOREM DurabilityOfAcks == Spec => []AckedDurable
<1>1. WriteInv => AckedDurable
  BY DEF WriteInv
<1>2. QED
  BY <1>1, Invariant, PTL

\* The segments always tile the file from its header to its manifest.
THEOREM SegmentsTile == Spec => []RegionWalkable
<1>1. WriteInv => RegionWalkable
  BY DEF WriteInv, TiledInv, RegionWalkable
<1>2. QED
  BY <1>1, Invariant, PTL

\* A memory map is never written under, whoever holds it and whatever fails:
\* the condition under which File::mmap is sound.
THEOREM MapsAreImmutable == Spec => MappedImmutable
<1>1. TypeOK /\ WriteInv /\ [Next]_vars =>
        [\A r \in Readers : view'[r].end = view[r].end =>
           /\ \A x \in disk : x.off + x.size <= view[r].end => x \in disk'
           /\ \A x \in disk' \ disk : view[r].end <= x.off]_vars
  <2> SUFFICES ASSUME TypeOK, WriteInv, [Next]_vars, NEW r \in Readers
               PROVE  /\ \A x \in disk : x.off + x.size <= view[r].end => x \in disk'
                      /\ \A x \in disk' \ disk : view[r].end <= x.off
    OBVIOUS
  <2>1. /\ hdr.off \in Nat /\ view[r].end \in Nat /\ view[r].end <= hdr.off
        /\ Beyond(hdr.off)
    BY PendingAbove, StepBeyond DEF WriteInv, OffsetsInv, TypeOK
  <2>2. \A x \in disk : x.off \in Nat /\ x.size \in Nat
    BY DEF TypeOK, Extents, SegmentExtents, ManifestExtents
  <2>3. \A x \in disk' : x.off \in Nat
    BY TypeStep DEF TypeOK, Extents, SegmentExtents, ManifestExtents
  <2>4. QED
    BY <2>1, <2>2, <2>3 DEF Beyond
<1>2. QED
  BY <1>1, TypeCorrect, Invariant, PTL DEF Spec, MappedImmutable

-----------------------------------------------------------------------------
(***************************************************************************)
(* What the on-disk header designates.  After any number of failed writes, *)
(* cancelled futures and crashes the file may hold manifests that nobody   *)
(* points at; an open still reads the newest one committed, or fails.  The *)
(* argument: intact extents never overlap, the region below the header's   *)
(* offset is tiled by segments, and a manifest is only ever written above  *)
(* that offset, so a header sector read some time ago can name an intact   *)
(* manifest only if it is still the header's.                              *)
(***************************************************************************)

-----------------------------------------------------------------------------
(* The inductive invariant *)

Apart(x, y) == x.off + x.size <= y.off \/ y.off + y.size <= x.off

\* A write destroys what it overlaps.
DisjointInv == \A x, y \in disk : x # y => Apart(x, y)

\* The manifest at the header's offset, if one is intact, is the committed one.
DesignatedInv ==
  hdr # Blank =>
    \A x \in disk : x.kind = "manifest" /\ x.off = hdr.off => x.body = catalog

\* The header is only ever pointed at a manifest that is in place.
ReadyInv ==
  pc \in {"new_header", "header"} /\ ~late =>
    /\ ManifestAt(man, head.off) \in disk
    /\ head = SectorOf(ManifestAt(man, head.off))

\* Every sector in use lies past the file header, and a handle that is opening
\* the file has no view of it yet.
OriginInv ==
  /\ Live \/ pc = "new_header" => HEADER <= head.off
  /\ hdr # Blank => HEADER <= hdr.off
  /\ \A r \in Readers :
       peek[r] # Blank => HEADER <= peek[r].off /\ view[r] = NoView

CommitInv ==
  /\ DisjointInv /\ DesignatedInv
  /\ ReadyInv /\ OriginInv /\ QuiescentSynced

-----------------------------------------------------------------------------
(* What a step writes *)

\* Every extent of the file has a place and a positive length.
LEMMA ExtentType ==
  ASSUME NEW x \in Extents
  PROVE  x.off \in Nat /\ x.size \in Nat \ {0} /\ x.kind \in {"segment", "manifest"}
BY DEF Extents, SegmentExtents, ManifestExtents

\* A write that is in doubt leaves extents that were there, and at most itself.
LEMMA UncertainAdds ==
  ASSUME NEW x, Uncertain(x)
  PROVE  disk' \subseteq disk \cup {x}
BY DEF Uncertain, Land, Short, Clear

\* A write that completes keeps the extents of the file disjoint, and so does
\* one that is cut short.
LEMMA UncertainApart ==
  ASSUME disk \subseteq Extents, NEW x \in Extents, DisjointInv, Uncertain(x)
  PROVE  DisjointInv'
<1>1. \A y \in disk \cup {x} : y.off \in Nat /\ y.size \in Nat \ {0}
  BY ExtentType
<1>2. CASE Land(x)
  <2>1. \A y \in Clear(x.off, x.size) : y \in disk /\ Apart(x, y) /\ Apart(y, x)
    BY <1>1 DEF Clear, Overlaps, Apart
  <2>2. disk' = Clear(x.off, x.size) \cup {x}
    BY <1>2 DEF Land
  <2>3. QED
    BY <2>1, <2>2 DEF DisjointInv, Apart
<1>3. CASE Short(x)
  <2>1. disk' \subseteq disk
    BY <1>3 DEF Short, Clear
  <2>2. QED
    BY <2>1 DEF DisjointInv, Apart
<1>4. QED
  BY <1>2, <1>3 DEF Uncertain

\* The three things a step can do to the file's extents.
LEMMA StepWrites ==
  ASSUME [Next]_vars
  PROVE  \/ UNCHANGED disk
         \/ /\ pc = "segment" /\ ~late
            /\ Uncertain(SegmentAt(job, AppendOffset))
            /\ UNCHANGED <<hdr, catalog>>
         \/ /\ pc \in {"new_manifest", "manifest"} /\ ~late
            /\ Uncertain(ManifestAt(man, ManifestOffset))
            /\ UNCHANGED <<hdr, catalog>>
<1>1. CASE WriteSegment \/ WriteManifest
  BY <1>1, IssueUncertain DEF WriteSegment, WriteManifest
<1>2. CASE Fail \/ Crash
  BY <1>2 DEF Fail, Crash, Cut
<1>3. CASE ~(WriteSegment \/ WriteManifest \/ Fail \/ Crash)
  BY <1>3
  DEF Next, Write, Proceed, Handle, CreateNew, Open, Close, Begin, Dedupe, Reject,
      WriteHeader, CreateHeader, Remap, Surface, PeekHeader, PeekManifest, ShareMap,
      DropView, vars, file
<1>4. QED
  BY <1>1, <1>2, <1>3

\* The two things a step can do to the header.
LEMMA StepPoints ==
  ASSUME [Next]_vars
  PROVE  \/ UNCHANGED <<hdr, catalog>>
         \/ /\ pc \in {"new_header", "header"} /\ ~late
            /\ PointHeader
            /\ UNCHANGED disk
<1>1. CASE WriteHeader \/ CreateHeader
  BY <1>1 DEF WriteHeader, CreateHeader
<1>2. CASE Fail \/ Crash
  BY <1>2 DEF Fail, Crash, Cut
<1>3. CASE ~(WriteHeader \/ CreateHeader \/ Fail \/ Crash)
  BY <1>3
  DEF Next, Write, Proceed, Handle, CreateNew, Open, Close, Begin, Dedupe, Reject,
      WriteSegment, WriteManifest, Remap, Surface, PeekHeader, PeekManifest,
      ShareMap, DropView, vars, file
<1>4. QED
  BY <1>1, <1>2, <1>3

-----------------------------------------------------------------------------
(* Preservation *)

LEMMA DisjointStep ==
  ASSUME TypeOK, DisjointInv, [Next]_vars
  PROVE  DisjointInv'
<1>1. disk \subseteq Extents
  BY DEF TypeOK
<1>2. pc = "segment" => SegmentAt(job, AppendOffset) \in Extents
  BY PendingTypes DEF Extents
<1>3. pc \in {"new_manifest", "manifest"} =>
        ManifestAt(man, ManifestOffset) \in Extents
  BY PendingTypes DEF Extents
<1>4. UNCHANGED disk => DisjointInv'
  BY DEF DisjointInv, Apart
<1>5. QED
  BY <1>1, <1>2, <1>3, <1>4, StepWrites, UncertainApart

\* No step puts a manifest at the offset a header in use points at.
LEMMA NewManifestAbove ==
  ASSUME TypeOK, OffsetsInv, PendingInv, [Next]_vars, hdr # Blank,
         NEW x \in disk', x.kind = "manifest", x \notin disk
  PROVE  hdr.off < x.off
<1>1. PICK y : /\ disk' \subseteq disk \cup {y}
               /\ \/ y = SegmentAt(job, AppendOffset)
                  \/ /\ pc \in {"new_manifest", "manifest"}
                     /\ y = ManifestAt(man, ManifestOffset)
  BY StepWrites, UncertainAdds
<1>2. x = ManifestAt(man, ManifestOffset) /\ pc \in {"new_manifest", "manifest"}
  BY <1>1 DEF SegmentAt
<1>3. pc = "manifest"
  BY <1>2 DEF OffsetsInv
<1>4. /\ hdr.off \in Nat /\ head.off \in Nat
      /\ hdr.off <= head.off /\ sec = head.off
      /\ SizeOf[job] \in Nat \ {0}
  BY <1>3, PendingAbove, SizeAssumption DEF OffsetsInv, PendingInv, Live, TypeOK
<1>5. x.off = sec + SizeOf[job]
  BY <1>2, <1>3 DEF ManifestAt, ManifestOffset
<1>6. QED
  BY <1>4, <1>5

\* Two intact extents that begin at one place are one extent.
LEMMA OneAt ==
  ASSUME disk \subseteq Extents, DisjointInv,
         NEW x \in disk, NEW y \in disk, x.off = y.off
  PROVE  x = y
BY ExtentType DEF DisjointInv, Apart

LEMMA DesignatedStep ==
  ASSUME TypeOK, WriteInv, CommitInv, [Next]_vars
  PROVE  DesignatedInv'
<1>1. TypeOK /\ OffsetsInv /\ PendingInv
  BY DEF WriteInv
<1>2. CASE UNCHANGED <<hdr, catalog>>
  <2>1. SUFFICES ASSUME hdr # Blank,
                        NEW x \in disk', x.kind = "manifest", x.off = hdr.off
                 PROVE  x.body = catalog
    BY <1>2 DEF DesignatedInv
  <2>2. hdr.off \in Nat
    BY <1>1, PendingAbove
  <2>3. x \in disk
    BY <1>1, <2>1, <2>2, NewManifestAbove
  <2>4. QED
    BY <2>1, <2>3 DEF CommitInv, DesignatedInv
<1>3. CASE /\ pc \in {"new_header", "header"} /\ ~late
           /\ PointHeader
           /\ UNCHANGED disk
  <2>1. /\ ManifestAt(man, head.off) \in disk
        /\ hdr' = head /\ catalog' = man
    BY <1>3 DEF CommitInv, ReadyInv, PointHeader
  <2>2. ASSUME NEW x \in disk', x.off = hdr'.off
        PROVE  x.body = catalog'
    <3>1. x \in disk /\ ManifestAt(man, head.off).off = x.off
      BY <1>3, <2>1, <2>2 DEF ManifestAt
    <3>2. x = ManifestAt(man, head.off)
      BY <2>1, <3>1, OneAt DEF TypeOK, CommitInv
    <3>3. QED
      BY <2>1, <3>2 DEF ManifestAt
  <2>3. QED
    BY <2>2 DEF DesignatedInv
<1>4. QED
  BY <1>2, <1>3, StepPoints

LEMMA ReadyStep ==
  ASSUME TypeOK, ReadyInv, [Next]_vars
  PROVE  ReadyInv'
<1>1. CASE WriteManifest
  <2>1. ~late' => ManifestAt(man, ManifestOffset) \in disk'
    BY <1>1 DEF WriteManifest, Issue, Land
  <2>2. /\ head' = SectorOf(ManifestAt(man, ManifestOffset))
        /\ head'.off = ManifestOffset /\ man' = man
    BY <1>1 DEF WriteManifest, ManifestSector, SectorOf, ManifestAt
  <2>3. QED
    BY <2>1, <2>2 DEF ReadyInv, ManifestAt
<1>2. CASE pc' \notin {"new_header", "header"}
  BY <1>2 DEF ReadyInv
<1>3. CASE UNCHANGED <<pc, man, head, late, disk>>
  BY <1>3 DEF ReadyInv, ManifestAt
<1>4. CASE CreateNew \/ Open \/ Close \/ WriteSegment \/ WriteHeader \/ CreateHeader
           \/ Remap \/ Fail \/ Surface \/ Crash
  BY <1>2, <1>4
  DEF CreateNew, Open, Close, WriteSegment, WriteHeader, CreateHeader, Remap, Fail,
      Surface, Crash, EndSession, Return
<1>5. CASE \E s \in Segs : Begin(s)
  BY <1>2, <1>5 DEF Begin
<1>6. CASE \/ \E s \in Segs : Dedupe(s) \/ Reject(s)
           \/ \E r \in Readers : Handle(r)
           \/ UNCHANGED vars
  BY <1>3, <1>6
  DEF Dedupe, Reject, Handle, PeekHeader, PeekManifest, ShareMap, DropView,
      vars, file, session
<1>7. QED
  BY <1>1, <1>4, <1>5, <1>6 DEF Next, Write, Proceed

\* A header somebody can open is not the blank one.
LEMMA DecodesType ==
  ASSUME TypeOK, NEW h \in Sector, NEW x \in disk, Decodes(h, x)
  PROVE  h # Blank /\ x.off = h.off /\ x.kind = "manifest"
<1>1. x.size \in Nat \ {0}
  BY ExtentType DEF TypeOK
<1>2. QED
  BY <1>1 DEF Decodes, SectorOf, Blank

LEMMA OriginHandle ==
  ASSUME TypeOK, OriginInv, NEW r \in Readers, Handle(r)
  PROVE  OriginInv'
<1>1. UNCHANGED <<pc, head, hdr>>
  BY DEF Handle, PeekHeader, PeekManifest, ShareMap, DropView, file, session
<1>2. ASSUME NEW q \in Readers, peek'[q] # Blank
      PROVE  HEADER <= peek'[q].off /\ view'[q] = NoView
  BY <1>2 DEF Handle, PeekHeader, PeekManifest, ShareMap, DropView, OriginInv, TypeOK
<1>3. QED
  BY <1>1, <1>2 DEF OriginInv, Live

LEMMA OriginStep ==
  ASSUME TypeOK, WriteInv, OriginInv, [Next]_vars
  PROVE  OriginInv'
<1>1. TypeOK /\ OffsetsInv /\ PendingInv
  BY DEF WriteInv
<1>2. /\ hdr.off \in Nat /\ head.off \in Nat /\ HEADER \in Nat
      /\ pc \in {"new_header", "header"} => HEADER <= head.off
  BY <1>1, PendingAbove, SizeAssumption DEF OriginInv, Live
<1>3. CASE \E r \in Readers : Handle(r)
  BY <1>3, OriginHandle
<1>4. CASE ~\E r \in Readers : Handle(r)
  <2>1. UNCHANGED <<peek, view>>
    BY <1>4
    DEF Next, Write, Proceed, CreateNew, Open, Close, Begin, Dedupe, Reject,
        WriteSegment, WriteManifest, WriteHeader, CreateHeader, Remap, Fail,
        Surface, Crash, vars, handles
  <2>2. hdr' # Blank => HEADER <= hdr'.off
    BY <1>2, StepPoints DEF OriginInv, PointHeader
  <2>3. ASSUME Live' \/ pc' = "new_header"
        PROVE  HEADER <= head'.off
    <3>1. CASE Open
      BY <3>1, DecodesType DEF Open, TypeOK, OriginInv
    <3>2. CASE WriteManifest
      <4>1. head'.off = ManifestOffset
        BY <3>2 DEF WriteManifest, ManifestSector, SectorOf, ManifestAt
      <4>2. CASE pc = "new_manifest"
        BY <1>2, <4>1, <4>2 DEF ManifestOffset
      <4>3. CASE pc = "manifest"
        <5>1. HEADER <= head.off /\ head.off <= ManifestOffset
          BY <1>1, <4>3, PendingAbove DEF OriginInv, Live
        <5>2. ManifestOffset \in Nat
          BY <4>3, PendingTypes
        <5>3. QED
          BY <1>2, <4>1, <5>1, <5>2
      <4>4. QED
        BY <3>2, <4>2, <4>3 DEF WriteManifest
    <3>3. CASE (Live \/ pc = "new_header") /\ head' = head
      BY <3>3 DEF OriginInv
    <3>4. CASE CreateNew \/ Close \/ Crash
      BY <2>3, <3>4 DEF CreateNew, Close, Crash, EndSession, Live
    <3>5. CASE Fail \/ Surface
      <4>1. CASE Unborn /\ EndSession
        BY <2>3, <4>1 DEF EndSession, Live
      <4>2. CASE ~Unborn /\ Return
        BY <3>3, <3>5, <4>2 DEF Fail, Surface, Unborn, Return, Live, TypeOK, Phases
      <4>3. QED
        BY <3>5, <4>1, <4>2 DEF Fail, Surface
    <3>6. CASE WriteSegment \/ WriteHeader \/ CreateHeader \/ Remap
      BY <3>3, <3>6 DEF WriteSegment, WriteHeader, CreateHeader, Remap, Live, session
    <3>7. CASE (\E s \in Segs : Write(s)) \/ UNCHANGED vars
      BY <2>3, <3>3, <3>7 DEF Write, Begin, Dedupe, Reject, Live, vars, session
    <3>8. QED
      BY <1>4, <3>1, <3>2, <3>4, <3>5, <3>6, <3>7 DEF Next, Proceed
  <2>4. QED
    BY <2>1, <2>2, <2>3 DEF OriginInv
<1>5. QED
  BY <1>3, <1>4

\* Whatever is committed and intact is what the process holds, as long as no
\* write has failed since.
LEMMA SyncedStep ==
  ASSUME TypeOK, WriteInv, CommitInv, [Next]_vars
  PROVE  QuiescentSynced'
<1>1. CASE Open
  <2>1. PICK x \in disk : Decodes(hdr, x) /\ man' = x.body
    BY <1>1 DEF Open
  <2>2. hdr # Blank /\ x.off = hdr.off /\ x.kind = "manifest"
    BY <2>1, DecodesType DEF TypeOK
  <2>3. x.body = catalog
    BY <2>2 DEF CommitInv, DesignatedInv
  <2>4. QED
    BY <1>1, <2>1, <2>2, <2>3 DEF Open, QuiescentSynced, Synced, Decodes, file
<1>2. CASE WriteHeader \/ CreateHeader
  <2>1. /\ ManifestAt(man, head.off) \in disk
        /\ head = SectorOf(ManifestAt(man, head.off))
        /\ hdr' = head /\ catalog' = man /\ UNCHANGED <<man, head, disk>>
    BY <1>2
    DEF WriteHeader, CreateHeader, PointHeader, CommitInv, ReadyInv, session
  <2>2. PICK x \in disk : /\ x = ManifestAt(man, head.off) /\ SectorOf(x) = head
    BY <2>1
  <2>3. x.kind = "manifest" /\ x.body = man
    BY <2>2 DEF ManifestAt
  <2>4. QED
    BY <2>1, <2>2, <2>3 DEF QuiescentSynced, Synced, Decodes
<1>3. CASE /\ UNCHANGED <<hdr, catalog, man, head, disk>>
           /\ pc' \in {"mount", "idle", "remap"} /\ ~dirty' =>
                pc \in {"mount", "idle", "remap"} /\ ~dirty
  BY <1>3 DEF CommitInv, QuiescentSynced, Synced, Decodes
<1>4. CASE pc' \notin {"mount", "idle", "remap"}
  BY <1>4 DEF QuiescentSynced
<1>5. CASE CreateNew \/ Close \/ WriteSegment \/ WriteManifest \/ Crash
  BY <1>4, <1>5
  DEF CreateNew, Close, WriteSegment, WriteManifest, Crash, EndSession
<1>6. CASE Remap
  BY <1>3, <1>6 DEF Remap, file, history
<1>7. CASE Fail \/ Surface
  <2>1. CASE Unborn /\ EndSession
    BY <1>4, <2>1 DEF EndSession
  <2>2. CASE ~Unborn /\ Return
    <3>1. CASE pc = "remap"
      BY <1>3, <1>7, <2>2, <3>1 DEF Fail, Surface, Return, Cut
    <3>2. CASE pc # "remap"
      BY <2>2, <3>2 DEF Return, QuiescentSynced
    <3>3. QED
      BY <3>1, <3>2
  <2>3. QED
    BY <1>7, <2>1, <2>2 DEF Fail, Surface
<1>8. CASE \/ \E s \in Segs : Write(s)
           \/ \E r \in Readers : Handle(r)
           \/ UNCHANGED vars
  BY <1>3, <1>4, <1>8
  DEF Write, Begin, Dedupe, Reject, Handle, PeekHeader, PeekManifest, ShareMap,
      DropView, vars, file, session, history
<1>9. QED
  BY <1>1, <1>2, <1>5, <1>6, <1>7, <1>8 DEF Next, Proceed

-----------------------------------------------------------------------------
(* Theorems *)

\* The strengthening that makes what the header designates inductive.
THEOREM CommitInvariant == Spec => []CommitInv
<1>1. Init => CommitInv
  BY DEF Init, CommitInv, DisjointInv, DesignatedInv, ReadyInv, OriginInv,
         QuiescentSynced, Live
<1>2. TypeOK /\ WriteInv /\ CommitInv /\ [Next]_vars => CommitInv'
  <2> SUFFICES ASSUME TypeOK, WriteInv, CommitInv, [Next]_vars
               PROVE  CommitInv'
    OBVIOUS
  <2>1. DisjointInv' /\ ReadyInv' /\ OriginInv'
    BY DisjointStep, ReadyStep, OriginStep DEF CommitInv
  <2>2. DesignatedInv' /\ QuiescentSynced'
    BY DesignatedStep, SyncedStep
  <2>3. QED
    BY <2>1, <2>2 DEF CommitInv
<1>3. QED
  BY <1>1, <1>2, TypeCorrect, Invariant, PTL DEF Spec

\* Between writes, and until one fails, memory and disk agree: the header, the
\* manifest it designates and the registry the process holds are one.
THEOREM MemoryMatchesDisk == Spec => []QuiescentSynced
<1>1. CommitInv => QuiescentSynced
  BY DEF CommitInv
<1>2. QED
  BY <1>1, CommitInvariant, PTL

\* The file fails to open only while a write is in flight or after one that did
\* not return Ok.
THEOREM OpensBetweenWrites ==
  Spec => [](pc \in {"mount", "idle", "remap"} /\ ~dirty => Openable)
<1>1. WriteInv /\ CommitInv =>
        (pc \in {"mount", "idle", "remap"} /\ ~dirty => Openable)
  BY DEF WriteInv, ExistsInv, CommitInv, QuiescentSynced, Synced, Openable
<1>2. QED
  BY <1>1, Invariant, CommitInvariant, PTL

\* A sector below the header's offset is covered by segments: no manifest can
\* be intact there, however long ago the sector was read.
LEMMA StaleSector ==
  ASSUME TypeOK, WriteInv, CommitInv, NEW r \in Readers, peek[r] # Blank,
         NEW x \in disk, Decodes(peek[r], x)
  PROVE  x.off = hdr.off /\ hdr # Blank
<1>1. /\ x.off = peek[r].off /\ x.kind = "manifest"
      /\ x.off \in Nat /\ x.size \in Nat \ {0}
  BY DecodesType, ExtentType DEF TypeOK
<1>2. /\ HEADER <= peek[r].off /\ peek[r].off <= hdr.off
      /\ HEADER \in Nat \ {0} /\ hdr.off \in Nat
  BY SizeAssumption DEF CommitInv, OriginInv, WriteInv, OffsetsInv, TypeOK, Sector
<1>3. hdr # Blank
  BY <1>1, <1>2 DEF Blank
<1>4. ASSUME x.off < hdr.off
      PROVE  FALSE
  <2>1. x.off \in HEADER .. hdr.off - 1
    BY <1>1, <1>2, <1>4
  <2>2. PICK y \in disk : /\ y.kind = "segment"
                          /\ y.off <= x.off /\ x.off < y.off + y.size
    BY <1>3, <2>1 DEF WriteInv, TiledInv, Tiled
  <2>3. y.off \in Nat /\ y.size \in Nat
    BY ExtentType DEF TypeOK
  <2>4. x # y
    BY <1>1, <2>2
  <2>5. Apart(x, y)
    BY <2>4 DEF CommitInv, DisjointInv
  <2>6. QED
    BY <1>1, <2>2, <2>3, <2>5 DEF Apart
<1>5. QED
  BY <1>1, <1>2, <1>3, <1>4

\* An open that succeeds has read the newest manifest committed: the header and
\* the manifest are two reads, and no lock is held between them.
THEOREM OpensAreCurrent == Spec => OpenIsCurrent
<1>1. TypeOK /\ WriteInv /\ CommitInv /\ [Next]_vars =>
        [\A r \in Readers : peek[r] # Blank /\ view'[r] # view[r]
           => view'[r].man = catalog /\ view'[r].end = hdr.off]_vars
  <2> SUFFICES ASSUME TypeOK, WriteInv, CommitInv, [Next]_vars,
                      NEW r \in Readers, peek[r] # Blank, view'[r] # view[r]
               PROVE  view'[r].man = catalog /\ view'[r].end = hdr.off
    OBVIOUS
  <2>1. view[r] = NoView
    BY DEF CommitInv, OriginInv
  <2>2. PICK q \in Readers : Handle(q)
    BY DEF Next, Write, Proceed, CreateNew, Open, Close, Begin, Dedupe, Reject,
           WriteSegment, WriteManifest, WriteHeader, CreateHeader, Remap, Fail,
           Surface, Crash, vars, handles
  <2>3. PeekManifest(r)
    BY <2>1, <2>2
    DEF Handle, PeekHeader, PeekManifest, ShareMap, DropView, TypeOK
  <2>4. PICK x \in disk : /\ Decodes(peek[r], x)
                          /\ view' = [view EXCEPT ![r] =
                                        [man |-> x.body, end |-> MapEnd(peek[r])]]
    BY <2>3 DEF PeekManifest
  <2>5. view'[r].man = x.body /\ view'[r].end = peek[r].off
    BY <2>4 DEF MapEnd, TypeOK
  <2>6. x.off = hdr.off /\ hdr # Blank /\ x.off = peek[r].off /\ x.kind = "manifest"
    BY <2>4, StaleSector, DecodesType DEF TypeOK
  <2>7. x.body = catalog
    BY <2>6 DEF CommitInv, DesignatedInv
  <2>8. QED
    BY <2>5, <2>6, <2>7
<1>2. QED
  BY <1>1, TypeCorrect, Invariant, CommitInvariant, PTL DEF Spec, OpenIsCurrent

-----------------------------------------------------------------------------
(***************************************************************************)
(* The write cycle up to its first I/O error or cancelled write, through   *)
(* any number of crashes: what the manifests list is what the file holds,  *)
(* and the file implements SegmentLog.  Every result is stated under       *)
(* faults = 0, which a run with MaxFaults = 0 has throughout: after a      *)
(* failed write the registry may list a segment that never landed, and     *)
(* none of them holds.                                                     *)
(***************************************************************************)

-----------------------------------------------------------------------------
(* The inductive invariant *)

\* Every committed segment is in place below the header's offset.
CatalogInv == \A d \in catalog : Stored(d) /\ EndOf(d) <= hdr.off /\ d.seg \in tried

\* The registry is the committed manifest, plus the segment in flight once it
\* has been registered, which is never one that was committed before.
RegistryInv ==
  /\ pc \in {"closed", "new_manifest", "new_header"} => man = {}
  /\ hdr = Blank => catalog = {}
  /\ Live => hdr # Blank
  /\ pc \in {"mount", "idle", "segment", "remap"} => man = catalog /\ head = hdr
  /\ pc \in {"segment", "manifest", "header"} =>
       job \in tried /\ \A d \in catalog : d.seg # job
  /\ pc \in {"manifest", "header"} =>
       sec = hdr.off /\ man = catalog \cup {[seg |-> job, off |-> sec]}

\* What the session has mapped or handed out is committed.
SessionInv ==
  /\ granted \subseteq catalog
  /\ pc \in {"idle", "segment", "manifest", "header"} =>
       \A d \in catalog : KindOf[d.seg] # "schema" => EndOf(d) <= mapped

LogInv == ~late /\ CatalogInv /\ RegistryInv /\ SessionInv

-----------------------------------------------------------------------------
(* Steps that are not faults *)

\* An error is counted, and the count never falls.
LEMMA FaultFree ==
  ASSUME TypeOK, [Next]_vars, faults' = 0
  PROVE  /\ faults = 0 /\ ~Fail
         /\ WriteSegment => Land(SegmentAt(job, AppendOffset)) /\ UNCHANGED late
         /\ WriteManifest => Land(ManifestAt(man, ManifestOffset)) /\ UNCHANGED late
<1>1. faults \in Nat
  BY BoundAssumption DEF TypeOK
<1>2. \A x : Issue(x) => faults = 0 /\ Land(x) /\ UNCHANGED late
  BY <1>1 DEF Issue
<1>3. ~Fail
  BY <1>1 DEF Fail
<1>4. CASE WriteSegment
  BY <1>2, <1>3, <1>4 DEF WriteSegment, WriteManifest
<1>5. CASE WriteManifest
  BY <1>2, <1>3, <1>5 DEF WriteSegment, WriteManifest
<1>6. CASE ~WriteSegment /\ ~WriteManifest
  <2>1. faults' = faults
    BY <1>3, <1>6
    DEF Next, Write, Proceed, Handle, CreateNew, Open, Close, Begin, Dedupe, Reject,
        WriteHeader, CreateHeader, Remap, Surface, Crash, PeekHeader, PeekManifest,
        ShareMap, DropView, vars, bounds
  <2>2. QED
    BY <1>3, <1>6, <2>1
<1>7. QED
  BY <1>4, <1>5, <1>6

\* A segment that has been consumed stays so.
LEMMA TriedGrows ==
  ASSUME [Next]_vars
  PROVE  tried \subseteq tried'
BY DEF Next, Write, Proceed, Handle, CreateNew, Open, Close, Begin, Dedupe, Reject,
       WriteSegment, WriteManifest, WriteHeader, CreateHeader, Remap, Fail, Surface,
       Crash, PeekHeader, PeekManifest, ShareMap, DropView, vars, history

LEMMA CatalogStep ==
  ASSUME TypeOK, WriteInv, LogInv, [Next]_vars
  PROVE  CatalogInv'
<1>1. TypeOK /\ OffsetsInv /\ PendingInv
  BY DEF WriteInv
<1>2. /\ hdr.off \in Nat /\ hdr'.off \in Nat /\ hdr.off <= hdr'.off
      /\ Beyond(hdr.off) /\ tried \subseteq tried'
  BY <1>1, PendingAbove, HeaderGrows, StepBeyond, TriedGrows
<1>3. ASSUME NEW d \in catalog
      PROVE  /\ SegmentAt(d.seg, d.off) \in disk'
             /\ EndOf(d) <= hdr'.off /\ d.seg \in tried'
  <2>1. d.off \in Nat /\ SizeOf[d.seg] \in Nat
    BY SizeAssumption DEF TypeOK, Descriptor
  <2>2. /\ SegmentAt(d.seg, d.off) \in disk /\ EndOf(d) <= hdr.off
        /\ d.seg \in tried
    BY DEF LogInv, CatalogInv, Stored
  <2>3. SegmentAt(d.seg, d.off) \in disk'
    BY <1>2, <2>2 DEF Beyond, SegmentAt, EndOf
  <2>4. QED
    BY <1>2, <2>1, <2>2, <2>3 DEF EndOf
<1>4. CASE UNCHANGED <<hdr, catalog>>
  BY <1>3, <1>4 DEF CatalogInv, Stored, EndOf, SegmentAt
<1>5. CASE pc = "new_header" /\ PointHeader
  BY <1>5 DEF PointHeader, LogInv, RegistryInv, CatalogInv
<1>6. CASE pc = "header" /\ PointHeader /\ UNCHANGED disk
  <2>1. catalog' = catalog \cup {[seg |-> job, off |-> sec]} /\ hdr' = head
    BY <1>6 DEF PointHeader, LogInv, RegistryInv
  <2>2. /\ SegmentAt(job, sec) \in disk' /\ sec + SizeOf[job] = hdr'.off
        /\ job \in tried'
    BY <1>1, <1>2, <1>6, <2>1 DEF PendingInv, LogInv, RegistryInv
  <2>3. ASSUME NEW d \in catalog'
        PROVE  /\ SegmentAt(d.seg, d.off) \in disk'
               /\ d.off + SizeOf[d.seg] <= hdr'.off /\ d.seg \in tried'
    BY <1>2, <1>3, <2>1, <2>2 DEF EndOf
  <2>4. QED
    BY <2>3 DEF CatalogInv, Stored, EndOf, SegmentAt
<1>7. QED
  BY <1>4, <1>5, <1>6, StepPoints

\* The segment in flight is listed under a sector no committed one has.
LEMMA RegistersFresh ==
  ASSUME TypeOK, LogInv, pc = "segment"
  PROVE  /\ AppendOffset = hdr.off
         /\ Insert(job, AppendOffset) =
              catalog \cup {[seg |-> job, off |-> AppendOffset]}
<1>1. man = catalog /\ AppendOffset = hdr.off /\ hdr.off \in Nat
  BY DEF LogInv, RegistryInv, AppendOffset, TypeOK, Sector
<1>2. ASSUME NEW d \in catalog
      PROVE  d.off # AppendOffset
  <2>1. d.off \in Nat /\ SizeOf[d.seg] \in Nat \ {0} /\ d.off + SizeOf[d.seg] <= hdr.off
    BY SizeAssumption DEF TypeOK, Descriptor, LogInv, CatalogInv, EndOf
  <2>2. QED
    BY <1>1, <2>1
<1>3. ~Listed(job, AppendOffset)
  BY <1>1, <1>2 DEF Listed, Entries
<1>4. QED
  BY <1>1, <1>3 DEF Insert

\* The header a session points at its manifest is not blank.
LEMMA PointedNotBlank ==
  ASSUME CommitInv, pc \in {"new_header", "header"}
  PROVE  head # Blank
BY SizeAssumption DEF CommitInv, OriginInv, Live, Blank

LEMMA RegistryStep ==
  ASSUME TypeOK, WriteInv, CommitInv, LogInv, [Next]_vars, faults' = 0
  PROVE  RegistryInv'
<1>1. RegistryInv /\ CatalogInv /\ ~late /\ ~Fail /\ ~Surface
  BY FaultFree DEF LogInv, Surface
<1>2. CASE CreateNew
  BY <1>1, <1>2
  DEF CreateNew, RegistryInv, Live, WriteInv, OffsetsInv, session, history
<1>3. CASE Open
  <2>1. hdr' = head' /\ catalog' = man' /\ UNCHANGED <<hdr, catalog>>
    BY <1>3, SyncedStep DEF Open, QuiescentSynced, Synced, file
  <2>2. hdr # Blank
    BY <1>3, DecodesType DEF Open, TypeOK
  <2>3. QED
    BY <1>3, <2>1, <2>2 DEF Open, RegistryInv, Live
<1>4. CASE Close
  BY <1>1, <1>4 DEF Close, EndSession, RegistryInv, Live, file
<1>5. ASSUME NEW s \in Segs, Begin(s)
      PROVE  RegistryInv'
  <2>1. \A d \in catalog : d.seg # s
    BY <1>1, <1>5 DEF Begin, CatalogInv
  <2>2. QED
    BY <1>1, <1>5, <2>1 DEF Begin, RegistryInv, Live, file
<1>6. ASSUME NEW s \in Segs, Dedupe(s) \/ Reject(s)
      PROVE  RegistryInv'
  BY <1>1, <1>6 DEF Dedupe, Reject, RegistryInv, Live, file, session
<1>7. CASE WriteSegment
  <2>1. /\ sec' = hdr.off
        /\ man' = catalog \cup {[seg |-> job, off |-> hdr.off]}
    BY <1>7, RegistersFresh DEF WriteSegment
  <2>2. QED
    BY <1>1, <1>7, <2>1 DEF WriteSegment, RegistryInv, Live, history
<1>8. CASE WriteManifest
  BY <1>1, <1>8 DEF WriteManifest, RegistryInv, Live, history
<1>9. CASE WriteHeader \/ CreateHeader
  <2>1. /\ pc \in {"new_header", "header"} /\ pc' \in {"mount", "remap", "idle"}
        /\ hdr' = head /\ catalog' = man /\ UNCHANGED <<man, head>>
    BY <1>9 DEF WriteHeader, CreateHeader, PointHeader, session
  <2>2. head # Blank
    BY <2>1, PointedNotBlank
  <2>3. QED
    BY <2>1, <2>2 DEF RegistryInv, Live
<1>10. CASE Remap
  BY <1>1, <1>10 DEF Remap, RegistryInv, Live, file, history
<1>11. CASE Crash
  <2>1. hdr' = Blank => catalog' = {}
    BY <1>1, <1>11, PointedNotBlank DEF Crash, Cut, PointHeader, RegistryInv
  <2>2. QED
    BY <1>11, <2>1 DEF Crash, EndSession, RegistryInv, Live
<1>12. CASE (\E r \in Readers : Handle(r)) \/ UNCHANGED vars
  BY <1>1, <1>12
  DEF Handle, PeekHeader, PeekManifest, ShareMap, DropView, RegistryInv, Live,
      vars, file, session, history
<1>13. QED
  BY <1>1, <1>2, <1>3, <1>4, <1>5, <1>6, <1>7, <1>8, <1>9, <1>10, <1>11, <1>12
  DEF Next, Write, Proceed

LEMMA SessionStep ==
  ASSUME TypeOK, WriteInv, LogInv, [Next]_vars, faults' = 0
  PROVE  SessionInv'
<1>1. RegistryInv /\ CatalogInv /\ SessionInv /\ ~Fail /\ ~Surface
  BY FaultFree DEF LogInv, Surface
<1>2. CASE CreateNew \/ Open
  BY <1>1, <1>2
  DEF CreateNew, Open, SessionInv, file, session, history
<1>3. CASE Close \/ Crash
  BY <1>3 DEF Close, Crash, EndSession, SessionInv
<1>4. ASSUME NEW s \in Segs, Write(s)
      PROVE  SessionInv'
  <2>1. \A d \in Entries("schema", NameOf[s]) : pc = "idle" => d \in catalog
    BY <1>1 DEF RegistryInv, Entries
  <2>2. granted' \subseteq catalog' /\ UNCHANGED <<catalog, mapped>>
    BY <1>1, <1>4, <2>1
    DEF Write, Begin, Dedupe, Reject, SessionInv, file, session
  <2>3. pc = "idle"
    BY <1>4 DEF Write, Begin, Dedupe, Reject
  <2>4. QED
    BY <1>1, <2>2, <2>3 DEF SessionInv, EndOf
<1>5. CASE WriteSegment \/ WriteManifest
  BY <1>1, <1>5 DEF WriteSegment, WriteManifest, SessionInv, history, EndOf
<1>6. CASE WriteHeader
  <2>1. /\ catalog' = catalog \cup {[seg |-> job, off |-> sec]}
        /\ granted \subseteq catalog
    BY <1>1, <1>6 DEF WriteHeader, PointHeader, RegistryInv, SessionInv
  <2>2. granted' \subseteq catalog'
    BY <1>6, <2>1 DEF WriteHeader
  <2>3. ASSUME pc' \in {"idle", "segment", "manifest", "header"},
               NEW d \in catalog', KindOf[d.seg] # "schema"
        PROVE  EndOf(d) <= mapped'
    <3>1. KindOf[job] = "schema"
      BY <1>6, <2>3 DEF WriteHeader, Remaps
    <3>2. d \in catalog
      BY <2>1, <2>3, <3>1
    <3>3. QED
      BY <1>1, <1>6, <2>3, <3>2 DEF WriteHeader, SessionInv
  <2>4. QED
    BY <2>2, <2>3 DEF SessionInv, EndOf
<1>7. CASE CreateHeader
  BY <1>1, <1>7
  DEF CreateHeader, PointHeader, SessionInv, RegistryInv, WriteInv, OffsetsInv
<1>8. CASE Remap
  <2>1. mapped' = hdr.off
    BY <1>1, <1>8 DEF Remap, MapEnd, RegistryInv
  <2>2. QED
    BY <1>1, <1>8, <2>1 DEF Remap, SessionInv, CatalogInv, EndOf, file, history
<1>9. CASE (\E r \in Readers : Handle(r)) \/ UNCHANGED vars
  BY <1>1, <1>9
  DEF Handle, PeekHeader, PeekManifest, ShareMap, DropView, SessionInv, EndOf,
      vars, file, session, history
<1>10. QED
  BY <1>1, <1>2, <1>3, <1>4, <1>5, <1>6, <1>7, <1>8, <1>9 DEF Next, Proceed

LEMMA LateStep ==
  ASSUME TypeOK, ~late, [Next]_vars, faults' = 0
  PROVE  ~late'
<1>1. /\ ~Fail
      /\ WriteSegment \/ WriteManifest => UNCHANGED late
  BY FaultFree
<1>2. CASE WriteSegment \/ WriteManifest
  BY <1>1, <1>2
<1>3. CASE ~(WriteSegment \/ WriteManifest)
  BY <1>1, <1>3
  DEF Next, Write, Proceed, Handle, CreateNew, Open, Close, Begin, Dedupe, Reject,
      WriteHeader, CreateHeader, Remap, Surface, Crash, EndSession, PeekHeader,
      PeekManifest, ShareMap, DropView, vars, session
<1>4. QED
  BY <1>2, <1>3

-----------------------------------------------------------------------------
(* Theorems *)

\* Until the first error, through any number of crashes, the manifests on disk
\* and in memory list exactly what was written.
THEOREM LogInvariant == Spec => [](faults = 0 => LogInv)
<1>1. Init => (faults = 0 => LogInv)
  BY DEF Init, LogInv, CatalogInv, RegistryInv, SessionInv, Live
<1>2. TypeOK /\ WriteInv /\ CommitInv /\ (faults = 0 => LogInv) /\ [Next]_vars
        => (faults = 0 => LogInv)'
  <2> SUFFICES ASSUME TypeOK, WriteInv, CommitInv, faults = 0 => LogInv,
                      [Next]_vars, faults' = 0
               PROVE  LogInv'
    OBVIOUS
  <2>1. LogInv
    BY FaultFree
  <2>2. CatalogInv' /\ RegistryInv' /\ SessionInv'
    BY <2>1, CatalogStep, RegistryStep, SessionStep
  <2>3. ~late'
    BY <2>1, LateStep DEF LogInv
  <2>4. QED
    BY <2>2, <2>3 DEF LogInv
<1>3. QED
  BY <1>1, <1>2, TypeCorrect, Invariant, CommitInvariant, PTL DEF Spec

\* Every descriptor the committed manifest lists names an intact segment, until
\* the first error.
THEOREM CatalogIsSound == Spec => [](faults = 0 => CatalogSound)
<1>1. LogInv => CatalogSound
  BY DEF LogInv, CatalogInv, CatalogSound
<1>2. QED
  BY <1>1, LogInvariant, PTL

\* Everything the live registry offers a query is intact and mapped, until the
\* first error.
THEOREM RegistryIsReadable == Spec => [](faults = 0 => LiveReadable)
<1>1. LogInv => LiveReadable
  <2> SUFFICES ASSUME LogInv, pc = "idle", NEW d \in man
               PROVE  /\ Stored(d)
                      /\ KindOf[d.seg] # "schema" => EndOf(d) <= mapped
    BY DEF LiveReadable
  <2>1. d \in catalog
    BY DEF LogInv, RegistryInv
  <2>2. QED
    BY <2>1 DEF LogInv, CatalogInv, SessionInv
<1>2. QED
  BY <1>1, LogInvariant, PTL

\* Every schema sector handed out designates that schema on disk, until the
\* first error.
THEOREM GrantsAreStored == Spec => [](faults = 0 => GrantedStored)
<1>1. LogInv => GrantedStored
  BY DEF LogInv, SessionInv, CatalogInv, GrantedStored
<1>2. QED
  BY <1>1, LogInvariant, PTL

-----------------------------------------------------------------------------
(* Refinement *)

\* Pointing the header at the new manifest is the one step that appends.
LEMMA PointAppends ==
  ASSUME TypeOK, WriteInv, CommitInv, LogInv, pc = "header",
         PointHeader, UNCHANGED view
  PROVE  Log!Append(job)
<1>1. /\ hdr' = head /\ hdr # Blank /\ head # Blank
      /\ catalog' = catalog \cup {[seg |-> job, off |-> hdr.off]}
  BY PointedNotBlank DEF PointHeader, LogInv, RegistryInv, Live
<1>2. head.off = hdr.off + SizeOf[job] /\ \A d \in catalog : d.seg # job
  BY DEF WriteInv, PendingInv, LogInv, RegistryInv
<1>3. QED
  BY <1>1, <1>2 DEF Log!Append

\* A new file's header is an empty log.
LEMMA PointCreates ==
  ASSUME WriteInv, CommitInv, LogInv, pc = "new_header", PointHeader, UNCHANGED view
  PROVE  UNCHANGED Log!logVars
<1>1. /\ hdr' = head /\ hdr = Blank /\ head # Blank /\ head.off = HEADER
      /\ catalog' = {} /\ catalog = {}
  BY PointedNotBlank DEF PointHeader, LogInv, RegistryInv, WriteInv, OffsetsInv
<1>2. QED
  BY <1>1 DEF Log!logVars

\* What another handle does is one reader's snapshot or its end.
LEMMA HandleMaps ==
  ASSUME TypeOK, WriteInv, CommitInv, NEW r \in Readers, Handle(r)
  PROVE  Log!Snapshot(r) \/ Log!Forget(r) \/ UNCHANGED Log!logVars
<1>1. UNCHANGED <<hdr, catalog>>
  BY DEF Handle, PeekHeader, PeekManifest, ShareMap, DropView, file
<1>2. CASE UNCHANGED view
  BY <1>1, <1>2 DEF Log!logVars
<1>3. CASE PeekManifest(r) /\ ~UNCHANGED view
  <2>1. PICK x \in disk : /\ peek[r] # Blank /\ Decodes(peek[r], x)
                          /\ view' = [view EXCEPT ![r] =
                                        [man |-> x.body, end |-> MapEnd(peek[r])]]
    BY <1>3 DEF PeekManifest
  <2>2. x.body = catalog
    BY <2>1, StaleSector, DecodesType DEF CommitInv, DesignatedInv, TypeOK
  <2>3. [q \in Readers |-> view'[q].man]
          = [[q \in Readers |-> view[q].man] EXCEPT ![r] = catalog]
    BY <2>1, <2>2 DEF TypeOK
  <2>4. QED
    BY <1>1, <2>3 DEF Log!Snapshot
<1>4. CASE ShareMap(r)
  <2>1. [q \in Readers |-> view'[q].man] = [q \in Readers |-> view[q].man]
    <3>1. /\ view[r].man = {}
          /\ view' = [view EXCEPT ![r] = [man |-> {}, end |-> mapped]]
      BY <1>4 DEF ShareMap, NoView
    <3>2. \A q \in Readers : view'[q].man = view[q].man
      BY <3>1 DEF TypeOK
    <3>3. QED
      BY <3>2
  <2>2. QED
    BY <1>1, <2>1 DEF Log!logVars
<1>5. CASE DropView(r)
  <2>1. [q \in Readers |-> view'[q].man]
          = [[q \in Readers |-> view[q].man] EXCEPT ![r] = {}]
    BY <1>5 DEF DropView, NoView, TypeOK
  <2>2. QED
    BY <1>1, <2>1 DEF Log!Forget
<1>6. QED
  BY <1>2, <1>3, <1>4, <1>5 DEF Handle, PeekHeader

\* Every step that is not a fault is a step of the log or leaves it alone.
LEMMA StepMaps ==
  ASSUME TypeOK, WriteInv, CommitInv, LogInv, [Next]_vars, faults' = 0
  PROVE  [Log!Next]_Log!logVars
<1>1. pc = "header" => job \in Segs
  BY DEF TypeOK
<1>2. CASE \E r \in Readers : Handle(r)
  BY <1>2, HandleMaps DEF Log!Next
<1>3. CASE ~\E r \in Readers : Handle(r)
  <2>1. UNCHANGED view
    BY <1>3
    DEF Next, Write, Proceed, CreateNew, Open, Close, Begin, Dedupe, Reject,
        WriteSegment, WriteManifest, WriteHeader, CreateHeader, Remap, Fail,
        Surface, Crash, vars, handles
  <2>2. CASE UNCHANGED <<hdr, catalog>>
    BY <2>1, <2>2 DEF Log!logVars
  <2>3. CASE pc = "header" /\ PointHeader
    BY <1>1, <2>1, <2>3, PointAppends DEF Log!Next
  <2>4. CASE pc = "new_header" /\ PointHeader
    BY <2>1, <2>4, PointCreates
  <2>5. QED
    BY <2>2, <2>3, <2>4, StepPoints
<1>4. QED
  BY <1>2, <1>3

\* Until the first error, and however often the process crashes, File::write
\* appends one whole segment at a time without a gap, and every open reads the
\* log as it is at that moment.
THEOREM WriteCycleIsALog == Spec /\ [](faults = 0) => ImplementsSegmentLog
<1>1. Init => Log!Init
  BY DEF Init, Log!Init, NoView
<1>2. /\ TypeOK /\ WriteInv /\ CommitInv /\ (faults = 0 => LogInv)
      /\ faults = 0 /\ (faults = 0)' /\ [Next]_vars
      => [Log!Next]_Log!logVars
  BY StepMaps
<1>3. QED
  BY <1>1, <1>2, TypeCorrect, Invariant, CommitInvariant, LogInvariant, PTL
  DEF Spec, ImplementsSegmentLog, Log!Spec

\* With no error allowed the write cycle implements the log outright.
THEOREM ErrorFreeIsALog == MaxFaults = 0 => (Spec => ImplementsSegmentLog)
<1> SUFFICES ASSUME MaxFaults = 0
             PROVE  Spec => ImplementsSegmentLog
  OBVIOUS
<1>1. TypeOK => faults = 0
  BY DEF TypeOK
<1>2. QED
  BY <1>1, TypeCorrect, WriteCycleIsALog, PTL

=============================================================================
