---------------------------- MODULE MCWriteCycle ----------------------------
(***************************************************************************)
(* Small instances of WriteCycle: two schemas with one name and layout, a  *)
(* third one with that name and other columns, data segments of equal      *)
(* size, and two binary payloads with one name.  A manifest grows with its *)
(* entries, from shorter than a segment to longer.                         *)
(***************************************************************************)
EXTENDS WriteCycle

CONSTANTS schema, twin, clash, data1, data2, bin1, bin2

MCKindOf == [s \in Segs |-> CASE s \in {schema, twin, clash} -> "schema"
                              [] s \in {data1, data2}        -> "data"
                              [] OTHER                       -> "binary"]
MCNameOf == [s \in Segs |-> IF s \in {bin1, bin2} THEN "blob" ELSE "table"]
MCLayoutOf == [s \in Segs |-> IF s = clash THEN "wide" ELSE "narrow"]
MCSizeOf == [s \in Segs |-> IF s \in {bin1, bin2} THEN 1 ELSE 2]
MCManifestSize == [S \in SUBSET Segs |-> 1 + Cardinality(S)]

=============================================================================
