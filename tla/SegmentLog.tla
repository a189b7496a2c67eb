----------------------------- MODULE SegmentLog -----------------------------
(***************************************************************************)
(* What an msca file promises: a log of segments that only ever grows, by  *)
(* one whole segment at a time and without gaps, and readers each of which *)
(* sees the log as it was at one moment.                                   *)
(***************************************************************************)
EXTENDS Naturals

CONSTANTS Segs, SizeOf, HEADER, Readers

VARIABLES
  log,   \* descriptors of the segments in the log
  tail,  \* where the next segment goes
  seen   \* Readers -> the log a reader has in hand

logVars == <<log, tail, seen>>

Init == log = {} /\ tail = HEADER /\ seen = [r \in Readers |-> {}]

Append(s) ==
  /\ \A d \in log : d.seg # s
  /\ log' = log \cup {[seg |-> s, off |-> tail]}
  /\ tail' = tail + SizeOf[s]
  /\ UNCHANGED seen

Snapshot(r) ==
  /\ seen' = [seen EXCEPT ![r] = log]
  /\ UNCHANGED <<log, tail>>

Forget(r) ==
  /\ seen' = [seen EXCEPT ![r] = {}]
  /\ UNCHANGED <<log, tail>>

Next ==
  \/ \E s \in Segs : Append(s)
  \/ \E r \in Readers : Snapshot(r) \/ Forget(r)

Spec == Init /\ [][Next]_logVars

=============================================================================
