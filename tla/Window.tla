------------------------------- MODULE Window -------------------------------
(***************************************************************************)
(* Windows of a column by position: a chain of skip, take and filters is   *)
(* resolved from the inside out against the buffer mask (query/mask.rs),   *)
(* which leaves residuals for the stream of items (query/mod.rs, iter).    *)
(* A slot is one item of one buffer; an item that fails its filter keeps   *)
(* its slot, a buffer that is excluded loses all of its slots.             *)
(***************************************************************************)
EXTENDS Integers, Sequences, FiniteSets, FiniteSetsExt

CONSTANTS
  Counts,     \* the number of items in each buffer
  MaxSkips, MaxTakes, MaxPrunes,    \* adapters of each kind in one chain
  MaxN        \* the largest number of items to skip or to take

ASSUME CountsAssumption == Counts \in Seq(Nat \ {0})
ASSUME BoundsAssumption == {MaxSkips, MaxTakes, MaxPrunes, MaxN} \subseteq Nat

VARIABLES
  mask,       \* the buffers not excluded
  skips,      \* the residuals of the skips: [buffer, origin]
  takes,      \* the residuals of the takes: [limit, keep]
  prunes,     \* the number of filters
  window      \* the slots the adapters of the chain, one by one, let through

vars == <<mask, skips, takes, prunes, window>>

Buffers == DOMAIN Counts
Slots == UNION {{b} \X (1..Counts[b]) : b \in Buffers}

Precedes(s, t) == s[1] < t[1] \/ (s[1] = t[1] /\ s[2] < t[2])

\* The first n of some slots.
FirstOf(slots, n) == {s \in slots : Cardinality({t \in slots : Precedes(t, s)}) < n}

\* The number of items in the included buffers before b: what resolve takes off
\* its n, buffer by buffer.
ItemsBefore(b) == Cardinality({s \in Slots : s[1] \in mask /\ s[1] < b})

PastTheEnd == Len(Counts) + 1

FirstBuffer(buffers) == IF buffers = {} THEN PastTheEnd ELSE Min(buffers)

Init ==
  /\ mask = Buffers
  /\ skips = <<>>
  /\ takes = <<>>
  /\ prunes = 0
  /\ window = Slots

\* A filter that excludes some buffers.
Prune(excluded) ==
  /\ prunes < MaxPrunes
  /\ mask' = mask \ excluded
  /\ window' = {s \in window : s[1] \notin excluded}
  /\ prunes' = prunes + 1
  /\ UNCHANGED <<skips, takes>>

\* The buffer that holds the first item retained: whole buffers are skipped.
SkipTo(n) ==
  FirstBuffer({b \in mask : n < ItemsBefore(b) + Counts[b]})

\* mask::Skip::resolve
Skip(n) ==
  /\ Len(skips) < MaxSkips
  /\ skips' = Append(skips, [buffer |-> SkipTo(n), origin |-> n - ItemsBefore(SkipTo(n))])
  /\ mask' = {b \in mask : b >= SkipTo(n)}
  /\ window' = window \ FirstOf(window, n)
  /\ UNCHANGED <<takes, prunes>>

\* Mutant: the residual outlives the buffer it is anchored at.
OriginUnanchored(included) ==
  LET upto[i \in 0..Len(skips)] ==
        IF i = 0 THEN 0 ELSE upto[i - 1] + skips[i].origin
  IN  upto[Len(skips)]

\* iter::Resolve::origin, from the innermost adapter out: the items still to be
\* skipped by the stream. A residual counts while its buffer is included.
Origin(included) ==
  LET upto[i \in 0..Len(skips)] ==
        IF i = 0 THEN 0
        ELSE IF skips[i].buffer \in included THEN upto[i - 1] + skips[i].origin
        ELSE upto[i - 1]
  IN  upto[Len(skips)]

\* Mutant: a take that ends with a buffer goes on to the next.
TakeToNext(n) ==
  FirstBuffer({b \in mask : n + Origin(mask) < ItemsBefore(b) + Counts[b]})

\* The buffer that holds the last item taken, of n from where the skips end.
TakeTo(n) ==
  FirstBuffer({b \in mask : n + Origin(mask) <= ItemsBefore(b) + Counts[b]})

\* mask::Take::resolve
Take(n) ==
  /\ Len(takes) < MaxTakes
  /\ takes' = Append(takes, [limit |-> TakeTo(n),
                             keep |-> n + Origin(mask) - ItemsBefore(TakeTo(n))])
  /\ mask' = {b \in mask : b <= TakeTo(n)}
  /\ window' = FirstOf(window, n)
  /\ UNCHANGED <<skips, prunes>>

Next ==
  \/ \E excluded \in SUBSET mask \ {{}} : Prune(excluded)
  \/ \E n \in 0..MaxN : Skip(n)
  \/ \E n \in 0..MaxN : Take(n)

Spec == Init /\ [][Next]_vars

----------------------------------------------------------------------------
(* Reading                                                                 *)

\* The slots of the included buffers; of the buffer that limits a take, the
\* first ones only (the fields of iter::Take; its reader is not in the tree).
Retained ==
  {s \in Slots :
     /\ s[1] \in mask
     /\ \A i \in DOMAIN takes : s[1] = takes[i].limit => s[2] <= takes[i].keep}

\* A terminal drops the residual of the skips from the stream.
Read == Retained \ FirstOf(Retained, Origin(mask))

\* The window read is the one the adapters describe: "skips the first n
\* items", "reads at most n items", "A, C and D are read and B and E never",
\* in whichever order skips, takes and filters are chained. The chain may end
\* after any of them.
WindowExact == Read = window

\* Without deserializing outside the window: every buffer that is included has
\* a slot in it, unless the whole window is empty.
NoWastedBuffer ==
  \A b \in mask : (\E s \in window : s[1] = b) \/ window = {}

=============================================================================
