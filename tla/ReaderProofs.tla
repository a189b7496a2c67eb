---------------------------- MODULE ReaderProofs ----------------------------
(***************************************************************************)
(* The derived reader resolves its columns as Query.tla says, and closes   *)
(* every union before it builds the first stream; hence no stream misses a *)
(* buffer that holds a row of the result. A union's second leg has its     *)
(* rows apart from the first until it closes (HitsInv); a stream has one   *)
(* slot for each row of the buffers it reads up to its first error         *)
(* (StreamsInv); and a row that is pulled is made of the n-th slots        *)
(* (YieldInv). So what a read without an error yields is the result.       *)
(***************************************************************************)
EXTENDS Reader, QueryProofs, DataInduction

LastField == Len(Fields)

\* The nodes from k to the root that have a mask of their own.
Unions(k) == {n \in k..LastField - 1 : request.joins[n] # "and"}

\* Where the reader is in the tree.
PositionInv ==
  /\ request \in Requests
  /\ leg \in FieldNumbers
  /\ applied \in Nat
  /\ phase \in {"open", "select", "stream", "ended", "failed"}

\* While the tree is opened every union is in its first leg.
OpenInv ==
  phase = "open" =>
    /\ leg = 1 /\ applied = 0
    /\ node \in 0..LastField - 1
    /\ \A i \in 1..Len(frames) : frames[i].leg = 1
    /\ Len(frames) = Cardinality(Unions(node + 1))

\* While the columns are resolved the unions above the column are in their
\* first leg, but for the one that the column itself ends.
SelectInv ==
  phase = "select" =>
    /\ \A i \in 1..Len(frames) - 1 : frames[i].leg = 1
    /\ Len(frames) = Cardinality(Unions(leg)) + (IF Closing THEN 1 ELSE 0)

BuiltInv == phase \in {"stream", "ended"} => frames = <<>>

ReaderInv == PositionInv /\ OpenInv /\ SelectInv /\ BuiltInv

----------------------------------------------------------------------------
(* The unions that remain                                                  *)

LEMMA FieldsNumbered == LastField \in Nat \ {0} /\ FieldNumbers = 1..LastField
BY FieldsAssumption DEF LastField, FieldNumbers

LEMMA UnionsFinite ==
  ASSUME NEW k \in Nat
  PROVE  IsFiniteSet(Unions(k)) /\ Cardinality(Unions(k)) \in Nat
<1>1. LastField \in Nat
  BY FieldsNumbered
<1>2. IsFiniteSet(k..LastField - 1)
  BY <1>1, FS_Interval
<1>3. Unions(k) \subseteq k..LastField - 1
  BY DEF Unions
<1>4. IsFiniteSet(Unions(k))
  BY <1>2, <1>3, FS_Subset
<1> QED BY <1>4, FS_CardinalityType

LEMMA UnionsEmpty == Unions(LastField) = {} /\ Cardinality(Unions(LastField)) = 0
<1>1. Unions(LastField) = {}
  BY FieldsNumbered DEF Unions
<1> QED BY <1>1, FS_EmptySet

\* A conjunction adds nothing to the unions above it, a union itself.
LEMMA UnionsStep ==
  ASSUME NEW k \in 1..LastField - 1
  PROVE  /\ request.joins[k] = "and" => Unions(k) = Unions(k + 1)
         /\ request.joins[k] # "and" =>
              Cardinality(Unions(k)) = Cardinality(Unions(k + 1)) + 1
<1>1. LastField \in Nat /\ k \in Nat
  BY FieldsNumbered
<1>2. k..LastField - 1 = (k + 1..LastField - 1) \cup {k}
  BY <1>1
<1>3. request.joins[k] = "and" => Unions(k) = Unions(k + 1)
  BY <1>2 DEF Unions
<1>4. ASSUME request.joins[k] # "and"
      PROVE  Cardinality(Unions(k)) = Cardinality(Unions(k + 1)) + 1
  <2>1. Unions(k) = Unions(k + 1) \cup {k}
    BY <1>2, <1>4 DEF Unions
  <2>2. k \notin Unions(k + 1)
    BY <1>1 DEF Unions
  <2>3. IsFiniteSet(Unions(k + 1))
    BY <1>1, UnionsFinite
  <2> QED BY <2>1, <2>2, <2>3, FS_AddElement
<1> QED BY <1>3, <1>4

----------------------------------------------------------------------------
(* Every step of the reader is one of the query                            *)

LEMMA FieldColumn ==
  ASSUME NEW i \in FieldNumbers PROVE Fields[i] \in Columns
BY FieldsAssumption DEF FieldNumbers

\* The filter that is due is one that the column admits.
LEMMA DueAdmitted ==
  ASSUME PositionInv, Pending PROVE Due \in Filters[Fields[leg]]
<1>1. request.filters[leg] \in Seq(Filters[Fields[leg]])
  BY RequestsAssumption DEF PositionInv
<1>2. applied + 1 \in 1..Len(request.filters[leg])
  BY <1>1 DEF PositionInv, Pending
<1> QED BY <1>1, <1>2 DEF Due

LEMMA JoinAdmitted ==
  ASSUME PositionInv, NEW k \in 1..LastField - 1, request.joins[k] # "and"
  PROVE  request.joins[k] \in Joins
BY RequestsAssumption DEF PositionInv, LastField

LEMMA StepRefines == ReaderInv /\ [ReadNext]_readVars => [Next]_vars
<1> SUFFICES ASSUME ReaderInv, ReadNext PROVE [Next]_vars
  BY DEF readVars, vars
<1> USE DEF ReaderInv
<1>1. CASE Open
  <2>1. node \in 1..LastField - 1
    BY <1>1, FieldsNumbered DEF Open, OpenInv
  <2> QED BY <1>1, <2>1, JoinAdmitted DEF Open, Next
<1>2. CASE Narrow
  <2>1. Fields[leg] \in Columns
    BY FieldColumn DEF PositionInv
  <2>2. Due \in Filters[Fields[leg]]
    BY <1>2, DueAdmitted DEF Narrow
  <2> QED BY <1>2, <2>1, <2>2 DEF Narrow, Next
<1>3. CASE Close
  BY <1>3 DEF Close, Next
<1>4. CASE Advance
  BY <1>4 DEF Advance, Next
<1>5. CASE Descend \/ Fail \/ Build \/ Pull \/ End
  BY <1>5 DEF Descend, Fail, Build, Pull, End
<1> QED BY <1>1, <1>2, <1>3, <1>4, <1>5 DEF ReadNext

----------------------------------------------------------------------------
(* Where the reader is                                                     *)

LEMMA ReaderInit == ReadInit => ReaderInv
<1> SUFFICES ASSUME ReadInit PROVE ReaderInv
  OBVIOUS
<1>1. frames = <<>> /\ node = LastField - 1 /\ phase = "open" /\ leg = 1
  BY DEF ReadInit, Init, LastField
<1>2. node + 1 = LastField /\ node \in 0..LastField - 1 /\ 1 \in FieldNumbers
  BY <1>1, FieldsNumbered
<1>3. Len(frames) = Cardinality(Unions(node + 1))
  BY <1>1, <1>2, UnionsEmpty
<1>4. PositionInv
  BY <1>1, <1>2 DEF ReadInit, PositionInv
<1>5. OpenInv
  BY <1>1, <1>2, <1>3 DEF OpenInv, ReadInit
<1> QED BY <1>1, <1>4, <1>5 DEF ReaderInv, SelectInv, BuiltInv

\* What the lemmas about Unions say of the next state.
LEMMA UnionsKept ==
  ASSUME request' = request, NEW k PROVE Unions(k)' = Unions(k)
BY DEF Unions

LEMMA OpenStep == ReaderInv /\ TypeOK /\ Open => ReaderInv'
<1> SUFFICES ASSUME ReaderInv, TypeOK, Open PROVE ReaderInv'
  OBVIOUS
<1> USE DEF ReaderInv
<1>1. /\ node \in 1..LastField - 1 /\ node' = node - 1 /\ phase' = "open"
      /\ UNCHANGED <<request, leg, applied>>
  BY FieldsNumbered DEF Open, OpenInv
<1>2. Unions(node + 1)' = Unions(node)
  BY <1>1, FieldsNumbered DEF Unions
<1>3. /\ request.joins[node] = "and" => Unions(node) = Unions(node + 1)
      /\ request.joins[node] # "and" =>
           Cardinality(Unions(node)) = Cardinality(Unions(node + 1)) + 1
  BY <1>1, UnionsStep
<1>4. /\ \A i \in 1..Len(frames') : frames'[i].leg = 1
      /\ Len(frames') = Cardinality(Unions(node))
  <2>1. CASE request.joins[node] = "and"
    <3>1. frames' = frames
      BY <2>1 DEF Open, vars
    <3> QED BY <2>1, <3>1, <1>3 DEF Open, OpenInv
  <2>2. CASE request.joins[node] # "and"
    <3> DEFINE frame == [join |-> request.joins[node], leg |-> 1, offered |-> mask,
                         base |-> hits, kept |-> {}, first |-> {}]
    <3>1. frames' = Append(frames, frame) /\ frame.leg = 1
      BY <2>2 DEF Open, Enter
    <3>2. frames \in Seq(Frame)
      BY DEF TypeOK
    <3>3. /\ Len(frames') = Len(frames) + 1
          /\ \A i \in 1..Len(frames) : frames'[i] = frames[i]
          /\ frames'[Len(frames) + 1] = frame
      BY <3>1, <3>2
    <3>4. \A i \in 1..Len(frames') : frames'[i].leg = 1
      BY <3>1, <3>2, <3>3 DEF Open, OpenInv
    <3> QED BY <2>2, <3>3, <3>4, <1>3 DEF Open, OpenInv
  <2> QED BY <2>1, <2>2
<1>5. PositionInv'
  BY <1>1 DEF PositionInv
<1>6. OpenInv'
  BY <1>1, <1>2, <1>4, FieldsNumbered DEF OpenInv, Open
<1> QED BY <1>1, <1>5, <1>6 DEF SelectInv, BuiltInv

LEMMA DescendStep == ReaderInv /\ TypeOK /\ Descend => ReaderInv' /\ ~ Closing'
<1> SUFFICES ASSUME ReaderInv, TypeOK, Descend PROVE ReaderInv' /\ ~ Closing'
  OBVIOUS
<1> USE DEF ReaderInv
<1>1. /\ phase = "open" /\ node = 0 /\ phase' = "select"
      /\ UNCHANGED <<frames, request, node, leg, applied>>
  BY DEF Descend, vars
<1>2. /\ leg = 1 /\ \A i \in 1..Len(frames) : frames[i].leg = 1
      /\ Len(frames) = Cardinality(Unions(leg))
  BY <1>1 DEF OpenInv
<1>3. frames \in Seq(Frame) /\ (frames # <<>> => Len(frames) \in 1..Len(frames))
  BY DEF TypeOK
<1>4. ~ Closing
  BY <1>2, <1>3 DEF Closing, Top
<1>5. Closing' = Closing /\ Unions(leg)' = Unions(leg)
  BY <1>1 DEF Closing, Top, Unions
<1>6. SelectInv'
  BY <1>1, <1>2, <1>3, <1>4, <1>5 DEF SelectInv, TypeOK
<1>7. PositionInv'
  BY <1>1 DEF PositionInv
<1> QED BY <1>1, <1>4, <1>5, <1>6, <1>7 DEF OpenInv, BuiltInv

\* The union that the column ends is closed, and those above it are all in
\* their first leg.
LEMMA CloseStep == ReaderInv /\ TypeOK /\ Close => ReaderInv' /\ ~ Closing'
<1> SUFFICES ASSUME ReaderInv, TypeOK, Close PROVE ReaderInv' /\ ~ Closing'
  OBVIOUS
<1> USE DEF ReaderInv
<1>1. /\ phase = "select" /\ Closing /\ frames # <<>> /\ frames' = Pop
      /\ UNCHANGED <<request, phase, node, leg, applied>>
  BY DEF Close, Closing, Leave, reader
<1>2. /\ Len(frames) \in Nat \ {0}
      /\ Pop \in Seq(Frame)
      /\ Len(Pop) = Len(frames) - 1
      /\ \A i \in 1..Len(frames) - 1 : Pop[i] = frames[i]
  BY <1>1, Popped DEF TypeOK
<1>3. \A i \in 1..Len(Pop) : Pop[i].leg = 1
  BY <1>1, <1>2 DEF SelectInv
<1>4. ~ Closing'
  <2>1. Pop # <<>> => Pop[Len(Pop)].leg = 1
    BY <1>2, <1>3
  <2> QED BY <1>1, <2>1 DEF Closing, Top
<1>5. Unions(leg)' = Unions(leg) /\ Cardinality(Unions(leg)) \in Nat
  <2>1. leg \in Nat
    BY FieldsNumbered DEF PositionInv
  <2> QED BY <1>1, <2>1, UnionsFinite DEF Unions
<1>6. SelectInv'
  BY <1>1, <1>2, <1>3, <1>4, <1>5 DEF SelectInv
<1>7. PositionInv'
  BY <1>1 DEF PositionInv
<1> QED BY <1>1, <1>4, <1>6, <1>7 DEF OpenInv, BuiltInv

\* The next column is the second leg of the node above, if that is a union.
LEMMA AdvanceStep ==
  ReaderInv /\ TypeOK /\ Advance =>
    ReaderInv' /\ (Closing' <=> request.joins[leg] # "and")
<1> SUFFICES ASSUME ReaderInv, TypeOK, Advance
             PROVE  ReaderInv' /\ (Closing' <=> request.joins[leg] # "and")
  OBVIOUS
<1> USE DEF ReaderInv
<1>1. /\ phase = "select" /\ ~ Closing /\ leg' = leg + 1 /\ applied' = 0
      /\ UNCHANGED <<request, phase, node>>
      /\ leg \in 1..LastField - 1
  BY FieldsNumbered DEF Advance, PositionInv, LastField
<1>2. /\ leg + 1 \in FieldNumbers
      /\ Unions(leg)' = Unions(leg + 1)
      /\ Cardinality(Unions(leg)) \in Nat
      /\ Cardinality(Unions(leg + 1)) \in Nat
  <2>1. leg \in Nat /\ leg + 1 \in Nat /\ leg + 1 \in FieldNumbers
    BY <1>1, FieldsNumbered
  <2> QED BY <1>1, <2>1, UnionsFinite DEF Unions
<1>3. /\ Len(frames) = Cardinality(Unions(leg))
      /\ \A i \in 1..Len(frames) - 1 : frames[i].leg = 1
  BY <1>1, <1>2 DEF SelectInv
<1>4. PositionInv'
  BY <1>1, <1>2 DEF PositionInv
<1>5. SelectInv' /\ (Closing' <=> request.joins[leg] # "and")
  <2>1. CASE request.joins[leg] = "and"
    <3>1. frames' = frames /\ Closing' = Closing
      BY <2>1 DEF Advance, vars, Closing, Top
    <3>2. Unions(leg) = Unions(leg + 1)
      BY <1>1, <2>1, UnionsStep
    <3> QED BY <1>1, <1>2, <1>3, <2>1, <3>1, <3>2 DEF SelectInv
  <2>2. CASE request.joins[leg] # "and"
    <3> DEFINE frame == [Top EXCEPT !.leg = 2, !.kept = mask, !.first = hits]
    <3>1. frames # <<>> /\ frames' = Append(Pop, frame)
      BY <2>2 DEF Advance, Second
    <3>2. /\ Len(frames) \in Nat \ {0}
          /\ Top \in Frame
          /\ Pop \in Seq(Frame)
          /\ Len(Pop) = Len(frames) - 1
          /\ \A i \in 1..Len(frames) - 1 : Pop[i] = frames[i]
      BY <3>1, Popped DEF TypeOK
    <3>3. frame \in Frame /\ frame.leg = 2
      BY <3>2 DEF Frame, TypeOK
    <3>4. /\ Len(frames') = Len(frames)
          /\ frames'[Len(frames)] = frame
          /\ \A i \in 1..Len(frames) - 1 : frames'[i] = frames[i]
      <4>1. /\ Len(Append(Pop, frame)) = Len(Pop) + 1
            /\ \A i \in 1..Len(Pop) : Append(Pop, frame)[i] = Pop[i]
            /\ Append(Pop, frame)[Len(Pop) + 1] = frame
        BY <3>2, <3>3, Pushed
      <4> QED BY <3>1, <3>2, <4>1
    <3>5. Closing'
      BY <3>2, <3>3, <3>4 DEF Closing, Top
    <3>6. Cardinality(Unions(leg)) = Cardinality(Unions(leg + 1)) + 1
      BY <1>1, <2>2, UnionsStep
    <3> QED BY <1>1, <1>2, <1>3, <2>2, <3>4, <3>5, <3>6 DEF SelectInv
  <2> QED BY <2>1, <2>2
<1> QED BY <1>1, <1>4, <1>5 DEF OpenInv, BuiltInv

\* No union is open when the last column has been resolved.
LEMMA BuildStep == ReaderInv /\ TypeOK /\ Build => ReaderInv'
<1> SUFFICES ASSUME ReaderInv, TypeOK, Build PROVE ReaderInv'
  OBVIOUS
<1> USE DEF ReaderInv
<1>1. /\ phase = "select" /\ ~ Closing /\ leg = LastField /\ phase' = "stream"
      /\ UNCHANGED <<frames, request, leg, applied>>
  BY DEF Build, LastField, vars
<1>2. Len(frames) = 0
  BY <1>1, UnionsEmpty DEF SelectInv
<1>3. frames = <<>>
  BY <1>2 DEF TypeOK
<1> QED BY <1>1, <1>3 DEF PositionInv, OpenInv, SelectInv, BuiltInv

LEMMA ReaderStep == ReaderInv /\ TypeOK /\ [ReadNext]_readVars => ReaderInv'
<1> SUFFICES ASSUME ReaderInv, TypeOK, [ReadNext]_readVars PROVE ReaderInv'
  OBVIOUS
<1> USE DEF ReaderInv
<1>1. CASE Open
  BY <1>1, OpenStep
<1>2. CASE Descend
  BY <1>2, DescendStep
<1>3. CASE Narrow
  <2>1. /\ phase = "select" /\ applied' = applied + 1
        /\ UNCHANGED <<frames, request, phase, node, leg>>
    BY <1>3 DEF Narrow, Test
  <2> QED BY <2>1 DEF PositionInv, OpenInv, SelectInv, BuiltInv, Closing, Top, Unions
<1>4. CASE Fail
  BY <1>4 DEF Fail, PositionInv, OpenInv, SelectInv, BuiltInv
<1>5. CASE Close
  BY <1>5, CloseStep
<1>6. CASE Advance
  BY <1>6, AdvanceStep
<1>7. CASE Build
  BY <1>7, BuildStep
<1>8. CASE Pull
  BY <1>8 DEF Pull, vars, PositionInv, OpenInv, SelectInv, BuiltInv
<1>9. CASE End
  BY <1>9 DEF End, vars, PositionInv, OpenInv, SelectInv, BuiltInv
<1>10. CASE UNCHANGED readVars
  BY <1>10 DEF readVars, reader, vars, PositionInv, OpenInv, SelectInv, BuiltInv,
               Closing, Top, Unions
<1> QED BY <1>1, <1>2, <1>3, <1>4, <1>5, <1>6, <1>7, <1>8, <1>9, <1>10 DEF ReadNext

----------------------------------------------------------------------------
(* The rows that pass                                                      *)

\* Whether a row passes the first k filters of field i, for a request q over
\* the buffers t; and the verdict on the fields up to each.
Meets(q, t, i, k, r) ==
  \A m \in 1..k :
    Passes(q.filters[i][m], Decode(Layout[Fields[i]], t[Fields[i]][r[1]])[r[2]])

FieldKeeps(q, t, r) ==
  [i \in FieldNumbers |-> Meets(q, t, i, Len(q.filters[i]), r)]

Judged(joins, keeps) ==
  CHOOSE f :
    f = [i \in FieldNumbers |->
           IF i = 1 THEN keeps[1] ELSE Judge(joins[i - 1], f[i - 1], keeps[i])]

\* The rows that pass the first k filters of field i, and those that pass the
\* fields up to it.
Meeting(q, t, i, k) == {r \in Rows : Meets(q, t, i, k, r)}
Passing(q, t, i) == {r \in Rows : Judged(q.joins, FieldKeeps(q, t, r))[i]}

LEMMA JudgedEquation ==
  ASSUME NEW joins, NEW keeps
  PROVE  Judged(joins, keeps) =
           [i \in FieldNumbers |->
              IF i = 1 THEN keeps[1]
              ELSE Judge(joins[i - 1], Judged(joins, keeps)[i - 1], keeps[i])]
<1> DEFINE Eq(m, g) ==
      g = [i \in 1..m |->
             IF i = 1 THEN keeps[1] ELSE Judge(joins[i - 1], g[i - 1], keeps[i])]
           T == {m \in Nat : \E g : Eq(m, g)}
<1>1. 0 \in T
  <2>1. Eq(0, [i \in 1..0 |-> TRUE])
    OBVIOUS
  <2> QED BY <2>1
<1>2. ASSUME NEW m \in Nat, m \in T PROVE m + 1 \in T
  <2>1. PICK g : Eq(m, g)
    BY <1>2
  <2> DEFINE h == [i \in 1..(m + 1) |->
                     IF i = 1 THEN keeps[1]
                     ELSE Judge(joins[i - 1], g[i - 1], keeps[i])]
  <2>2. \A i \in 1..m : h[i] = g[i]
    <3> TAKE i \in 1..m
    <3>1. i \in 1..(m + 1)
      OBVIOUS
    <3> QED BY <2>1, <3>1
  <2>3. \A i \in 1..(m + 1) : i # 1 => h[i - 1] = g[i - 1]
    <3> TAKE i \in 1..(m + 1)
    <3> HAVE i # 1
    <3>1. i - 1 \in 1..m
      OBVIOUS
    <3> HIDE DEF h
    <3> QED BY <2>2, <3>1
  <2>4. \A i \in 1..(m + 1) :
          h[i] = IF i = 1 THEN keeps[1] ELSE Judge(joins[i - 1], h[i - 1], keeps[i])
    <3> TAKE i \in 1..(m + 1)
    <3>1. h[i] = IF i = 1 THEN keeps[1] ELSE Judge(joins[i - 1], g[i - 1], keeps[i])
      OBVIOUS
    <3> HIDE DEF h
    <3> QED BY <3>1, <2>3
  <2>5. h = [i \in 1..(m + 1) |-> h[i]]
    OBVIOUS
  <2>6. Eq(m + 1, h)
    <3> HIDE DEF h
    <3> QED BY <2>4, <2>5
  <2> HIDE DEF h, Eq
  <2>7. \E k : Eq(m + 1, k)
    BY <2>6
  <2> QED BY <2>7
<1>3. Nat \subseteq T
  <2> HIDE DEF T
  <2> QED BY <1>1, <1>2, Induction
<1>4. \E g : Eq(LastField, g)
  BY <1>3, FieldsNumbered
<1>5. Judged(joins, keeps) = CHOOSE g : Eq(LastField, g)
  BY FieldsNumbered DEF Judged
<1>6. Eq(LastField, Judged(joins, keeps))
  <2> HIDE DEF Eq
  <2> QED BY <1>4, <1>5
<1> QED BY <1>6, FieldsNumbered

LEMMA VerdictJudged ==
  ASSUME NEW keeps
  PROVE  Verdict(keeps) = Judged(request.joins, keeps)[LastField]
BY DEF Verdict, Judged, LastField

\* The first k + 1 filters are the first k and one more.
LEMMA MeetingNone ==
  ASSUME NEW q, NEW t, NEW i PROVE Meeting(q, t, i, 0) = Rows
BY DEF Meeting, Meets

LEMMA MeetingStep ==
  ASSUME NEW q, NEW t, NEW i, NEW k \in Nat, NEW r
  PROVE  r \in Meeting(q, t, i, k + 1) <=>
           /\ r \in Meeting(q, t, i, k)
           /\ Passes(q.filters[i][k + 1],
                     Decode(Layout[Fields[i]], t[Fields[i]][r[1]])[r[2]])
<1>1. \A m : m \in 1..(k + 1) <=> m \in 1..k \/ m = k + 1
  OBVIOUS
<1> QED BY <1>1 DEF Meeting, Meets

\* One field more joins what it meets to what passed before it.
LEMMA PassingStep ==
  ASSUME NEW q \in Requests, NEW t
  PROVE  /\ Passing(q, t, 1) = Meeting(q, t, 1, Len(q.filters[1]))
         /\ \A i \in 2..LastField :
              /\ q.joins[i - 1] = "and" =>
                   Passing(q, t, i) =
                     Passing(q, t, i - 1) \cap Meeting(q, t, i, Len(q.filters[i]))
              /\ q.joins[i - 1] # "and" =>
                   Passing(q, t, i) =
                     Combine(q.joins[i - 1], Passing(q, t, i - 1),
                             Meeting(q, t, i, Len(q.filters[i])))
<1> DEFINE J(r) == Judged(q.joins, FieldKeeps(q, t, r))
<1>1. \A r : J(r) = [i \in FieldNumbers |->
                 IF i = 1 THEN FieldKeeps(q, t, r)[1]
                 ELSE Judge(q.joins[i - 1], J(r)[i - 1], FieldKeeps(q, t, r)[i])]
  BY JudgedEquation
<1>2. \A r : \A i \in FieldNumbers :
        FieldKeeps(q, t, r)[i] = Meets(q, t, i, Len(q.filters[i]), r)
  BY DEF FieldKeeps
<1> HIDE DEF J
<1>3. 1 \in FieldNumbers
  BY FieldsNumbered
<1>a. \A k \in 1..Len(Fields) - 1 : q.joins[k] \in {"and", "or", "xor"}
  BY RequestsAssumption, JoinsAssumption
<1>b. ASSUME NEW r, NEW k \in FieldNumbers PROVE J(r)[k] \in BOOLEAN
  <2>1. CASE k = 1
    <3>1. J(r)[1] = Meets(q, t, 1, Len(q.filters[1]), r)
      BY <1>1, <1>2, <1>3
    <3>2. Meets(q, t, 1, Len(q.filters[1]), r) \in BOOLEAN
      BY DEF Meets
    <3> QED BY <2>1, <3>1, <3>2
  <2>2. CASE k # 1
    <3>1. k - 1 \in 1..Len(Fields) - 1
      BY <2>2, FieldsNumbered DEF LastField
    <3>2. PICK join : join = q.joins[k - 1] /\ join \in {"and", "or", "xor"}
      BY <1>a, <3>1
    <3>3. J(r)[k] = Judge(join, J(r)[k - 1], FieldKeeps(q, t, r)[k])
      BY <1>1, <2>2, <3>2
    <3>4. \A a, b : Judge(join, a, b) \in BOOLEAN
      BY <3>2 DEF Judge
    <3> QED BY <3>3, <3>4
  <2> QED BY <2>1, <2>2
<1>4. Passing(q, t, 1) = Meeting(q, t, 1, Len(q.filters[1]))
  <2>1. \A r : J(r)[1] = Meets(q, t, 1, Len(q.filters[1]), r)
    BY <1>1, <1>2, <1>3
  <2> QED BY <2>1 DEF Passing, Meeting, J
<1>5. ASSUME NEW i \in 2..LastField
      PROVE  /\ q.joins[i - 1] = "and" =>
                   Passing(q, t, i) =
                     Passing(q, t, i - 1) \cap Meeting(q, t, i, Len(q.filters[i]))
             /\ q.joins[i - 1] # "and" =>
                   Passing(q, t, i) =
                     Combine(q.joins[i - 1], Passing(q, t, i - 1),
                             Meeting(q, t, i, Len(q.filters[i])))
  <2>1. i \in FieldNumbers /\ i # 1 /\ i - 1 \in 1..Len(Fields) - 1
    BY FieldsNumbered DEF LastField
  <2>2. \A r : J(r)[i] = Judge(q.joins[i - 1], J(r)[i - 1],
                                Meets(q, t, i, Len(q.filters[i]), r))
    BY <1>1, <1>2, <2>1
  <2>3. q.joins[i - 1] \in {"and", "or", "xor"}
    BY <2>1, RequestsAssumption, JoinsAssumption
  <2>4. \A r : /\ q.joins[i - 1] = "and" =>
                    (J(r)[i] <=> J(r)[i - 1] /\ Meets(q, t, i, Len(q.filters[i]), r))
               /\ q.joins[i - 1] = "or" =>
                    (J(r)[i] <=> J(r)[i - 1] \/ Meets(q, t, i, Len(q.filters[i]), r))
               /\ q.joins[i - 1] = "xor" =>
                    (J(r)[i] <=> (J(r)[i - 1] # Meets(q, t, i, Len(q.filters[i]), r)))
    BY <2>2 DEF Judge
  <2>5. \A r : J(r)[i - 1] \in BOOLEAN
    BY <2>1, <1>b, FieldsNumbered
  <2>6. \A r : Meets(q, t, i, Len(q.filters[i]), r) \in BOOLEAN
    BY DEF Meets
  <2>7. q.joins[i - 1] = "xor" =>
          \A r : J(r)[i] <=> ~ (J(r)[i - 1] <=> Meets(q, t, i, Len(q.filters[i]), r))
    BY <2>4, <2>5, <2>6
  <2>8. CASE q.joins[i - 1] = "and"
    BY <2>4, <2>8 DEF Passing, Meeting, Combine, J
  <2>9. CASE q.joins[i - 1] = "or"
    BY <2>4, <2>9 DEF Passing, Meeting, Combine, J
  <2>10. CASE q.joins[i - 1] = "xor"
    <3>1. Passing(q, t, i) =
            {r \in Rows : ~ (J(r)[i - 1] <=> Meets(q, t, i, Len(q.filters[i]), r))}
      BY <2>7, <2>10 DEF Passing, J
    <3>2. Passing(q, t, i - 1) = {r \in Rows : J(r)[i - 1]}
      BY DEF Passing, J
    <3> QED BY <2>10, <3>1, <3>2 DEF Combine, Meeting
  <2> QED BY <2>3, <2>8, <2>9, <2>10
<1> QED BY <1>4, <1>5

----------------------------------------------------------------------------
(* The tree, and the rows that pass what has been resolved of it           *)

\* The number of unions from node n to the root, which is the place of the
\* frame of n if n is a union.
Depth(n) == Cardinality(Unions(n))

\* The lowest node that may have a frame.
Lowest == IF phase = "open" THEN node + 1 ELSE IF Closing THEN leg - 1 ELSE leg

StageInv ==
  /\ node \in 0..LastField - 1
  /\ applied \in 0..Len(request.filters[leg])
  /\ phase # "open" => node = 0
  /\ phase \in {"stream", "ended"} => leg = LastField

\* A frame joins as its node does, and each began with all rows: no filter is
\* resolved before the last union is opened.
TreeInv ==
  phase \in {"open", "select"} =>
    /\ phase = "select" /\ Closing => leg > 1 /\ request.joins[leg - 1] # "and"
    /\ \A i \in 1..Len(frames) : frames[i].base = Rows
    /\ \A n \in 1..LastField - 1 :
         Lowest <= n /\ request.joins[n] # "and" =>
           frames[Depth(n)].join = request.joins[n]

\* The rows that pass the filters resolved of the fields up to leg: a union's
\* second leg has them apart from those of the first until it is closed.
Resolved ==
  IF Closing
  THEN /\ hits = Meeting(request, table, leg, applied)
       /\ Top.first = Passing(request, table, leg - 1)
  ELSE IF leg > 1 /\ request.joins[leg - 1] # "and"
  THEN /\ applied = Len(request.filters[leg])
       /\ hits = Passing(request, table, leg)
  ELSE hits = Meeting(request, table, leg, applied)
                \cap (IF leg = 1 THEN Rows ELSE Passing(request, table, leg - 1))

HitsInv ==
  /\ phase = "open" => hits = Rows
  /\ phase = "select" => Resolved
  /\ phase \in {"stream", "ended"} => hits = Passing(request, table, LastField)

ResultInv == StageInv /\ TreeInv /\ HitsInv

LEMMA FiltersCounted ==
  ASSUME PositionInv, NEW i \in FieldNumbers
  PROVE  Len(request.filters[i]) \in Nat
<1>1. request.filters[i] \in Seq(Filters[Fields[i]])
  BY RequestsAssumption DEF PositionInv
<1> QED BY <1>1

LEMMA DepthBound ==
  ASSUME NEW k \in 1..LastField, NEW n \in k..LastField - 1, request.joins[n] # "and"
  PROVE  Depth(n) \in 1..Depth(k) /\ Depth(k) \in Nat
<1>1. k \in Nat /\ n \in Nat /\ k <= n
  BY FieldsNumbered
<1>2. Unions(n) \subseteq Unions(k) /\ n \in Unions(n)
  BY <1>1, FieldsNumbered DEF Unions
<1>3. IsFiniteSet(Unions(k)) /\ Depth(n) \in Nat /\ Depth(k) \in Nat
  BY <1>1, UnionsFinite DEF Depth
<1>4. Depth(n) <= Depth(k)
  BY <1>2, <1>3, FS_Subset DEF Depth
<1>5. Depth(n) # 0
  BY <1>1, <1>2, UnionsFinite, FS_EmptySet DEF Depth
<1> QED BY <1>3, <1>4, <1>5

\* There is a frame for each union from the lowest.
LEMMA LowestDepth ==
  ASSUME ReaderInv, StageInv, TreeInv, phase \in {"open", "select"}
  PROVE  Lowest \in 1..LastField /\ Len(frames) = Depth(Lowest)
<1>1. CASE phase = "open"
  <2>1. Lowest = node + 1
    BY <1>1 DEF Lowest
  <2> QED BY <1>1, <2>1, FieldsNumbered DEF ReaderInv, OpenInv, Depth
<1>2. CASE phase = "select" /\ Closing
  <2>1. Lowest = leg - 1 /\ leg \in 1..LastField /\ leg > 1
        /\ request.joins[leg - 1] # "and"
    BY <1>2, FieldsNumbered DEF Lowest, TreeInv, ReaderInv, PositionInv
  <2>2. leg - 1 \in 1..LastField - 1 /\ (leg - 1) + 1 = leg
    BY <2>1, FieldsNumbered
  <2>3. Cardinality(Unions(leg - 1)) = Cardinality(Unions(leg)) + 1
    BY <2>1, <2>2, UnionsStep
  <2> QED BY <1>2, <2>1, <2>2, <2>3, FieldsNumbered DEF ReaderInv, SelectInv, Depth
<1>3. CASE phase = "select" /\ ~ Closing
  <2>1. Lowest = leg
    BY <1>3 DEF Lowest
  <2>2. leg \in Nat /\ Cardinality(Unions(leg)) \in Nat
    BY FieldsNumbered, UnionsFinite DEF ReaderInv, PositionInv
  <2> QED BY <1>3, <2>1, <2>2, FieldsNumbered DEF ReaderInv, SelectInv, PositionInv, Depth
<1> QED BY <1>1, <1>2, <1>3

LEMMA StageInit == ReadInit => ResultInv
<1> SUFFICES ASSUME ReadInit PROVE ResultInv
  OBVIOUS
<1>1. /\ request \in Requests /\ phase = "open" /\ node = LastField - 1
      /\ leg = 1 /\ applied = 0 /\ frames = <<>> /\ hits = Rows
  BY DEF ReadInit, Init, LastField
<1>2. PositionInv /\ 1 \in FieldNumbers
  BY <1>1, FieldsNumbered DEF PositionInv
<1>3. Len(request.filters[1]) \in Nat
  BY <1>2, FiltersCounted
<1>4. StageInv
  BY <1>1, <1>3, FieldsNumbered DEF StageInv
<1>5. TreeInv
  BY <1>1, FieldsNumbered DEF TreeInv, Lowest
<1>6. HitsInv
  BY <1>1 DEF HitsInv
<1> QED BY <1>4, <1>5, <1>6 DEF ResultInv

LEMMA StageStep ==
  ASSUME ReaderInv, StageInv, [ReadNext]_readVars PROVE StageInv'
<1>a. /\ leg \in FieldNumbers /\ applied \in Nat /\ LastField \in Nat \ {0}
      /\ FieldNumbers = 1..LastField
  BY FieldsNumbered DEF ReaderInv, PositionInv
<1>b. \A i \in FieldNumbers : Len(request.filters[i]) \in Nat
  BY FiltersCounted DEF ReaderInv
<1>1. CASE Open
  BY <1>1, <1>a DEF Open, StageInv
<1>2. CASE Descend
  BY <1>2, <1>a DEF Descend, StageInv
<1>3. CASE Narrow
  BY <1>3, <1>a, <1>b DEF Narrow, Pending, StageInv
<1>4. CASE Fail \/ Pull \/ End \/ UNCHANGED readVars
  BY <1>4, <1>a DEF Fail, Pull, End, readVars, reader, StageInv
<1>5. CASE Close
  BY <1>5, <1>a DEF Close, reader, StageInv
<1>6. CASE Advance
  <2>1. leg + 1 \in FieldNumbers
    BY <1>6, <1>a DEF Advance, LastField
  <2> QED BY <1>6, <1>a, <1>b, <2>1 DEF Advance, StageInv
<1>7. CASE Build
  BY <1>7, <1>a DEF Build, StageInv, LastField
<1> QED BY <1>1, <1>2, <1>3, <1>4, <1>5, <1>6, <1>7 DEF ReadNext

LEMMA TreeStep ==
  ASSUME TypeOK, ReaderInv, ResultInv, [ReadNext]_readVars PROVE TreeInv'
<1> USE DEF ResultInv
<1>a. request' = request /\ \A n : Depth(n)' = Depth(n)
  <2>1. request' = request
    BY DEF ReadNext, Open, Descend, Narrow, Fail, Close, Advance, Build, Pull, End,
           readVars, reader
  <2> QED BY <2>1, UnionsKept DEF Depth
<1>b. phase \in {"open", "select"} =>
        Lowest \in 1..LastField /\ Len(frames) = Depth(Lowest)
  BY LowestDepth
<1>c. frames \in Seq(Frame) /\ Len(frames) \in Nat
  BY DEF TypeOK
<1>d. ASSUME frames' = frames, phase \in {"open", "select"}, Lowest' \in 1..LastField,
             phase' = "select" /\ Closing' => leg' > 1 /\ request.joins[leg' - 1] # "and",
             \A n \in 1..LastField - 1 :
               Lowest' <= n /\ request.joins[n] # "and" => Lowest <= n
      PROVE  TreeInv'
  BY <1>a, <1>d DEF TreeInv
<1>1. CASE Open
  <2>1. /\ node \in 1..LastField - 1 /\ node' = node - 1
        /\ phase = "open" /\ phase' = "open"
    BY <1>1, FieldsNumbered DEF Open, ReaderInv, OpenInv
  <2>2. Lowest = node + 1 /\ Lowest' = node /\ node \in Nat
    BY <2>1, FieldsNumbered DEF Lowest
  <2>3. CASE request.joins[node] = "and"
    <3>1. frames' = frames
      BY <1>1, <2>3 DEF Open, vars
    <3>2. \A n \in 1..LastField - 1 :
            Lowest' <= n /\ request.joins[n] # "and" => Lowest <= n
      BY <2>2, <2>3, FieldsNumbered
    <3> QED BY <1>d, <2>1, <2>2, <3>1, <3>2, FieldsNumbered
  <2>4. CASE request.joins[node] # "and"
    <3> DEFINE frame == [join |-> request.joins[node], leg |-> 1, offered |-> mask,
                         base |-> hits, kept |-> {}, first |-> {}]
    <3>1. frames' = Append(frames, frame)
      BY <1>1, <2>4 DEF Open, Enter
    <3>2. frame.join = request.joins[node] /\ frame.base = Rows
      BY <2>1 DEF HitsInv
    <3> HIDE DEF frame
    <3>3. /\ Len(frames') = Len(frames) + 1
          /\ \A i \in 1..Len(frames) : frames'[i] = frames[i]
          /\ frames'[Len(frames) + 1] = frame
      BY <1>c, <3>1
    <3>4. Depth(node) = Len(frames) + 1
      BY <1>b, <2>1, <2>2, <2>4, UnionsStep DEF Depth
    <3>5. ASSUME NEW n \in 1..LastField - 1, Lowest' <= n, request.joins[n] # "and"
          PROVE  frames'[Depth(n)].join = request.joins[n]
      <4>1. CASE n = node
        BY <3>2, <3>3, <3>4, <4>1
      <4>2. CASE n # node
        <5>1. n \in Lowest..LastField - 1
          BY <2>2, <3>5, <4>2, FieldsNumbered
        <5>2. Depth(n) \in 1..Len(frames)
          BY <1>b, <2>1, <3>5, <5>1, DepthBound
        <5> QED BY <2>1, <3>3, <3>5, <5>1, <5>2 DEF TreeInv
      <4> QED BY <4>1, <4>2
    <3>6. \A i \in 1..Len(frames') : frames'[i].base = Rows
      BY <1>c, <2>1, <3>2, <3>3 DEF TreeInv
    <3> QED BY <1>a, <2>1, <3>5, <3>6 DEF TreeInv
  <2> QED BY <2>3, <2>4
<1>2. CASE Descend
  <2>1. /\ phase = "open" /\ node = 0 /\ phase' = "select" /\ leg' = leg /\ leg = 1
        /\ frames' = frames
    BY <1>2 DEF Descend, vars, ReaderInv, OpenInv
  <2>2. ~ Closing'
    BY <1>2, DescendStep
  <2>3. Lowest = 1 /\ Lowest' = 1
    BY <2>1, <2>2 DEF Lowest
  <2> QED BY <1>d, <2>1, <2>2, <2>3, FieldsNumbered
<1>3. CASE Narrow \/ UNCHANGED readVars
  <2>1. frames' = frames /\ phase' = phase /\ leg' = leg /\ node' = node
    BY <1>3 DEF Narrow, Test, readVars, reader, vars
  <2>2. Closing' = Closing /\ Lowest' = Lowest
    BY <2>1 DEF Closing, Top, Lowest
  <2>3. CASE phase \in {"open", "select"}
    BY <1>b, <1>d, <2>1, <2>2, <2>3 DEF TreeInv
  <2> QED BY <2>1, <2>3 DEF TreeInv
<1>4. CASE Fail \/ Build \/ Pull \/ End
  BY <1>4 DEF Fail, Build, Pull, End, TreeInv
<1>5. CASE Close
  <2>1. /\ phase = "select" /\ Closing /\ frames # <<>> /\ frames' = Pop
        /\ UNCHANGED <<phase, node, leg>> /\ leg \in 1..LastField
    BY <1>5, FieldsNumbered DEF Close, Closing, Leave, reader, ReaderInv, PositionInv
  <2>2. ~ Closing'
    BY <1>5, CloseStep
  <2>3. Lowest = leg - 1 /\ Lowest' = leg /\ leg > 1 /\ request.joins[leg - 1] # "and"
    BY <2>1, <2>2 DEF Lowest, TreeInv
  <2>4. /\ Len(Pop) = Len(frames) - 1
        /\ \A i \in 1..Len(frames) - 1 : Pop[i] = frames[i]
    BY <1>c, <2>1, Popped
  <2>5. Len(frames) = Depth(leg) + 1
    <3>1. leg - 1 \in 1..LastField - 1 /\ (leg - 1) + 1 = leg
      BY <2>1, <2>3, FieldsNumbered
    <3> QED BY <1>b, <2>1, <2>3, <3>1, UnionsStep DEF Depth
  <2>6. ASSUME NEW n \in 1..LastField - 1, leg <= n, request.joins[n] # "and"
        PROVE  frames'[Depth(n)].join = request.joins[n]
    <3>1. Depth(n) \in 1..Depth(leg) /\ Depth(leg) \in Nat
      BY <2>1, <2>6, FieldsNumbered, DepthBound
    <3>2. Lowest <= n
      BY <2>1, <2>3, <2>6, FieldsNumbered
    <3>3. Depth(n) \in 1..Len(frames) - 1
      BY <2>5, <3>1
    <3> QED BY <2>1, <2>4, <2>6, <3>2, <3>3 DEF TreeInv
  <2>7. \A i \in 1..Len(frames') : frames'[i].base = Rows
    BY <1>c, <2>1, <2>4 DEF TreeInv
  <2> QED BY <1>a, <2>1, <2>2, <2>3, <2>6, <2>7 DEF TreeInv
<1>6. CASE Advance
  <2>1. /\ phase = "select" /\ phase' = "select" /\ ~ Closing /\ leg' = leg + 1
        /\ leg \in 1..LastField - 1
    BY <1>6, FieldsNumbered DEF Advance, ReaderInv, PositionInv, LastField
  <2>2. Closing' <=> request.joins[leg] # "and"
    BY <1>6, AdvanceStep
  <2>3. Lowest = leg /\ (leg + 1) - 1 = leg
    BY <2>1 DEF Lowest
  <2>4. CASE request.joins[leg] = "and"
    <3>1. frames' = frames
      BY <1>6, <2>4 DEF Advance, vars
    <3>2. Lowest' = leg + 1
      BY <2>1, <2>2, <2>4 DEF Lowest
    <3>3. \A n \in 1..LastField - 1 : leg + 1 <= n => leg <= n
      BY <2>1, FieldsNumbered
    <3> QED BY <1>d, <2>1, <2>2, <2>3, <2>4, <3>1, <3>2, <3>3, FieldsNumbered
  <2>5. CASE request.joins[leg] # "and"
    <3> DEFINE frame == [Top EXCEPT !.leg = 2, !.kept = mask, !.first = hits]
    <3>1. frames # <<>> /\ frames' = Append(Pop, frame)
      BY <1>6, <2>5 DEF Advance, Second
    <3>2. /\ Len(frames) \in Nat \ {0} /\ Top \in Frame /\ Pop \in Seq(Frame)
          /\ Len(Pop) = Len(frames) - 1
          /\ \A i \in 1..Len(frames) - 1 : Pop[i] = frames[i]
      BY <1>c, <3>1, Popped
    <3>3. frame.join = Top.join /\ frame.base = Top.base
      BY <3>2 DEF Frame
    <3> HIDE DEF frame
    <3>4. /\ Len(frames') = Len(frames)
          /\ frames'[Len(frames)] = frame
          /\ \A i \in 1..Len(frames) - 1 : frames'[i] = frames[i]
      BY <3>1, <3>2
    <3>5. Top = frames[Len(frames)]
      BY DEF Top
    <3>6. \A i \in 1..Len(frames) :
            frames'[i].join = frames[i].join /\ frames'[i].base = frames[i].base
      BY <3>2, <3>3, <3>4, <3>5
    <3>7. Lowest' = leg
      BY <2>1, <2>2, <2>3, <2>5 DEF Lowest
    <3>8. ASSUME NEW n \in 1..LastField - 1, leg <= n, request.joins[n] # "and"
          PROVE  frames'[Depth(n)].join = request.joins[n]
      <4>1. Depth(n) \in 1..Len(frames)
        BY <1>b, <2>1, <2>3, <3>8, FieldsNumbered, DepthBound
      <4> QED BY <2>1, <2>3, <3>6, <3>8, <4>1 DEF TreeInv
    <3>9. \A i \in 1..Len(frames') : frames'[i].base = Rows
      BY <2>1, <3>4, <3>6 DEF TreeInv
    <3> QED BY <1>a, <2>1, <2>3, <2>5, <3>7, <3>8, <3>9 DEF TreeInv
  <2> QED BY <2>4, <2>5
<1> QED BY <1>1, <1>2, <1>3, <1>4, <1>5, <1>6 DEF ReadNext

LEMMA HitsStep ==
  ASSUME TypeOK, ReaderInv, ResultInv, [ReadNext]_readVars PROVE HitsInv'
<1> USE DEF ResultInv
<1>a. request' = request /\ table' = table
  BY DEF ReadNext, Open, Descend, Narrow, Fail, Close, Advance, Build, Pull, End,
         readVars, reader, vars, Enter, Test, Second, Leave
<1>b. /\ request \in Requests /\ leg \in 1..LastField
      /\ applied \in 0..Len(request.filters[leg])
      /\ Len(request.filters[leg]) \in Nat
  BY FieldsNumbered, FiltersCounted DEF ReaderInv, PositionInv, StageInv
<1>1. CASE Open
  <2>1. hits' = hits /\ phase = "open" /\ phase' = "open"
    BY <1>1 DEF Open, vars, Enter
  <2> QED BY <2>1 DEF HitsInv
<1>2. CASE Descend
  <2>1. /\ phase = "open" /\ phase' = "select" /\ leg' = 1 /\ applied' = 0
        /\ hits' = Rows
    BY <1>2 DEF Descend, vars, ReaderInv, OpenInv, HitsInv
  <2>2. ~ Closing'
    BY <1>2, DescendStep
  <2>3. Meeting(request, table, 1, 0) = Rows
    BY MeetingNone
  <2> QED BY <1>a, <2>1, <2>2, <2>3 DEF HitsInv, Resolved
<1>3. CASE Narrow
  <2>1. /\ phase = "select" /\ phase' = "select" /\ leg' = leg /\ applied' = applied + 1
        /\ hits' = {r \in hits : Passes(Due, ItemAt(Fields[leg], r))}
        /\ frames' = frames /\ applied < Len(request.filters[leg])
    BY <1>3 DEF Narrow, Test, Pending
  <2>2. Closing' = Closing /\ Top' = Top
    BY <2>1 DEF Closing, Top
  <2>3. \A r : r \in Meeting(request, table, leg, applied + 1) <=>
                /\ r \in Meeting(request, table, leg, applied)
                /\ Passes(Due, ItemAt(Fields[leg], r))
    <3>1. applied \in Nat
      BY <1>b
    <3> QED BY <3>1, MeetingStep DEF Due, ItemAt
  <2>4. Resolved
    BY <2>1 DEF HitsInv
  <2> DEFINE m0 == Meeting(request, table, leg, applied)
             m1 == Meeting(request, table, leg, applied + 1)
             base == IF leg = 1 THEN Rows ELSE Passing(request, table, leg - 1)
             Fit(r) == Passes(Due, ItemAt(Fields[leg], r))
  <2>5. (\A r : r \in m1 <=> r \in m0 /\ Fit(r)) /\ hits' = {r \in hits : Fit(r)}
    BY <2>1, <2>3
  <2>6. CASE Closing
    <3>1. hits = m0 /\ Top.first = Passing(request, table, leg - 1)
      BY <2>4, <2>6 DEF Resolved
    <3>2. hits' = m1
      <4> HIDE DEF m0, m1, Fit
      <4> QED BY <2>5, <3>1
    <3> QED BY <1>a, <2>1, <2>2, <2>6, <3>1, <3>2 DEF HitsInv, Resolved
  <2>7. CASE ~ Closing
    <3>1. ~ (leg > 1 /\ request.joins[leg - 1] # "and")
      BY <1>b, <2>1, <2>4, <2>7 DEF Resolved
    <3>2. hits = m0 \cap base
      BY <2>4, <2>7, <3>1 DEF Resolved
    <3>3. hits' = m1 \cap base
      <4> HIDE DEF m0, m1, Fit, base
      <4> QED BY <2>5, <3>2
    <3>4. Resolved'
      BY <1>a, <2>1, <2>2, <2>7, <3>1, <3>3 DEF Resolved
    <3> QED BY <2>1, <3>4 DEF HitsInv
  <2> QED BY <2>6, <2>7
<1>4. CASE Fail
  BY <1>4 DEF Fail, HitsInv
<1>5. CASE Close
  <2>1. /\ phase = "select" /\ Closing /\ frames # <<>>
        /\ hits' = Combine(Top.join, Top.first, hits)
        /\ UNCHANGED <<phase, leg, applied>>
        /\ applied = Len(request.filters[leg])
    BY <1>5, <1>b DEF Close, Closing, Leave, reader, Pending
  <2>2. ~ Closing'
    BY <1>5, CloseStep
  <2>3. leg > 1 /\ request.joins[leg - 1] # "and" /\ Lowest = leg - 1
    BY <2>1 DEF TreeInv, Lowest
  <2>4. leg - 1 \in 1..LastField - 1 /\ leg \in 2..LastField
    BY <1>b, <2>3, FieldsNumbered
  <2>5. Len(frames) = Depth(leg - 1)
    BY <2>1, <2>3, LowestDepth
  <2>6. Top.join = request.joins[leg - 1]
    BY <2>1, <2>3, <2>4, <2>5 DEF TreeInv, Top
  <2>7. /\ hits = Meeting(request, table, leg, applied)
        /\ Top.first = Passing(request, table, leg - 1)
    BY <2>1 DEF HitsInv, Resolved
  <2>8. hits' = Passing(request, table, leg)
    <3>1. Passing(request, table, leg) =
            Combine(request.joins[leg - 1], Passing(request, table, leg - 1),
                    Meeting(request, table, leg, Len(request.filters[leg])))
      BY <1>b, <2>3, <2>4, PassingStep
    <3> QED BY <2>1, <2>6, <2>7, <3>1
  <2>9. Resolved'
    BY <1>a, <2>1, <2>2, <2>3, <2>8 DEF Resolved
  <2> QED BY <2>1, <2>9 DEF HitsInv
<1>6. ASSUME Advance \/ Build
      PROVE  hits = Passing(request, table, leg)
  <2>1. phase = "select" /\ ~ Closing /\ applied = Len(request.filters[leg])
    BY <1>6, <1>b DEF Advance, Build, Pending
  <2>2. Resolved
    BY <2>1 DEF HitsInv
  <2>3. CASE leg = 1
    <3>1. hits = Meeting(request, table, 1, Len(request.filters[1])) \cap Rows
      BY <2>1, <2>2, <2>3 DEF Resolved
    <3>2. Meeting(request, table, 1, Len(request.filters[1])) \subseteq Rows
      BY DEF Meeting
    <3> QED BY <1>b, <2>3, <3>1, <3>2, PassingStep
  <2>4. CASE leg > 1 /\ request.joins[leg - 1] # "and"
    BY <2>1, <2>2, <2>4 DEF Resolved
  <2>5. CASE leg > 1 /\ request.joins[leg - 1] = "and"
    <3>1. hits = Meeting(request, table, leg, Len(request.filters[leg]))
                   \cap Passing(request, table, leg - 1)
      BY <2>1, <2>2, <2>5 DEF Resolved
    <3>2. leg \in 2..LastField
      BY <1>b, <2>5
    <3>3. Passing(request, table, leg) =
            Passing(request, table, leg - 1)
              \cap Meeting(request, table, leg, Len(request.filters[leg]))
      BY <1>b, <2>5, <3>2, PassingStep
    <3> QED BY <3>1, <3>3
  <2> QED BY <1>b, <2>3, <2>4, <2>5
<1>7. CASE Advance
  <2>1. /\ phase = "select" /\ phase' = "select" /\ leg' = leg + 1 /\ applied' = 0
        /\ leg' > 1 /\ leg' - 1 = leg /\ leg' # 1
    BY <1>7, <1>b DEF Advance
  <2>2. Closing' <=> request.joins[leg] # "and"
    BY <1>7, AdvanceStep
  <2>3. Meeting(request, table, leg', 0) = Rows
    BY MeetingNone
  <2>4. hits = Passing(request, table, leg)
    BY <1>6, <1>7
  <2>5. CASE request.joins[leg] = "and"
    <3>1. hits' = hits
      BY <1>7, <2>5 DEF Advance, vars
    <3>2. hits' = Rows \cap Passing(request, table, leg)
      BY <2>4, <3>1 DEF Passing
    <3>3. Resolved'
      BY <1>a, <2>1, <2>2, <2>3, <2>5, <3>2 DEF Resolved
    <3> QED BY <2>1, <3>3 DEF HitsInv
  <2>6. CASE request.joins[leg] # "and"
    <3> DEFINE frame == [Top EXCEPT !.leg = 2, !.kept = mask, !.first = hits]
    <3>1. frames # <<>> /\ frames' = Append(Pop, frame) /\ hits' = Top.base
      BY <1>7, <2>6 DEF Advance, Second
    <3>2. /\ Len(frames) \in Nat \ {0} /\ Top \in Frame /\ Pop \in Seq(Frame)
          /\ Len(Pop) = Len(frames) - 1
      BY <3>1, Popped DEF TypeOK
    <3>3. frame.first = hits
      BY <3>2 DEF Frame
    <3> HIDE DEF frame
    <3>4. Len(frames') = Len(frames) /\ frames'[Len(frames)] = frame
      BY <3>1, <3>2
    <3>5. Top'.first = Passing(request, table, leg)
      BY <2>4, <3>3, <3>4 DEF Top
    <3>6. hits' = Rows
      BY <2>1, <3>1, <3>2 DEF TreeInv, Top
    <3>7. Resolved'
      BY <1>a, <2>1, <2>2, <2>3, <2>6, <3>5, <3>6 DEF Resolved
    <3> QED BY <2>1, <3>7 DEF HitsInv
  <2> QED BY <2>5, <2>6
<1>8. CASE Build
  <2>1. phase' = "stream" /\ hits' = hits /\ leg = LastField
    BY <1>8 DEF Build, vars, LastField
  <2> QED BY <1>a, <1>6, <1>8, <2>1 DEF HitsInv
<1>9. CASE Pull \/ End
  <2>1. phase = "stream" /\ phase' \in {"stream", "ended"} /\ hits' = hits
    BY <1>9 DEF Pull, End, vars
  <2> QED BY <1>a, <2>1 DEF HitsInv
<1>10. CASE UNCHANGED readVars
  BY <1>10 DEF readVars, reader, vars, HitsInv, Resolved, Closing, Top
<1> QED BY <1>1, <1>2, <1>3, <1>4, <1>5, <1>7, <1>8, <1>9, <1>10 DEF ReadNext

----------------------------------------------------------------------------
(* The streams                                                             *)

SlotType ==
  [at : Rows, outcome : {"Include", "Exclude", "Absent"}]
    \cup [at : Segments \X {0}, outcome : {"Error"}]

\* The rows of the segments in S, in the order of the file.
RowsOf(S) == InOrder(S, [s \in Segments |-> [n \in 1..Counts[s] |-> <<s, n>>]])

\* No slot of a stream is an error up to the n-th.
Clean(stream, n) == \A m \in 1..n : stream[m].outcome # "Error"

\* A stream has the slots of the given rows, up to its first error.
Follows(i, stream, in) ==
  /\ \A n \in 1..Len(stream) :
       Clean(stream, n) => n <= Len(in) /\ stream[n] = Slot(i, in[n])
  /\ Clean(stream, Len(stream)) => Len(stream) = Len(in)

LEMMA FunctionSeq ==
  ASSUME NEW S, NEW n \in Nat, NEW f \in [1..n -> S]
  PROVE  f \in Seq(S) /\ Len(f) = n
OBVIOUS

LEMMA Joined ==
  ASSUME NEW S, NEW a \in Seq(S), NEW b \in Seq(S)
  PROVE  /\ Len(a \o b) = Len(a) + Len(b) /\ Len(a) \in Nat /\ Len(b) \in Nat
         /\ \A n \in 1..Len(a) : (a \o b)[n] = a[n]
         /\ \A n \in 1..Len(b) : (a \o b)[Len(a) + n] = b[n]
OBVIOUS

LEMMA InOrderEquation ==
  ASSUME NEW S, NEW parts, Len(parts) \in Nat
  PROVE  \E f : /\ InOrder(S, parts) = f[Len(parts)]
                /\ f[0] = <<>>
                /\ \A s \in 1..Len(parts) :
                     f[s] = IF s \in S THEN f[s - 1] \o parts[s] ELSE f[s - 1]
<1> DEFINE Eq(m, g) ==
      g = [s \in 0..m |-> IF s = 0 THEN <<>>
                          ELSE IF s \in S THEN g[s - 1] \o parts[s]
                          ELSE g[s - 1]]
           T == {m \in Nat : \E g : Eq(m, g)}
<1>1. 0 \in T
  <2>1. Eq(0, [s \in 0..0 |-> <<>>])
    OBVIOUS
  <2> QED BY <2>1
<1>2. ASSUME NEW m \in Nat, m \in T PROVE m + 1 \in T
  <2>1. PICK g : Eq(m, g)
    BY <1>2
  <2> DEFINE h == [s \in 0..(m + 1) |-> IF s = 0 THEN <<>>
                                        ELSE IF s \in S THEN g[s - 1] \o parts[s]
                                        ELSE g[s - 1]]
  <2>2. \A s \in 0..m : h[s] = g[s]
    <3> TAKE s \in 0..m
    <3>1. s \in 0..(m + 1)
      OBVIOUS
    <3> QED BY <2>1, <3>1
  <2>3. \A s \in 0..(m + 1) : s # 0 => h[s - 1] = g[s - 1]
    <3> TAKE s \in 0..(m + 1)
    <3> HAVE s # 0
    <3>1. s - 1 \in 0..m
      OBVIOUS
    <3> HIDE DEF h
    <3> QED BY <2>2, <3>1
  <2>4. \A s \in 0..(m + 1) :
          h[s] = IF s = 0 THEN <<>>
                 ELSE IF s \in S THEN h[s - 1] \o parts[s]
                 ELSE h[s - 1]
    <3> TAKE s \in 0..(m + 1)
    <3>1. h[s] = IF s = 0 THEN <<>>
                 ELSE IF s \in S THEN g[s - 1] \o parts[s]
                 ELSE g[s - 1]
      OBVIOUS
    <3> HIDE DEF h
    <3> QED BY <3>1, <2>3
  <2>5. h = [s \in 0..(m + 1) |-> h[s]]
    OBVIOUS
  <2>6. Eq(m + 1, h)
    <3> HIDE DEF h
    <3> QED BY <2>4, <2>5
  <2> HIDE DEF h, Eq
  <2>7. \E k : Eq(m + 1, k)
    BY <2>6
  <2> QED BY <2>7
<1>3. Nat \subseteq T
  <2> HIDE DEF T
  <2> QED BY <1>1, <1>2, Induction
<1> DEFINE f == CHOOSE g : Eq(Len(parts), g)
<1>4. Eq(Len(parts), f)
  BY <1>3
<1>5. InOrder(S, parts) = f[Len(parts)]
  BY DEF InOrder
<1> HIDE DEF f
<1>6. f[0] = <<>>
  BY <1>4
<1>7. \A s \in 1..Len(parts) :
        f[s] = IF s \in S THEN f[s - 1] \o parts[s] ELSE f[s - 1]
  BY <1>4
<1> QED BY <1>5, <1>6, <1>7

LEMMA SegmentsNumbered ==
  /\ Len(Counts) \in Nat
  /\ Segments = 1..Len(Counts)
  /\ \A s \in Segments : Counts[s] \in Nat \ {0}
BY CountsAssumption DEF Segments

LEMMA RowPlace ==
  /\ \A s \in Segments : \A n \in 1..Counts[s] :
       <<s, n>> \in Rows /\ <<s, n>>[1] = s /\ <<s, n>>[2] = n
  /\ \A r \in Rows : /\ r[1] \in Segments /\ r[2] \in 1..Counts[r[1]]
                     /\ r = <<r[1], r[2]>>
BY DEF Rows

\* Every row of a segment in S once, in the order of the file.
LEMMA RowsOfFacts ==
  ASSUME NEW S \in SUBSET Segments
  PROVE  /\ RowsOf(S) \in Seq(Rows)
         /\ \A m, n \in 1..Len(RowsOf(S)) : m < n => Before(RowsOf(S)[m], RowsOf(S)[n])
         /\ \A n \in 1..Len(RowsOf(S)) : RowsOf(S)[n][1] \in S
         /\ \A r \in Rows : r[1] \in S => \E n \in 1..Len(RowsOf(S)) : RowsOf(S)[n] = r
<1> DEFINE parts == [s \in Segments |-> [n \in 1..Counts[s] |-> <<s, n>>]]
           L == Len(Counts)
<1>1. Len(parts) = L /\ L \in Nat
  BY SegmentsNumbered
<1>2. \A s \in Segments : /\ parts[s] \in Seq(Rows) /\ Len(parts[s]) = Counts[s]
                          /\ \A n \in 1..Counts[s] : parts[s][n] = <<s, n>>
  <2> TAKE s \in Segments
  <2>1. parts[s] = [n \in 1..Counts[s] |-> <<s, n>>] /\ Counts[s] \in Nat
    BY SegmentsNumbered
  <2>2. \A n \in 1..Counts[s] : <<s, n>> \in Rows
    BY RowPlace
  <2> HIDE DEF parts
  <2>3. parts[s] \in [1..Counts[s] -> Rows]
    BY <2>1, <2>2
  <2>4. parts[s] \in Seq(Rows) /\ Len(parts[s]) = Counts[s]
    BY <2>1, <2>3, FunctionSeq, Zenon
  <2> QED BY <2>1, <2>4
<1>3. PICK g : /\ RowsOf(S) = g[L]
               /\ g[0] = <<>>
               /\ \A s \in 1..L : g[s] = IF s \in S THEN g[s - 1] \o parts[s] ELSE g[s - 1]
  <2>1. RowsOf(S) = InOrder(S, parts)
    BY DEF RowsOf
  <2> HIDE DEF parts, L
  <2>2. PICK g : /\ InOrder(S, parts) = g[Len(parts)]
                 /\ g[0] = <<>>
                 /\ \A s \in 1..Len(parts) :
                      g[s] = IF s \in S THEN g[s - 1] \o parts[s] ELSE g[s - 1]
    BY <1>1, InOrderEquation
  <2> QED BY <1>1, <2>1, <2>2
<1> HIDE DEF parts, L
<1> DEFINE Good(k) ==
      /\ g[k] \in Seq(Rows)
      /\ \A m, n \in 1..Len(g[k]) : m < n => Before(g[k][m], g[k][n])
      /\ \A n \in 1..Len(g[k]) : g[k][n][1] \in S /\ g[k][n][1] <= k
      /\ \A r \in Rows : r[1] \in S /\ r[1] <= k =>
           \E n \in 1..Len(g[k]) : g[k][n] = r
           T == {k \in 0..L : Good(k)}
<1>4. 0 \in T
  <2>1. \A r \in Rows : ~ (r[1] <= 0)
    BY RowPlace, SegmentsNumbered
  <2>2. g[0] = <<>> /\ Len(g[0]) = 0 /\ g[0] \in Seq(Rows) /\ 1..0 = {}
    BY <1>3
  <2>3. Good(0)
    BY <2>1, <2>2
  <2> QED BY <1>1, <2>3
<1>5. ASSUME NEW k \in 1..L, k - 1 \in T PROVE k \in T
  <2>1. k \in Segments /\ Good(k - 1) /\ k \in 0..L
    BY <1>1, <1>5, SegmentsNumbered DEF L
  <2>2. \A r \in Rows : r[1] \in Nat
    BY RowPlace, SegmentsNumbered
  <2>3. CASE k \notin S
    <3>1. g[k] = g[k - 1]
      BY <1>3, <2>3
    <3>2. \A r \in Rows : r[1] \in S /\ r[1] <= k => r[1] <= k - 1
      BY <1>1, <2>2, <2>3
    <3>3. \A r \in Rows : r[1] <= k - 1 => r[1] <= k
      BY <1>1, <2>2
    <3>4. \A n \in 1..Len(g[k]) : g[k][n] \in Rows
      BY <2>1, <3>1
    <3>5. Good(k)
      BY <2>1, <3>1, <3>2, <3>3, <3>4
    <3> QED BY <2>1, <3>5
  <2>4. CASE k \in S
    <3> DEFINE a == g[k - 1]
               p == parts[k]
    <3>1. g[k] = a \o p
      BY <1>3, <2>4
    <3>2. /\ a \in Seq(Rows) /\ p \in Seq(Rows) /\ Len(p) = Counts[k]
          /\ \A n \in 1..Counts[k] : p[n] = <<k, n>>
      BY <1>2, <2>1
    <3>3. /\ \A m, n \in 1..Len(a) : m < n => Before(a[m], a[n])
          /\ \A n \in 1..Len(a) : a[n][1] \in S /\ a[n][1] <= k - 1 /\ a[n] \in Rows
          /\ \A r \in Rows : r[1] \in S /\ r[1] <= k - 1 =>
               \E n \in 1..Len(a) : a[n] = r
      BY <2>1
    <3> HIDE DEF a, p
    <3>4. /\ g[k] \in Seq(Rows) /\ Len(g[k]) = Len(a) + Counts[k]
          /\ Len(a) \in Nat /\ Counts[k] \in Nat
          /\ \A n \in 1..Len(a) : g[k][n] = a[n]
          /\ \A n \in 1..Counts[k] : g[k][Len(a) + n] = <<k, n>>
      <4>a. a \in Seq(Rows) /\ p \in Seq(Rows)
        BY <3>2
      <4>1. /\ Len(a \o p) = Len(a) + Len(p) /\ Len(a) \in Nat /\ Len(p) \in Nat
            /\ \A n \in 1..Len(a) : (a \o p)[n] = a[n]
            /\ \A n \in 1..Len(p) : (a \o p)[Len(a) + n] = p[n]
        BY ONLY <4>a
      <4>2. a \o p \in Seq(Rows)
        BY <4>a
      <4>3. Len(p) = Counts[k] /\ \A n \in 1..Counts[k] : p[n] = <<k, n>>
        BY <3>2
      <4> QED BY <3>1, <4>1, <4>2, <4>3
    <3>5. ASSUME NEW n \in 1..Len(g[k])
          PROVE  \/ n \in 1..Len(a) /\ g[k][n] = a[n]
                 \/ n - Len(a) \in 1..Counts[k] /\ g[k][n] = <<k, n - Len(a)>>
      <4>1. n \in 1..Len(a) \/ n - Len(a) \in 1..Counts[k]
        BY <3>4
      <4>2. n = Len(a) + (n - Len(a))
        BY <3>4
      <4> QED BY <3>4, <4>1, <4>2
    <3>6. ASSUME NEW m \in 1..Len(g[k]), NEW n \in 1..Len(g[k]), m < n
          PROVE  Before(g[k][m], g[k][n])
      <4>1. CASE n \in 1..Len(a)
        <5>1. m \in 1..Len(a)
          BY <3>4, <3>6, <4>1
        <5> QED BY <3>3, <3>4, <3>6, <4>1, <5>1
      <4>2. CASE n \notin 1..Len(a)
        <5>1. g[k][n] = <<k, n - Len(a)>>
          BY <3>5, <4>2
        <5>2. CASE m \in 1..Len(a)
          <6>1. g[k][m][1] <= k - 1 /\ g[k][m][1] \in Nat
            BY <2>2, <3>3, <3>4, <5>2
          <6> QED BY <1>1, <5>1, <6>1 DEF Before
        <5>3. CASE m \notin 1..Len(a)
          <6>1. g[k][m] = <<k, m - Len(a)>>
            BY <3>5, <5>3
          <6> QED BY <3>4, <3>6, <5>1, <6>1 DEF Before
        <5> QED BY <5>2, <5>3
      <4> QED BY <4>1, <4>2
    <3>7. ASSUME NEW n \in 1..Len(g[k])
          PROVE  g[k][n][1] \in S /\ g[k][n][1] <= k
      <4>1. CASE n \in 1..Len(a)
        BY <1>1, <2>2, <3>3, <3>4, <4>1
      <4>2. CASE n \notin 1..Len(a)
        BY <2>4, <3>5, <4>2, <1>1
      <4> QED BY <4>1, <4>2
    <3>8. ASSUME NEW r \in Rows, r[1] \in S, r[1] <= k
          PROVE  \E n \in 1..Len(g[k]) : g[k][n] = r
      <4>1. CASE r[1] <= k - 1
        <5>1. PICK n \in 1..Len(a) : a[n] = r
          BY <3>3, <3>8, <4>1
        <5>2. n \in 1..Len(g[k]) /\ g[k][n] = r
          BY <3>4, <5>1
        <5> QED BY <5>2
      <4>2. CASE ~ (r[1] <= k - 1)
        <5>1. r[1] = k
          BY <1>1, <2>2, <3>8, <4>2
        <5>2. r = <<k, r[2]>> /\ r[2] \in 1..Counts[k]
          BY <5>1, RowPlace
        <5>3. /\ Len(a) + r[2] \in 1..Len(g[k])
              /\ g[k][Len(a) + r[2]] = <<k, r[2]>>
          BY <3>4, <5>2
        <5> QED BY <5>2, <5>3
      <4> QED BY <4>1, <4>2
    <3>9. Good(k)
      BY <3>4, <3>6, <3>7, <3>8
    <3> QED BY <2>1, <3>9
  <2> QED BY <2>3, <2>4
<1>6. L \in T
  <2> HIDE DEF T
  <2> QED BY <1>1, <1>4, <1>5, BoundedInduction
<1>7. \A r \in Rows : r[1] <= L
  BY RowPlace, SegmentsNumbered DEF L
<1> QED BY <1>3, <1>6, <1>7

\* An item's slot is never an error.
LEMMA SlotTyped ==
  ASSUME NEW i \in FieldNumbers, NEW r \in Rows
  PROVE  /\ Slot(i, r) \in SlotType
         /\ Slot(i, r).outcome \in {"Include", "Exclude", "Absent"}
         /\ Slot(i, r).at = r
BY DEF Slot, SlotType

\* What a stream yields from one buffer.
LEMMA SlotsFacts ==
  ASSUME NEW i \in FieldNumbers, NEW s \in Segments
  PROVE  /\ Slots(i, s) \in Seq(SlotType)
         /\ \/ /\ Len(Slots(i, s)) = 1
               /\ Slots(i, s)[1].outcome = "Error"
            \/ /\ Len(Slots(i, s)) = Counts[s]
               /\ \A n \in 1..Counts[s] : Slots(i, s)[n] = Slot(i, <<s, n>>)
<1>1. CASE Unreadable(Fields[i], s)
  <2> DEFINE e == [at |-> <<s, 0>>, outcome |-> "Error"]
  <2>1. Slots(i, s) = <<e>>
    BY <1>1 DEF Slots
  <2>2. e \in SlotType /\ e.outcome = "Error"
    BY DEF SlotType
  <2> HIDE DEF e
  <2> QED BY <2>1, <2>2
<1>2. CASE ~ Unreadable(Fields[i], s)
  <2>1. Slots(i, s) = [n \in 1..Counts[s] |-> Slot(i, <<s, n>>)]
    BY <1>2 DEF Slots
  <2>2. \A n \in 1..Counts[s] : Slot(i, <<s, n>>) \in SlotType
    BY RowPlace, SlotTyped
  <2>3. Counts[s] \in Nat
    BY SegmentsNumbered
  <2>4. Slots(i, s) \in [1..Counts[s] -> SlotType]
    BY <2>1, <2>2
  <2>5. \A n \in 1..Counts[s] : Slots(i, s)[n] = Slot(i, <<s, n>>)
    BY <2>1
  <2>6. Slots(i, s) \in Seq(SlotType) /\ Len(Slots(i, s)) = Counts[s]
    BY <2>3, <2>4, FunctionSeq
  <2> QED BY <2>5, <2>6
<1> QED BY <1>1, <1>2

\* A stream follows the rows it reads through every buffer: one that cannot
\* be read breaks it for good.
LEMMA FollowsStep ==
  ASSUME NEW i \in FieldNumbers, NEW s \in Segments,
         NEW a \in Seq(SlotType), NEW b \in Seq(Rows), NEW p \in Seq(Rows),
         Follows(i, a, b),
         Len(p) = Counts[s], \A n \in 1..Counts[s] : p[n] = <<s, n>>
  PROVE  Follows(i, a \o Slots(i, s), b \o p)
<1> DEFINE q == Slots(i, s)
           c == a \o q
           d == b \o p
<1>1. /\ q \in Seq(SlotType)
      /\ \/ Len(q) = 1 /\ q[1].outcome = "Error"
         \/ /\ Len(q) = Counts[s]
            /\ \A n \in 1..Counts[s] : q[n] = Slot(i, <<s, n>>)
  BY SlotsFacts
<1> HIDE DEF q
<1>2. /\ Len(c) = Len(a) + Len(q) /\ Len(a) \in Nat /\ Len(q) \in Nat
      /\ \A n \in 1..Len(a) : c[n] = a[n]
      /\ \A n \in 1..Len(q) : c[Len(a) + n] = q[n]
  BY <1>1
<1>3. /\ Len(d) = Len(b) + Len(p) /\ Len(b) \in Nat /\ Len(p) \in Nat
      /\ \A n \in 1..Len(b) : d[n] = b[n]
      /\ \A n \in 1..Len(p) : d[Len(b) + n] = p[n]
  BY Joined
<1> HIDE DEF c, d
<1>4. ASSUME NEW n \in 1..Len(a), Clean(c, n) PROVE n <= Len(d) /\ c[n] = Slot(i, d[n])
  <2>1. Clean(a, n)
    BY <1>2, <1>4 DEF Clean
  <2>2. n <= Len(b) /\ a[n] = Slot(i, b[n])
    BY <2>1 DEF Follows
  <2>3. n \in 1..Len(b)
    BY <1>2, <1>3, <2>2
  <2> QED BY <1>2, <1>3, <2>2, <2>3
<1>5. ASSUME NEW n \in Len(a)..Len(c), Clean(c, n) PROVE Len(a) = Len(b)
  <2>1. Clean(a, Len(a))
    BY <1>2, <1>5 DEF Clean
  <2> QED BY <2>1 DEF Follows
<1>6. ASSUME NEW n \in Len(a) + 1..Len(c), Clean(c, n)
      PROVE  Len(q) = Len(p) /\ n <= Len(d) /\ c[n] = Slot(i, d[n])
  <2>1. n \in Len(a)..Len(c) /\ Len(a) + 1 \in 1..n /\ 1 \in 1..Len(q)
        /\ n - Len(a) \in 1..Len(q) /\ n = Len(a) + (n - Len(a))
    BY <1>2
  <2>2. Len(a) = Len(b)
    BY <1>5, <1>6, <2>1
  <2>3. q[1].outcome # "Error"
    BY <1>2, <1>6, <2>1 DEF Clean
  <2>4. Len(q) = Counts[s] /\ \A k \in 1..Counts[s] : q[k] = Slot(i, <<s, k>>)
    BY <1>1, <2>3
  <2>5. c[n] = Slot(i, <<s, n - Len(a)>>)
    BY <1>2, <2>1, <2>4
  <2>6. d[n] = <<s, n - Len(a)>>
    <3> DEFINE k == n - Len(a)
    <3>1. k \in 1..Len(p) /\ k \in 1..Counts[s] /\ n = Len(b) + k
      BY <2>1, <2>2, <2>4
    <3> HIDE DEF k
    <3>2. d[n] = p[k] /\ p[k] = <<s, k>>
      BY <1>3, <3>1
    <3> QED BY <3>2 DEF k
  <2>7. n <= Len(d)
    <3>1. n - Len(a) <= Len(q) /\ Len(d) = Len(a) + Len(q)
      BY <1>2, <1>3, <2>1, <2>2, <2>4
    <3> HIDE DEF q
    <3> QED BY <1>2, <1>3, <3>1
  <2> QED BY <2>4, <2>5, <2>6, <2>7
<1>7. ASSUME Clean(c, Len(c)) PROVE Len(c) = Len(d)
  <2>1. Len(a) = Len(b)
    BY <1>2, <1>5, <1>7
  <2>2. CASE Len(q) = 0
    BY <1>1, <1>2, <1>3, <2>1, <2>2
  <2>3. CASE Len(q) # 0
    <3>1. Len(c) \in Len(a) + 1..Len(c)
      BY <1>2, <2>3
    <3> QED BY <1>2, <1>3, <1>6, <1>7, <2>1, <3>1
  <2> QED BY <2>2, <2>3
<1>8. ASSUME NEW n \in 1..Len(c), Clean(c, n) PROVE n <= Len(d) /\ c[n] = Slot(i, d[n])
  <2>1. n \in 1..Len(a) \/ n \in Len(a) + 1..Len(c)
    BY <1>2
  <2> QED BY <1>4, <1>6, <1>8, <2>1
<1>9. Follows(i, c, d)
  BY <1>7, <1>8 DEF Follows
<1> QED BY <1>9 DEF c, d, q

LEMMA StreamFollows ==
  ASSUME NEW i \in FieldNumbers, mask \subseteq Segments
  PROVE  Stream(i) \in Seq(SlotType) /\ Follows(i, Stream(i), RowsOf(mask))
<1> DEFINE L == Len(Counts)
           slots == [s \in Segments |-> Slots(i, s)]
           parts == [s \in Segments |-> [n \in 1..Counts[s] |-> <<s, n>>]]
<1>1. L \in Nat /\ Len(slots) = L /\ Len(parts) = L /\ \A s \in 1..L : s \in Segments
  BY SegmentsNumbered
<1>2. \A s \in Segments :
        /\ slots[s] = Slots(i, s)
        /\ parts[s] \in Seq(Rows) /\ Len(parts[s]) = Counts[s]
        /\ \A n \in 1..Counts[s] : parts[s][n] = <<s, n>>
  <2> TAKE s \in Segments
  <2>1. parts[s] = [n \in 1..Counts[s] |-> <<s, n>>] /\ Counts[s] \in Nat
        /\ slots[s] = Slots(i, s)
    BY SegmentsNumbered
  <2>2. \A n \in 1..Counts[s] : <<s, n>> \in Rows
    BY RowPlace
  <2> HIDE DEF parts, slots
  <2>3. parts[s] \in [1..Counts[s] -> Rows]
    BY <2>1, <2>2
  <2>4. parts[s] \in Seq(Rows) /\ Len(parts[s]) = Counts[s]
    BY <2>1, <2>3, FunctionSeq, Zenon
  <2> QED BY <2>1, <2>4
<1>3. Stream(i) = InOrder(mask, slots) /\ RowsOf(mask) = InOrder(mask, parts)
  BY DEF Stream, Retained, RowsOf
<1> HIDE DEF slots, parts, L
<1>4. PICK f : /\ InOrder(mask, slots) = f[Len(slots)]
               /\ f[0] = <<>>
               /\ \A s \in 1..Len(slots) :
                    f[s] = IF s \in mask THEN f[s - 1] \o slots[s] ELSE f[s - 1]
  BY <1>1, InOrderEquation
<1>5. PICK g : /\ InOrder(mask, parts) = g[Len(parts)]
               /\ g[0] = <<>>
               /\ \A s \in 1..Len(parts) :
                    g[s] = IF s \in mask THEN g[s - 1] \o parts[s] ELSE g[s - 1]
  BY <1>1, InOrderEquation
<1> DEFINE Good(k) == /\ f[k] \in Seq(SlotType) /\ g[k] \in Seq(Rows)
                      /\ Follows(i, f[k], g[k])
           T == {k \in 0..L : Good(k)}
<1>6. 0 \in T
  <2>1. f[0] = <<>> /\ g[0] = <<>> /\ <<>> \in Seq(SlotType) /\ <<>> \in Seq(Rows)
    BY <1>4, <1>5
  <2>2. Follows(i, <<>>, <<>>)
    BY DEF Follows
  <2>3. Good(0)
    BY <2>1, <2>2
  <2> QED BY <1>1, <2>3
<1>7. ASSUME NEW k \in 1..L, k - 1 \in T PROVE k \in T
  <2>1. Good(k - 1) /\ k \in 0..L /\ k \in Segments
    BY <1>1, <1>7
  <2>2. CASE k \notin mask
    BY <1>1, <1>4, <1>5, <2>1, <2>2
  <2>3. CASE k \in mask
    <3>1. f[k] = f[k - 1] \o Slots(i, k) /\ g[k] = g[k - 1] \o parts[k]
      BY <1>1, <1>2, <1>4, <1>5, <2>1, <2>3
    <3>2. Follows(i, f[k - 1] \o Slots(i, k), g[k - 1] \o parts[k])
      BY <1>2, <2>1, FollowsStep
    <3>3. Slots(i, k) \in Seq(SlotType) /\ parts[k] \in Seq(Rows)
      BY <1>2, <2>1, SlotsFacts
    <3>4. f[k] \in Seq(SlotType) /\ g[k] \in Seq(Rows)
      BY <2>1, <3>1, <3>3
    <3> QED BY <2>1, <3>1, <3>2, <3>4
  <2> QED BY <2>2, <2>3
<1>8. L \in T
  <2> HIDE DEF T
  <2> QED BY <1>1, <1>6, <1>7, BoundedInduction
<1> QED BY <1>1, <1>3, <1>4, <1>5, <1>8

----------------------------------------------------------------------------
(* The rows that are yielded                                               *)

\* Row, for a request q.
Yield(q, slots) ==
  LET keeps == [i \in FieldNumbers |-> slots[i].outcome = "Include"]
      without == {i \in FieldNumbers : slots[i].outcome \in {"Error", "Absent"}}
      first == CHOOSE i \in without : \A j \in without : i <= j
  IN  IF without # {} THEN [outcome |-> slots[first].outcome]
      ELSE [outcome |-> IF Judged(q.joins, keeps)[LastField] THEN "Include" ELSE "Exclude",
            from |-> [i \in FieldNumbers |-> slots[i].at]]

StreamsInv ==
  phase \in {"stream", "ended"} =>
    \A i \in FieldNumbers :
      streams[i] \in Seq(SlotType) /\ Follows(i, streams[i], RowsOf(mask))

YieldInv ==
  /\ rows \in Seq(Outcomes)
  /\ phase \notin {"stream", "ended"} => rows = <<>>
  /\ \A n \in 1..Len(rows) :
       /\ \A i \in FieldNumbers : n <= Len(streams[i])
       /\ rows[n] = Yield(request, [i \in FieldNumbers |-> streams[i][n]])
  /\ phase = "ended" => \E i \in FieldNumbers : Len(rows) = Len(streams[i])

LEMMA RowYield == ASSUME NEW slots PROVE Row(slots) = Yield(request, slots)
BY VerdictJudged DEF Row, Yield

\* The first field without an item decides; with an item in each, the verdict.
YieldsBy(q, slots) ==
  /\ Yield(q, slots) \in Outcomes
  /\ Yield(q, slots).outcome \in {"Include", "Exclude"} =>
       /\ \A i \in FieldNumbers : slots[i].outcome \in {"Include", "Exclude"}
       /\ Yield(q, slots).from = [i \in FieldNumbers |-> slots[i].at]
  /\ (\A i \in FieldNumbers : slots[i].outcome \in {"Include", "Exclude"}) =>
       (Yield(q, slots).outcome = "Include" <=>
          Judged(q.joins, [i \in FieldNumbers |-> slots[i].outcome = "Include"])
            [LastField])
  /\ \A j \in FieldNumbers :
       slots[j].outcome = "Error" =>
         \/ Yield(q, slots).outcome = "Error"
         \/ \E i \in FieldNumbers : i < j /\ slots[i].outcome = "Absent"

LEMMA YieldFacts ==
  ASSUME NEW q, NEW slots \in [FieldNumbers -> SlotType] PROVE YieldsBy(q, slots)
<1> DEFINE without == {i \in FieldNumbers : slots[i].outcome \in {"Error", "Absent"}}
           first == CHOOSE i \in without : \A j \in without : i <= j
           keeps == [i \in FieldNumbers |-> slots[i].outcome = "Include"]
<1>1. \A i \in FieldNumbers :
        \/ slots[i].outcome \in {"Include", "Exclude"} /\ slots[i].at \in Rows
        \/ slots[i].outcome \in {"Error", "Absent"}
  <2> TAKE i \in FieldNumbers
  <2>1. slots[i] \in SlotType
    OBVIOUS
  <2> QED BY <2>1 DEF SlotType
<1>2. CASE without # {}
  <2>1. without \in SUBSET Nat
    BY FieldsNumbered
  <2>2. first \in without /\ \A j \in without : first <= j
    <3> HIDE DEF without
    <3>1. \E i \in without : \A j \in without : i <= j
      BY <1>2, <2>1, Smallest
    <3> QED BY <3>1
  <2>3. Yield(q, slots) = [outcome |-> slots[first].outcome]
    BY <1>2 DEF Yield
  <2>4. first \in FieldNumbers /\ slots[first].outcome \in {"Error", "Absent"}
    BY <2>2
  <2>5. \A j \in FieldNumbers : slots[j].outcome = "Error" => first <= j
    BY <2>2
  <2> HIDE DEF without, first
  <2>6. Yield(q, slots) \in Outcomes /\ Yield(q, slots).outcome = slots[first].outcome
    BY <2>3, <2>4 DEF Outcomes
  <2>7. ASSUME NEW j \in FieldNumbers, slots[j].outcome = "Error",
               slots[first].outcome # "Error"
        PROVE  first < j /\ slots[first].outcome = "Absent"
    BY <2>4, <2>5, <2>7, FieldsNumbered
  <2> QED BY <2>4, <2>6, <2>7 DEF YieldsBy
<1>3. CASE without = {}
  <2>1. Yield(q, slots) =
          [outcome |-> IF Judged(q.joins, keeps)[LastField] THEN "Include" ELSE "Exclude",
           from |-> [i \in FieldNumbers |-> slots[i].at]]
    BY <1>3 DEF Yield
  <2>2. \A i \in FieldNumbers :
          slots[i].outcome \in {"Include", "Exclude"} /\ slots[i].at \in Rows
    BY <1>1, <1>3
  <2>3. \A i \in FieldNumbers : slots[i].outcome # "Error"
    BY <2>2
  <2> HIDE DEF without, first, keeps
  <2>4. /\ Yield(q, slots).outcome =
             (IF Judged(q.joins, keeps)[LastField] THEN "Include" ELSE "Exclude")
        /\ Yield(q, slots).from = [i \in FieldNumbers |-> slots[i].at]
    BY <2>1
  <2>5. Yield(q, slots) \in Outcomes
    BY <2>1, <2>2 DEF Outcomes
  <2>6. Yield(q, slots).outcome = "Include" <=> Judged(q.joins, keeps)[LastField]
    BY <2>4
  <2> QED BY <2>2, <2>3, <2>4, <2>5, <2>6 DEF keeps, YieldsBy
<1> QED BY <1>2, <1>3

----------------------------------------------------------------------------
(* Building and pulling                                                    *)

LEMMA SlotKept ==
  ASSUME request' = request, table' = table, NEW i, NEW r
  PROVE  Slot(i, r)' = Slot(i, r)
BY DEF Slot, ItemAt

LEMMA StreamsStep ==
  ASSUME TypeOK, StreamsInv, [ReadNext]_readVars PROVE StreamsInv'
<1>1. CASE Build
  <2>1. /\ streams' = [i \in FieldNumbers |-> Stream(i)]
        /\ mask' = mask /\ request' = request /\ table' = table
    BY <1>1 DEF Build, vars
  <2>2. \A i \in FieldNumbers :
          Stream(i) \in Seq(SlotType) /\ Follows(i, Stream(i), RowsOf(mask))
    BY StreamFollows DEF TypeOK
  <2>3. \A i \in FieldNumbers :
          streams'[i] \in Seq(SlotType) /\ Follows(i, streams'[i], RowsOf(mask'))
    BY <2>1, <2>2
  <2>4. \A i \in FieldNumbers : Follows(i, streams[i], RowsOf(mask))'
    BY <2>1, <2>3, SlotKept DEF Follows
  <2> QED BY <2>3, <2>4 DEF StreamsInv
<1>2. CASE Pull \/ End \/ UNCHANGED readVars
  <2>1. /\ streams' = streams /\ mask' = mask /\ request' = request /\ table' = table
        /\ phase' \in {"stream", "ended"} => phase \in {"stream", "ended"}
    BY <1>2 DEF Pull, End, readVars, reader, vars
  <2>2. \A i : Follows(i, streams[i], RowsOf(mask)) =>
                 Follows(i, streams[i], RowsOf(mask))'
    BY <2>1, SlotKept DEF Follows
  <2> QED BY <2>1, <2>2 DEF StreamsInv
<1>3. CASE Open \/ Descend \/ Narrow \/ Fail \/ Close \/ Advance
  <2>1. phase' \notin {"stream", "ended"}
    BY <1>3 DEF Open, Descend, Narrow, Fail, Close, Advance, reader
  <2> QED BY <2>1 DEF StreamsInv
<1> QED BY <1>1, <1>2, <1>3 DEF ReadNext

LEMMA YieldStep ==
  ASSUME StreamsInv, YieldInv, [ReadNext]_readVars PROVE YieldInv'
<1>1. CASE Pull
  <2> DEFINE next == Yield(request, [i \in FieldNumbers |-> streams[i][Len(rows) + 1]])
             N == Len(rows)
  <2>1. /\ phase = "stream" /\ phase' = "stream"
        /\ request' = request /\ streams' = streams
        /\ \A i \in FieldNumbers : Len(rows) < Len(streams[i])
    BY <1>1 DEF Pull
  <2>2. rows' = Append(rows, next)
    BY <1>1, RowYield DEF Pull
  <2>3. rows \in Seq(Outcomes) /\ N \in Nat
    BY DEF YieldInv
  <2>4. \A i \in FieldNumbers :
          /\ streams[i] \in Seq(SlotType) /\ Len(streams[i]) \in Nat
          /\ N + 1 <= Len(streams[i]) /\ N + 1 \in 1..Len(streams[i])
    BY <2>1, <2>3 DEF StreamsInv
  <2>5. [i \in FieldNumbers |-> streams[i][N + 1]] \in [FieldNumbers -> SlotType]
    BY <2>4
  <2>6. next \in Outcomes
    BY <2>5, YieldFacts DEF YieldsBy
  <2> HIDE DEF next
  <2>7. /\ rows' \in Seq(Outcomes) /\ Len(rows') = N + 1
        /\ \A n \in 1..N : rows'[n] = rows[n]
        /\ rows'[N + 1] = next
    BY <2>2, <2>3, <2>6
  <2>8. ASSUME NEW n \in 1..Len(rows')
        PROVE  /\ \A i \in FieldNumbers : n <= Len(streams[i])
               /\ rows'[n] = Yield(request, [i \in FieldNumbers |-> streams[i][n]])
    <3>1. CASE n \in 1..N
      BY <2>7, <3>1 DEF YieldInv
    <3>2. CASE n = N + 1
      BY <2>4, <2>7, <3>2 DEF next
    <3> QED BY <2>3, <2>7, <3>1, <3>2
  <2> QED BY <2>1, <2>7, <2>8 DEF YieldInv
<1>2. CASE End
  BY <1>2 DEF End, YieldInv
<1>3. CASE Build
  <2>1. rows = <<>> /\ rows' = <<>> /\ phase' = "stream"
    BY <1>3 DEF Build, YieldInv
  <2> QED BY <2>1 DEF YieldInv
<1>4. CASE Open \/ Descend \/ Narrow \/ Fail \/ Close \/ Advance
  <2>1. rows = <<>> /\ rows' = <<>> /\ phase' \notin {"stream", "ended"}
    BY <1>4 DEF Open, Descend, Narrow, Fail, Close, Advance, reader, YieldInv
  <2> QED BY <2>1 DEF YieldInv
<1>5. CASE UNCHANGED readVars
  BY <1>5 DEF readVars, reader, YieldInv
<1> QED BY <1>1, <1>2, <1>3, <1>4, <1>5 DEF ReadNext

----------------------------------------------------------------------------
(* The rows of a read                                                      *)

\* The streams have a slot for every row.
LEMMA Pulled ==
  ASSUME StreamsInv, YieldInv, NEW n \in 1..Len(rows)
  PROVE  /\ phase \in {"stream", "ended"}
         /\ \A i \in FieldNumbers :
              streams[i] \in Seq(SlotType) /\ n \in 1..Len(streams[i])
<1>1. phase \in {"stream", "ended"} /\ Len(rows) \in Nat
  BY DEF YieldInv
<1>2. \A i \in FieldNumbers : n <= Len(streams[i])
  BY DEF YieldInv
<1>3. \A i \in FieldNumbers : streams[i] \in Seq(SlotType) /\ Len(streams[i]) \in Nat
  BY <1>1 DEF StreamsInv
<1> QED BY <1>1, <1>2, <1>3

\* Up to a row before which the caller was not warned no stream has an error.
LEMMA UnwarnedClean ==
  ASSUME StreamsInv, YieldInv, NEW n \in 0..Len(rows), ~ Warned(n),
         NEW i \in FieldNumbers
  PROVE  Clean(streams[i], n)
<1> SUFFICES ASSUME NEW m \in 1..n, streams[i][m].outcome = "Error" PROVE FALSE
  BY DEF Clean
<1> DEFINE slots == [j \in FieldNumbers |-> streams[j][m]]
<1>1. Len(rows) \in Nat /\ m \in 1..Len(rows)
  BY DEF YieldInv
<1>2. phase \in {"stream", "ended"}
  BY <1>1 DEF YieldInv
<1>3. \A j \in FieldNumbers : streams[j] \in Seq(SlotType) /\ m \in 1..Len(streams[j])
  BY <1>1, <1>2, Pulled
<1>4. slots \in [FieldNumbers -> SlotType] /\ rows[m] = Yield(request, slots)
  BY <1>1, <1>3 DEF YieldInv
<1>5. \A j \in FieldNumbers : slots[j] = streams[j][m]
  OBVIOUS
<1> HIDE DEF slots
<1>6. YieldsBy(request, slots)
  BY <1>4, YieldFacts
<1>7. \/ Yield(request, slots).outcome = "Error"
      \/ \E j \in FieldNumbers : j < i /\ slots[j].outcome = "Absent"
  BY <1>5, <1>6 DEF YieldsBy
<1> QED BY <1>4, <1>5, <1>7 DEF Warned, Concealed

LEMMA SlotAt == ASSUME NEW i, NEW r PROVE Slot(i, r).at = r
BY DEF Slot

LEMMA WholeRows == StreamsInv /\ YieldInv => RowsWhole
<1> SUFFICES ASSUME StreamsInv, YieldInv, NEW n \in DOMAIN rows,
                    rows[n].outcome \in {"Include", "Exclude"}, ~ Warned(n),
                    NEW i \in FieldNumbers, NEW j \in FieldNumbers
             PROVE  rows[n].from[i] = rows[n].from[j]
  BY DEF RowsWhole
<1> DEFINE slots == [k \in FieldNumbers |-> streams[k][n]]
<1>1. n \in 1..Len(rows) /\ n \in 0..Len(rows)
  BY DEF YieldInv
<1>2. phase \in {"stream", "ended"}
  BY <1>1 DEF YieldInv
<1>3. \A k \in FieldNumbers : streams[k] \in Seq(SlotType) /\ n \in 1..Len(streams[k])
  BY <1>1, <1>2, Pulled
<1>4. \A k \in FieldNumbers : slots[k] = Slot(k, RowsOf(mask)[n])
  BY <1>1, <1>2, <1>3, UnwarnedClean DEF StreamsInv, Follows
<1>5. slots \in [FieldNumbers -> SlotType] /\ rows[n] = Yield(request, slots)
  BY <1>1, <1>3 DEF YieldInv
<1> HIDE DEF slots
<1>6. YieldsBy(request, slots)
  BY <1>5, YieldFacts
<1>7. \A k \in FieldNumbers : rows[n].from[k] = slots[k].at
  BY <1>5, <1>6 DEF YieldsBy
<1>8. \A k \in FieldNumbers : slots[k].at = RowsOf(mask)[n]
  BY <1>4, SlotAt
<1> QED BY <1>7, <1>8

\* A slot with an item tells whether the item passes the filters of the field.
LEMMA SlotMeets ==
  ASSUME PositionInv, NEW i \in FieldNumbers, NEW r \in Rows,
         Slot(i, r).outcome # "Absent"
  PROVE  Slot(i, r).outcome = "Include" <=>
           Meets(request, table, i, Len(request.filters[i]), r)
<1> DEFINE filters == request.filters[i]
<1>1. filters \in Seq(Filters[Fields[i]])
  BY RequestsAssumption DEF PositionInv
<1>2. Len(filters) \in Nat /\ DOMAIN filters = 1..Len(filters)
  BY <1>1
<1>3. (\A f \in ToSet(filters) : Passes(f, ItemAt(Fields[i], r)))
        <=> \A m \in 1..Len(filters) : Passes(filters[m], ItemAt(Fields[i], r))
  BY <1>2 DEF ToSet
<1>4. Slot(i, r).outcome = "Include"
        <=> \A f \in ToSet(filters) : Passes(f, ItemAt(Fields[i], r))
  BY DEF Slot
<1> QED BY <1>3, <1>4 DEF Meets, ItemAt

\* A row whose fields are all its own is included when it passes and no
\* structural filter leaves it without a field.
LEMMA IncludedRow ==
  ASSUME PositionInv, NEW r \in Rows,
         NEW slots, slots = [i \in FieldNumbers |-> Slot(i, r)]
  PROVE  /\ Yield(request, slots).outcome = "Include" <=>
              Whole(r) /\ r \in Passing(request, table, LastField)
         /\ Yield(request, slots).outcome = "Include" =>
              Yield(request, slots).from[1] = r
<1>1. \A i \in FieldNumbers :
        /\ slots[i] = Slot(i, r) /\ slots[i] \in SlotType /\ slots[i].at = r
        /\ slots[i].outcome \in {"Include", "Exclude", "Absent"}
  BY SlotTyped
<1>2. slots \in [FieldNumbers -> SlotType] /\ YieldsBy(request, slots)
  BY <1>1, YieldFacts
<1>3. 1 \in FieldNumbers
  BY FieldsNumbered
<1>4. CASE Whole(r)
  <2>1. \A i \in FieldNumbers : slots[i].outcome \in {"Include", "Exclude"}
    BY <1>1, <1>4 DEF Whole
  <2> DEFINE keeps == [i \in FieldNumbers |-> slots[i].outcome = "Include"]
  <2>2. Yield(request, slots).outcome = "Include" <=>
          Judged(request.joins, keeps)[LastField]
    BY <1>2, <2>1 DEF YieldsBy
  <2>3. \A i \in FieldNumbers :
          (slots[i].outcome = "Include") =
            Meets(request, table, i, Len(request.filters[i]), r)
    <3> TAKE i \in FieldNumbers
    <3>1. slots[i].outcome = "Include" <=>
            Meets(request, table, i, Len(request.filters[i]), r)
      BY <1>1, <1>4, SlotMeets DEF Whole
    <3> QED BY <3>1 DEF Meets
  <2>4. keeps = FieldKeeps(request, table, r)
    BY <2>3 DEF FieldKeeps
  <2> HIDE DEF keeps
  <2>5. r \in Passing(request, table, LastField) <=>
          Judged(request.joins, keeps)[LastField]
    BY <2>4 DEF Passing
  <2>6. Yield(request, slots).outcome = "Include" => Yield(request, slots).from[1] = r
    BY <1>1, <1>2, <1>3 DEF YieldsBy
  <2> QED BY <1>4, <2>2, <2>5, <2>6
<1>5. CASE ~ Whole(r)
  <2>1. PICK i \in FieldNumbers : slots[i].outcome = "Absent"
    BY <1>1, <1>5 DEF Whole
  <2>2. Yield(request, slots).outcome \notin {"Include", "Exclude"}
    BY <1>2, <2>1 DEF YieldsBy
  <2> QED BY <1>5, <2>2
<1> QED BY <1>4, <1>5

LEMMA ExactRows ==
  ASSUME TypeOK, PositionInv, HitsInv, StreamsInv, YieldInv, NothingPruned
  PROVE  ReadExact
<1> SUFFICES ASSUME phase = "ended", ~ Warned(Len(rows)) PROVE ReadExact
  BY DEF ReadExact
<1> DEFINE in == RowsOf(mask)
           L == Len(rows)
           included == {n \in DOMAIN rows : rows[n].outcome = "Include"}
<1>1. L \in Nat /\ DOMAIN rows = 1..L /\ L \in 0..L
  BY DEF YieldInv
<1>2. \A i \in FieldNumbers :
        streams[i] \in Seq(SlotType) /\ Follows(i, streams[i], in)
        /\ Clean(streams[i], L)
  BY <1>1, UnwarnedClean DEF StreamsInv
<1>3. Len(in) = L
  <2>1. PICK i \in FieldNumbers : L = Len(streams[i])
    BY DEF YieldInv
  <2> QED BY <1>2, <2>1 DEF Follows
<1>4. /\ in \in Seq(Rows)
      /\ \A m, n \in 1..Len(in) : m < n => Before(in[m], in[n])
      /\ \A n \in 1..Len(in) : in[n][1] \in mask
      /\ \A r \in Rows : r[1] \in mask => \E n \in 1..Len(in) : in[n] = r
  BY RowsOfFacts DEF TypeOK
<1> HIDE DEF in
<1>5. ASSUME NEW n \in 1..L
      PROVE  /\ in[n] \in Rows
             /\ rows[n].outcome = "Include" <=> Whole(in[n]) /\ in[n] \in hits
             /\ rows[n].outcome = "Include" => rows[n].from[1] = in[n]
  <2>1. in[n] \in Rows
    BY <1>3, <1>4
  <2>2. \A i \in FieldNumbers : streams[i][n] = Slot(i, in[n])
    <3> TAKE i \in FieldNumbers
    <3>1. n \in 1..Len(streams[i])
      BY Pulled
    <3>2. Clean(streams[i], n)
      BY <1>1, <1>2 DEF Clean
    <3> QED BY <1>2, <3>1, <3>2 DEF Follows
  <2> DEFINE slots == [i \in FieldNumbers |-> streams[i][n]]
  <2>3. slots = [i \in FieldNumbers |-> Slot(i, in[n])]
    BY <2>2
  <2>4. rows[n] = Yield(request, slots)
    BY <1>1 DEF YieldInv
  <2>5. hits = Passing(request, table, LastField)
    BY DEF HitsInv
  <2> HIDE DEF slots
  <2>6. /\ Yield(request, slots).outcome = "Include" <=>
             Whole(in[n]) /\ in[n] \in Passing(request, table, LastField)
        /\ Yield(request, slots).outcome = "Include" =>
             Yield(request, slots).from[1] = in[n]
    BY <2>1, <2>3, IncludedRow
  <2> QED BY <2>1, <2>4, <2>5, <2>6
<1>6. \A r \in hits : r \in Rows /\ r[1] \in mask
  BY DEF NothingPruned, SegmentsOf, TypeOK
<1>7. \A n : n \in included <=> n \in 1..L /\ rows[n].outcome = "Include"
  BY <1>1
<1> HIDE DEF included, L
<1>8. {rows[n].from[1] : n \in included} = {r \in hits : Whole(r)}
  <2>1. ASSUME NEW n \in included PROVE rows[n].from[1] \in {r \in hits : Whole(r)}
    BY <1>5, <1>7
  <2>2. ASSUME NEW r \in hits, Whole(r) PROVE \E n \in included : rows[n].from[1] = r
    <3>1. PICK n \in 1..L : in[n] = r
      BY <1>3, <1>4, <1>6, <2>2
    <3> QED BY <1>5, <1>7, <2>2, <3>1
  <2> QED BY <2>1, <2>2
<1>9. \A m, n \in included : m < n => Before(rows[m].from[1], rows[n].from[1])
  BY <1>3, <1>4, <1>5, <1>7
<1> QED BY <1>8, <1>9 DEF ReadExact, included

----------------------------------------------------------------------------
(* Theorems                                                                *)

LEMMA Position == ReadSpec => [](ReaderInv /\ MaskInv)
<1>1. ReadInit => ReaderInv /\ MaskInv
  BY ReaderInit, InitInv DEF ReadInit, Inv
<1>2. ReaderInv /\ MaskInv /\ [ReadNext]_readVars => (ReaderInv /\ MaskInv)'
  BY ReaderStep, StepRefines, MaskStep DEF MaskInv
<1> QED BY <1>1, <1>2, PTL DEF ReadSpec

\* A derived read is a resolution of Query.tla, whatever its columns, their
\* combination and their filters: it opens and closes a union for every node
\* that is not a conjunction, and touches neither mask nor frames afterwards.
THEOREM ReaderImplementsQuery == ReadSpec => Spec
<1>1. ReadInit => Init
  BY DEF ReadInit
<1> QED BY <1>1, StepRefines, Position, PTL DEF ReadSpec, Spec

\* Hence the streams of a read have every buffer that holds a row of the
\* result, when the keys it looks for are ordered.
THEOREM StreamsComplete == ASSUME KeysOrdered PROVE ReadSpec => []NothingPruned
<1>1. ReadSpec => []MaskSound
  BY KeysOrdered, ReaderImplementsQuery, PruningSound, PTL
<1>2. BuiltInv /\ MaskSound => NothingPruned
  <2> SUFFICES ASSUME BuiltInv, MaskSound, phase \in {"stream", "ended"}
               PROVE  SegmentsOf(hits) \subseteq mask
    BY DEF NothingPruned
  <2>1. Len(frames) = 0
    BY DEF BuiltInv
  <2>2. Kept(Len(frames)) = {}
    BY <2>1 DEF Kept
  <2> QED BY <2>2 DEF MaskSound
<1>3. ReaderInv => BuiltInv
  BY DEF ReaderInv
<1> QED BY <1>1, <1>2, <1>3, Position, PTL

LEMMA Reading == ReadSpec => [](ResultInv /\ StreamsInv /\ YieldInv)
<1>1. ReadInit => ResultInv /\ StreamsInv /\ YieldInv
  <2>1. ReadInit => StreamsInv /\ YieldInv
    BY DEF ReadInit, StreamsInv, YieldInv
  <2> QED BY <2>1, StageInit
<1>2. /\ ReaderInv /\ MaskInv /\ ResultInv /\ StreamsInv /\ YieldInv
      /\ [ReadNext]_readVars
      => (ResultInv /\ StreamsInv /\ YieldInv)'
  BY StageStep, TreeStep, HitsStep, StreamsStep, YieldStep DEF MaskInv, ResultInv
<1> QED BY <1>1, <1>2, Position, PTL DEF ReadSpec

\* The reader keeps its types and phases, for any struct and request.
THEOREM ReaderTyped == ReadSpec => []ReaderTypeOK
<1>1. MaskInv /\ ReaderInv /\ ResultInv /\ YieldInv => ReaderTypeOK
  BY DEF MaskInv, ReaderInv, PositionInv, BuiltInv, ResultInv, StageInv, YieldInv,
         ReaderTypeOK, LastField
<1> QED BY <1>1, Position, Reading, PTL

\* Until the caller is told of an error, or an absent item hides it, the fields
\* of a row are those of one row of the file.
THEOREM FieldsOfOneRow == ReadSpec => []RowsWhole
BY WholeRows, Reading, PTL

\* A read without an error yields exactly the rows that pass the filters and
\* their joins, in the order of the file.
THEOREM ReadsAreExact == ASSUME KeysOrdered PROVE ReadSpec => []ReadExact
<1>1. ReadSpec => []NothingPruned
  BY KeysOrdered, StreamsComplete
<1>2. /\ MaskInv /\ ReaderInv /\ ResultInv /\ StreamsInv /\ YieldInv /\ NothingPruned
      => ReadExact
  BY ExactRows DEF MaskInv, ReaderInv, ResultInv
<1> QED BY <1>1, <1>2, Position, Reading, PTL

=============================================================================
