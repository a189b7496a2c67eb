------------------------------ MODULE MCDataset ------------------------------
(***************************************************************************)
(* Dataset.tla with bytes of three bits, words and alignment of three      *)
(* bytes, and a few row types that between them have every accumulator.    *)
(***************************************************************************)
EXTENDS Dataset

U8 == Number("UInt", 1)
U16 == Number("UInt", 2)
F8 == Number("Float", 1)
N8 == Number("NonZeroUInt", 1)
NI8 == Number("NonZeroInt", 1)

MCPrimitives == {U8, U16, F8, N8, NI8, Bool, Char}

\* 0 and 4 are the zeros of a float, 2 and 6 its infinities, 3 and 7 are NaN.
MCNaNs == {3, 7}

\* 63 is u32::MAX.
MCScalars == 0..50

F(field, type) == [field |-> field, type |-> type]
Row1(type, items) == (<<F(1, type)>> :> {<<item>> : item \in items})

\* A pair of columns, in both orders of declaration.
AB == <<F(1, U8), F(2, U16)>>
BA == <<F(2, U16), F(1, U8)>>
AC == <<F(1, U8), F(3, U8)>>

\* TLC evaluates a definition of its own once, and the value of a constant
\* whenever it is used.
BuiltRows ==
  Row1(U16, {8, 63}) @@
  Row1(F8, {0, 4, 7}) @@
  Row1(NI8, {-4, 3}) @@
  Row1(Bool, {TRUE, FALSE}) @@
  Row1(String, {<<>>, <<7, 0>>}) @@
  Row1(Vec(Bool), {<<>>, <<TRUE, FALSE>>}) @@
  Row1(Vec(U16), {<<>>, <<9, 1>>}) @@
  Row1(Option(U8), {<<>>, <<0>>, <<7>>}) @@
  Row1(Option(F8), {<<>>, <<1>>}) @@
  Row1(Option(Bool), {<<>>, <<TRUE>>}) @@
  Row1(Option(N8), {<<>>, <<7>>}) @@
  Row1(Option(Char), {<<>>, <<0>>}) @@
  Row1(Option(String), {<<>>, <<<<7>>>>}) @@
  Row1(Option(Option(U8)), {<<>>, <<<<>>>>, <<<<5>>>>}) @@
  Row1(Option(Vec(U8)), {<<>>, <<<<>>>>, <<<<0, 7>>>>}) @@
  Row1(Vec(Option(U8)), {<<>>, <<<<>>, <<5>>>>}) @@
  Row1(Vec(String), {<<>>, <<<<2>>, <<>>>>}) @@
  Row1(Vec(Vec(Vec(U8))), {<<>>, <<<<>>>>, <<<<<<>>>>>>}) @@
  (AB :> {<<1, 8>>, <<1, 63>>}) @@
  (BA :> {<<8, 1>>, <<8, 4>>}) @@
  (AC :> {<<1, 1>>}) @@
  (<<F(3, N8)>> :> {<<5>>}) @@
  (<<F(2, U16)>> :> {<<8>>})

MCRows == BuiltRows

CONSTANTS s, t

Alone(rt) == [n \in Names |-> IF n = s THEN {rt} ELSE {}]

\* Each type on its own; two layouts of one schema and a clashing one; two
\* schemas side by side.
MCWorlds ==
  {Alone(rt) : rt \in {r \in DOMAIN MCRows : Len(r) = 1 /\ r[1].field = 1}}
    \cup {[n \in Names |-> IF n = s THEN {AB, BA, AC} ELSE {}],
          [n \in Names |-> IF n = s THEN {<<F(3, N8)>>} ELSE {<<F(2, U16)>>}]}

BuiltMaxRows == [n \in Names |-> IF n = s THEN 3 ELSE 1]

MCMaxRows == BuiltMaxRows

MCPayloads == <<<<7, 5>>>>

=============================================================================
