----------------------------- MODULE CodecProofs -----------------------------
(***************************************************************************)
(* What a column buffer of any type holds reads back, and its statistics   *)
(* are the least and the greatest of its items: for every set of primitive *)
(* types, every width of bytes, words and chars, and every depth to which  *)
(* options and sequences are within each other.                            *)
(*                                                                         *)
(* Types are terms, and the functions of Codec recursive in them. Each     *)
(* asks no more of itself than its value at the subtype (the lemmas ...    *)
(* Same), hence has the equation that defines it (... Equation), and       *)
(* inductions over the depth, the n of TypesTo(n), carry a fact about      *)
(* shallower types to one about a type (... Next). A reader gets what is   *)
(* left of the buffer, and padding with it: it is right if what it returns *)
(* begins with the items that were written (Reads). The count that the     *)
(* descriptor has cuts off the rest.                                       *)
(***************************************************************************)
EXTENDS Codec, DataInduction, SequenceTheorems, FiniteSetTheorems, TLAPS

----------------------------------------------------------------------------
(* Powers, and the folds as functions by recursion                         *)

\* Two recursions that begin alike and go on alike.
LEMMA Agree ==
  ASSUME NEW N \in Nat, NEW f, NEW g, f[0] = g[0],
         \A n \in 1..N : f[n - 1] = g[n - 1] => f[n] = g[n]
  PROVE  f[N] = g[N]
<1> DEFINE T == {n \in 0..N : f[n] = g[n]}
<1>1. 0 \in T
  OBVIOUS
<1>2. \A n \in 1..N : n - 1 \in T => n \in T
  OBVIOUS
<1>3. 0..N \subseteq T
  <2> HIDE DEF T
  <2> QED BY <1>1, <1>2, BoundedInduction
<1> QED BY <1>3

\* The fold that defines Power, as a function by recursion.
LEMMA PowerEquation ==
  ASSUME NEW base, NEW N \in Nat
  PROVE  \E f : /\ Power(base, N) = f[N]
                /\ f[0] = 1
                /\ \A n \in 1..N : f[n] = base * f[n - 1]
<1> DEFINE Eq(m, g) ==
      g = [n \in 0..m |-> IF n = 0 THEN 1 ELSE base * g[n - 1]]
           T == {m \in Nat : \E g : Eq(m, g)}
<1>1. 0 \in T
  <2>1. Eq(0, [n \in 0..0 |-> 1])
    OBVIOUS
  <2>2. \E g : Eq(0, g)
    <3> HIDE DEF Eq
    <3> QED BY <2>1
  <2> HIDE DEF Eq
  <2> QED BY <2>2
<1>2. ASSUME NEW m \in Nat, m \in T PROVE m + 1 \in T
  <2>1. PICK g : Eq(m, g)
    BY <1>2
  <2> DEFINE h == [n \in 0..(m + 1) |-> IF n = 0 THEN 1 ELSE base * g[n - 1]]
  <2>2. \A n \in 0..m : h[n] = g[n]
    BY <2>1
  <2>3. \A n \in 0..(m + 1) : n # 0 => h[n - 1] = g[n - 1]
    <3> TAKE n \in 0..(m + 1)
    <3> HAVE n # 0
    <3>1. n - 1 \in 0..m
      OBVIOUS
    <3> HIDE DEF h
    <3> QED BY <2>2, <3>1
  <2>4. \A n \in 0..(m + 1) : h[n] = IF n = 0 THEN 1 ELSE base * h[n - 1]
    <3> TAKE n \in 0..(m + 1)
    <3>1. h[n] = IF n = 0 THEN 1 ELSE base * g[n - 1]
      OBVIOUS
    <3> HIDE DEF h
    <3> QED BY <3>1, <2>3
  <2>5. h = [n \in 0..(m + 1) |-> h[n]]
    OBVIOUS
  <2>6. Eq(m + 1, h)
    <3> HIDE DEF h
    <3> QED BY <2>4, <2>5
  <2> HIDE DEF h, Eq
  <2>7. \E k : Eq(m + 1, k)
    BY <2>6
  <2> QED BY <2>7
<1>3. Nat \subseteq T
  <2> HIDE DEF T
  <2> QED BY <1>1, <1>2, Induction
<1> DEFINE f == CHOOSE g : Eq(N, g)
<1>4. Eq(N, f)
  <2> HIDE DEF Eq
  <2> QED BY <1>3
<1>5. Power(base, N) = f[N]
  BY DEF Power
<1> HIDE DEF f
<1>6. f[0] = 1
  BY <1>4
<1>7. \A n \in 1..N : f[n] = base * f[n - 1]
  BY <1>4
<1> QED BY <1>5, <1>6, <1>7

\* The fold that defines FromDigits, as a function by recursion.
LEMMA DigitsEquation ==
  ASSUME NEW base, NEW digits, Len(digits) \in Nat
  PROVE  \E f : /\ FromDigits(base, digits) = f[Len(digits)]
                /\ f[0] = 0
                /\ \A n \in 1..Len(digits) : f[n] = f[n - 1] * base + digits[Len(digits) - n + 1]
<1> DEFINE Eq(m, g) ==
      g = [n \in 0..m |-> IF n = 0 THEN 0 ELSE g[n - 1] * base + digits[Len(digits) - n + 1]]
           T == {m \in Nat : \E g : Eq(m, g)}
<1>1. 0 \in T
  <2>1. Eq(0, [n \in 0..0 |-> 0])
    OBVIOUS
  <2>2. \E g : Eq(0, g)
    <3> HIDE DEF Eq
    <3> QED BY <2>1
  <2> HIDE DEF Eq
  <2> QED BY <2>2
<1>2. ASSUME NEW m \in Nat, m \in T PROVE m + 1 \in T
  <2>1. PICK g : Eq(m, g)
    BY <1>2
  <2> DEFINE h == [n \in 0..(m + 1) |-> IF n = 0 THEN 0 ELSE g[n - 1] * base + digits[Len(digits) - n + 1]]
  <2>2. \A n \in 0..m : h[n] = g[n]
    BY <2>1
  <2>3. \A n \in 0..(m + 1) : n # 0 => h[n - 1] = g[n - 1]
    <3> TAKE n \in 0..(m + 1)
    <3> HAVE n # 0
    <3>1. n - 1 \in 0..m
      OBVIOUS
    <3> HIDE DEF h
    <3> QED BY <2>2, <3>1
  <2>4. \A n \in 0..(m + 1) : h[n] = IF n = 0 THEN 0 ELSE h[n - 1] * base + digits[Len(digits) - n + 1]
    <3> TAKE n \in 0..(m + 1)
    <3>1. h[n] = IF n = 0 THEN 0 ELSE g[n - 1] * base + digits[Len(digits) - n + 1]
      OBVIOUS
    <3> HIDE DEF h
    <3> QED BY <3>1, <2>3
  <2>5. h = [n \in 0..(m + 1) |-> h[n]]
    OBVIOUS
  <2>6. Eq(m + 1, h)
    <3> HIDE DEF h
    <3> QED BY <2>4, <2>5
  <2> HIDE DEF h, Eq
  <2>7. \E k : Eq(m + 1, k)
    BY <2>6
  <2> QED BY <2>7
<1>3. Nat \subseteq T
  <2> HIDE DEF T
  <2> QED BY <1>1, <1>2, Induction
<1> DEFINE f == CHOOSE g : Eq(Len(digits), g)
<1>4. Eq(Len(digits), f)
  <2> HIDE DEF Eq
  <2> QED BY <1>3
<1>5. FromDigits(base, digits) = f[Len(digits)]
  BY DEF FromDigits
<1> HIDE DEF f
<1>6. f[0] = 0
  BY <1>4
<1>7. \A n \in 1..Len(digits) : f[n] = f[n - 1] * base + digits[Len(digits) - n + 1]
  BY <1>4
<1> QED BY <1>5, <1>6, <1>7

\* The fold that defines Concat, as a function by recursion.
LEMMA ConcatEquation ==
  ASSUME NEW parts, Len(parts) \in Nat
  PROVE  \E f : /\ Concat(parts) = f[Len(parts)]
                /\ f[0] = <<>>
                /\ \A n \in 1..Len(parts) : f[n] = f[n - 1] \o parts[n]
<1> DEFINE Eq(m, g) ==
      g = [n \in 0..m |-> IF n = 0 THEN <<>> ELSE g[n - 1] \o parts[n]]
           T == {m \in Nat : \E g : Eq(m, g)}
<1>1. 0 \in T
  <2>1. Eq(0, [n \in 0..0 |-> <<>>])
    OBVIOUS
  <2>2. \E g : Eq(0, g)
    <3> HIDE DEF Eq
    <3> QED BY <2>1
  <2> HIDE DEF Eq
  <2> QED BY <2>2
<1>2. ASSUME NEW m \in Nat, m \in T PROVE m + 1 \in T
  <2>1. PICK g : Eq(m, g)
    BY <1>2
  <2> DEFINE h == [n \in 0..(m + 1) |-> IF n = 0 THEN <<>> ELSE g[n - 1] \o parts[n]]
  <2>2. \A n \in 0..m : h[n] = g[n]
    BY <2>1
  <2>3. \A n \in 0..(m + 1) : n # 0 => h[n - 1] = g[n - 1]
    <3> TAKE n \in 0..(m + 1)
    <3> HAVE n # 0
    <3>1. n - 1 \in 0..m
      OBVIOUS
    <3> HIDE DEF h
    <3> QED BY <2>2, <3>1
  <2>4. \A n \in 0..(m + 1) : h[n] = IF n = 0 THEN <<>> ELSE h[n - 1] \o parts[n]
    <3> TAKE n \in 0..(m + 1)
    <3>1. h[n] = IF n = 0 THEN <<>> ELSE g[n - 1] \o parts[n]
      OBVIOUS
    <3> HIDE DEF h
    <3> QED BY <3>1, <2>3
  <2>5. h = [n \in 0..(m + 1) |-> h[n]]
    OBVIOUS
  <2>6. Eq(m + 1, h)
    <3> HIDE DEF h
    <3> QED BY <2>4, <2>5
  <2> HIDE DEF h, Eq
  <2>7. \E k : Eq(m + 1, k)
    BY <2>6
  <2> QED BY <2>7
<1>3. Nat \subseteq T
  <2> HIDE DEF T
  <2> QED BY <1>1, <1>2, Induction
<1> DEFINE f == CHOOSE g : Eq(Len(parts), g)
<1>4. Eq(Len(parts), f)
  <2> HIDE DEF Eq
  <2> QED BY <1>3
<1>5. Concat(parts) = f[Len(parts)]
  BY DEF Concat
<1> HIDE DEF f
<1>6. f[0] = <<>>
  BY <1>4
<1>7. \A n \in 1..Len(parts) : f[n] = f[n - 1] \o parts[n]
  BY <1>4
<1> QED BY <1>5, <1>6, <1>7

\* The zeroth power.
LEMMA PowerZero == ASSUME NEW base PROVE Power(base, 0) = 1
BY PowerEquation

\* A power is the base times the one before it.
LEMMA PowerNext ==
  ASSUME NEW base, NEW n \in Nat \ {0}
  PROVE  Power(base, n) = base * Power(base, n - 1)
<1>1. PICK f : /\ Power(base, n) = f[n] /\ f[0] = 1
               /\ \A k \in 1..n : f[k] = base * f[k - 1]
  BY PowerEquation
<1>2. n - 1 \in Nat
  OBVIOUS
<1>3. PICK g : /\ Power(base, n - 1) = g[n - 1] /\ g[0] = 1
               /\ \A k \in 1..n - 1 : g[k] = base * g[k - 1]
  BY <1>2, PowerEquation
<1>4. f[n - 1] = g[n - 1]
  <2>1. f[0] = g[0]
    BY <1>1, <1>3
  <2>2. \A k \in 1..n - 1 : f[k - 1] = g[k - 1] => f[k] = g[k]
    BY <1>1, <1>3
  <2> QED BY <1>2, <2>1, <2>2, Agree
<1>5. f[n] = base * f[n - 1]
  BY <1>1
<1> QED BY <1>1, <1>3, <1>4, <1>5

\* Powers of a positive base are positive.
LEMMA PowerPositive ==
  ASSUME NEW base \in Nat \ {0}, NEW n \in Nat
  PROVE  Power(base, n) \in Nat \ {0}
<1> DEFINE T == {k \in Nat : Power(base, k) \in Nat \ {0}}
<1>1. 0 \in T
  BY PowerZero
<1>2. \A k \in Nat : k \in T => k + 1 \in T
  <2> SUFFICES ASSUME NEW k \in Nat, Power(base, k) \in Nat \ {0}
               PROVE  Power(base, k + 1) \in Nat \ {0}
    OBVIOUS
  <2>1. Power(base, k + 1) = base * Power(base, k)
    <3>1. (k + 1) - 1 = k /\ k + 1 \in Nat \ {0}
      OBVIOUS
    <3> QED BY <3>1, PowerNext
  <2>2. \A a, b \in Nat \ {0} : a * b \in Nat \ {0}
    OBVIOUS
  <2> QED BY <2>1, <2>2
<1>3. Nat \subseteq T
  <2> HIDE DEF T
  <2> QED BY <1>1, <1>2, Induction
<1> QED BY <1>3

\* The next power of a base.
LEMMA PowerAdd ==
  ASSUME NEW base \in Nat \ {0}, NEW n \in Nat
  PROVE  Power(base, n + 1) = base * Power(base, n)
<1>1. (n + 1) - 1 = n /\ n + 1 \in Nat \ {0}
  OBVIOUS
<1> QED BY <1>1, PowerNext

----------------------------------------------------------------------------
(* Digits                                                                  *)

\* A number is its quotient times the base plus its remainder.
LEMMA Division ==
  ASSUME NEW b \in Nat \ {0}, NEW n \in Int
  PROVE  /\ n \div b \in Int /\ n % b \in 0..b - 1
         /\ n = b * (n \div b) + (n % b)
OBVIOUS

\* Quotient and remainder are the only such numbers.
LEMMA DivisionUnique ==
  ASSUME NEW b \in Nat \ {0}, NEW q \in Int, NEW r \in 0..b - 1
  PROVE  (b * q + r) \div b = q /\ (b * q + r) % b = r
OBVIOUS

\* Quotients of natural numbers are natural numbers.
LEMMA DivisionNonNegative ==
  ASSUME NEW b \in Nat \ {0}, NEW n \in Nat
  PROVE  n \div b \in Nat
OBVIOUS

\* Dividing twice is dividing by the product, as a shift by two widths is.
LEMMA DivisionTwice ==
  ASSUME NEW a \in Nat \ {0}, NEW b \in Nat \ {0}, NEW n \in Int
  PROVE  (n \div a) \div b = n \div (a * b)
OBVIOUS

\* A number below the base is its own remainder.
LEMMA Small ==
  ASSUME NEW b \in Nat \ {0}, NEW n \in 0..b - 1
  PROVE  n % b = n /\ n \div b = 0
OBVIOUS

\* The remainder by a product, from the remainders by its factors.
LEMMA RemainderOfProduct ==
  ASSUME NEW a \in Nat \ {0}, NEW b \in Nat \ {0}, NEW n \in Int
  PROVE  n % (a * b) = ((n \div a) % b) * a + (n % a)
<1> DEFINE q == n \div a
           r == n % a
           s == q \div b
           u == q % b
<1>1. q \in Int /\ r \in 0..a - 1 /\ n = a * q + r
  BY Division
<1>2. s \in Int /\ u \in 0..b - 1 /\ q = b * s + u
  BY <1>1, Division
<1> HIDE DEF q, r, s, u
<1>3. n = a * (b * s + u) + r
  BY <1>1, <1>2
<1>4. a * (b * s + u) + r = (a * b) * s + (u * a + r)
  BY <1>1, <1>2
<1>5. u * a + r \in 0..(a * b) - 1
  <2>1. u * a + r \in Nat
    BY <1>1, <1>2
  <2>2. u + 1 <= b
    BY <1>2
  <2>3. (u + 1) * a <= b * a
    BY <2>2, <1>2
  <2>4. u * a + r <= (u + 1) * a - 1
    BY <1>1, <1>2
  <2>5. a * b \in Nat /\ b * a = a * b /\ (u + 1) * a \in Int
    BY <1>2
  <2> QED BY <2>1, <2>3, <2>4, <2>5
<1>6. a * b \in Nat \ {0}
  OBVIOUS
<1>7. n % (a * b) = u * a + r
  BY <1>3, <1>4, <1>5, <1>6, <1>2, DivisionUnique
<1> QED BY <1>7 DEF q, r, u

\* The number with the digits of n, as many as there are.
LEMMA FromDigitsOf ==
  ASSUME NEW base \in Nat \ {0}, NEW n \in Int, NEW digits, Len(digits) \in Nat,
         \A i \in 1..Len(digits) : digits[i] = Digit(base, n, i)
  PROVE  FromDigits(base, digits) = n % Power(base, Len(digits))
<1> DEFINE w == Len(digits)
<1>1. w \in Nat
  OBVIOUS
<1>2. \A i \in 1..w : digits[i] = (n \div Power(base, i - 1)) % base
  BY DEF Digit
<1>3. PICK f : /\ FromDigits(base, digits) = f[w] /\ f[0] = 0
               /\ \A k \in 1..w : f[k] = f[k - 1] * base + digits[w - k + 1]
  BY DigitsEquation
<1> HIDE DEF w
<1> DEFINE T == {k \in 0..w : f[k] = (n \div Power(base, w - k)) % Power(base, k)}
<1>4. 0 \in T
  <2>1. \A x \in Int : x % 1 = 0
    OBVIOUS
  <2>2. n \div Power(base, w) \in Int
    BY <1>1, PowerPositive, Division
  <2>3. w - 0 = w /\ 0 \in 0..w
    BY <1>1
  <2> QED BY <1>3, <2>1, <2>2, <2>3, PowerZero
<1>5. ASSUME NEW k \in 1..w, k - 1 \in T PROVE k \in T
  <2> DEFINE m == n \div Power(base, w - k)
             P == Power(base, k - 1)
  <2>1. w - k \in Nat /\ k - 1 \in Nat /\ w - (k - 1) = (w - k) + 1 /\ (k - 1) + 1 = k
        /\ w - k + 1 \in 1..w /\ (w - k + 1) - 1 = w - k
    BY <1>1
  <2>2. Power(base, w - k) \in Nat \ {0} /\ P \in Nat \ {0}
    BY <2>1, PowerPositive
  <2>3. m \in Int
    BY <2>2
  <2>4. n \div Power(base, w - (k - 1)) = m \div base
    <3>1. Power(base, w - (k - 1)) = base * Power(base, w - k)
      BY <2>1, PowerAdd
    <3>2. base * Power(base, w - k) = Power(base, w - k) * base
      BY <2>2
    <3> QED BY <2>2, <3>1, <3>2, DivisionTwice
  <2>5. f[k - 1] = (m \div base) % P
    BY <1>5, <2>4
  <2>6. digits[w - k + 1] = m % base
    BY <1>2, <2>1
  <2>7. f[k] = ((m \div base) % P) * base + (m % base)
    BY <1>3, <2>5, <2>6
  <2>8. Power(base, k) = base * P
    BY <2>1, PowerAdd
  <2> HIDE DEF m, P
  <2>9. f[k] = m % Power(base, k)
    BY <2>2, <2>3, <2>7, <2>8, RemainderOfProduct
  <2> QED BY <2>9 DEF m
<1>6. 0..w \subseteq T
  <2> HIDE DEF T
  <2> QED BY <1>1, <1>4, <1>5, BoundedInduction
<1>7. f[w] = (n \div Power(base, w - w)) % Power(base, w)
  BY <1>1, <1>6
<1>8. w - w = 0 /\ n \div 1 = n
  BY <1>1
<1>9. f[w] = n % Power(base, w)
  BY <1>7, <1>8, PowerZero
<1> QED BY <1>3, <1>9 DEF w

\* Every digit of a number is the one it was made of.
LEMMA DigitsOfNumber ==
  ASSUME NEW base \in Nat \ {0}, NEW digits, Len(digits) \in Nat,
         \A i \in 1..Len(digits) : digits[i] \in 0..base - 1
  PROVE  /\ FromDigits(base, digits) \in 0..Power(base, Len(digits)) - 1
         /\ \A i \in 1..Len(digits) : Digit(base, FromDigits(base, digits), i) = digits[i]
<1> DEFINE w == Len(digits)
<1> USE DEF Digit
<1>1. PICK f : /\ FromDigits(base, digits) = f[w] /\ f[0] = 0
               /\ \A k \in 1..w : f[k] = f[k - 1] * base + digits[w - k + 1]
  BY DigitsEquation
<1> DEFINE DigitsOf(k) == \A j \in 1..k : Digit(base, f[k], j) = digits[w - k + j]
           T == {k \in 0..w : f[k] \in 0..Power(base, k) - 1 /\ DigitsOf(k)}
<1>2. w \in Nat
  OBVIOUS
<1> HIDE DEF w
<1>3. 0 \in T
  <2>1. 0 \in 0..w /\ Power(base, 0) = 1
    BY <1>2, PowerZero
  <2>2. f[0] \in 0..Power(base, 0) - 1
    BY <2>1, <1>1
  <2> QED BY <2>1, <2>2
<1>4. ASSUME NEW k \in 1..w, k - 1 \in T PROVE k \in T
  <2> DEFINE high == f[k - 1]
             P == Power(base, k - 1)
             d == digits[w - k + 1]
  <2>1. k - 1 \in Nat /\ (k - 1) + 1 = k /\ w - k + 1 \in 1..w /\ k \in 0..w
    BY <1>2
  <2>2. P \in Nat \ {0} /\ Power(base, k) = base * P
    BY <2>1, PowerPositive, PowerAdd
  <2>3. high \in 0..P - 1
    BY <1>4
  <2>4. d \in 0..base - 1
    BY <2>1 DEF w
  <2>5. f[k] = base * high + d
    <3>1. f[k] = high * base + d
      BY <1>1
    <3> HIDE DEF high, d, P
    <3> QED BY <3>1, <2>2, <2>3
  <2>6. f[k] \in 0..Power(base, k) - 1
    <3> HIDE DEF high, d, P
    <3>1. base * high + d \in Nat
      BY <2>3, <2>4, <2>2
    <3>2. base * high <= base * (P - 1)
      BY <2>3, <2>2
    <3>3. base * (P - 1) = base * P - base
      BY <2>2
    <3>4. base * high \in Int /\ base * P \in Int
      BY <2>2, <2>3
    <3> QED BY <3>1, <3>2, <3>3, <3>4, <2>2, <2>4, <2>5
  <2>7. f[k] \div base = high /\ f[k] % base = d
    <3> HIDE DEF high, d, P
    <3>1. high \in Int /\ d \in 0..base - 1
      BY <2>2, <2>3, <2>4
    <3>2. (base * high + d) \div base = high /\ (base * high + d) % base = d
      BY <3>1, DivisionUnique, Zenon
    <3> QED BY <3>2, <2>5
  <2>8. DigitsOf(k)
    <3> SUFFICES ASSUME NEW j \in 1..k
                 PROVE  (f[k] \div Power(base, j - 1)) % base = digits[w - k + j]
      OBVIOUS
    <3>1. CASE j = 1
      <4>1. Power(base, j - 1) = 1 /\ f[k] \div 1 = f[k]
        <5>1. j - 1 = 0
          BY <3>1
        <5>2. f[k] \in Int
          BY <2>6, <2>2
        <5> QED BY <5>1, <5>2, PowerZero
      <4> QED BY <4>1, <2>7, <3>1
    <3>2. CASE j # 1
      <4>1. j - 1 \in 1..k - 1 /\ j - 2 \in Nat /\ (j - 2) + 1 = j - 1 /\ (j - 1) - 1 = j - 2
            /\ w - (k - 1) + (j - 1) = w - k + j
        BY <3>2, <1>2
      <4>2. Power(base, j - 1) = base * Power(base, j - 2) /\ Power(base, j - 2) \in Nat \ {0}
        BY <4>1, PowerAdd, PowerPositive
      <4>3. f[k] \in Int
        BY <2>6, <2>2
      <4>4. f[k] \div Power(base, j - 1) = high \div Power(base, j - 2)
        <5> HIDE DEF high
        <5> QED BY <4>2, <4>3, <2>7, DivisionTwice
      <4>5. (f[k - 1] \div Power(base, (j - 1) - 1)) % base = digits[w - (k - 1) + (j - 1)]
        BY <1>4, <4>1
      <4> QED BY <4>1, <4>4, <4>5
    <3> QED BY <3>1, <3>2
  <2> HIDE DEF DigitsOf
  <2> QED BY <2>1, <2>6, <2>8
<1>5. 0..w \subseteq T
  <2> HIDE DEF T
  <2> QED BY <1>2, <1>3, <1>4, BoundedInduction
<1>6. w \in T
  BY <1>2, <1>5
<1>7. \A j \in 1..w : Digit(base, f[w], j) = digits[j]
  <2>1. \A j \in 1..w : w - w + j = j
    BY <1>2
  <2> QED BY <1>6, <2>1
<1> HIDE DEF Digit, T
<1>8. f[w] \in 0..Power(base, w) - 1
  BY <1>6 DEF T
<1> QED BY <1>1, <1>7, <1>8 DEF w

----------------------------------------------------------------------------
(* Numbers in bytes                                                        *)

\* The widths of a byte, a word and a char are positive.
LEMMA Widths == Bit \in Nat \ {0} /\ Word \in Nat \ {0} /\ CharWidth \in Nat \ {0}
BY WidthAssumption

\* Powers of an even base are even.
LEMMA PowerEven ==
  ASSUME NEW base \in Nat \ {0}, base % 2 = 0, NEW n \in Nat \ {0}
  PROVE  Power(base, n) % 2 = 0
<1>1. n - 1 \in Nat /\ Power(base, n) = base * Power(base, n - 1)
  BY PowerNext
<1>2. Power(base, n - 1) \in Nat
  BY <1>1, PowerPositive
<1>3. \A a, b \in Nat : a % 2 = 0 => (a * b) % 2 = 0
  <2> TAKE a, b \in Nat
  <2> HAVE a % 2 = 0
  <2>1. a = 2 * (a \div 2) /\ a \div 2 \in Nat
    OBVIOUS
  <2>2. a * b = 2 * ((a \div 2) * b) + 0
    BY <2>1
  <2>3. (a \div 2) * b \in Int /\ 0 \in 0..2 - 1 /\ 2 \in Nat \ {0}
    BY <2>1
  <2> QED BY <2>2, <2>3, DivisionUnique
<1> QED BY <1>1, <1>2, <1>3

\* The number of values of a byte is positive and even.
LEMMA ByteType == Byte \in Nat \ {0} /\ Byte % 2 = 0
<1>1. 2 % 2 = 0
  OBVIOUS
<1> QED BY <1>1, Widths, PowerPositive, PowerEven DEF Byte

\* The number of values of w bytes is positive, and even so that a sign bit
\* halves it.
LEMMA LimitType ==
  ASSUME NEW w \in Nat
  PROVE  /\ Limit(w) \in Nat \ {0}
         /\ w # 0 => Limit(w) % 2 = 0
BY ByteType, PowerPositive, PowerEven DEF Limit

\* to_le_bytes gives w bytes, and from_le_bytes reads the number back modulo
\* their limit.
LEMMA ToBytesType ==
  ASSUME NEW n \in Int, NEW w \in Nat
  PROVE  /\ ToBytes(n, w) \in Seq(Bytes) /\ Len(ToBytes(n, w)) = w
         /\ FromBytes(ToBytes(n, w)) = n % Limit(w)
<1> DEFINE bytes == ToBytes(n, w)
<1>1. \A i \in 1..w : Digit(Byte, n, i) \in Bytes
  <2> TAKE i \in 1..w
  <2>1. Power(Byte, i - 1) \in Nat \ {0}
    BY ByteType, PowerPositive
  <2>2. n \div Power(Byte, i - 1) \in Int
    BY <2>1, Division
  <2> QED BY <2>2, ByteType, Division DEF Digit, Bytes
<1>2. bytes \in Seq(Bytes) /\ Len(bytes) = w
  BY <1>1 DEF ToBytes
<1>3. \A i \in 1..w : bytes[i] = Digit(Byte, n, i)
  BY DEF ToBytes
<1> HIDE DEF bytes
<1>4. FromDigits(Byte, bytes) = n % Power(Byte, Len(bytes))
  BY <1>2, <1>3, ByteType, FromDigitsOf
<1>5. FromBytes(bytes) = n % Limit(w)
  BY <1>4, <1>2 DEF FromBytes, Limit
<1> QED BY <1>2, <1>5 DEF bytes

\* A number that fits in w bytes is read back from them.
LEMMA FromBytesSmall ==
  ASSUME NEW w \in Nat, NEW n \in 0..Limit(w) - 1
  PROVE  FromBytes(ToBytes(n, w)) = n
<1>1. FromBytes(ToBytes(n, w)) = n % Limit(w)
  BY ToBytesType
<1> QED BY <1>1, LimitType, Small

NumberTypes == [type : {"Number"}, kind : Kinds, size : Nat \ {0}]

\* The items of a type of fixed width.
Scalar(t) == IF t.type = "Char" THEN Scalars ELSE Numerals(t)

\* Every fixed-width type takes at least one byte.
LEMMA WidthType ==
  ASSUME NEW t \in NumberTypes \cup {Char}
  PROVE  Width(t) \in Nat \ {0}
BY Widths DEF NumberTypes, Char, Width

\* A number or char of any width and sign reads back as itself from its bytes.
THEOREM ScalarRoundTrip ==
  ASSUME NEW t \in NumberTypes \cup {Char}, NEW n \in Scalar(t)
  PROVE  /\ n \in Int /\ Encoded(t, n) \in Seq(Bytes) /\ Len(Encoded(t, n)) = Width(t)
         /\ Decoded(t, Encoded(t, n)) = n /\ Valid(t, n)
<1> DEFINE L == Limit(Width(t))
<1>1. L \in Nat \ {0} /\ L % 2 = 0
  BY WidthType, LimitType
<1>2. CASE t = Char
  <2>1. t.type = "Char" /\ ~ NonZero(t) /\ n \in Scalars
    BY <1>2 DEF Char, Scalar, NonZero
  <2>2. Width(t) = CharWidth
    BY <2>1 DEF Width
  <2>3. n \in 0..L - 1
    BY <2>1, <2>2, <1>1, ScalarsAssumption DEF NoChar
  <2>4. FromBytes(Encoded(t, n)) = n
    BY <2>3, WidthType, FromBytesSmall DEF Encoded
  <2>5. Decoded(t, Encoded(t, n)) = n
    BY <2>1, <2>4 DEF Decoded
  <2>6. Valid(t, n)
    BY <2>1 DEF Valid
  <2>7. n \in Int
    BY <2>3, <1>1
  <2> QED BY <2>5, <2>6, <2>7, WidthType, ToBytesType DEF Encoded
<1>3. CASE t \in NumberTypes
  <2>1. t.type = "Number" /\ t.size \in Nat \ {0} /\ Width(t) = t.size
    BY <1>3 DEF NumberTypes, Width
  <2> DEFINE half == L \div 2
             signed == t.kind \in {"Int", "NonZeroInt"}
  <2>2. L = 2 * half /\ half \in Nat
    BY <1>1
  <2>3. n \in IF signed THEN -half..half - 1 ELSE 0..L - 1
    BY <2>1 DEF Scalar, Numerals
  <2>4. NonZero(t) => n # 0
    BY <2>1 DEF Scalar, Numerals
  <2> HIDE DEF L, half
  <2>5. n \in Int
    BY <2>2, <2>3, <1>1
  <2>6. FromBytes(Encoded(t, n)) = n % L
    BY <2>5, WidthType, ToBytesType DEF Encoded, L
  <2>7. n % L = IF n < 0 THEN n + L ELSE n
    <3>1. CASE n < 0
      <4>1. n = L * (-1) + (n + L) /\ n + L \in 0..L - 1
        BY <2>2, <2>3, <1>1, <3>1
      <4>2. (L * (-1) + (n + L)) % L = n + L
        <5>1. -1 \in Int
          OBVIOUS
        <5> QED BY <5>1, <4>1, <1>1, DivisionUnique, Zenon
      <4> QED BY <3>1, <4>1, <4>2
    <3>2. CASE ~ (n < 0)
      <4>1. n \in 0..L - 1
        BY <2>2, <2>3, <1>1, <3>2, <2>5
      <4> QED BY <3>2, <4>1, <1>1, Small
    <3> QED BY <3>1, <3>2
  <2>8. Decoded(t, Encoded(t, n)) = n
    <3>1. CASE signed
      <4>1. Decoded(t, Encoded(t, n)) = Signed(n % L, t.size)
        BY <3>1, <2>1, <2>6 DEF Decoded
      <4>2. @ = IF 2 * (n % L) >= L THEN (n % L) - L ELSE n % L
        BY <2>1 DEF Signed, L
      <4> QED BY <4>1, <4>2, <2>2, <2>3, <2>5, <2>7, <1>1, <3>1
    <3>2. CASE ~ signed
      <4>1. Decoded(t, Encoded(t, n)) = n % L
        BY <3>2, <2>6 DEF Decoded
      <4>2. ~ (n < 0)
        BY <2>3, <3>2, <1>1
      <4> QED BY <4>1, <4>2, <2>7
    <3> QED BY <3>1, <3>2
  <2>9. Valid(t, n)
    BY <2>1, <2>4 DEF Valid
  <2> QED BY <2>5, <2>8, <2>9, WidthType, ToBytesType DEF Encoded
<1> QED BY <1>2, <1>3

\* The niche that stands for None is the encoding of no value: NaN or a char
\* above the last.
LEMMA NoneBytesDistinct ==
  ASSUME NEW t \in NumberTypes \cup {Char}, Niche(t)
  PROVE  /\ NoneBytes(t) \in Seq(Bytes) /\ Len(NoneBytes(t)) = Width(t)
         /\ \A n \in Scalar(t) : Encoded(t, n) # NoneBytes(t)
<1> DEFINE none == IF t.type = "Char" THEN NoChar ELSE 0
<1>1. Limit(Width(t)) \in Nat \ {0} /\ Limit(CharWidth) \in Nat \ {0}
  BY WidthType, Widths, LimitType
<1>2. none \in 0..Limit(Width(t)) - 1
  BY <1>1 DEF NoChar, Width
<1>3. none \in Int
  BY <1>2, <1>1
<1>4. NoneBytes(t) \in Seq(Bytes) /\ Len(NoneBytes(t)) = Width(t)
  BY <1>3, WidthType, ToBytesType DEF NoneBytes
<1>5. FromBytes(NoneBytes(t)) = none
  BY <1>2, WidthType, FromBytesSmall DEF NoneBytes
<1>6. ASSUME NEW n \in Scalar(t), Encoded(t, n) = NoneBytes(t) PROVE FALSE
  <2>1. FromBytes(Encoded(t, n)) = none
    BY <1>5, <1>6
  <2>2. Decoded(t, Encoded(t, n)) = n /\ Valid(t, n)
    BY ScalarRoundTrip
  <2>3. CASE t.type = "Char"
    <3>1. n = NoChar
      BY <2>1, <2>2, <2>3 DEF Decoded
    <3> QED BY <1>1, <2>3, <3>1, ScalarsAssumption DEF Scalar, NoChar
  <2>4. CASE t.type # "Char"
    <3>1. NonZero(t) /\ n # 0
      BY <2>4, <2>2 DEF Niche, Valid
    <3>2. Decoded(t, Encoded(t, n)) \in {0, Signed(0, t.size)}
      BY <2>1, <2>4 DEF Decoded
    <3>3. Signed(0, t.size) = 0
      <4>1. t.size \in Nat
        BY <2>4 DEF NumberTypes, Char
      <4>2. Limit(t.size) \in Nat \ {0}
        BY <4>1, LimitType
      <4> QED BY <4>2 DEF Signed
    <3> QED BY <3>1, <3>2, <3>3, <2>2
  <2> QED BY <2>3, <2>4
<1> QED BY <1>4, <1>6

----------------------------------------------------------------------------
(* Bits in bytes                                                           *)

\* Where byte i of the bits begins.
LEMMA BitPlace ==
  ASSUME NEW b \in Nat \ {0}, NEW n \in Nat
  PROVE  /\ (n + b - 1) \div b \in Nat
         /\ n <= ((n + b - 1) \div b) * b
         /\ n # 0 => (n + b - 1) \div b # 0
         /\ \A j \in Nat \ {0} : j <= ((n + b - 1) \div b) * b =>
              /\ ((j - 1) \div b) + 1 \in 1..((n + b - 1) \div b)
              /\ ((j - 1) % b) + 1 \in 1..b
              /\ ((((j - 1) \div b) + 1) - 1) * b + (((j - 1) % b) + 1) = j
<1> DEFINE q == (n + b - 1) \div b
<1>1. n + b - 1 \in Nat /\ n + b - 1 \in Int
  OBVIOUS
<1>2. q \in Nat /\ (n + b - 1) % b \in 0..b - 1 /\ n + b - 1 = b * q + ((n + b - 1) % b)
  BY <1>1, Division, DivisionNonNegative
<1>3. n <= q * b
  <2> HIDE DEF q
  <2>1. b * q = q * b /\ b * q \in Nat
    BY <1>2
  <2> QED BY <1>2, <2>1
<1>4. n # 0 => q # 0
  <2> SUFFICES ASSUME n # 0, q = 0 PROVE FALSE
    OBVIOUS
  <2> HIDE DEF q
  <2> QED BY <1>3
<1>5. ASSUME NEW j \in Nat \ {0}, j <= q * b
      PROVE  /\ ((j - 1) \div b) + 1 \in 1..q
             /\ ((j - 1) % b) + 1 \in 1..b
             /\ ((((j - 1) \div b) + 1) - 1) * b + (((j - 1) % b) + 1) = j
  <2> DEFINE s == (j - 1) \div b
             r == (j - 1) % b
  <2>1. j - 1 \in Nat /\ j - 1 \in Int
    OBVIOUS
  <2>2. s \in Nat /\ r \in 0..b - 1 /\ j - 1 = b * s + r
    BY <2>1, Division, DivisionNonNegative
  <2> HIDE DEF s, r, q
  <2>3. s < q
    <3> SUFFICES ASSUME s >= q PROVE FALSE
      BY <2>2, <1>2
    <3>1. b * s >= b * q
      BY <2>2, <1>2
    <3>2. b * q = q * b /\ b * s \in Nat /\ b * q \in Nat
      BY <2>2, <1>2
    <3> QED BY <3>1, <3>2, <2>2, <1>5
  <2>4. s + 1 \in 1..q /\ r + 1 \in 1..b /\ ((s + 1) - 1) * b + (r + 1) = j
    <3>1. ((s + 1) - 1) * b = b * s
      BY <2>2
    <3>2. b * s \in Nat
      BY <2>2
    <3> QED BY <2>2, <2>3, <1>2, <3>1, <3>2
  <2> QED BY <2>4 DEF s, r
<1> QED BY <1>2, <1>3, <1>4, <1>5

\* The value of bit i of bits, none where they have ended.
Weight(bits, i) == IF i <= Len(bits) /\ bits[i] THEN 1 ELSE 0

\* The k-th bit of the i-th packed byte is bit (i - 1) * Bit + k of the mask,
\* zero past its end.
LEMMA PackByte ==
  ASSUME NEW bits \in Seq(BOOLEAN), NEW i \in 1..Len(Pack(bits)),
         Len(Pack(bits)) \in Nat
  PROVE  /\ Pack(bits)[i] \in Bytes
         /\ \A k \in 1..Bit : Digit(2, Pack(bits)[i], k) = Weight(bits, (i - 1) * Bit + k)
<1> DEFINE digits == [k \in 1..Bit |-> Weight(bits, (i - 1) * Bit + k)]
<1>1. Len(Pack(bits)) = (Len(bits) + Bit - 1) \div Bit
  <2>1. (Len(bits) + Bit - 1) \div Bit \in Nat
    BY Widths, BitPlace
  <2> QED BY <2>1 DEF Pack
<1>2. Pack(bits)[i] = FromDigits(2, digits)
  <2>1. i \in 1..((Len(bits) + Bit - 1) \div Bit)
    BY <1>1
  <2> QED BY <2>1 DEF Pack, Weight
<1>3. Len(digits) = Bit /\ \A k \in 1..Bit : digits[k] \in 0..2 - 1
  BY Widths DEF Weight
<1>4. \A k \in 1..Bit : digits[k] = Weight(bits, (i - 1) * Bit + k)
  OBVIOUS
<1> HIDE DEF digits
<1>5. /\ FromDigits(2, digits) \in 0..Power(2, Len(digits)) - 1
      /\ \A k \in 1..Len(digits) : Digit(2, FromDigits(2, digits), k) = digits[k]
  <2>1. 2 \in Nat \ {0} /\ Len(digits) \in Nat
    BY <1>3, Widths
  <2>2. \A k \in 1..Len(digits) : digits[k] \in 0..2 - 1
    BY <1>3
  <2> QED BY <2>1, <2>2, DigitsOfNumber
<1>6. FromDigits(2, digits) \in Bytes
  BY <1>3, <1>5 DEF Bytes, Byte
<1> QED BY <1>2, <1>3, <1>4, <1>5, <1>6

\* The bits of a buffer come back, followed by zeros to the end of a byte.
LEMMA PackUnpack ==
  ASSUME NEW bits \in Seq(BOOLEAN)
  PROVE  /\ Pack(bits) \in Seq(Bytes)
         /\ bits # <<>> => Pack(bits) # <<>>
         /\ Unpack(Pack(bits)) \in Seq(BOOLEAN)
         /\ Len(Unpack(Pack(bits))) = Bit * Len(Pack(bits))
         /\ Len(bits) <= Bit * Len(Pack(bits))
         /\ \A j \in 1..Len(Unpack(Pack(bits))) :
              Unpack(Pack(bits))[j] = (j <= Len(bits) /\ bits[j])
<1> DEFINE q == (Len(bits) + Bit - 1) \div Bit
           bytes == Pack(bits)
<1>1. q \in Nat /\ Len(bits) <= q * Bit /\ (Len(bits) # 0 => q # 0)
  BY Widths, BitPlace
<1>2. Len(bytes) = q
  BY <1>1 DEF Pack
<1>3. \A j \in Nat \ {0} : j <= q * Bit =>
        /\ ((j - 1) \div Bit) + 1 \in 1..q
        /\ ((j - 1) % Bit) + 1 \in 1..Bit
        /\ ((((j - 1) \div Bit) + 1) - 1) * Bit + (((j - 1) % Bit) + 1) = j
  <2>1. Bit \in Nat \ {0} /\ Len(bits) \in Nat
    BY Widths
  <2> QED BY <2>1, BitPlace
<1>4. \A i \in 1..q : /\ bytes[i] \in Bytes
                      /\ \A k \in 1..Bit : Digit(2, bytes[i], k) = Weight(bits, (i - 1) * Bit + k)
  BY <1>1, <1>2, PackByte
<1>5. bytes \in Seq(Bytes)
  <2>1. bytes = [i \in 1..q |-> bytes[i]]
    BY DEF Pack
  <2> HIDE DEF bytes, q
  <2> QED BY <2>1, <1>1, <1>4
<1> HIDE DEF q
<1> DEFINE out == Unpack(bytes)
<1>6. q * Bit \in Nat /\ q * Bit = Bit * q
  BY <1>1, Widths
<1>7. out = [j \in 1..q * Bit |-> Digit(2, bytes[((j - 1) \div Bit) + 1], ((j - 1) % Bit) + 1) = 1]
  <2> HIDE DEF bytes
  <2> QED BY <1>2 DEF Unpack
<1>8. \A j \in 1..q * Bit : out[j] = (j <= Len(bits) /\ bits[j])
  <2> TAKE j \in 1..q * Bit
  <2> DEFINE i == ((j - 1) \div Bit) + 1
             k == ((j - 1) % Bit) + 1
  <2>1. i \in 1..q /\ k \in 1..Bit /\ (i - 1) * Bit + k = j
    BY <1>3, <1>6
  <2>2. out[j] = (Digit(2, bytes[i], k) = 1)
    <3> HIDE DEF bytes
    <3> QED BY <1>7
  <2> HIDE DEF i, k, bytes, out
  <2>3. Digit(2, bytes[i], k) = Weight(bits, j)
    BY <1>4, <2>1
  <2>4. (Weight(bits, j) = 1) = (j <= Len(bits) /\ bits[j])
    BY <1>6 DEF Weight
  <2> QED BY <2>2, <2>3, <2>4
<1>9. out \in Seq(BOOLEAN) /\ Len(out) = q * Bit
  <2>1. \A j \in 1..q * Bit : out[j] \in BOOLEAN
    <3> HIDE DEF out
    <3> QED BY <1>8
  <2>2. out = [j \in 1..q * Bit |-> out[j]]
    <3> HIDE DEF bytes
    <3> QED BY <1>7
  <2> HIDE DEF out
  <2> QED BY <1>6, <2>1, <2>2
<1>10. bits # <<>> => bytes # <<>>
  <2>1. bits # <<>> => Len(bits) # 0
    OBVIOUS
  <2>2. bytes # <<>>  \/ Len(bytes) = 0
    OBVIOUS
  <2> QED BY <2>1, <2>2, <1>1, <1>2
<1> HIDE DEF bytes, out
<1> QED BY <1>1, <1>2, <1>5, <1>6, <1>8, <1>9, <1>10 DEF bytes, out

----------------------------------------------------------------------------
(* Parts of a sequence                                                     *)

\* The first n parts, one after the other, and how many items they have.
Prefix(parts, n) == Concat(SubSeq(parts, 1, n))
Before(parts, n) == Len(Prefix(parts, n))

\* Nothing flattens to nothing.
LEMMA ConcatEmpty == Concat(<<>>) = <<>>
<1>1. Len(<<>>) = 0
  OBVIOUS
<1>2. Len(<<>>) \in Nat
  OBVIOUS
<1>3. \E f : Concat(<<>>) = f[Len(<<>>)] /\ f[0] = <<>>
  BY <1>2, ConcatEquation
<1> QED BY <1>1, <1>3

\* The whole of some parts flattens to their Concat.
LEMMA PrefixWhole ==
  ASSUME NEW S, NEW parts \in Seq(S)
  PROVE  Prefix(parts, Len(parts)) = Concat(parts)
<1>1. SubSeq(parts, 1, Len(parts)) = parts
  OBVIOUS
<1> QED BY <1>1 DEF Prefix

\* No parts flatten to nothing.
LEMMA PrefixZero == ASSUME NEW S, NEW parts \in Seq(S) PROVE Prefix(parts, 0) = <<>>
<1>1. SubSeq(parts, 1, 0) = <<>>
  OBVIOUS
<1> QED BY <1>1, ConcatEmpty DEF Prefix

\* One part more is put at the end.
LEMMA PrefixNext ==
  ASSUME NEW S, NEW parts \in Seq(S), NEW n \in 1..Len(parts)
  PROVE  Prefix(parts, n) = Prefix(parts, n - 1) \o parts[n]
<1> DEFINE a == SubSeq(parts, 1, n)
           b == SubSeq(parts, 1, n - 1)
<1>1. Len(a) = n /\ Len(b) = n - 1 /\ n - 1 \in Nat /\ n \in Nat
  OBVIOUS
<1>2. a[n] = parts[n] /\ \A k \in 1..n - 1 : a[k] = parts[k] /\ b[k] = parts[k]
  OBVIOUS
<1> HIDE DEF a, b
<1>3. PICK f : /\ Concat(a) = f[Len(a)] /\ f[0] = <<>>
               /\ \A k \in 1..Len(a) : f[k] = f[k - 1] \o a[k]
  <2>1. Len(a) \in Nat
    BY <1>1
  <2> QED BY <2>1, ConcatEquation
<1>4. PICK g : /\ Concat(b) = g[Len(b)] /\ g[0] = <<>>
               /\ \A k \in 1..Len(b) : g[k] = g[k - 1] \o b[k]
  <2>1. Len(b) \in Nat
    BY <1>1
  <2> QED BY <2>1, ConcatEquation
<1>5. f[n - 1] = g[n - 1]
  <2>1. f[0] = g[0]
    BY <1>3, <1>4
  <2>2. \A k \in 1..n - 1 : f[k - 1] = g[k - 1] => f[k] = g[k]
    <3> TAKE k \in 1..n - 1
    <3>1. k \in 1..Len(a) /\ k \in 1..Len(b) /\ a[k] = b[k]
      BY <1>1, <1>2
    <3>2. f[k] = f[k - 1] \o a[k] /\ g[k] = g[k - 1] \o b[k]
      BY <3>1, <1>3, <1>4, Zenon
    <3> QED BY <3>1, <3>2, Zenon
  <2> QED BY <1>1, <2>1, <2>2, Agree
<1>6. f[n] = f[n - 1] \o a[n]
  <2>1. n \in 1..Len(a)
    BY <1>1
  <2> QED BY <2>1, <1>3, Zenon
<1>7. Concat(a) = Concat(b) \o parts[n]
  BY <1>1, <1>2, <1>3, <1>4, <1>5, <1>6
<1> QED BY <1>7 DEF Prefix, a, b

\* Sequences of sequences flatten to sequences of the same elements.
LEMMA PrefixType ==
  ASSUME NEW S, NEW parts \in Seq(Seq(S))
  PROVE  /\ Concat(parts) \in Seq(S)
         /\ \A n \in 0..Len(parts) : Prefix(parts, n) \in Seq(S)
<1> DEFINE T == {n \in 0..Len(parts) : Prefix(parts, n) \in Seq(S)}
<1>1. Len(parts) \in Nat
  OBVIOUS
<1>2. 0 \in T
  <2>1. Prefix(parts, 0) = <<>>
    BY PrefixZero
  <2>2. <<>> \in Seq(S) /\ 0 \in 0..Len(parts)
    BY <1>1
  <2> QED BY <2>1, <2>2
<1>3. ASSUME NEW n \in 1..Len(parts), n - 1 \in T PROVE n \in T
  <2>1. Prefix(parts, n) = Prefix(parts, n - 1) \o parts[n]
    BY PrefixNext
  <2>2. parts[n] \in Seq(S) /\ Prefix(parts, n - 1) \in Seq(S)
    BY <1>3
  <2>3. Prefix(parts, n) \in Seq(S)
    BY <2>1, <2>2
  <2> QED BY <2>3
<1>4. 0..Len(parts) \subseteq T
  <2> HIDE DEF T
  <2> QED BY <1>1, <1>2, <1>3, BoundedInduction
<1>5. Len(parts) \in T
  BY <1>1, <1>4
<1> QED BY <1>4, <1>5, PrefixWhole

\* What is before the next part is longer by this part: the offsets that push
\* adds up.
LEMMA BeforeNext ==
  ASSUME NEW S, NEW parts \in Seq(Seq(S)), NEW n \in 1..Len(parts)
  PROVE  /\ Before(parts, n - 1) \in Nat
         /\ Len(parts[n]) \in Nat
         /\ Before(parts, n) = Before(parts, n - 1) + Len(parts[n])
<1>1. Prefix(parts, n) = Prefix(parts, n - 1) \o parts[n]
  BY PrefixNext
<1>2. n - 1 \in 0..Len(parts) /\ parts[n] \in Seq(S)
  OBVIOUS
<1>3. Prefix(parts, n - 1) \in Seq(S)
  BY <1>2, PrefixType
<1> QED BY <1>1, <1>2, <1>3 DEF Before

\* Pure facts about sequences.
LEMMA CutFirst ==
  ASSUME NEW S, NEW x \in Seq(S), NEW y \in Seq(S)
  PROVE  /\ x \o y \in Seq(S) /\ Len(x \o y) = Len(x) + Len(y)
         /\ SubSeq(x \o y, 1, Len(x)) = x
         /\ SubSeq(x \o y, Len(x) + 1, Len(x \o y)) = y
         /\ SubSeq(x \o y, Len(x) + 1, Len(x) + Len(y)) = y
OBVIOUS

\* A slice is the same in a longer sequence.
LEMMA CutLonger ==
  ASSUME NEW S, NEW x \in Seq(S), NEW y \in Seq(S), NEW m \in Nat, NEW n \in Nat,
         n <= Len(x)
  PROVE  SubSeq(x \o y, m + 1, n) = SubSeq(x, m + 1, n)
OBVIOUS

\* Each part is where it is said to be, among all of them.
LEMMA ConcatSlice ==
  ASSUME NEW S, NEW parts \in Seq(Seq(S))
  PROVE  /\ Before(parts, 0) = 0
         /\ \A n \in 0..Len(parts) : Before(parts, n) \in 0..Len(Concat(parts))
         /\ \A m \in 1..Len(parts) :
              SubSeq(Concat(parts), Before(parts, m - 1) + 1, Before(parts, m)) = parts[m]
<1> DEFINE Cut(n) ==
             /\ \A m \in 0..n : Before(parts, m) \in 0..Before(parts, n)
             /\ \A m \in 1..n : SubSeq(Prefix(parts, n), Before(parts, m - 1) + 1,
                                        Before(parts, m)) = parts[m]
           T == {n \in 0..Len(parts) : Cut(n)}
<1>1. Len(parts) \in Nat
  OBVIOUS
<1>2. Before(parts, 0) = 0
  <2>1. Prefix(parts, 0) = <<>>
    BY PrefixZero
  <2> QED BY <2>1 DEF Before
<1>3. 0 \in T
  <2>1. Cut(0)
    BY <1>2
  <2> HIDE DEF Cut
  <2> QED BY <1>1, <2>1
<1>4. ASSUME NEW n \in 1..Len(parts), n - 1 \in T PROVE n \in T
  <2> DEFINE x == Prefix(parts, n - 1)
             y == parts[n]
  <2>1. x \in Seq(S) /\ y \in Seq(S) /\ n - 1 \in 0..Len(parts)
    BY PrefixType
  <2>2. Prefix(parts, n) = x \o y
    BY PrefixNext
  <2>3. Before(parts, n - 1) = Len(x) /\ Before(parts, n) = Len(x) + Len(y)
        /\ Len(x) \in Nat /\ Len(y) \in Nat
    BY <2>1, BeforeNext DEF Before
  <2> HIDE DEF x, y
  <2>4. ASSUME NEW m \in 0..n PROVE Before(parts, m) \in 0..Before(parts, n)
    <3>1. CASE m = n
      BY <3>1, <2>3
    <3>2. CASE m # n
      <4>1. m \in 0..n - 1
        BY <3>2
      <4> QED BY <4>1, <1>4, <2>3
    <3> QED BY <3>1, <3>2
  <2>5. ASSUME NEW m \in 1..n
        PROVE  SubSeq(Prefix(parts, n), Before(parts, m - 1) + 1, Before(parts, m)) = parts[m]
    <3>1. CASE m = n
      <4>1. SubSeq(x \o y, Len(x) + 1, Len(x) + Len(y)) = y
        BY <2>1, CutFirst
      <4> QED BY <4>1, <3>1, <2>2, <2>3 DEF y
    <3>2. CASE m # n
      <4>1. m \in 1..n - 1 /\ m \in 0..n - 1 /\ m - 1 \in 0..n - 1
        BY <3>2
      <4>2. Before(parts, m) \in 0..Len(x) /\ Before(parts, m - 1) \in 0..Len(x)
        BY <4>1, <1>4, <2>3
      <4>3. SubSeq(x \o y, Before(parts, m - 1) + 1, Before(parts, m))
              = SubSeq(x, Before(parts, m - 1) + 1, Before(parts, m))
        <5>1. Before(parts, m - 1) \in Nat /\ Before(parts, m) \in Nat /\ Before(parts, m) <= Len(x)
          BY <4>2, <2>3
        <5> QED BY <5>1, <2>1, CutLonger, Zenon
      <4>4. SubSeq(x, Before(parts, m - 1) + 1, Before(parts, m)) = parts[m]
        BY <4>1, <1>4 DEF x
      <4> QED BY <4>3, <4>4, <2>2
    <3> QED BY <3>1, <3>2
  <2>6. Cut(n)
    BY <2>4, <2>5
  <2> HIDE DEF Cut
  <2> QED BY <2>6
<1>5. 0..Len(parts) \subseteq T
  <2> HIDE DEF T
  <2> QED BY <1>1, <1>3, <1>4, BoundedInduction
<1>6. Cut(Len(parts))
  <2> HIDE DEF Cut
  <2> QED BY <1>1, <1>5
<1>7. Prefix(parts, Len(parts)) = Concat(parts) /\ Before(parts, Len(parts)) = Len(Concat(parts))
  BY PrefixWhole DEF Before
<1> QED BY <1>2, <1>6, <1>7

----------------------------------------------------------------------------
(* Sub-buffers behind their sizes                                          *)

\* Parts of one width.
LEMMA EqualParts ==
  ASSUME NEW S, NEW parts \in Seq(Seq(S)), NEW w \in Nat,
         \A n \in 1..Len(parts) : Len(parts[n]) = w
  PROVE  /\ Len(Concat(parts)) = Len(parts) * w
         /\ \A n \in 1..Len(parts) :
              SubSeq(Concat(parts), (n - 1) * w + 1, n * w) = parts[n]
<1> DEFINE T == {n \in 0..Len(parts) : Before(parts, n) = n * w}
<1>1. Len(parts) \in Nat
  OBVIOUS
<1>2. 0 \in T
  <2>1. Before(parts, 0) = 0
    BY ConcatSlice
  <2> QED BY <1>1, <2>1
<1>3. ASSUME NEW n \in 1..Len(parts), n - 1 \in T PROVE n \in T
  <2>1. Before(parts, n) = Before(parts, n - 1) + Len(parts[n])
    BY BeforeNext
  <2>2. (n - 1) * w + w = n * w
    OBVIOUS
  <2> QED BY <2>1, <2>2, <1>3
<1>4. 0..Len(parts) \subseteq T
  <2> HIDE DEF T
  <2> QED BY <1>1, <1>2, <1>3, BoundedInduction
<1>5. Before(parts, Len(parts)) = Len(Concat(parts))
  BY PrefixWhole DEF Before
<1>6. \A n \in 1..Len(parts) : Before(parts, n - 1) = (n - 1) * w /\ Before(parts, n) = n * w
  <2> TAKE n \in 1..Len(parts)
  <2>1. n - 1 \in 0..Len(parts) /\ n \in 0..Len(parts)
    BY <1>1
  <2>2. n - 1 \in T /\ n \in T
    <3> HIDE DEF T
    <3> QED BY <1>4, <2>1
  <2> QED BY <2>2
<1>7. \A n \in 1..Len(parts) :
         SubSeq(Concat(parts), Before(parts, n - 1) + 1, Before(parts, n)) = parts[n]
  BY ConcatSlice
<1>8. Before(parts, Len(parts)) = Len(parts) * w
  <2>1. Len(parts) \in T
    <3> HIDE DEF T
    <3> QED BY <1>1, <1>4
  <2> QED BY <2>1
<1>9. \A n \in 1..Len(parts) : SubSeq(Concat(parts), (n - 1) * w + 1, n * w) = parts[n]
  <2> TAKE n \in 1..Len(parts)
  <2> QED BY <1>6, <1>7, Zenon
<1> QED BY <1>5, <1>8, <1>9

----------------------------------------------------------------------------
(* Sub-buffers *)

\* Padding to the next word is shorter than a word, and the padded size is a
\* multiple of it.
LEMMA PadType ==
  ASSUME NEW n \in Nat
  PROVE  /\ Pad(n) \in Nat /\ Pad(n) < Word /\ Align(n) \in Nat /\ Align(n) = n + Pad(n)
         /\ Align(n) % Word = 0
<1>1. Word \in Nat \ {0}
  BY Widths
<1>2. n % Word \in 0..Word - 1 /\ n = Word * (n \div Word) + (n % Word) /\ n \div Word \in Int
  BY <1>1, Division
<1>3. CASE n % Word = 0
  <2>1. (Word - 0) = Word * 1 + 0 /\ 0 \in 0..Word - 1 /\ 1 \in Int
    BY <1>1
  <2>2. (Word - 0) % Word = 0
    BY <2>1, <1>1, DivisionUnique
  <2>3. Pad(n) = 0
    BY <2>2, <1>3 DEF Pad
  <2> QED BY <2>3, <1>3, <1>1 DEF Align
<1>4. CASE n % Word # 0
  <2>1. Word - (n % Word) \in 0..Word - 1
    BY <1>1, <1>2, <1>4
  <2>2. Pad(n) = Word - (n % Word)
    BY <2>1, <1>1, Small DEF Pad
  <2>3. Align(n) = Word * (n \div Word + 1) + 0 /\ Align(n) \in Nat
    <3> DEFINE q == n \div Word
               r == n % Word
    <3>1. n = Word * q + r /\ r \in 0..Word - 1 /\ q \in Int
      BY <1>2
    <3>2. Align(n) = n + (Word - r)
      BY <2>2 DEF Align
    <3> HIDE DEF q, r
    <3>3. Word * (q + 1) = Word * q + Word
      BY <3>1, <1>1
    <3>4. Word * q \in Int
      BY <3>1, <1>1
    <3>5. Align(n) = Word * (q + 1) + 0 /\ Align(n) \in Nat
      BY <3>1, <3>2, <3>3, <3>4, <1>1
    <3> QED BY <3>5 DEF q
  <2>4. n \div Word + 1 \in Int /\ 0 \in 0..Word - 1
    BY <1>2, <1>1
  <2>5. Align(n) % Word = 0
    BY <2>3, <2>4, <1>1, DivisionUnique
  <2> QED BY <2>1, <2>2, <2>3, <2>5, <1>1 DEF Align
<1> QED BY <1>3, <1>4

\* Padding is made of bytes.
LEMMA ZerosType ==
  ASSUME NEW n \in Nat
  PROVE  Zeros(n) \in Seq(Bytes) /\ Len(Zeros(n)) = n
<1>1. 0 \in Bytes
  BY ByteType DEF Bytes
<1> QED BY <1>1 DEF Zeros

\* A sub-buffer is a prefix, its bytes and their padding.
LEMMA SizedBufType ==
  ASSUME NEW bytes \in Seq(Bytes)
  PROVE  /\ SizedBuf(bytes) \in Seq(Bytes)
         /\ Len(SizedBuf(bytes)) = Word + Align(Len(bytes))
<1>1. Len(bytes) \in Nat /\ Len(bytes) \in Int
  OBVIOUS
<1>2. Pad(Len(bytes)) \in Nat /\ Align(Len(bytes)) = Len(bytes) + Pad(Len(bytes))
  BY <1>1, PadType
<1>3. /\ ToBytes(Len(bytes), Word) \in Seq(Bytes) /\ Len(ToBytes(Len(bytes), Word)) = Word
      /\ Zeros(Pad(Len(bytes))) \in Seq(Bytes) /\ Len(Zeros(Pad(Len(bytes)))) = Pad(Len(bytes))
  BY <1>1, <1>2, Widths, ToBytesType, ZerosType
<1> DEFINE x == ToBytes(Len(bytes), Word)
           y == Zeros(Pad(Len(bytes)))
<1>4. SizedBuf(bytes) = x \o bytes \o y
  BY DEF SizedBuf
<1> HIDE DEF x, y
<1>5. x \in Seq(Bytes) /\ Len(x) = Word /\ y \in Seq(Bytes) /\ Len(y) = Pad(Len(bytes))
  BY <1>3 DEF x, y
<1>6. x \o bytes \o y \in Seq(Bytes) /\ Len(x \o bytes \o y) = Len(x) + Len(bytes) + Len(y)
  BY <1>5
<1> QED BY <1>1, <1>2, <1>4, <1>5, <1>6, Widths

\* The parts of a sequence x y z r, and what is left of it after x.
Parts(x, y, z, r, src, data) ==
  /\ SubSeq(src, 1, Len(x)) = x
  /\ SubSeq(src, Len(x) + 1, Len(src)) = data
  /\ Len(src) = Len(x) + Len(data)
  /\ Len(data) = Len(y) + Len(z) + Len(r)
  /\ SubSeq(data, 1, Len(y)) = y
  /\ SubSeq(data, Len(y) + Len(z) + 1, Len(data)) = r

\* The parts of a sequence cut where each begins.
LEMMA CutThree ==
  ASSUME NEW S, NEW x \in Seq(S), NEW y \in Seq(S), NEW z \in Seq(S), NEW r \in Seq(S)
  PROVE  Parts(x, y, z, r, (x \o y \o z) \o r, (y \o z) \o r)
<1> DEFINE src == (x \o y \o z) \o r
           data == (y \o z) \o r
<1>1. SubSeq(src, Len(x) + 1, Len(src)) = data
  <2>1. src = x \o data
    BY SMTT(30)
  <2>2. data \in Seq(S)
    OBVIOUS
  <2> HIDE DEF data, src
  <2> QED BY <2>1, <2>2, CutFirst
<1>2. SubSeq(src, 1, Len(x)) = x
  OBVIOUS
<1>3. Len(src) = Len(x) + Len(data)
  OBVIOUS
<1>4. Len(data) = Len(y) + Len(z) + Len(r)
  OBVIOUS
<1>5. SubSeq(data, 1, Len(y)) = y
  OBVIOUS
<1>6. SubSeq(data, Len(y) + Len(z) + 1, Len(data)) = r
  OBVIOUS
<1> HIDE DEF src, data
<1>7. Parts(x, y, z, r, src, data)
  BY <1>1, <1>2, <1>3, <1>4, <1>5, <1>6 DEF Parts
<1> QED BY <1>7 DEF src, data

\* read_sized finds the bytes after their size, and the rest after their
\* padding.
LEMMA SizedOf ==
  ASSUME NEW x \in Seq(Bytes), NEW bytes \in Seq(Bytes), NEW z \in Seq(Bytes),
         NEW rest \in Seq(Bytes),
         Len(x) = Word, bytes # <<>>, FromBytes(x) = Len(bytes), Len(z) = Pad(Len(bytes))
  PROVE  Sized((x \o bytes \o z) \o rest) = Ok([data |-> bytes, rest |-> rest])
<1> DEFINE n == Len(bytes)
           src == (x \o bytes \o z) \o rest
           data == (bytes \o z) \o rest
<1>1. Parts(x, bytes, z, rest, src, data)
  BY CutThree, Zenon
<1>2. n \in Nat /\ n # 0 /\ Len(rest) \in Nat
  OBVIOUS
<1> HIDE DEF n
<1>3. Pad(n) \in Nat /\ Align(n) = n + Pad(n) /\ Len(z) = Pad(n)
  BY <1>2, PadType DEF n
<1> HIDE DEF src, data
<1>4. FromBytes(SubSeq(src, 1, Word)) = n /\ SubSeq(src, Word + 1, Len(src)) = data
  BY <1>1 DEF n, Parts
<1>5. Len(data) = Align(n) + Len(rest) /\ SubSeq(data, Align(n) + 1, Len(data)) = rest
      /\ SubSeq(data, 1, n) = bytes
  BY <1>1, <1>3 DEF Parts, n
<1>6. ~ (Len(src) < Word) /\ ~ (n = 0) /\ ~ (Align(n) > Len(data))
  <2>1. Len(src) = Word + Len(data)
    BY <1>1 DEF Parts
  <2> QED BY <2>1, <1>2, <1>3, <1>5, Widths
<1>7. Sized(src) = Ok([data |-> SubSeq(data, 1, n), rest |-> SubSeq(data, Align(n) + 1, Len(data))])
  BY <1>4, <1>6 DEF Sized
<1> QED BY <1>5, <1>7 DEF src

\* It is read back, whatever comes after it.
LEMMA SizedReads ==
  ASSUME NEW bytes \in Seq(Bytes), bytes # <<>>, Len(bytes) < Limit(Word),
         NEW rest \in Seq(Bytes)
  PROVE  Sized(SizedBuf(bytes) \o rest) = Ok([data |-> bytes, rest |-> rest])
<1>1. Len(bytes) \in 0..Limit(Word) - 1
  <2>1. Len(bytes) \in Nat
    OBVIOUS
  <2>2. Limit(Word) \in Nat
    BY Widths, LimitType
  <2> QED BY <2>1, <2>2
<1>2. Len(bytes) \in Nat /\ Len(bytes) \in Int /\ Pad(Len(bytes)) \in Nat
  BY PadType
<1>3. ToBytes(Len(bytes), Word) \in Seq(Bytes) /\ Len(ToBytes(Len(bytes), Word)) = Word
      /\ Zeros(Pad(Len(bytes))) \in Seq(Bytes) /\ Len(Zeros(Pad(Len(bytes)))) = Pad(Len(bytes))
  BY <1>2, Widths, ToBytesType, ZerosType
<1>4. FromBytes(ToBytes(Len(bytes), Word)) = Len(bytes)
  BY <1>1, Widths, FromBytesSmall
<1>5. SizedBuf(bytes) \o rest
        = (ToBytes(Len(bytes), Word) \o bytes \o Zeros(Pad(Len(bytes)))) \o rest
  BY DEF SizedBuf
<1>6. Sized((ToBytes(Len(bytes), Word) \o bytes \o Zeros(Pad(Len(bytes)))) \o rest)
        = Ok([data |-> bytes, rest |-> rest])
  BY <1>3, <1>4, SizedOf
<1> QED BY <1>5, <1>6

\* read_sized reports an error where the source is exhausted.
LEMMA SizedOfNothing == ~ Sized(<<>>).ok
<1>1. Len(<<>>) < Word
  BY Widths
<1> QED BY <1>1 DEF Sized, Err

\* Both sub-buffers come back, the second also when it was left out.
LEMMA HalvesReads ==
  ASSUME NEW first \in Seq(Bytes), first # <<>>, Len(first) < Limit(Word),
         NEW second \in Seq(Bytes), Len(second) < Limit(Word)
  PROVE  Halves(Compound(first, second)) = Ok(<<first, second>>)
<1>1. SizedBuf(first) \in Seq(Bytes) /\ SizedBuf(second) \in Seq(Bytes)
  BY SizedBufType
<1>2. CASE second = <<>>
  <2>1. Compound(first, second) = SizedBuf(first) \o <<>>
    BY <1>1, <1>2 DEF Compound
  <2>2. Sized(Compound(first, second)) = Ok([data |-> first, rest |-> <<>>])
    <3>1. <<>> \in Seq(Bytes)
      OBVIOUS
    <3> QED BY <2>1, <3>1, SizedReads
  <2>3. /\ Sized(Compound(first, second)).ok
        /\ Sized(Compound(first, second)).it.data = first
        /\ Sized(Compound(first, second)).it.rest = <<>>
    BY <2>2 DEF Ok
  <2> QED BY <2>3, <1>2 DEF Halves
<1>3. CASE second # <<>>
  <2>1. Compound(first, second) = SizedBuf(first) \o SizedBuf(second)
    BY <1>3 DEF Compound
  <2>2. Sized(Compound(first, second)) = Ok([data |-> first, rest |-> SizedBuf(second)])
    BY <2>1, <1>1, SizedReads
  <2>3. SizedBuf(second) = SizedBuf(second) \o <<>>
    BY <1>1
  <2>4. Sized(SizedBuf(second)) = Ok([data |-> second, rest |-> <<>>])
    <3>1. <<>> \in Seq(Bytes)
      OBVIOUS
    <3> QED BY <2>3, <3>1, <1>3, SizedReads
  <2>5. SizedBuf(second) # <<>>
    <3>1. Len(SizedBuf(second)) = Word + Align(Len(second)) /\ Align(Len(second)) \in Nat
      BY SizedBufType, PadType
    <3> QED BY <3>1, Widths
  <2>6. /\ Sized(Compound(first, second)).ok
        /\ Sized(Compound(first, second)).it.data = first
        /\ Sized(Compound(first, second)).it.rest = SizedBuf(second)
    BY <2>2 DEF Ok
  <2>7. /\ Sized(SizedBuf(second)).ok
        /\ Sized(SizedBuf(second)).it.data = second
    BY <2>4 DEF Ok
  <2> QED BY <2>5, <2>6, <2>7 DEF Halves
<1> QED BY <1>2, <1>3

----------------------------------------------------------------------------
(* Types                                                                   *)

\* The fold that defines the types to a depth, as a function by recursion.
LEMMA TypesEquation ==
  ASSUME NEW N \in Nat
  PROVE  \E f : /\ TypesTo(N) = f[N]
                /\ f[0] = Primitives
                /\ \A n \in 1..N : f[n] = Around(f[n - 1])
<1> DEFINE Eq(m, g) ==
      g = [n \in 0..m |-> IF n = 0 THEN Primitives ELSE Around(g[n - 1])]
           T == {m \in Nat : \E g : Eq(m, g)}
<1>1. 0 \in T
  <2>1. Eq(0, [n \in 0..0 |-> Primitives])
    OBVIOUS
  <2>2. \E g : Eq(0, g)
    <3> HIDE DEF Eq
    <3> QED BY <2>1
  <2> HIDE DEF Eq
  <2> QED BY <2>2
<1>2. ASSUME NEW m \in Nat, m \in T PROVE m + 1 \in T
  <2>1. PICK g : Eq(m, g)
    BY <1>2
  <2> DEFINE h == [n \in 0..(m + 1) |-> IF n = 0 THEN Primitives ELSE Around(g[n - 1])]
  <2>2. \A n \in 0..m : h[n] = g[n]
    BY <2>1
  <2>3. \A n \in 0..(m + 1) : n # 0 => h[n - 1] = g[n - 1]
    <3> TAKE n \in 0..(m + 1)
    <3> HAVE n # 0
    <3>1. n - 1 \in 0..m
      OBVIOUS
    <3> HIDE DEF h
    <3> QED BY <2>2, <3>1
  <2>4. \A n \in 0..(m + 1) : h[n] = IF n = 0 THEN Primitives ELSE Around(h[n - 1])
    <3> TAKE n \in 0..(m + 1)
    <3>1. h[n] = IF n = 0 THEN Primitives ELSE Around(g[n - 1])
      OBVIOUS
    <3> HIDE DEF h
    <3> QED BY <3>1, <2>3
  <2>5. h = [n \in 0..(m + 1) |-> h[n]]
    OBVIOUS
  <2>6. Eq(m + 1, h)
    <3> HIDE DEF h
    <3> QED BY <2>4, <2>5
  <2> HIDE DEF h, Eq
  <2>7. \E k : Eq(m + 1, k)
    BY <2>6
  <2> QED BY <2>7
<1>3. Nat \subseteq T
  <2> HIDE DEF T
  <2> QED BY <1>1, <1>2, Induction
<1> DEFINE f == CHOOSE g : Eq(N, g)
<1>4. Eq(N, f)
  <2> HIDE DEF Eq
  <2> QED BY <1>3
<1>5. TypesTo(N) = f[N]
  BY DEF TypesTo
<1> HIDE DEF f
<1>6. f[0] = Primitives
  BY <1>4
<1>7. \A n \in 1..N : f[n] = Around(f[n - 1])
  BY <1>4
<1> QED BY <1>5, <1>6, <1>7

\* The types of depth zero are the primitives.
LEMMA TypesZero == TypesTo(0) = Primitives
BY TypesEquation

\* The types one deeper are those around the ones of this depth.
LEMMA TypesNext ==
  ASSUME NEW n \in Nat
  PROVE  TypesTo(n + 1) = Around(TypesTo(n))
<1>1. PICK f : /\ TypesTo(n + 1) = f[n + 1] /\ f[0] = Primitives
               /\ \A k \in 1..n + 1 : f[k] = Around(f[k - 1])
  <2>1. n + 1 \in Nat
    OBVIOUS
  <2> QED BY <2>1, TypesEquation
<1>2. PICK g : /\ TypesTo(n) = g[n] /\ g[0] = Primitives
               /\ \A k \in 1..n : g[k] = Around(g[k - 1])
  BY TypesEquation
<1>3. f[n] = g[n]
  <2>1. \A k \in 1..n : f[k - 1] = g[k - 1] => f[k] = g[k]
    <3> TAKE k \in 1..n
    <3>1. k \in 1..n + 1
      OBVIOUS
    <3>2. f[k] = Around(f[k - 1]) /\ g[k] = Around(g[k - 1])
      BY <1>1, <1>2, <3>1
    <3> QED BY <3>2
  <2>2. f[0] = g[0]
    BY <1>1, <1>2
  <2> QED BY <2>1, <2>2, Agree
<1>4. f[n + 1] = Around(f[n])
  <2>1. n + 1 \in 1..n + 1 /\ (n + 1) - 1 = n
    OBVIOUS
  <2> QED BY <1>1, <2>1
<1> QED BY <1>1, <1>2, <1>3, <1>4

\* A type of some depth is one of any greater depth.
LEMMA TypesGrow ==
  ASSUME NEW n \in Nat
  PROVE  TypesTo(n) \subseteq TypesTo(n + 1) /\ Primitives \subseteq TypesTo(n)
<1>1. \A k \in Nat : TypesTo(k) \subseteq TypesTo(k + 1)
  BY TypesNext DEF Around
<1> DEFINE T == {k \in Nat : Primitives \subseteq TypesTo(k)}
<1>2. 0 \in T
  BY TypesZero
<1>3. \A k \in Nat : k \in T => k + 1 \in T
  BY <1>1
<1>4. Nat \subseteq T
  <2> HIDE DEF T
  <2> QED BY <1>2, <1>3, Induction
<1> QED BY <1>1, <1>4

\* A type is a primitive one, or a string, or it has a subtype.
Simple == NumberTypes \cup {Bool, Char}
Composite(t) == t.type \in {"Option", "Sequence"}

\* A primitive type has no subtype.
LEMMA PrimitiveTypes ==
  ASSUME NEW t \in Primitives
  PROVE  t \in Simple /\ ~ Composite(t) /\ t.type # "String"
BY PrimitivesAssumption DEF Simple, NumberTypes, Bool, Char, Composite

\* How a type looks that has no more than n + 1 options and sequences.
Shape(t, n) ==
  \/ t \in TypesTo(n)
  \/ t = String
  \/ t.type \in {"Option", "Sequence"} /\ t.subtype \in TypesTo(n)
     /\ (t.type = "Option" => t = Option(t.subtype))
     /\ (t.type = "Sequence" => t = Vec(t.subtype))

\* A type is a primitive, or an option or a sequence of a shallower type.
LEMMA TypeShape ==
  ASSUME NEW n \in Nat, NEW t \in TypesTo(n + 1)
  PROVE  Shape(t, n)
<1>1. t \in Around(TypesTo(n))
  BY TypesNext
<1>2. CASE t \in TypesTo(n) \cup {String}
  BY <1>2 DEF Shape
<1>3. CASE \E s \in TypesTo(n) : t = Option(s)
  BY <1>3 DEF Shape, Option
<1>4. CASE \E s \in TypesTo(n) : t = Vec(s)
  BY <1>4 DEF Shape, Vec
<1> QED BY <1>1, <1>2, <1>3, <1>4 DEF Around

\* The subtype of a type is less deep, by induction on the depth.
LEMMA Subtypes ==
  ASSUME NEW n \in Nat, NEW t \in TypesTo(n + 1), Composite(t)
  PROVE  /\ t.subtype \in TypesTo(n)
         /\ t.type = "Option" => t = Option(t.subtype)
         /\ t.type = "Sequence" => t = Vec(t.subtype)
<1> DEFINE Good(k) == \A s \in TypesTo(k + 1) : Composite(s) =>
                        /\ s.subtype \in TypesTo(k)
                        /\ s.type = "Option" => s = Option(s.subtype)
                        /\ s.type = "Sequence" => s = Vec(s.subtype)
           T == {k \in Nat : Good(k)}
<1>1. 0 \in T
  <2>1. Good(0)
    <3> SUFFICES ASSUME NEW s \in TypesTo(0 + 1), Composite(s)
                 PROVE  /\ s.subtype \in TypesTo(0)
                        /\ s.type = "Option" => s = Option(s.subtype)
                        /\ s.type = "Sequence" => s = Vec(s.subtype)
      OBVIOUS
    <3>1. Shape(s, 0)
      BY TypeShape
    <3>2. s \notin TypesTo(0)
      BY TypesZero, PrimitiveTypes
    <3>3. s # String
      BY DEF String, Composite
    <3> QED BY <3>1, <3>2, <3>3 DEF Shape
  <2> HIDE DEF Good
  <2> QED BY <2>1
<1>2. ASSUME NEW k \in Nat, k \in T PROVE k + 1 \in T
  <2>1. ASSUME NEW s \in TypesTo((k + 1) + 1), Composite(s)
        PROVE  /\ s.subtype \in TypesTo(k + 1)
               /\ s.type = "Option" => s = Option(s.subtype)
               /\ s.type = "Sequence" => s = Vec(s.subtype)
    <3>1. Shape(s, k + 1)
      BY TypeShape
    <3>2. s # String
      BY <2>1 DEF String, Composite
    <3>3. CASE s \in TypesTo(k + 1)
      <4>1. s.subtype \in TypesTo(k) /\ (s.type = "Option" => s = Option(s.subtype))
            /\ (s.type = "Sequence" => s = Vec(s.subtype))
        BY <1>2, <2>1, <3>3
      <4>2. TypesTo(k) \subseteq TypesTo(k + 1)
        BY TypesGrow
      <4> QED BY <4>1, <4>2
    <3> QED BY <3>1, <3>2, <3>3 DEF Shape
  <2>2. Good(k + 1)
    BY <2>1
  <2> HIDE DEF Good
  <2> QED BY <2>2
<1>3. Nat \subseteq T
  <2> HIDE DEF T
  <2> QED BY <1>1, <1>2, Induction
<1>4. Good(n)
  <2> HIDE DEF Good
  <2> QED BY <1>3
<1> QED BY <1>4

\* A type without a subtype.
LEMMA OtherTypes ==
  ASSUME NEW n \in Nat, NEW t \in TypesTo(n), ~ Composite(t)
  PROVE  t \in Simple \cup {String}
<1> DEFINE T == {k \in Nat : \A s \in TypesTo(k) : ~ Composite(s) => s \in Simple \cup {String}}
<1>1. 0 \in T
  BY TypesZero, PrimitiveTypes
<1>2. ASSUME NEW k \in Nat, k \in T PROVE k + 1 \in T
  <2>1. ASSUME NEW s \in TypesTo(k + 1), ~ Composite(s) PROVE s \in Simple \cup {String}
    <3>1. Shape(s, k)
      BY TypeShape
    <3> QED BY <3>1, <2>1, <1>2 DEF Shape, Composite
  <2> QED BY <2>1
<1>3. Nat \subseteq T
  <2> HIDE DEF T
  <2> QED BY <1>1, <1>2, Induction
<1> QED BY <1>3

\* The bytes of a string are a type of any depth.
U8 == Number("UInt", 1)

\* The type of bytes is a primitive.
LEMMA U8Type == /\ U8 \in Primitives /\ U8.type = "Number"
                /\ \A n \in Nat : U8 \in TypesTo(n)
BY PrimitivesAssumption, TypesGrow DEF U8, Number

----------------------------------------------------------------------------
(* The recursive definitions                                               *)

\* Types of depth zero have no subtype.
LEMMA Depthless == \A t \in TypesTo(0) : ~ Composite(t) /\ t \in Simple
BY TypesZero, PrimitiveTypes

\* The type of a second sub-buffer is less deep.
LEMMA InnerTypes ==
  /\ \A t \in TypesTo(0) : ~ Nested(t) /\ Bare(t).type # "Sequence"
  /\ \A n \in Nat : \A t \in TypesTo(n + 1) :
       /\ Nested(t) => Inner(t) \in TypesTo(n)
       /\ Bare(t).type = "Sequence" => Element(t) \in TypesTo(n)
<1> USE DEF Nested, RawAcc, OptAcc, Fixed, Listed, Niche, NonZero, Bare
<1>1. ASSUME NEW t \in TypesTo(0) PROVE ~ Nested(t) /\ Bare(t).type # "Sequence"
  BY Depthless DEF Simple, NumberTypes, Bool, Char, Composite
<1>2. ASSUME NEW n \in Nat, NEW t \in TypesTo(n + 1)
      PROVE  /\ Nested(t) => Inner(t) \in TypesTo(n)
             /\ Bare(t).type = "Sequence" => Element(t) \in TypesTo(n)
  <2>0. n + 1 \in Nat
    OBVIOUS
  <2>1. CASE ~ Composite(t)
    <3>1. t \in Simple \cup {String}
      BY <2>0, <2>1, OtherTypes
    <3>2. U8 \in TypesTo(n)
      BY U8Type
    <3>3. CASE t \in Simple
      BY <3>3 DEF Simple, NumberTypes, Bool, Char
    <3>4. CASE t = String
      BY <3>4, <3>2 DEF String, Inner, Element, U8
    <3> QED BY <3>1, <3>3, <3>4
  <2>2. CASE t.type = "Sequence"
    <3>1. t.subtype \in TypesTo(n)
      BY <2>2, Subtypes DEF Composite
    <3>2. Inner(t) = t.subtype /\ Element(t) = t.subtype
      BY <2>2 DEF Inner, Element
    <3> QED BY <3>1, <3>2
  <2>3. CASE t.type = "Option"
    <3>1. t.subtype \in TypesTo(n)
      BY <2>3, Subtypes DEF Composite
    <3>2. Element(t) = IF t.subtype.type = "String" THEN U8 ELSE t.subtype.subtype
      BY <2>3 DEF Element, U8
    <3>3. t.subtype.type = "Sequence" => t.subtype.subtype \in TypesTo(n)
      <4> SUFFICES ASSUME t.subtype.type = "Sequence" PROVE t.subtype.subtype \in TypesTo(n)
        OBVIOUS
      <4>1. n # 0
        BY <3>1, Depthless DEF Composite
      <4>2. n - 1 \in Nat /\ (n - 1) + 1 = n
        BY <4>1
      <4>3. t.subtype.subtype \in TypesTo(n - 1)
        BY <3>1, <4>2, Subtypes DEF Composite
      <4> QED BY <4>2, <4>3, TypesGrow
    <3>4. U8 \in TypesTo(n)
      BY U8Type
    <3> QED BY <3>1, <3>2, <3>3, <3>4, <2>3 DEF Inner
  <2> QED BY <2>1, <2>2, <2>3 DEF Composite
<1> QED BY <1>1, <1>2

TypeNames == {"Number", "Bool", "Char", "String", "Option", "Sequence"}

\* A type is of one of the kinds that Type lists.
LEMMA NamedTypes == \A n \in Nat : \A t \in TypesTo(n) : t.type \in TypeNames
BY OtherTypes DEF Composite, Simple, NumberTypes, Bool, Char, String, TypeNames

UnfoldOf(f, t) ==
  CASE t.type = "Option" -> TypeOption(f[t.subtype])
    [] t.type = "Sequence" -> Vec(f[t.subtype])
    [] t.type \notin {"Option", "Sequence"} -> t

\* Unfolding a type asks no more of the function than its value at the
\* subtype.
LEMMA UnfoldSame ==
  ASSUME NEW f, NEW g, NEW t, Composite(t) => f[t.subtype] = g[t.subtype]
  PROVE  UnfoldOf(f, t) = UnfoldOf(g, t)
BY DEF UnfoldOf, Composite

ItemsOfOf(f, t) ==
  CASE t.type = "Option" -> Optional(f[t.subtype])
    [] t.type = "Sequence" -> Seq(f[t.subtype])
    [] t.type = "String" -> Seq(Bytes)
    [] t.type = "Number" -> Numerals(t)
    [] t.type = "Bool" -> BOOLEAN
    [] t.type = "Char" -> Scalars

\* The items of a type are made of those of its subtype alone.
LEMMA ItemsOfSame ==
  ASSUME NEW f, NEW g, NEW t, t.type \in TypeNames,
         Composite(t) => f[t.subtype] = g[t.subtype]
  PROVE  ItemsOfOf(f, t) = ItemsOfOf(g, t)
<1>1. CASE Composite(t)
  <2>1. f[t.subtype] = g[t.subtype]
    BY <1>1
  <2> QED BY <2>1 DEF ItemsOfOf
<1>2. CASE ~ Composite(t)
  <2>1. t.type \in {"String", "Number", "Bool", "Char"}
    BY <1>2 DEF Composite, TypeNames
  <2> QED BY <2>1 DEF ItemsOfOf
<1> QED BY <1>1, <1>2

FlattenedOf(f, t) ==
  [item \in ItemsOf[t] |->
     CASE t.type = "Option" ->
            IF t.subtype.type = "Option" /\ item # <<>> THEN f[t.subtype][item[1]]
            ELSE [i \in DOMAIN item |-> f[t.subtype][item[i]]]
       [] t.type = "Sequence" ->
            [i \in DOMAIN item |-> f[t.subtype][item[i]]]
       [] t.type \notin {"Option", "Sequence"} -> item]

\* Flattening an item of a type flattens items of its subtype alone.
LEMMA FlattenedSame ==
  ASSUME NEW f, NEW g, NEW t, Composite(t) => f[t.subtype] = g[t.subtype]
  PROVE  FlattenedOf(f, t) = FlattenedOf(g, t)
<1>1. CASE Composite(t)
  <2>1. f[t.subtype] = g[t.subtype]
    BY <1>1
  <2> QED BY <2>1 DEF FlattenedOf
<1>2. CASE ~ Composite(t)
  BY <1>2 DEF FlattenedOf, Composite
<1> QED BY <1>1, <1>2

SerializeOf(f, t) ==
  [items \in Seq(ItemsOf[t]) |->
     IF items = <<>> THEN <<>>
     ELSE IF Nested(t)
     THEN Compound(Heads(t, items), f[Inner(t)][Content(t, items)])
     ELSE Leaf(t, items)]

\* The serializer of a type calls the one of its inner type alone.
LEMMA SerializeSame ==
  ASSUME NEW f, NEW g, NEW t, Nested(t) => f[Inner(t)] = g[Inner(t)]
  PROVE  SerializeOf(f, t) = SerializeOf(g, t)
<1>1. CASE Nested(t)
  <2>1. f[Inner(t)] = g[Inner(t)]
    BY <1>1
  <2> QED BY <2>1 DEF SerializeOf
<1>2. CASE ~ Nested(t)
  BY <1>2 DEF SerializeOf
<1> QED BY <1>1, <1>2

HollowOf(f, t) ==
  [items \in Seq(ItemsOf[t]) |->
     /\ Bare(t).type = "Sequence"
     /\ IF Elements(t, items) = <<>> THEN Nested(Element(t))
        ELSE f[Element(t)][Elements(t, items)]]

\* Whether items are hollow depends on their elements alone.
LEMMA HollowSame ==
  ASSUME NEW f, NEW g, NEW t, Bare(t).type = "Sequence" => f[Element(t)] = g[Element(t)]
  PROVE  HollowOf(f, t) = HollowOf(g, t)
<1>1. CASE Bare(t).type = "Sequence"
  <2>1. f[Element(t)] = g[Element(t)]
    BY <1>1
  <2> QED BY <2>1 DEF HollowOf
<1>2. CASE Bare(t).type # "Sequence"
  BY <1>2 DEF HollowOf
<1> QED BY <1>1, <1>2

IterOf(f, t) ==
  [src \in Seq(Bytes) |->
     LET halves == Halves(src)
         inner == f[Inner(t)][halves.it[2]]
         ends == Numbers(Number("UInt", Word), halves.it[1])
     IN  CASE Src(t) = "slice" -> Numbers(t, src)
           [] Src(t) = "BitSlice" -> Ok(Unpack(src))
           [] Src(t) = "OptInSitu" -> Niches(t.subtype, src)
           [] Src(t) = "OptBitVec" ->
                IF ~ halves.ok THEN Err
                ELSE IF ~ inner.ok THEN Err
                ELSE Ok(Masked(Unpack(halves.it[1]), inner.it))
           [] Src(t) = "Seq" ->
                IF ~ halves.ok THEN Err
                ELSE IF ~ ends.ok \/ ~ inner.ok THEN Err
                ELSE Ok(Delimited(t, ends.it, inner.it))]

\* The reader has the shape of the accumulator.
LEMMA SrcOfAcc ==
  ASSUME NEW t, t.type \in TypeNames
  PROVE  Src(t) \in {"OptBitVec", "Seq"} => Nested(t)
<1>1. CASE t.type = "Option"
  <2>1. CASE Listed(t.subtype)
    BY <1>1, <2>1 DEF Nested, RawAcc, OptAcc, Listed, Fixed, Niche, NonZero
  <2>2. CASE ~ Listed(t.subtype) /\ Niche(t.subtype)
    BY <1>1, <2>2 DEF Src, OptSrc, Listed, Fixed
  <2>3. CASE ~ Listed(t.subtype) /\ ~ Niche(t.subtype)
    <3>1. OptAcc(t.subtype) = "OptBitVec"
      BY <2>3 DEF OptAcc
    <3> QED BY <1>1, <3>1 DEF Nested, RawAcc, Listed, Fixed
  <2> QED BY <2>1, <2>2, <2>3
<1>2. CASE t.type \in {"String", "Sequence"}
  BY <1>2 DEF Nested, RawAcc, Listed, Fixed
<1>3. CASE t.type \in {"Number", "Char", "Bool"}
  BY <1>3 DEF Src, Listed, Fixed
<1> QED BY <1>1, <1>2, <1>3 DEF TypeNames

\* The reader of a type calls the one of its inner type alone.
LEMMA IterSame ==
  ASSUME NEW f, NEW g, NEW t, t.type \in TypeNames, Nested(t) => f[Inner(t)] = g[Inner(t)]
  PROVE  IterOf(f, t) = IterOf(g, t)
<1>1. CASE Nested(t)
  <2>1. f[Inner(t)] = g[Inner(t)]
    BY <1>1
  <2> QED BY <2>1 DEF IterOf
<1>2. CASE ~ Nested(t)
  <2>1. Src(t) \notin {"OptBitVec", "Seq"}
    BY <1>2, SrcOfAcc
  <2> QED BY <2>1 DEF IterOf
<1> QED BY <1>1, <1>2

\* Unfold satisfies its recursive definition.
LEMMA UnfoldEquation == \A t \in Types : Unfold[t] = UnfoldOf(Unfold, t)
<1> DEFINE Eq(n, f) == f = [t \in TypesTo(n) |-> UnfoldOf(f, t)]
           T == {n \in Nat : \E f : Eq(n, f)}
<1>1. 0 \in T
  <2> DEFINE g == [t \in TypesTo(0) |-> UnfoldOf(<<>>, t)]
  <2>1. \A t \in TypesTo(0) : UnfoldOf(<<>>, t) = UnfoldOf(g, t)
    <3> TAKE t \in TypesTo(0)
    <3>1. ~ Composite(t)
      BY Depthless
    <3> HIDE DEF g
    <3>2. t.type \in TypeNames
      BY NamedTypes
    <3> QED BY <3>1, <3>2, UnfoldSame
  <2>2. g = [t \in TypesTo(0) |-> UnfoldOf(g, t)]
    <3> DEFINE h == [t \in TypesTo(0) |-> UnfoldOf(g, t)]
    <3>1. \A t \in TypesTo(0) : g[t] = h[t]
      BY <2>1
    <3> QED BY <3>1
  <2> HIDE DEF g
  <2>3. \E f : Eq(0, f)
    BY <2>2
  <2> HIDE DEF Eq
  <2> QED BY <2>3
<1>2. ASSUME NEW n \in Nat, n \in T PROVE n + 1 \in T
  <2>1. PICK f : Eq(n, f)
    BY <1>2
  <2> DEFINE g == [t \in TypesTo(n + 1) |-> UnfoldOf(f, t)]
  <2>2. \A t \in TypesTo(n) : g[t] = f[t]
    <3>1. TypesTo(n) \subseteq TypesTo(n + 1)
      BY TypesGrow
    <3> QED BY <2>1, <3>1
  <2>3. \A t \in TypesTo(n + 1) : UnfoldOf(f, t) = UnfoldOf(g, t)
    <3> TAKE t \in TypesTo(n + 1)
    <3>1. Composite(t) => t.subtype \in TypesTo(n)
      BY Subtypes
    <3> HIDE DEF g, Eq
    <3>2. Composite(t) => f[t.subtype] = g[t.subtype]
      BY <2>2, <3>1
    <3>3. t.type \in TypeNames
      <4>1. n + 1 \in Nat
        OBVIOUS
      <4> QED BY <4>1, NamedTypes
    <3> QED BY <3>2, <3>3, UnfoldSame
  <2>4. g = [t \in TypesTo(n + 1) |-> UnfoldOf(g, t)]
    <3> DEFINE h == [t \in TypesTo(n + 1) |-> UnfoldOf(g, t)]
    <3>1. \A t \in TypesTo(n + 1) : g[t] = h[t]
      BY <2>3
    <3> QED BY <3>1
  <2> HIDE DEF g
  <2>5. \E k : Eq(n + 1, k)
    BY <2>4
  <2>6. n + 1 \in Nat
    OBVIOUS
  <2> HIDE DEF Eq
  <2> QED BY <2>5, <2>6
<1>3. Nat \subseteq T
  <2> HIDE DEF T
  <2> QED BY <1>1, <1>2, Induction
<1>4. \E f : Eq(MaxDepth, f)
  <2> HIDE DEF Eq
  <2> QED BY <1>3, DepthAssumption
<1>5. Unfold = CHOOSE f : f = [t \in Types |-> UnfoldOf(f, t)]
  BY DEF Unfold, UnfoldOf
<1>6. \E f : f = [t \in Types |-> UnfoldOf(f, t)]
  BY <1>4 DEF Types
<1>7. Unfold = [t \in Types |-> UnfoldOf(Unfold, t)]
  BY <1>5, <1>6, Zenon
<1> QED BY <1>7

\* ItemsOf satisfies its recursive definition.
LEMMA ItemsOfEquation == \A t \in Types : ItemsOf[t] = ItemsOfOf(ItemsOf, t)
<1> DEFINE Eq(n, f) == f = [t \in TypesTo(n) |-> ItemsOfOf(f, t)]
           T == {n \in Nat : \E f : Eq(n, f)}
<1>1. 0 \in T
  <2> DEFINE g == [t \in TypesTo(0) |-> ItemsOfOf(<<>>, t)]
  <2>1. \A t \in TypesTo(0) : ItemsOfOf(<<>>, t) = ItemsOfOf(g, t)
    <3> TAKE t \in TypesTo(0)
    <3>1. ~ Composite(t)
      BY Depthless
    <3> HIDE DEF g
    <3>2. t.type \in TypeNames
      BY NamedTypes
    <3> QED BY <3>1, <3>2, ItemsOfSame
  <2>2. g = [t \in TypesTo(0) |-> ItemsOfOf(g, t)]
    <3> DEFINE h == [t \in TypesTo(0) |-> ItemsOfOf(g, t)]
    <3>1. \A t \in TypesTo(0) : g[t] = h[t]
      BY <2>1
    <3> QED BY <3>1
  <2> HIDE DEF g
  <2>3. \E f : Eq(0, f)
    BY <2>2
  <2> HIDE DEF Eq
  <2> QED BY <2>3
<1>2. ASSUME NEW n \in Nat, n \in T PROVE n + 1 \in T
  <2>1. PICK f : Eq(n, f)
    BY <1>2
  <2> DEFINE g == [t \in TypesTo(n + 1) |-> ItemsOfOf(f, t)]
  <2>2. \A t \in TypesTo(n) : g[t] = f[t]
    <3>1. TypesTo(n) \subseteq TypesTo(n + 1)
      BY TypesGrow
    <3> QED BY <2>1, <3>1
  <2>3. \A t \in TypesTo(n + 1) : ItemsOfOf(f, t) = ItemsOfOf(g, t)
    <3> TAKE t \in TypesTo(n + 1)
    <3>1. Composite(t) => t.subtype \in TypesTo(n)
      BY Subtypes
    <3> HIDE DEF g, Eq
    <3>2. Composite(t) => f[t.subtype] = g[t.subtype]
      BY <2>2, <3>1
    <3>3. t.type \in TypeNames
      <4>1. n + 1 \in Nat
        OBVIOUS
      <4> QED BY <4>1, NamedTypes
    <3> QED BY <3>2, <3>3, ItemsOfSame
  <2>4. g = [t \in TypesTo(n + 1) |-> ItemsOfOf(g, t)]
    <3> DEFINE h == [t \in TypesTo(n + 1) |-> ItemsOfOf(g, t)]
    <3>1. \A t \in TypesTo(n + 1) : g[t] = h[t]
      BY <2>3
    <3> QED BY <3>1
  <2> HIDE DEF g
  <2>5. \E k : Eq(n + 1, k)
    BY <2>4
  <2>6. n + 1 \in Nat
    OBVIOUS
  <2> HIDE DEF Eq
  <2> QED BY <2>5, <2>6
<1>3. Nat \subseteq T
  <2> HIDE DEF T
  <2> QED BY <1>1, <1>2, Induction
<1>4. \E f : Eq(MaxDepth, f)
  <2> HIDE DEF Eq
  <2> QED BY <1>3, DepthAssumption
<1>5. ItemsOf = CHOOSE f : f = [t \in Types |-> ItemsOfOf(f, t)]
  BY DEF ItemsOf, ItemsOfOf
<1>6. \E f : f = [t \in Types |-> ItemsOfOf(f, t)]
  BY <1>4 DEF Types
<1>7. ItemsOf = [t \in Types |-> ItemsOfOf(ItemsOf, t)]
  BY <1>5, <1>6, Zenon
<1> QED BY <1>7

\* Flattened satisfies its recursive definition.
LEMMA FlattenedEquation == \A t \in Types : Flattened[t] = FlattenedOf(Flattened, t)
<1> DEFINE Eq(n, f) == f = [t \in TypesTo(n) |-> FlattenedOf(f, t)]
           T == {n \in Nat : \E f : Eq(n, f)}
<1>1. 0 \in T
  <2> DEFINE g == [t \in TypesTo(0) |-> FlattenedOf(<<>>, t)]
  <2>1. \A t \in TypesTo(0) : FlattenedOf(<<>>, t) = FlattenedOf(g, t)
    <3> TAKE t \in TypesTo(0)
    <3>1. ~ Composite(t)
      BY Depthless
    <3> HIDE DEF g
    <3>2. t.type \in TypeNames
      BY NamedTypes
    <3> QED BY <3>1, <3>2, FlattenedSame
  <2>2. g = [t \in TypesTo(0) |-> FlattenedOf(g, t)]
    <3> DEFINE h == [t \in TypesTo(0) |-> FlattenedOf(g, t)]
    <3>1. \A t \in TypesTo(0) : g[t] = h[t]
      BY <2>1
    <3> QED BY <3>1
  <2> HIDE DEF g
  <2>3. \E f : Eq(0, f)
    BY <2>2
  <2> HIDE DEF Eq
  <2> QED BY <2>3
<1>2. ASSUME NEW n \in Nat, n \in T PROVE n + 1 \in T
  <2>1. PICK f : Eq(n, f)
    BY <1>2
  <2> DEFINE g == [t \in TypesTo(n + 1) |-> FlattenedOf(f, t)]
  <2>2. \A t \in TypesTo(n) : g[t] = f[t]
    <3>1. TypesTo(n) \subseteq TypesTo(n + 1)
      BY TypesGrow
    <3> QED BY <2>1, <3>1
  <2>3. \A t \in TypesTo(n + 1) : FlattenedOf(f, t) = FlattenedOf(g, t)
    <3> TAKE t \in TypesTo(n + 1)
    <3>1. Composite(t) => t.subtype \in TypesTo(n)
      BY Subtypes
    <3> HIDE DEF g, Eq
    <3>2. Composite(t) => f[t.subtype] = g[t.subtype]
      BY <2>2, <3>1
    <3>3. t.type \in TypeNames
      <4>1. n + 1 \in Nat
        OBVIOUS
      <4> QED BY <4>1, NamedTypes
    <3> QED BY <3>2, <3>3, FlattenedSame
  <2>4. g = [t \in TypesTo(n + 1) |-> FlattenedOf(g, t)]
    <3> DEFINE h == [t \in TypesTo(n + 1) |-> FlattenedOf(g, t)]
    <3>1. \A t \in TypesTo(n + 1) : g[t] = h[t]
      BY <2>3
    <3> QED BY <3>1
  <2> HIDE DEF g
  <2>5. \E k : Eq(n + 1, k)
    BY <2>4
  <2>6. n + 1 \in Nat
    OBVIOUS
  <2> HIDE DEF Eq
  <2> QED BY <2>5, <2>6
<1>3. Nat \subseteq T
  <2> HIDE DEF T
  <2> QED BY <1>1, <1>2, Induction
<1>4. \E f : Eq(MaxDepth, f)
  <2> HIDE DEF Eq
  <2> QED BY <1>3, DepthAssumption
<1>5. Flattened = CHOOSE f : f = [t \in Types |-> FlattenedOf(f, t)]
  BY DEF Flattened, FlattenedOf
<1>6. \E f : f = [t \in Types |-> FlattenedOf(f, t)]
  BY <1>4 DEF Types
<1>7. Flattened = [t \in Types |-> FlattenedOf(Flattened, t)]
  BY <1>5, <1>6, Zenon
<1> QED BY <1>7

\* Serialize satisfies its recursive definition.
LEMMA SerializeEquation == \A t \in Types : Serialize[t] = SerializeOf(Serialize, t)
<1> DEFINE Eq(n, f) == f = [t \in TypesTo(n) |-> SerializeOf(f, t)]
           T == {n \in Nat : \E f : Eq(n, f)}
<1>1. 0 \in T
  <2> DEFINE g == [t \in TypesTo(0) |-> SerializeOf(<<>>, t)]
  <2>1. \A t \in TypesTo(0) : SerializeOf(<<>>, t) = SerializeOf(g, t)
    <3> TAKE t \in TypesTo(0)
    <3>1. ~ Nested(t)
      BY InnerTypes
    <3> HIDE DEF g
    <3>2. t.type \in TypeNames
      BY NamedTypes
    <3> QED BY <3>1, <3>2, SerializeSame
  <2>2. g = [t \in TypesTo(0) |-> SerializeOf(g, t)]
    <3> DEFINE h == [t \in TypesTo(0) |-> SerializeOf(g, t)]
    <3>1. \A t \in TypesTo(0) : g[t] = h[t]
      BY <2>1
    <3> QED BY <3>1
  <2> HIDE DEF g
  <2>3. \E f : Eq(0, f)
    BY <2>2
  <2> HIDE DEF Eq
  <2> QED BY <2>3
<1>2. ASSUME NEW n \in Nat, n \in T PROVE n + 1 \in T
  <2>1. PICK f : Eq(n, f)
    BY <1>2
  <2> DEFINE g == [t \in TypesTo(n + 1) |-> SerializeOf(f, t)]
  <2>2. \A t \in TypesTo(n) : g[t] = f[t]
    <3>1. TypesTo(n) \subseteq TypesTo(n + 1)
      BY TypesGrow
    <3> QED BY <2>1, <3>1
  <2>3. \A t \in TypesTo(n + 1) : SerializeOf(f, t) = SerializeOf(g, t)
    <3> TAKE t \in TypesTo(n + 1)
    <3>1. Nested(t) => Inner(t) \in TypesTo(n)
      BY InnerTypes
    <3> HIDE DEF g, Eq
    <3>2. Nested(t) => f[Inner(t)] = g[Inner(t)]
      BY <2>2, <3>1
    <3>3. t.type \in TypeNames
      <4>1. n + 1 \in Nat
        OBVIOUS
      <4> QED BY <4>1, NamedTypes
    <3> QED BY <3>2, <3>3, SerializeSame
  <2>4. g = [t \in TypesTo(n + 1) |-> SerializeOf(g, t)]
    <3> DEFINE h == [t \in TypesTo(n + 1) |-> SerializeOf(g, t)]
    <3>1. \A t \in TypesTo(n + 1) : g[t] = h[t]
      BY <2>3
    <3> QED BY <3>1
  <2> HIDE DEF g
  <2>5. \E k : Eq(n + 1, k)
    BY <2>4
  <2>6. n + 1 \in Nat
    OBVIOUS
  <2> HIDE DEF Eq
  <2> QED BY <2>5, <2>6
<1>3. Nat \subseteq T
  <2> HIDE DEF T
  <2> QED BY <1>1, <1>2, Induction
<1>4. \E f : Eq(MaxDepth, f)
  <2> HIDE DEF Eq
  <2> QED BY <1>3, DepthAssumption
<1>5. Serialize = CHOOSE f : f = [t \in Types |-> SerializeOf(f, t)]
  BY DEF Serialize, SerializeOf
<1>6. \E f : f = [t \in Types |-> SerializeOf(f, t)]
  BY <1>4 DEF Types
<1>7. Serialize = [t \in Types |-> SerializeOf(Serialize, t)]
  BY <1>5, <1>6, Zenon
<1> QED BY <1>7

\* Iter satisfies its recursive definition.
LEMMA IterEquation == \A t \in Types : Iter[t] = IterOf(Iter, t)
<1> DEFINE Eq(n, f) == f = [t \in TypesTo(n) |-> IterOf(f, t)]
           T == {n \in Nat : \E f : Eq(n, f)}
<1>1. 0 \in T
  <2> DEFINE g == [t \in TypesTo(0) |-> IterOf(<<>>, t)]
  <2>1. \A t \in TypesTo(0) : IterOf(<<>>, t) = IterOf(g, t)
    <3> TAKE t \in TypesTo(0)
    <3>1. ~ Nested(t)
      BY InnerTypes
    <3> HIDE DEF g
    <3>2. t.type \in TypeNames
      BY NamedTypes
    <3> QED BY <3>1, <3>2, IterSame
  <2>2. g = [t \in TypesTo(0) |-> IterOf(g, t)]
    <3> DEFINE h == [t \in TypesTo(0) |-> IterOf(g, t)]
    <3>1. \A t \in TypesTo(0) : g[t] = h[t]
      BY <2>1
    <3> QED BY <3>1
  <2> HIDE DEF g
  <2>3. \E f : Eq(0, f)
    BY <2>2
  <2> HIDE DEF Eq
  <2> QED BY <2>3
<1>2. ASSUME NEW n \in Nat, n \in T PROVE n + 1 \in T
  <2>1. PICK f : Eq(n, f)
    BY <1>2
  <2> DEFINE g == [t \in TypesTo(n + 1) |-> IterOf(f, t)]
  <2>2. \A t \in TypesTo(n) : g[t] = f[t]
    <3>1. TypesTo(n) \subseteq TypesTo(n + 1)
      BY TypesGrow
    <3> QED BY <2>1, <3>1
  <2>3. \A t \in TypesTo(n + 1) : IterOf(f, t) = IterOf(g, t)
    <3> TAKE t \in TypesTo(n + 1)
    <3>1. Nested(t) => Inner(t) \in TypesTo(n)
      BY InnerTypes
    <3> HIDE DEF g, Eq
    <3>2. Nested(t) => f[Inner(t)] = g[Inner(t)]
      BY <2>2, <3>1
    <3>3. t.type \in TypeNames
      <4>1. n + 1 \in Nat
        OBVIOUS
      <4> QED BY <4>1, NamedTypes
    <3> QED BY <3>2, <3>3, IterSame
  <2>4. g = [t \in TypesTo(n + 1) |-> IterOf(g, t)]
    <3> DEFINE h == [t \in TypesTo(n + 1) |-> IterOf(g, t)]
    <3>1. \A t \in TypesTo(n + 1) : g[t] = h[t]
      BY <2>3
    <3> QED BY <3>1
  <2> HIDE DEF g
  <2>5. \E k : Eq(n + 1, k)
    BY <2>4
  <2>6. n + 1 \in Nat
    OBVIOUS
  <2> HIDE DEF Eq
  <2> QED BY <2>5, <2>6
<1>3. Nat \subseteq T
  <2> HIDE DEF T
  <2> QED BY <1>1, <1>2, Induction
<1>4. \E f : Eq(MaxDepth, f)
  <2> HIDE DEF Eq
  <2> QED BY <1>3, DepthAssumption
<1>5. Iter = CHOOSE f : f = [t \in Types |-> IterOf(f, t)]
  BY DEF Iter, IterOf
<1>6. \E f : f = [t \in Types |-> IterOf(f, t)]
  BY <1>4 DEF Types
<1>7. Iter = [t \in Types |-> IterOf(Iter, t)]
  BY <1>5, <1>6, Zenon
<1> QED BY <1>7

\* Hollow satisfies its recursive definition.
LEMMA HollowEquation == \A t \in Types : Hollow[t] = HollowOf(Hollow, t)
<1> DEFINE Eq(n, f) == f = [t \in TypesTo(n) |-> HollowOf(f, t)]
           T == {n \in Nat : \E f : Eq(n, f)}
<1>1. 0 \in T
  <2> DEFINE g == [t \in TypesTo(0) |-> HollowOf(<<>>, t)]
  <2>1. \A t \in TypesTo(0) : HollowOf(<<>>, t) = HollowOf(g, t)
    <3> TAKE t \in TypesTo(0)
    <3>1. ~ (Bare(t).type = "Sequence")
      BY InnerTypes
    <3> HIDE DEF g
    <3>2. t.type \in TypeNames
      BY NamedTypes
    <3> QED BY <3>1, <3>2, HollowSame
  <2>2. g = [t \in TypesTo(0) |-> HollowOf(g, t)]
    <3> DEFINE h == [t \in TypesTo(0) |-> HollowOf(g, t)]
    <3>1. \A t \in TypesTo(0) : g[t] = h[t]
      BY <2>1
    <3> QED BY <3>1
  <2> HIDE DEF g
  <2>3. \E f : Eq(0, f)
    BY <2>2
  <2> HIDE DEF Eq
  <2> QED BY <2>3
<1>2. ASSUME NEW n \in Nat, n \in T PROVE n + 1 \in T
  <2>1. PICK f : Eq(n, f)
    BY <1>2
  <2> DEFINE g == [t \in TypesTo(n + 1) |-> HollowOf(f, t)]
  <2>2. \A t \in TypesTo(n) : g[t] = f[t]
    <3>1. TypesTo(n) \subseteq TypesTo(n + 1)
      BY TypesGrow
    <3> QED BY <2>1, <3>1
  <2>3. \A t \in TypesTo(n + 1) : HollowOf(f, t) = HollowOf(g, t)
    <3> TAKE t \in TypesTo(n + 1)
    <3>1. (Bare(t).type = "Sequence") => Element(t) \in TypesTo(n)
      BY InnerTypes
    <3> HIDE DEF g, Eq
    <3>2. (Bare(t).type = "Sequence") => f[Element(t)] = g[Element(t)]
      BY <2>2, <3>1
    <3>3. t.type \in TypeNames
      <4>1. n + 1 \in Nat
        OBVIOUS
      <4> QED BY <4>1, NamedTypes
    <3> QED BY <3>2, <3>3, HollowSame
  <2>4. g = [t \in TypesTo(n + 1) |-> HollowOf(g, t)]
    <3> DEFINE h == [t \in TypesTo(n + 1) |-> HollowOf(g, t)]
    <3>1. \A t \in TypesTo(n + 1) : g[t] = h[t]
      BY <2>3
    <3> QED BY <3>1
  <2> HIDE DEF g
  <2>5. \E k : Eq(n + 1, k)
    BY <2>4
  <2>6. n + 1 \in Nat
    OBVIOUS
  <2> HIDE DEF Eq
  <2> QED BY <2>5, <2>6
<1>3. Nat \subseteq T
  <2> HIDE DEF T
  <2> QED BY <1>1, <1>2, Induction
<1>4. \E f : Eq(MaxDepth, f)
  <2> HIDE DEF Eq
  <2> QED BY <1>3, DepthAssumption
<1>5. Hollow = CHOOSE f : f = [t \in Types |-> HollowOf(f, t)]
  BY DEF Hollow, HollowOf
<1>6. \E f : f = [t \in Types |-> HollowOf(f, t)]
  BY <1>4 DEF Types
<1>7. Hollow = [t \in Types |-> HollowOf(Hollow, t)]
  BY <1>5, <1>6, Zenon
<1> QED BY <1>7

----------------------------------------------------------------------------
(* Types without options of options                                        *)

\* The subtype of a type is shallower.
LEMMA SubtypesIn ==
  ASSUME NEW n \in Nat, NEW t \in TypesTo(n), Composite(t)
  PROVE  /\ n # 0 /\ t.subtype \in TypesTo(n - 1)
         /\ t.subtype \in TypesTo(n)
         /\ t.type = "Option" => t = Option(t.subtype)
         /\ t.type = "Sequence" => t = Vec(t.subtype)
<1>1. n # 0
  BY Depthless
<1>2. n - 1 \in Nat /\ (n - 1) + 1 = n
  BY <1>1
<1>3. /\ t.subtype \in TypesTo(n - 1)
      /\ t.type = "Option" => t = Option(t.subtype)
      /\ t.type = "Sequence" => t = Vec(t.subtype)
  BY <1>2, Subtypes
<1>4. TypesTo(n - 1) \subseteq TypesTo(n)
  BY <1>2, TypesGrow
<1> QED BY <1>1, <1>3, <1>4

\* The type that an accumulator or a reader recurses into is shallower.
LEMMA InnerIn ==
  ASSUME NEW n \in Nat, NEW t \in TypesTo(n)
  PROVE  /\ Nested(t) => n # 0 /\ Inner(t) \in TypesTo(n - 1) /\ Inner(t) \in TypesTo(n)
         /\ Bare(t).type = "Sequence" =>
              n # 0 /\ Element(t) \in TypesTo(n - 1) /\ Element(t) \in TypesTo(n)
<1>1. CASE n = 0
  BY <1>1, InnerTypes
<1>2. CASE n # 0
  <2>1. n - 1 \in Nat /\ (n - 1) + 1 = n
    BY <1>2
  <2>2. t \in TypesTo((n - 1) + 1)
    BY <2>1
  <2>3. /\ Nested(t) => Inner(t) \in TypesTo(n - 1)
        /\ Bare(t).type = "Sequence" => Element(t) \in TypesTo(n - 1)
    BY <2>1, <2>2, InnerTypes
  <2>4. TypesTo(n - 1) \subseteq TypesTo(n)
    BY <2>1, TypesGrow
  <2> QED BY <1>2, <2>3, <2>4
<1> QED BY <1>1, <1>2

\* Types to any depth within the bound are types.
LEMMA TypesWithin == \A n \in 0..MaxDepth : TypesTo(n) \subseteq Types
<1> DEFINE T == {k \in 0..MaxDepth : TypesTo(MaxDepth - k) \subseteq Types}
<1>0. MaxDepth \in Nat
  BY DepthAssumption
<1>1. 0 \in T
  <2>1. MaxDepth - 0 = MaxDepth /\ 0 \in 0..MaxDepth
    BY <1>0
  <2> QED BY <2>1 DEF Types
<1>2. ASSUME NEW k \in 1..MaxDepth, k - 1 \in T PROVE k \in T
  <2>1. MaxDepth - k \in Nat /\ (MaxDepth - k) + 1 = MaxDepth - (k - 1)
    BY <1>0
  <2>2. TypesTo(MaxDepth - k) \subseteq TypesTo(MaxDepth - (k - 1))
    BY <2>1, TypesGrow
  <2> QED BY <2>2, <1>2
<1>3. 0..MaxDepth \subseteq T
  <2> HIDE DEF T
  <2> QED BY <1>0, <1>1, <1>2, BoundedInduction
<1> SUFFICES ASSUME NEW n \in 0..MaxDepth PROVE TypesTo(n) \subseteq Types
  OBVIOUS
<1>4. MaxDepth - n \in 0..MaxDepth /\ MaxDepth - (MaxDepth - n) = n
  BY <1>0
<1>5. MaxDepth - n \in T
  <2> HIDE DEF T
  <2> QED BY <1>3, <1>4
<1> QED BY <1>4, <1>5

\* What a type unfolds to unfolds no further, and its option has no option.
Unfolded(u) ==
  /\ Unfold[u] = u
  /\ u.type = "Option" => u.subtype.type # "Option" /\ Unfold[u.subtype] = u.subtype

\* Unfolding ends: no option of an option is left in what it gives.
LEMMA UnfoldUnfolds ==
  \A n \in 0..MaxDepth : \A t \in TypesTo(n) :
    Unfold[t] \in TypesTo(n) /\ Unfolded(Unfold[t])
<1> DEFINE Good(k) == \A t \in TypesTo(k) : Unfold[t] \in TypesTo(k) /\ Unfolded(Unfold[t])
           T == {k \in 0..MaxDepth : Good(k)}
<1>0. MaxDepth \in Nat
  BY DepthAssumption
<1>1. ASSUME NEW k \in 0..MaxDepth, NEW t \in TypesTo(k), ~ Composite(t)
      PROVE  Unfold[t] \in TypesTo(k) /\ Unfolded(Unfold[t])
  <2>1. t \in Types /\ Unfold[t] = t
    BY <1>1, TypesWithin, UnfoldEquation DEF UnfoldOf, Composite
  <2> QED BY <2>1, <1>1 DEF Unfolded, Composite
<1>2. 0 \in T
  <2>1. Good(0)
    BY <1>0, <1>1, Depthless
  <2> HIDE DEF Good
  <2> QED BY <2>1, <1>0
<1>3. ASSUME NEW k \in 1..MaxDepth, k - 1 \in T PROVE k \in T
  <2>1. ASSUME NEW t \in TypesTo(k), Composite(t)
        PROVE  Unfold[t] \in TypesTo(k) /\ Unfolded(Unfold[t])
    <3> DEFINE v == Unfold[t.subtype]
    <3>1. k \in Nat /\ k \in 0..MaxDepth /\ k - 1 \in Nat /\ (k - 1) + 1 = k /\ k - 1 \in 0..MaxDepth
      BY <1>0
    <3>2. t.subtype \in TypesTo(k - 1)
      BY <3>1, <2>1, SubtypesIn
    <3>3. v \in TypesTo(k - 1) /\ Unfolded(v)
      BY <3>2, <1>3
    <3>4. TypesTo(k) = Around(TypesTo(k - 1)) /\ TypesTo(k) \subseteq Types
      BY <3>1, TypesNext, TypesWithin
    <3>5. Unfold[t] = UnfoldOf(Unfold, t) /\ t \in Types
      BY <3>4, <2>1, UnfoldEquation
    <3> HIDE DEF v
    <3>6. Unfold[v] = v
      BY <3>3 DEF Unfolded
    <3>7. Option(v) \in TypesTo(k) /\ Vec(v) \in TypesTo(k) /\ v \in TypesTo(k)
      BY <3>3, <3>4 DEF Around
    <3>8. Unfold[Option(v)] = TypeOption(v) /\ Unfold[Vec(v)] = Vec(v)
      <4>1. Unfold[Option(v)] = UnfoldOf(Unfold, Option(v)) /\ Unfold[Vec(v)] = UnfoldOf(Unfold, Vec(v))
        BY <3>4, <3>7, UnfoldEquation
      <4> QED BY <4>1, <3>6 DEF UnfoldOf, Option, Vec
    <3>9. CASE t.type = "Sequence"
      <4>1. Unfold[t] = Vec(v)
        BY <3>5, <3>9 DEF UnfoldOf, v
      <4> QED BY <4>1, <3>7, <3>8 DEF Unfolded, Vec
    <3>10. CASE t.type = "Option"
      <4>1. Unfold[t] = TypeOption(v)
        BY <3>5, <3>10 DEF UnfoldOf, v
      <4>2. CASE v.type = "Option"
        BY <4>1, <4>2, <3>3, <3>7 DEF TypeOption
      <4>3. CASE v.type # "Option"
        <5>1. Unfold[t] = Option(v) /\ Unfold[Option(v)] = Option(v)
          BY <4>1, <4>3, <3>8 DEF TypeOption
        <5>2. Option(v).subtype = v
          BY DEF Option
        <5> QED BY <5>1, <5>2, <4>3, <3>6, <3>7 DEF Unfolded
      <4> QED BY <4>2, <4>3
    <3> QED BY <3>9, <3>10, <2>1 DEF Composite
  <2>2. Good(k)
    BY <2>1, <1>1
  <2> HIDE DEF Good
  <2> QED BY <2>2
<1>4. 0..MaxDepth \subseteq T
  <2> HIDE DEF T
  <2> QED BY <1>0, <1>2, <1>3, BoundedInduction
<1> QED BY <1>4

\* Unfolding gives a type, without an option of an option.
LEMMA UnfoldType == \A t \in Types : Unfold[t] \in Types /\ Unfolded(Unfold[t])
<1>1. MaxDepth \in 0..MaxDepth
  BY DepthAssumption
<1> QED BY <1>1, UnfoldUnfolds DEF Types

\* The types a schema records.
Recorded == {t \in Types : Unfold[t] = t}

\* The subtypes of a type the manifest records are recorded, and an option's
\* is no option.
LEMMA RecordedSubtypes ==
  ASSUME NEW t \in Recorded, Composite(t)
  PROVE  /\ t.subtype \in Recorded
         /\ t.type = "Option" => t.subtype.type # "Option"
<1>1. t \in Types /\ Unfold[t] = t /\ t.subtype \in Types
      /\ (t.type = "Option" => t = Option(t.subtype))
      /\ (t.type = "Sequence" => t = Vec(t.subtype))
  BY SubtypesIn, DepthAssumption DEF Recorded, Types
<1>2. CASE t.type = "Sequence"
  <2>1. t = Vec(Unfold[t.subtype])
    BY <1>1, <1>2, UnfoldEquation DEF UnfoldOf
  <2>2. t.subtype = Unfold[t.subtype]
    BY <2>1 DEF Vec
  <2> QED BY <1>1, <1>2, <2>2 DEF Recorded
<1>3. CASE t.type = "Option"
  <2>1. t = TypeOption(Unfold[t.subtype])
    BY <1>1, <1>3, UnfoldEquation DEF UnfoldOf
  <2>2. CASE Unfold[t.subtype].type = "Option"
    <3>1. t = Unfold[t.subtype]
      BY <2>1, <2>2 DEF TypeOption
    <3>2. Unfolded(t)
      BY <3>1, <1>1, UnfoldType
    <3> QED BY <3>2, <1>1, <1>3 DEF Unfolded, Recorded
  <2>3. CASE Unfold[t.subtype].type # "Option"
    <3>1. t = Option(Unfold[t.subtype])
      BY <2>1, <2>3 DEF TypeOption
    <3>2. t.subtype = Unfold[t.subtype]
      BY <3>1 DEF Option
    <3> QED BY <1>1, <1>3, <2>3, <3>2 DEF Recorded
  <2> QED BY <2>2, <2>3
<1> QED BY <1>2, <1>3 DEF Composite

\* Unfolding gives a type as the manifest records it.
LEMMA UnfoldRecorded == \A t \in Types : Unfold[t] \in Recorded
BY UnfoldType DEF Recorded, Unfolded

----------------------------------------------------------------------------
(* Items                                                                   *)

\* A sequence of at most one element that is not empty.
LEMMA ShortSeq ==
  ASSUME NEW S, NEW item \in Seq(S), Len(item) <= 1, item # <<>>
  PROVE  Len(item) = 1 /\ item[1] \in S /\ item = <<item[1]>>
<1>1. Len(item) = 1
  <2>1. Len(item) \in Nat /\ Len(item) # 0
    OBVIOUS
  <2> QED BY <2>1
<1>2. 1 \in 1..Len(item)
  BY <1>1
<1>3. item[1] \in S
  BY <1>2
<1>4. item = <<item[1]>>
  BY <1>1
<1> QED BY <1>1, <1>3, <1>4

\* An option is nothing or one item.
Optioned(S, item) ==
  /\ item \in Seq(S) /\ Len(item) \in {0, 1}
  /\ item # <<>> => Len(item) = 1 /\ item[1] \in S /\ item = <<item[1]>>
  /\ item = <<>> => Len(item) = 0

\* An optional item is nothing, or one item.
LEMMA OptionalType ==
  ASSUME NEW S, NEW item \in Optional(S)
  PROVE  Optioned(S, item)
<1>1. item \in Seq(S) /\ Len(item) <= 1 /\ Len(item) \in Nat
  BY DEF Optional
<1>2. item # <<>> => Len(item) = 1 /\ item[1] \in S /\ item = <<item[1]>>
  BY <1>1, ShortSeq
<1>3. item = <<>> => Len(item) = 0
  OBVIOUS
<1>4. Len(item) \in {0, 1}
  BY <1>1
<1> QED BY <1>1, <1>2, <1>3, <1>4 DEF Optioned

\* One byte has as many values as a byte.
LEMMA LimitOne == Limit(1) = Byte
<1>1. Power(Byte, 0 + 1) = Byte * Power(Byte, 0)
  BY ByteType, PowerAdd
<1>2. Byte * 1 = Byte /\ 0 + 1 = 1
  BY ByteType
<1> QED BY <1>1, <1>2, PowerZero DEF Limit

\* The items of each kind of type.
LEMMA ItemsOfTypes ==
  ASSUME NEW t \in Types
  PROVE  /\ Fixed(t) => t \in NumberTypes \cup {Char} /\ ItemsOf[t] = Scalar(t)
         /\ t.type = "Bool" => ItemsOf[t] = BOOLEAN
         /\ t.type = "String" => ItemsOf[t] = Seq(Bytes)
         /\ t.type = "Sequence" => ItemsOf[t] = Seq(ItemsOf[t.subtype])
         /\ t.type = "Option" => ItemsOf[t] = Optional(ItemsOf[t.subtype])
<1>1. ItemsOf[t] = ItemsOfOf(ItemsOf, t)
  BY ItemsOfEquation
<1>2. CASE t.type = "Number" \/ t.type = "Char"
  <2>1. t \in Simple \cup {String}
    BY <1>2, OtherTypes, DepthAssumption DEF Composite, Types
  <2>2. t \in NumberTypes \cup {Char}
    BY <2>1, <1>2 DEF Simple, NumberTypes, Bool, Char, String
  <2>3. ItemsOf[t] = Scalar(t)
    BY <1>1, <1>2 DEF ItemsOfOf, Scalar
  <2> QED BY <1>2, <2>2, <2>3
<1>3. t.type = "Bool" => ItemsOf[t] = BOOLEAN
  BY <1>1 DEF ItemsOfOf
<1>4. t.type = "String" => ItemsOf[t] = Seq(Bytes)
  BY <1>1 DEF ItemsOfOf
<1>5. t.type = "Sequence" => ItemsOf[t] = Seq(ItemsOf[t.subtype])
  BY <1>1 DEF ItemsOfOf
<1>6. t.type = "Option" => ItemsOf[t] = Optional(ItemsOf[t.subtype])
  BY <1>1 DEF ItemsOfOf
<1> QED BY <1>2, <1>3, <1>4, <1>5, <1>6 DEF Fixed

\* The items of the type of bytes are the bytes.
LEMMA U8Items == U8 \in Recorded /\ ItemsOf[U8] = Bytes
<1>1. U8 \in Types
  BY U8Type, DepthAssumption DEF Types
<1>2. Unfold[U8] = U8
  BY <1>1, UnfoldEquation DEF UnfoldOf, U8, Number
<1>3. ItemsOf[U8] = Numerals(U8)
  BY <1>1, ItemsOfTypes DEF Fixed, Scalar, U8, Number
<1>4. Numerals(U8) = Bytes
  BY LimitOne DEF Numerals, U8, Number, NonZero, Bytes
<1> QED BY <1>1, <1>2, <1>3, <1>4 DEF Recorded

\* The items of a string or a sequence are sequences of what it has.
LEMMA ListedItems ==
  ASSUME NEW t \in Recorded, Listed(Bare(t))
  PROVE  /\ Bare(t) \in Recorded /\ Element(t) \in Recorded
         /\ ItemsOf[Bare(t)] = Seq(ItemsOf[Element(t)])
         /\ t.type = "Option" => ItemsOf[t] = Optional(Seq(ItemsOf[Element(t)]))
         /\ t.type # "Option" => ItemsOf[t] = Seq(ItemsOf[Element(t)])
<1> DEFINE s == Bare(t)
<1>1. s \in Recorded
  BY RecordedSubtypes DEF Bare, Composite
<1>2. s \in Types
  BY <1>1 DEF Recorded
<1>3. CASE s.type = "String"
  <2>1. Element(t) = U8
    BY <1>3 DEF Element, U8
  <2> QED BY <1>1, <1>2, <1>3, <2>1, U8Items, ItemsOfTypes DEF Bare, Recorded
<1>4. CASE s.type = "Sequence"
  <2>1. Element(t) = s.subtype
    BY <1>4 DEF Element
  <2>2. s.subtype \in Recorded
    BY <1>1, <1>4, RecordedSubtypes DEF Composite
  <2>3. ItemsOf[s] = Seq(ItemsOf[Element(t)])
    BY <1>2, <1>4, <2>1, ItemsOfTypes
  <2> QED BY <1>1, <2>1, <2>2, <2>3, ItemsOfTypes DEF Bare, Recorded
<1> QED BY <1>3, <1>4 DEF Listed

\* The four kinds of recorded types.
Kind(t) ==
  \/ Fixed(t) /\ RawAcc(t) = "Vec" /\ Src(t) = "slice"
  \/ t.type = "Bool" /\ RawAcc(t) = "BitVec" /\ Src(t) = "BitSlice"
  \/ Listed(Bare(t)) /\ RawAcc(t) \in {"Seq", "OptSeq"} /\ Src(t) = "Seq"
     /\ Inner(t) = Element(t)
  \/ t.type = "Option" /\ Niche(t.subtype) /\ RawAcc(t) = "OptInSitu" /\ Src(t) = "OptInSitu"
     /\ ~ Listed(Bare(t))
  \/ t.type = "Option" /\ RawAcc(t) = "OptBitVec" /\ Src(t) = "OptBitVec"
     /\ (Fixed(t.subtype) \/ t.subtype.type = "Bool") /\ Inner(t) = t.subtype /\ ~ Nested(t.subtype)
     /\ ~ Listed(Bare(t))

\* Each recorded type is read and written in one of the ways there are.
LEMMA RecordedKind == \A t \in Recorded : Kind(t)
<1> SUFFICES ASSUME NEW t \in Recorded PROVE Kind(t)
  OBVIOUS
<1>0. t \in Types /\ t.type \in TypeNames
  BY NamedTypes, DepthAssumption DEF Recorded, Types
<1>1. CASE t.type = "Number" \/ t.type = "Char"
  <2>1. Fixed(t) /\ RawAcc(t) = "Vec" /\ Src(t) = "slice"
    <3>1. Fixed(t) /\ ~ Listed(t) /\ t.type # "Bool" /\ t.type # "Option"
      BY <1>1 DEF Fixed, Listed
    <3> QED BY <3>1 DEF RawAcc, Src
  <2> QED BY <2>1 DEF Kind
<1>2. CASE t.type = "Bool"
  <2>1. RawAcc(t) = "BitVec" /\ Src(t) = "BitSlice"
    BY <1>2 DEF Fixed, RawAcc, Src, Listed
  <2> QED BY <1>2, <2>1 DEF Kind
<1>3. CASE t.type = "String" \/ t.type = "Sequence"
  <2>1. RawAcc(t) = "Seq" /\ Src(t) = "Seq" /\ Bare(t) = t /\ Listed(t)
    BY <1>3 DEF Fixed, RawAcc, Src, Listed, Bare
  <2>2. Inner(t) = Element(t)
    BY <2>1 DEF Inner
  <2> QED BY <2>1, <2>2 DEF Kind
<1>4. CASE t.type = "Option"
  <2> DEFINE s == t.subtype
  <2>1. s \in Recorded /\ s.type # "Option" /\ Bare(t) = s
    BY <1>4, RecordedSubtypes DEF Composite, Bare
  <2>2. s.type \in TypeNames
    BY <2>1, NamedTypes, DepthAssumption DEF Recorded, Types
  <2>3. RawAcc(t) = OptAcc(s)
    BY <1>4 DEF RawAcc, Fixed, Listed
  <2>4. Src(t) = IF Listed(s) THEN "Seq" ELSE IF Niche(s) THEN "OptInSitu" ELSE "OptBitVec"
    <3>1. ~ Fixed(t) /\ ~ Listed(t) /\ t.type # "Bool"
      BY <1>4 DEF Fixed, Listed
    <3>2. CASE Listed(s)
      <4>1. ~ Niche(s)
        BY <3>2 DEF Listed, Niche, NonZero
      <4> QED BY <1>4, <3>1, <3>2, <4>1 DEF Src, OptSrc
    <3>3. CASE ~ Listed(s) /\ Niche(s)
      BY <1>4, <3>1, <3>3 DEF Src, OptSrc
    <3>4. CASE ~ Listed(s) /\ ~ Niche(s)
      BY <1>4, <3>1, <3>4 DEF Src, OptSrc
    <3> QED BY <3>2, <3>3, <3>4
  <2>5. CASE Listed(s)
    <3>1. ~ Niche(s)
      BY <2>5 DEF Listed, Niche, NonZero
    <3>2. RawAcc(t) = "OptSeq" /\ Src(t) = "Seq"
      BY <2>3, <2>4, <2>5, <3>1 DEF OptAcc
    <3> QED BY <2>1, <2>5, <3>2 DEF Kind, Inner
  <2>6. CASE ~ Listed(s) /\ Niche(s)
    <3>1. RawAcc(t) = "OptInSitu" /\ Src(t) = "OptInSitu"
      BY <2>3, <2>4, <2>6 DEF OptAcc
    <3> QED BY <1>4, <2>1, <2>6, <3>1 DEF Kind
  <2>7. CASE ~ Listed(s) /\ ~ Niche(s)
    <3>1. RawAcc(t) = "OptBitVec" /\ Src(t) = "OptBitVec"
      BY <2>3, <2>4, <2>7 DEF OptAcc
    <3>2. Fixed(s) \/ s.type = "Bool"
      BY <2>1, <2>2, <2>7 DEF TypeNames, Listed, Fixed
    <3>3. ~ Nested(s)
      <4>1. CASE Fixed(s)
        <5>1. ~ Listed(s) /\ s.type # "Bool" /\ s.type # "Option"
          BY <4>1 DEF Fixed, Listed
        <5> QED BY <4>1, <5>1 DEF Nested, RawAcc
      <4>2. CASE s.type = "Bool"
        <5>1. ~ Listed(s) /\ ~ Fixed(s)
          BY <4>2 DEF Fixed, Listed
        <5> QED BY <4>2, <5>1 DEF Nested, RawAcc
      <4> QED BY <3>2, <4>1, <4>2
    <3> QED BY <1>4, <2>1, <2>7, <3>1, <3>2, <3>3 DEF Kind, Inner
  <2> QED BY <2>5, <2>6, <2>7
<1> QED BY <1>0, <1>1, <1>2, <1>3, <1>4 DEF TypeNames

----------------------------------------------------------------------------
(* Values of fixed width                                                   *)

\* Cells of the width of a type come apart where they were put together.
LEMMA CellsOf ==
  ASSUME NEW t, Width(t) \in Nat \ {0}, NEW parts \in Seq(Seq(Bytes)),
         \A i \in 1..Len(parts) : Len(parts[i]) = Width(t)
  PROVE  /\ Cells(t, Concat(parts)) = parts
         /\ Len(Concat(parts)) % Width(t) = 0
         /\ Len(parts) <= Len(Concat(parts))
<1> DEFINE w == Width(t)
           src == Concat(parts)
<1>1. w \in Nat \ {0} /\ w \in Nat /\ Len(parts) \in Nat
  OBVIOUS
<1>2. /\ Len(src) = Len(parts) * w
      /\ \A n \in 1..Len(parts) : SubSeq(src, (n - 1) * w + 1, n * w) = parts[n]
  BY <1>1, EqualParts
<1> HIDE DEF w, src
<1>3. Len(src) = w * Len(parts) + 0
  BY <1>1, <1>2
<1>4. Len(src) \div w = Len(parts) /\ Len(src) % w = 0
  <2>1. Len(parts) \in Int /\ 0 \in 0..w - 1
    BY <1>1
  <2> QED BY <1>1, <1>3, <2>1, DivisionUnique
<1>5. Len(parts) <= Len(src)
  <2>1. \A a, b \in Nat : b # 0 => a <= a * b
    OBVIOUS
  <2> QED BY <1>1, <1>2, <2>1
<1>6. Cells(t, src) = [n \in 1..Len(parts) |-> SubSeq(src, (n - 1) * w + 1, n * w)]
  BY <1>4 DEF Cells, w
<1>7. Cells(t, src) = parts
  <2> DEFINE c == Cells(t, src)
  <2>1. c = [n \in 1..Len(parts) |-> c[n]]
    BY <1>6
  <2>2. \A n \in 1..Len(parts) : c[n] = parts[n]
    BY <1>2, <1>6
  <2>3. parts = [n \in 1..Len(parts) |-> parts[n]]
    OBVIOUS
  <2> HIDE DEF c
  <2>4. c = parts
    BY <2>1, <2>2, <2>3
  <2> QED BY <2>4 DEF c
<1> QED BY <1>4, <1>5, <1>7 DEF w, src

\* Numbers and chars come back, bit for bit.
LEMMA NumbersReads ==
  ASSUME NEW t \in NumberTypes \cup {Char}, NEW items \in Seq(Scalar(t))
  PROVE  /\ Numbers(t, Concat([i \in DOMAIN items |-> Encoded(t, items[i])])) = Ok(items)
         /\ Concat([i \in DOMAIN items |-> Encoded(t, items[i])]) \in Seq(Bytes)
         /\ Len(items) <= Len(Concat([i \in DOMAIN items |-> Encoded(t, items[i])]))
<1> DEFINE parts == [i \in DOMAIN items |-> Encoded(t, items[i])]
<1>1. DOMAIN items = 1..Len(items) /\ Len(items) \in Nat
  OBVIOUS
<1>2. \A i \in 1..Len(items) :
        /\ items[i] \in Scalar(t) /\ parts[i] = Encoded(t, items[i])
        /\ parts[i] \in Seq(Bytes) /\ Len(parts[i]) = Width(t)
        /\ Decoded(t, parts[i]) = items[i] /\ Valid(t, items[i])
  <2> TAKE i \in 1..Len(items)
  <2>1. items[i] \in Scalar(t)
    OBVIOUS
  <2>2. parts[i] = Encoded(t, items[i])
    BY <1>1
  <2> HIDE DEF parts
  <2> QED BY <2>1, <2>2, ScalarRoundTrip
<1>3. parts = [i \in 1..Len(items) |-> parts[i]]
  BY <1>1
<1> HIDE DEF parts
<1>4. parts \in Seq(Seq(Bytes)) /\ Len(parts) = Len(items) /\ DOMAIN parts = 1..Len(items)
  BY <1>1, <1>2, <1>3
<1>5. Width(t) \in Nat \ {0}
  BY WidthType
<1> DEFINE src == Concat(parts)
<1>6. /\ Cells(t, src) = parts
      /\ Len(src) % Width(t) = 0
      /\ Len(items) <= Len(src)
  BY <1>2, <1>4, <1>5, CellsOf
<1>7. src \in Seq(Bytes)
  BY <1>4, PrefixType
<1> DEFINE numbers == [i \in DOMAIN parts |-> Decoded(t, parts[i])]
<1>8. numbers = items
  <2>1. \A i \in 1..Len(items) : numbers[i] = items[i]
    BY <1>2, <1>4
  <2>2. numbers = [i \in 1..Len(items) |-> numbers[i]]
    BY <1>4
  <2>3. items = [i \in 1..Len(items) |-> items[i]]
    OBVIOUS
  <2> HIDE DEF numbers
  <2> QED BY <2>1, <2>2, <2>3
<1>9. ~ \E i \in DOMAIN items : ~ Valid(t, items[i])
  BY <1>1, <1>2
<1>10. Numbers(t, src) = IF Len(src) % Width(t) # 0 \/ \E i \in DOMAIN numbers : ~ Valid(t, numbers[i])
                         THEN Err ELSE Ok(numbers)
  <2> HIDE DEF src
  <2> QED BY <1>6 DEF Numbers
<1> HIDE DEF numbers, src
<1>11. Numbers(t, src) = Ok(items)
  BY <1>6, <1>8, <1>9, <1>10
<1> QED BY <1>6, <1>7, <1>11 DEF src, parts

\* The bytes of an item that may be none.
Cell(t, item) == IF item = <<>> THEN NoneBytes(t) ELSE Encoded(t, item[1])

\* So do those that may be none, whose type has a pattern to spare for it.
LEMMA NichesReads ==
  ASSUME NEW t \in NumberTypes \cup {Char}, Niche(t),
         NEW items \in Seq(Optional(Scalar(t)))
  PROVE  /\ Niches(t, Concat([i \in DOMAIN items |-> Cell(t, items[i])])) = Ok(items)
         /\ Concat([i \in DOMAIN items |-> Cell(t, items[i])]) \in Seq(Bytes)
         /\ Len(items) <= Len(Concat([i \in DOMAIN items |-> Cell(t, items[i])]))
<1> DEFINE parts == [i \in DOMAIN items |-> Cell(t, items[i])]
           Good(i, part) ==
             /\ part \in Seq(Bytes) /\ Len(part) = Width(t)
             /\ IF items[i] = <<>> THEN part = NoneBytes(t)
                ELSE /\ part # NoneBytes(t) /\ items[i] = <<Decoded(t, part)>>
                     /\ Valid(t, Decoded(t, part))
<1>1. DOMAIN items = 1..Len(items) /\ Len(items) \in Nat
  OBVIOUS
<1>2. \A i \in 1..Len(items) : Good(i, parts[i])
  <2> TAKE i \in 1..Len(items)
  <2>1. Optioned(Scalar(t), items[i])
    BY OptionalType
  <2>2. parts[i] = Cell(t, items[i])
    BY <1>1
  <2>3. NoneBytes(t) \in Seq(Bytes) /\ Len(NoneBytes(t)) = Width(t)
    BY NoneBytesDistinct
  <2> HIDE DEF parts
  <2>4. CASE items[i] = <<>>
    BY <2>2, <2>3, <2>4 DEF Cell
  <2>5. CASE items[i] # <<>>
    <3> DEFINE n == items[i][1]
    <3>1. n \in Scalar(t) /\ items[i] = <<n>>
      BY <2>1, <2>5 DEF Optioned
    <3>2. parts[i] = Encoded(t, n)
      BY <2>2, <2>5 DEF Cell
    <3> HIDE DEF n
    <3>3. /\ Encoded(t, n) \in Seq(Bytes) /\ Len(Encoded(t, n)) = Width(t)
          /\ Decoded(t, Encoded(t, n)) = n /\ Valid(t, n)
      BY <3>1, ScalarRoundTrip
    <3>4. Encoded(t, n) # NoneBytes(t)
      BY <3>1, NoneBytesDistinct
    <3> QED BY <2>5, <3>1, <3>2, <3>3, <3>4
  <2> QED BY <2>4, <2>5
<1>3. parts = [i \in 1..Len(items) |-> parts[i]]
  BY <1>1
<1> HIDE DEF parts
<1>4. parts \in Seq(Seq(Bytes)) /\ Len(parts) = Len(items) /\ DOMAIN parts = 1..Len(items)
  BY <1>1, <1>2, <1>3
<1>5. Width(t) \in Nat \ {0}
  BY WidthType
<1> DEFINE src == Concat(parts)
<1>6. /\ Cells(t, src) = parts
      /\ Len(src) % Width(t) = 0
      /\ Len(items) <= Len(src)
  BY <1>2, <1>4, <1>5, CellsOf
<1>7. src \in Seq(Bytes)
  BY <1>4, PrefixType
<1> DEFINE out == [i \in DOMAIN parts |-> IF parts[i] = NoneBytes(t) THEN <<>> ELSE <<Decoded(t, parts[i])>>]
<1>8. out = items
  <2>1. \A i \in 1..Len(items) : out[i] = items[i]
    <3> TAKE i \in 1..Len(items)
    <3>1. out[i] = IF parts[i] = NoneBytes(t) THEN <<>> ELSE <<Decoded(t, parts[i])>>
      BY <1>4
    <3> HIDE DEF out
    <3>2. Good(i, parts[i])
      BY <1>2
    <3> QED BY <3>1, <3>2
  <2>2. out = [i \in 1..Len(items) |-> out[i]]
    BY <1>4
  <2>3. items = [i \in 1..Len(items) |-> items[i]]
    OBVIOUS
  <2> HIDE DEF out
  <2> QED BY <2>1, <2>2, <2>3
<1>9. ~ \E i \in DOMAIN parts : ~ (parts[i] = NoneBytes(t)) /\ ~ Valid(t, Decoded(t, parts[i]))
  BY <1>2, <1>4
<1>10. Niches(t, src) = Ok(out)
  <2> HIDE DEF src
  <2> QED BY <1>6, <1>9 DEF Niches
<1> HIDE DEF out, src
<1>11. Niches(t, src) = Ok(items)
  BY <1>8, <1>10
<1> QED BY <1>6, <1>7, <1>11 DEF src, parts

----------------------------------------------------------------------------
(* Masks                                                                   *)

\* How many of the first n bits are set.
Present(bits, n) == Cardinality({k \in 1..n : bits[k]})

\* The number of bits set among the first n is a number.
LEMMA PresentType ==
  ASSUME NEW m, NEW n \in Int
  PROVE  /\ IsFiniteSet({k \in 1..n : m[k]})
         /\ Present(m, n) \in Nat
<1>1. IsFiniteSet(1..n)
  BY FS_Interval
<1>2. {k \in 1..n : m[k]} \in SUBSET (1..n)
  OBVIOUS
<1>3. IsFiniteSet({k \in 1..n : m[k]})
  BY <1>1, <1>2, FS_Subset
<1> QED BY <1>3, FS_CardinalityType DEF Present

\* None of no bits is set.
LEMMA PresentZero == ASSUME NEW m PROVE Present(m, 0) = 0
<1>1. {k \in 1..0 : m[k]} = {}
  OBVIOUS
<1> QED BY <1>1, FS_EmptySet DEF Present

\* A bit more counts if it is set.
LEMMA PresentNext ==
  ASSUME NEW m, NEW n \in Nat \ {0}
  PROVE  Present(m, n) = Present(m, n - 1) + (IF m[n] THEN 1 ELSE 0)
<1>0. n - 1 \in Int
  OBVIOUS
<1>1. IsFiniteSet({k \in 1..n - 1 : m[k]}) /\ Present(m, n - 1) \in Nat
  BY <1>0, PresentType
<1>2. n \notin {k \in 1..n - 1 : m[k]}
  OBVIOUS
<1>3. CASE m[n]
  <2>1. {k \in 1..n : m[k]} = {k \in 1..n - 1 : m[k]} \cup {n}
    BY <1>3
  <2> QED BY <1>1, <1>2, <1>3, <2>1, FS_AddElement DEF Present
<1>4. CASE ~ m[n]
  <2>1. {k \in 1..n : m[k]} = {k \in 1..n - 1 : m[k]}
    BY <1>4
  <2>2. Present(m, n) = Present(m, n - 1)
    BY <2>1 DEF Present
  <2> QED BY <1>1, <1>4, <2>2
<1> QED BY <1>3, <1>4

\* What begins with some items.
Begins(out, items) ==
  Len(items) <= Len(out) /\ \A n \in 1..Len(items) : out[n] = items[n]

\* Items begin with themselves.
LEMMA BeginsSelf == ASSUME NEW S, NEW items \in Seq(S) PROVE Begins(items, items)
BY DEF Begins

\* The mask of some items, with more zeros at the end.
Masks(bits, items) ==
  /\ bits \in Seq(BOOLEAN) /\ Len(items) <= Len(bits)
  /\ \A j \in 1..Len(bits) : bits[j] = (j <= Len(items) /\ items[j] # <<>>)

\* The bits that are set up to n are the values of the items up to n.
LEMMA PresentBefore ==
  ASSUME NEW S, NEW items \in Seq(Optional(S)), NEW bits, Masks(bits, items)
  PROVE  \A n \in 0..Len(items) : Present(bits, n) = Before(items, n)
<1> DEFINE T == {n \in 0..Len(items) : Present(bits, n) = Before(items, n)}
<1>1. Len(items) \in Nat /\ Len(bits) \in Nat /\ items \in Seq(Seq(S))
  BY DEF Masks, Optional
<1>2. 0 \in T
  <2>1. Before(items, 0) = 0
    BY <1>1, ConcatSlice
  <2> QED BY <1>1, <2>1, PresentZero
<1>3. ASSUME NEW n \in 1..Len(items), n - 1 \in T PROVE n \in T
  <2>1. n \in Nat \ {0} /\ n \in 1..Len(bits) /\ n - 1 \in Int
    BY <1>1 DEF Masks
  <2>2. Present(bits, n) = Present(bits, n - 1) + (IF bits[n] THEN 1 ELSE 0)
    BY <2>1, PresentNext
  <2>3. bits[n] = (items[n] # <<>>)
    BY <2>1 DEF Masks
  <2>4. Before(items, n) = Before(items, n - 1) + Len(items[n])
    BY <1>1, BeforeNext
  <2>5. Optioned(S, items[n])
    BY OptionalType
  <2>6. Len(items[n]) = IF bits[n] THEN 1 ELSE 0
    BY <2>3, <2>5 DEF Optioned
  <2> QED BY <1>3, <2>2, <2>4, <2>6
<1>4. 0..Len(items) \subseteq T
  <2> HIDE DEF T
  <2> QED BY <1>1, <1>2, <1>3, BoundedInduction
<1> QED BY <1>4

\* A mask has no more bits set than the inner reader has values, so that it
\* never runs out.
LEMMA PresentAfter ==
  ASSUME NEW S, NEW items \in Seq(Optional(S)), NEW bits, Masks(bits, items)
  PROVE  \A n \in 0..Len(bits) : Present(bits, n) <= Len(Concat(items))
<1>1. Len(items) \in Nat /\ Len(bits) \in Nat /\ items \in Seq(Seq(S)) /\ Len(items) <= Len(bits)
  BY DEF Masks, Optional
<1> DEFINE T == {n \in 0..Len(bits) : Present(bits, n) <= Len(Concat(items))}
<1>2. \A n \in 0..Len(items) : Present(bits, n) <= Len(Concat(items))
  <2>1. \A n \in 0..Len(items) : Before(items, n) \in 0..Len(Concat(items))
    BY <1>1, ConcatSlice
  <2>2. Len(Concat(items)) \in Nat
    BY <1>1, PrefixType
  <2> QED BY <2>1, <2>2, PresentBefore
<1>3. 0 \in T
  BY <1>1, <1>2
<1>4. ASSUME NEW n \in 1..Len(bits), n - 1 \in T PROVE n \in T
  <2>1. CASE n <= Len(items)
    BY <1>2, <2>1
  <2>2. CASE ~ (n <= Len(items))
    <3>1. ~ bits[n]
      BY <2>2 DEF Masks
    <3>2. n \in Nat \ {0} /\ n - 1 \in Int
      OBVIOUS
    <3>3. Present(bits, n) = Present(bits, n - 1) + 0 /\ Present(bits, n - 1) \in Nat
      BY <3>1, <3>2, PresentNext, PresentType
    <3> QED BY <1>4, <3>3
  <2> QED BY <2>1, <2>2
<1>5. 0..Len(bits) \subseteq T
  <2> HIDE DEF T
  <2> QED BY <1>1, <1>3, <1>4, BoundedInduction
<1> QED BY <1>5

\* The items of a mask and of the values that are present.
LEMMA MaskedReads ==
  ASSUME NEW S, NEW items \in Seq(Optional(S)), NEW bits, Masks(bits, items),
         NEW values \in Seq(S), Begins(values, Concat(items))
  PROVE  /\ Begins(Masked(bits, values), items)
         /\ Masked(bits, values) \in Seq(Optional(S))
<1>1. Len(items) \in Nat /\ Len(bits) \in Nat /\ items \in Seq(Seq(S)) /\ Len(items) <= Len(bits)
      /\ DOMAIN bits = 1..Len(bits)
  BY DEF Masks, Optional
<1>2. Len(Concat(items)) \in Nat /\ Concat(items) \in Seq(S)
  BY <1>1, PrefixType
<1>3. Len(Concat(items)) <= Len(values) /\ Len(values) \in Nat
  BY DEF Begins
<1> DEFINE readable == {n \in DOMAIN bits : Cardinality({k \in 1..n : bits[k]}) <= Len(values)}
<1>4. readable = 1..Len(bits)
  <2> SUFFICES ASSUME NEW n \in 1..Len(bits) PROVE Cardinality({k \in 1..n : bits[k]}) <= Len(values)
    BY <1>1
  <2>1. n \in 0..Len(bits) /\ n \in Int
    BY <1>1
  <2>2. Present(bits, n) <= Len(Concat(items)) /\ Present(bits, n) \in Nat
    BY <2>1, PresentAfter, PresentType
  <2>3. Present(bits, n) <= Len(values)
    BY <2>2, <1>2, <1>3
  <2> QED BY <2>3 DEF Present
<1>5. Cardinality(readable) = Len(bits)
  <2>1. 1 \in Int /\ Len(bits) \in Int
    BY <1>1
  <2>2. Cardinality(1..Len(bits)) = IF 1 > Len(bits) THEN 0 ELSE Len(bits) - 1 + 1
    BY <2>1, FS_Interval, Zenon
  <2>3. Cardinality(1..Len(bits)) = Len(bits)
    BY <1>1, <2>2
  <2> HIDE DEF readable
  <2> QED BY <1>4, <2>3
<1> HIDE DEF readable
<1> DEFINE out == Masked(bits, values)
<1>6. out = [n \in 1..Len(bits) |-> IF bits[n] THEN <<values[Present(bits, n)]>> ELSE <<>>]
  BY <1>5 DEF Masked, Present, readable
<1>7. ASSUME NEW n \in 1..Len(items) PROVE out[n] = items[n]
  <2>1. n \in 1..Len(bits) /\ n \in 0..Len(items) /\ n - 1 \in 0..Len(items)
    BY <1>1
  <2>2. out[n] = IF bits[n] THEN <<values[Present(bits, n)]>> ELSE <<>>
    BY <1>6, <2>1
  <2>3. bits[n] = (items[n] # <<>>)
    BY <2>1 DEF Masks
  <2>4. CASE items[n] = <<>>
    BY <2>2, <2>3, <2>4
  <2>5. CASE items[n] # <<>>
    <3>1. Len(items[n]) = 1 /\ items[n] = <<items[n][1]>>
      BY <2>5, OptionalType DEF Optioned
    <3>2. Before(items, n) = Before(items, n - 1) + 1 /\ Before(items, n - 1) \in Nat
      BY <1>1, <3>1, BeforeNext
    <3>3. Before(items, n) \in 0..Len(Concat(items))
      BY <1>1, <2>1, ConcatSlice
    <3>4. SubSeq(Concat(items), Before(items, n - 1) + 1, Before(items, n)) = items[n]
      BY <1>1, ConcatSlice
    <3> DEFINE b == Before(items, n)
               c == Concat(items)
    <3>5. b - 1 + 1 = Before(items, n - 1) + 1 /\ b \in 1..Len(c)
      BY <3>2, <3>3
    <3>6. SubSeq(c, b, b) = items[n]
      BY <3>2, <3>4
    <3> HIDE DEF b, c
    <3>7. SubSeq(c, b, b)[1] = c[b]
      BY <3>5, <1>2 DEF c
    <3>8. values[b] = c[b]
      BY <3>5 DEF Begins, c
    <3>9. Present(bits, n) = b
      BY <2>1, PresentBefore DEF b
    <3> QED BY <2>2, <2>3, <2>5, <3>1, <3>6, <3>7, <3>8, <3>9
  <2> QED BY <2>4, <2>5
<1>8. Len(out) = Len(bits)
  BY <1>1, <1>6
<1>9. ASSUME NEW n \in 1..Len(bits) PROVE out[n] \in Optional(S)
  <2>1. CASE bits[n]
    <3>1. n \in 1..Len(items)
      BY <1>1, <2>1 DEF Masks
    <3>2. items[n] \in Optional(S)
      BY <3>1
    <3> QED BY <1>7, <3>1, <3>2
  <2>2. CASE ~ bits[n]
    <3>1. out[n] = <<>>
      BY <1>6, <2>2
    <3>2. <<>> \in Seq(S) /\ Len(<<>>) = 0
      OBVIOUS
    <3>3. <<>> \in Optional(S)
      BY <3>2 DEF Optional
    <3> QED BY <3>1, <3>3
  <2> QED BY <2>1, <2>2
<1>10. out = [n \in 1..Len(bits) |-> out[n]]
  BY <1>6
<1> HIDE DEF out
<1>11. out \in Seq(Optional(S))
  BY <1>1, <1>9, <1>10
<1> QED BY <1>1, <1>7, <1>8, <1>11 DEF Begins, out

----------------------------------------------------------------------------
(* Ends                                                                    *)

\* A part more at the end of the parts is put at the end of what they flatten
\* to.
LEMMA ConcatLonger ==
  ASSUME NEW S, NEW parts \in Seq(Seq(S)), NEW x \in Seq(S)
  PROVE  Concat(parts \o <<x>>) = Concat(parts) \o x
<1> DEFINE longer == parts \o <<x>>
           n == Len(parts) + 1
<1>1. longer \in Seq(Seq(S)) /\ Len(longer) = n /\ longer[n] = x
      /\ SubSeq(longer, 1, n - 1) = parts /\ SubSeq(longer, 1, n) = longer /\ n \in 1..Len(longer)
  <2>1. <<x>> \in Seq(Seq(S)) /\ Len(<<x>>) = 1
    OBVIOUS
  <2> QED BY <2>1
<1> HIDE DEF longer, n
<1>2. Prefix(longer, n) = Prefix(longer, n - 1) \o longer[n]
  BY <1>1, PrefixNext
<1> QED BY <1>1, <1>2 DEF Prefix, longer

\* Items of a type of strings or sequences, or of options of them.
Listing(t, S, items) ==
  IF t.type = "Option" THEN items \in Seq(Optional(Seq(S))) ELSE items \in Seq(Seq(S))

\* The elements of each item; None has none.
Piece(t, item) ==
  IF t.type = "Option" THEN IF item = <<>> THEN <<>> ELSE item[1] ELSE item

Pieces(t, items) == [i \in 1..Len(items) |-> Piece(t, items[i])]

\* Each item adds its own piece to the content that the inner accumulator
\* gets.
LEMMA PiecesType ==
  ASSUME NEW t, NEW S, NEW items, Listing(t, S, items)
  PROVE  /\ Pieces(t, items) \in Seq(Seq(S)) /\ Len(Pieces(t, items)) = Len(items)
         /\ Len(items) \in Nat /\ DOMAIN items = 1..Len(items)
         /\ \A i \in 1..Len(items) : Pieces(t, items)[i] = Piece(t, items[i])
<1>1. Len(items) \in Nat /\ DOMAIN items = 1..Len(items)
  BY DEF Listing
<1>2. \A i \in 1..Len(items) : Piece(t, items[i]) \in Seq(S)
  <2> TAKE i \in 1..Len(items)
  <2>1. CASE t.type = "Option"
    <3>1. items[i] \in Optional(Seq(S))
      BY <2>1 DEF Listing
    <3>2. Optioned(Seq(S), items[i])
      BY <3>1, OptionalType
    <3> QED BY <2>1, <3>2 DEF Piece, Optioned
  <2>2. CASE t.type # "Option"
    BY <2>2 DEF Listing, Piece
  <2> QED BY <2>1, <2>2
<1> QED BY <1>1, <1>2 DEF Pieces

\* The elements of the first n items are their pieces.
LEMMA ElementsOfPieces ==
  ASSUME NEW t, NEW S, NEW items, Listing(t, S, items)
  PROVE  /\ \A n \in 0..Len(items) : Elements(t, SubSeq(items, 1, n)) = Prefix(Pieces(t, items), n)
         /\ Elements(t, items) = Concat(Pieces(t, items))
<1> DEFINE pieces == Pieces(t, items)
           L == Len(items)
           T == {n \in 0..L : Elements(t, SubSeq(items, 1, n)) = Prefix(pieces, n)}
<1>1. /\ pieces \in Seq(Seq(S)) /\ Len(pieces) = L /\ L \in Nat /\ DOMAIN items = 1..L
      /\ \A i \in 1..L : pieces[i] = Piece(t, items[i])
  BY PiecesType
<1> HIDE DEF pieces
<1>2. CASE t.type # "Option"
  <2>1. items \in Seq(Seq(S))
    BY <1>2 DEF Listing
  <2>2. pieces = items
    <3>1. \A i \in 1..L : pieces[i] = items[i]
      BY <1>1, <1>2 DEF Piece
    <3>2. pieces = [i \in 1..L |-> pieces[i]] /\ items = [i \in 1..L |-> items[i]]
      <4>1. pieces = [i \in 1..L |-> pieces[i]]
        BY <1>1
      <4>2. items = [i \in 1..L |-> items[i]]
        BY <2>1
      <4> QED BY <4>1, <4>2
    <3>3. [i \in 1..L |-> pieces[i]] = [i \in 1..L |-> items[i]]
      BY <3>1
    <3> QED BY <3>2, <3>3
  <2>3. SubSeq(items, 1, L) = items
    BY <2>1
  <2> QED BY <1>2, <2>2, <2>3 DEF Elements, Values, Prefix, pieces
<1>3. CASE t.type = "Option"
  <2>1. items \in Seq(Optional(Seq(S))) /\ items \in Seq(Seq(Seq(S)))
    BY <1>3 DEF Listing, Optional
  <2>2. \A n \in 0..L : Elements(t, SubSeq(items, 1, n)) = Concat(Prefix(items, n))
    BY <1>3 DEF Elements, Values, Prefix
  <2>3. 0 \in T
    <3>1. Prefix(items, 0) = <<>> /\ Prefix(pieces, 0) = <<>>
      BY <2>1, <1>1, PrefixZero
    <3>2. 0 \in 0..L
      BY <1>1
    <3>3. Elements(t, SubSeq(items, 1, 0)) = Prefix(pieces, 0)
      BY <2>2, <3>1, <3>2, ConcatEmpty
    <3> QED BY <3>2, <3>3
  <2>4. ASSUME NEW n \in 1..L, n - 1 \in T PROVE n \in T
    <3>1. n \in 1..Len(items) /\ n \in 1..Len(pieces) /\ n - 1 \in 0..Len(items) /\ n \in 0..L
      BY <1>1
    <3>2. Prefix(items, n) = Prefix(items, n - 1) \o items[n]
      BY <2>1, <3>1, PrefixNext
    <3>3. Prefix(pieces, n) = Prefix(pieces, n - 1) \o pieces[n]
      BY <1>1, <3>1, PrefixNext
    <3>4. Prefix(items, n - 1) \in Seq(Seq(S)) /\ Prefix(pieces, n - 1) \in Seq(S)
      BY <1>1, <2>1, <3>1, PrefixType
    <3>5. Concat(Prefix(items, n - 1)) = Prefix(pieces, n - 1)
      BY <2>2, <2>4, <3>1
    <3>6. Optioned(Seq(S), items[n])
      BY <2>1, <3>1, OptionalType
    <3>7. pieces[n] = IF items[n] = <<>> THEN <<>> ELSE items[n][1]
      BY <1>1, <1>3 DEF Piece
    <3>8. Concat(Prefix(items, n)) = Prefix(pieces, n)
      <4>1. CASE items[n] = <<>>
        <5>1. Prefix(items, n) = Prefix(items, n - 1) /\ Prefix(pieces, n) = Prefix(pieces, n - 1)
          BY <3>2, <3>3, <3>4, <3>7, <4>1
        <5> QED BY <5>1, <3>5
      <4>2. CASE items[n] # <<>>
        <5>1. items[n] = <<pieces[n]>> /\ pieces[n] \in Seq(S)
          BY <3>6, <3>7, <4>2 DEF Optioned
        <5>2. Concat(Prefix(items, n - 1) \o <<pieces[n]>>) = Concat(Prefix(items, n - 1)) \o pieces[n]
          BY <3>4, <5>1, ConcatLonger
        <5> QED BY <3>2, <3>3, <3>5, <5>1, <5>2
      <4> QED BY <4>1, <4>2
    <3> QED BY <2>2, <3>1, <3>8
  <2>5. 0..L \subseteq T
    <3> HIDE DEF T
    <3> QED BY <1>1, <2>3, <2>4, BoundedInduction
  <2>6. L \in T
    <3> HIDE DEF T
    <3> QED BY <1>1, <2>5
  <2>7. SubSeq(items, 1, L) = items /\ Prefix(pieces, L) = Concat(pieces)
    BY <2>1, <1>1, PrefixWhole
  <2> QED BY <2>5, <2>6, <2>7 DEF pieces
<1> QED BY <1>2, <1>3

\* None is marked, the others end where the next one begins.
Absent(t, items, i) == t.type = "Option" /\ items[i] = <<>>

\* The end recorded for an item is the length of the content up to it, or the
\* mark of None.
LEMMA EndsAre ==
  ASSUME NEW t, NEW S, NEW items, Listing(t, S, items)
  PROVE  /\ DOMAIN Ends(t, items) = 1..Len(items)
         /\ Ends(t, items) = [i \in 1..Len(items) |-> Ends(t, items)[i]]
         /\ \A i \in 1..Len(items) :
              Ends(t, items)[i] = IF Absent(t, items, i) THEN MaxU64
                                  ELSE Before(Pieces(t, items), i)
<1>1. Len(items) \in Nat /\ DOMAIN items = 1..Len(items)
  BY PiecesType
<1>2. \A i \in 1..Len(items) : Elements(t, SubSeq(items, 1, i)) = Prefix(Pieces(t, items), i)
  <2>1. \A i \in 1..Len(items) : i \in 0..Len(items)
    BY <1>1
  <2> QED BY <2>1, ElementsOfPieces
<1> QED BY <1>1, <1>2 DEF Ends, Absent, Before

\* The greatest of some numbers.
LEMMA MaxOf ==
  ASSUME NEW N \in Nat, NEW T \in SUBSET (0..N), T # {}
  PROVE  Max(T) \in T /\ \A m \in T : m <= Max(T)
<1>1. \E n \in T : \A m \in T : n >= m
  BY Largest
<1> QED BY <1>1 DEF Max

\* Items without elements leave everything where it is.
LEMMA BeforeSame ==
  ASSUME NEW S, NEW parts \in Seq(Seq(S)), NEW m \in 0..Len(parts),
         NEW n \in m..Len(parts),
         \A k \in m + 1..n : parts[k] = <<>>
  PROVE  Before(parts, n) = Before(parts, m)
<1> DEFINE T == {k \in 0..n - m : Before(parts, m + k) = Before(parts, m)}
<1>1. n - m \in Nat /\ m \in Nat /\ m + (n - m) = n /\ m + 0 = m
  OBVIOUS
<1>2. 0 \in T
  BY <1>1
<1>3. ASSUME NEW k \in 1..n - m, k - 1 \in T PROVE k \in T
  <2>1. m + k \in 1..Len(parts) /\ (m + k) - 1 = m + (k - 1) /\ m + k \in m + 1..n
    BY <1>1
  <2>2. Before(parts, m + k) = Before(parts, m + (k - 1)) + Len(parts[m + k])
        /\ Before(parts, m + (k - 1)) \in Nat
    BY <2>1, BeforeNext
  <2>3. Len(parts[m + k]) = 0
    BY <2>1, SMTT(30)
  <2> QED BY <1>3, <2>2, <2>3
<1>4. 0..n - m \subseteq T
  <2> HIDE DEF T
  <2> QED BY <1>1, <1>2, <1>3, BoundedInduction
<1>5. n - m \in T
  <2> HIDE DEF T
  <2> QED BY <1>1, <1>4
<1> QED BY <1>1, <1>5

\* The reader finds where each sequence begins.
LEMMA StartIs ==
  ASSUME NEW t, NEW S, NEW items, Listing(t, S, items), Len(Elements(t, items)) < MaxU64,
         MaxU64 \in Nat, NEW n \in 1..Len(items)
  PROVE  Start(t, Ends(t, items), n) = Before(Pieces(t, items), n - 1)
<1> DEFINE pieces == Pieces(t, items)
           ends == Ends(t, items)
           before == {m \in 1..n - 1 : t.type = "Option" => ends[m] # MaxU64}
<1>1. /\ pieces \in Seq(Seq(S)) /\ Len(pieces) = Len(items) /\ Len(items) \in Nat
      /\ \A i \in 1..Len(items) : pieces[i] = Piece(t, items[i])
  BY PiecesType
<1>2. \A i \in 1..Len(items) : ends[i] = IF Absent(t, items, i) THEN MaxU64 ELSE Before(pieces, i)
  BY EndsAre
<1>3. Elements(t, items) = Concat(pieces)
  BY ElementsOfPieces
<1> HIDE DEF pieces, ends
<1>4. \A i \in 0..Len(items) : Before(pieces, i) \in 0..Len(Concat(pieces))
  BY <1>1, ConcatSlice
<1>5. Concat(pieces) \in Seq(S) /\ Len(Concat(pieces)) \in Nat
  BY <1>1, PrefixType
<1>6. \A i \in 1..Len(items) : Absent(t, items, i) <=> (t.type = "Option" /\ ends[i] = MaxU64)
  <2> TAKE i \in 1..Len(items)
  <2>1. i \in 0..Len(items)
    BY <1>1
  <2>2. Before(pieces, i) < MaxU64
    BY <1>3, <1>4, <1>5, <2>1
  <2>3. Before(pieces, i) \in Nat
    BY <1>4, <2>1, <1>5
  <2> QED BY <1>2, <2>2, <2>3 DEF Absent
<1>7. \A i \in 1..Len(items) : Absent(t, items, i) => pieces[i] = <<>>
  BY <1>1 DEF Absent, Piece
<1>8. before = {m \in 1..n - 1 : ~ Absent(t, items, m)}
  <2>1. \A m \in 1..n - 1 : m \in 1..Len(items)
    BY <1>1
  <2> QED BY <1>6, <2>1
<1>9. n - 1 \in Nat /\ n - 1 \in 0..Len(pieces) /\ before \in SUBSET (0..n - 1)
  BY <1>1
<1>10. Start(t, ends, n) = IF before = {} THEN 0 ELSE ends[Max(before)]
  BY DEF Start
<1> HIDE DEF before
<1>11. CASE before = {}
  <2>1. \A k \in 0 + 1..n - 1 : pieces[k] = <<>>
    <3> TAKE k \in 0 + 1..n - 1
    <3>1. k \in 1..Len(items) /\ k \in 1..n - 1
      BY <1>1
    <3> QED BY <1>7, <1>8, <1>11, <3>1
  <2>2. 0 \in 0..Len(pieces) /\ n - 1 \in 0..Len(pieces)
    BY <1>1
  <2>3. Before(pieces, n - 1) = Before(pieces, 0)
    BY <1>1, <2>1, <2>2, BeforeSame
  <2>4. Before(pieces, 0) = 0
    BY <1>1, ConcatSlice
  <2> QED BY <1>10, <1>11, <2>3, <2>4 DEF ends, pieces
<1>12. CASE before # {}
  <2> DEFINE m == Max(before)
  <2>1. m \in before /\ \A k \in before : k <= m
    BY <1>9, <1>12, MaxOf
  <2>2. m \in 1..n - 1 /\ ~ Absent(t, items, m)
    BY <2>1, <1>8
  <2> HIDE DEF m
  <2>3. \A k \in m + 1..n - 1 : pieces[k] = <<>>
    <3> TAKE k \in m + 1..n - 1
    <3>1. k \in 1..n - 1 /\ k \in 1..Len(items) /\ ~ (k <= m)
      BY <1>1, <2>2
    <3>2. k \notin before
      BY <2>1, <3>1
    <3> QED BY <1>7, <1>8, <3>1, <3>2
  <2>4. m \in 0..Len(pieces) /\ n - 1 \in m..Len(pieces) /\ m \in 1..Len(items)
    BY <1>1, <2>2
  <2>5. Before(pieces, n - 1) = Before(pieces, m)
    BY <1>1, <2>3, <2>4, BeforeSame
  <2>6. ends[m] = Before(pieces, m)
    BY <1>2, <2>2, <2>4
  <2> QED BY <1>10, <1>12, <2>5, <2>6 DEF ends, pieces, m
<1> QED BY <1>11, <1>12

\* Each sequence is cut from the elements as it was, and None is none.
LEMMA DelimitedReads ==
  ASSUME NEW t, NEW S, NEW items, Listing(t, S, items), Len(Elements(t, items)) < MaxU64,
         MaxU64 \in Nat, NEW elements \in Seq(S), Begins(elements, Elements(t, items))
  PROVE  Delimited(t, Ends(t, items), elements) = items
<1> DEFINE pieces == Pieces(t, items)
           ends == Ends(t, items)
           all == Concat(pieces)
           out == Delimited(t, ends, elements)
<1>1. /\ pieces \in Seq(Seq(S)) /\ Len(pieces) = Len(items) /\ Len(items) \in Nat
      /\ DOMAIN items = 1..Len(items)
      /\ \A i \in 1..Len(items) : pieces[i] = Piece(t, items[i])
  BY PiecesType
<1>2. /\ DOMAIN ends = 1..Len(items)
      /\ \A i \in 1..Len(items) : ends[i] = IF Absent(t, items, i) THEN MaxU64 ELSE Before(pieces, i)
  BY EndsAre
<1>3. Elements(t, items) = all
  BY ElementsOfPieces
<1>4. \A i \in 1..Len(items) : Start(t, ends, i) = Before(pieces, i - 1)
  BY StartIs
<1> HIDE DEF pieces, ends
<1>5. /\ \A i \in 0..Len(items) : Before(pieces, i) \in 0..Len(all)
      /\ \A i \in 1..Len(items) : SubSeq(all, Before(pieces, i - 1) + 1, Before(pieces, i)) = pieces[i]
  BY <1>1, ConcatSlice
<1>6. all \in Seq(S) /\ Len(all) \in Nat /\ Len(all) < MaxU64
  BY <1>1, <1>3, PrefixType
<1> HIDE DEF all
<1>7. \A i \in 1..Len(items) : out[i] = items[i]
  <2> TAKE i \in 1..Len(items)
  <2>1. i \in 0..Len(items) /\ i - 1 \in 0..Len(items)
    BY <1>1
  <2>2. out[i] = IF t.type = "Option" /\ ends[i] = MaxU64 THEN <<>>
                 ELSE LET item == SubSeq(elements, Start(t, ends, i) + 1, ends[i])
                      IN  IF t.type = "Option" THEN <<item>> ELSE item
    BY <1>2 DEF Delimited
  <2> HIDE DEF out
  <2>3. Before(pieces, i) \in Nat /\ Before(pieces, i - 1) \in Nat
        /\ Before(pieces, i) <= Len(all) /\ Before(pieces, i) < MaxU64
    BY <1>5, <1>6, <2>1
  <2>4. CASE Absent(t, items, i)
    BY <1>2, <2>2, <2>4 DEF Absent
  <2>5. CASE ~ Absent(t, items, i)
    <3>1. ends[i] = Before(pieces, i) /\ ends[i] # MaxU64
      BY <1>2, <2>3, <2>5
    <3>2. SubSeq(elements, Before(pieces, i - 1) + 1, Before(pieces, i))
            = SubSeq(all, Before(pieces, i - 1) + 1, Before(pieces, i))
      <4> DEFINE a == Before(pieces, i - 1)
                 b == Before(pieces, i)
      <4>1. a \in Nat /\ b \in Nat /\ b <= Len(all) /\ b <= Len(elements) /\ Len(elements) \in Nat
        BY <2>3, <1>3, <1>6 DEF Begins
      <4>2. \A k \in 1..Len(all) : elements[k] = all[k]
        BY <1>3 DEF Begins
      <4> HIDE DEF a, b
      <4>3. SubSeq(elements, a + 1, b) = SubSeq(all, a + 1, b)
        BY <4>1, <4>2, <1>6
      <4> QED BY <4>3 DEF a, b
    <3>3. SubSeq(elements, Start(t, ends, i) + 1, ends[i]) = Piece(t, items[i])
      BY <1>1, <1>4, <1>5, <3>1, <3>2
    <3>4. CASE t.type = "Option"
      <4>1. out[i] = <<Piece(t, items[i])>>
        BY <2>2, <3>1, <3>3, <3>4
      <4>2. items[i] # <<>> /\ items[i] \in Optional(Seq(S))
        BY <2>5, <3>4 DEF Absent, Listing
      <4>3. items[i] = <<items[i][1]>>
        BY <4>2, OptionalType DEF Optioned
      <4>4. Piece(t, items[i]) = items[i][1]
        BY <3>4, <4>2 DEF Piece
      <4> QED BY <4>1, <4>3, <4>4
    <3>5. CASE t.type # "Option"
      BY <2>2, <3>3, <3>5 DEF Piece
    <3> QED BY <3>4, <3>5
  <2> QED BY <2>4, <2>5
<1>8. out = [i \in 1..Len(items) |-> out[i]]
  BY <1>2 DEF Delimited
<1>9. items = [i \in 1..Len(items) |-> items[i]]
  BY DEF Listing
<1> HIDE DEF out
<1>10. out = items
  BY <1>7, <1>8, <1>9
<1> QED BY <1>10 DEF out, ends

\* So are the ends, which take a word each.
LEMMA EndsReads ==
  ASSUME NEW t, NEW S, NEW items, Listing(t, S, items), Len(Elements(t, items)) < MaxU64
  PROVE  LET ends == Ends(t, items)
             bytes == Concat([i \in DOMAIN items |-> ToBytes(ends[i], Word)])
         IN  /\ Numbers(Number("UInt", Word), bytes) = Ok(ends)
             /\ bytes \in Seq(Bytes) /\ Len(items) <= Len(bytes)
<1> DEFINE ends == Ends(t, items)
           u == Number("UInt", Word)
           pieces == Pieces(t, items)
<1>0. MaxU64 \in Nat /\ MaxU64 = Limit(Word) - 1 /\ Limit(Word) \in Nat \ {0}
  <2>1. Word \in Nat
    BY Widths
  <2>2. Limit(Word) \in Nat \ {0}
    BY <2>1, LimitType
  <2> QED BY <2>2 DEF MaxU64
<1>1. /\ pieces \in Seq(Seq(S)) /\ Len(pieces) = Len(items) /\ Len(items) \in Nat
      /\ DOMAIN items = 1..Len(items)
  BY PiecesType
<1>2. /\ DOMAIN ends = 1..Len(items) /\ ends = [i \in 1..Len(items) |-> ends[i]]
      /\ \A i \in 1..Len(items) : ends[i] = IF Absent(t, items, i) THEN MaxU64 ELSE Before(pieces, i)
  BY EndsAre
<1>3. Elements(t, items) = Concat(pieces)
  BY ElementsOfPieces
<1> HIDE DEF pieces, ends
<1>4. \A i \in 0..Len(items) : Before(pieces, i) \in 0..Len(Concat(pieces))
  BY <1>1, ConcatSlice
<1>5. Concat(pieces) \in Seq(S)
  BY <1>1, PrefixType
<1>6. \A i \in 1..Len(items) : ends[i] \in 0..MaxU64
  <2> TAKE i \in 1..Len(items)
  <2>1. i \in 0..Len(items)
    BY <1>1
  <2>2. Before(pieces, i) \in Nat /\ Before(pieces, i) < MaxU64
    BY <1>3, <1>4, <1>5, <2>1, <1>0
  <2> QED BY <1>2, <2>2, <1>0
<1>7. u \in NumberTypes /\ Width(u) = Word /\ Scalar(u) = 0..MaxU64
  BY Widths, <1>0 DEF Number, NumberTypes, Kinds, Width, Scalar, Numerals, NonZero
<1> HIDE DEF u
<1>8. ends \in Seq(Scalar(u)) /\ Len(ends) = Len(items)
  BY <1>1, <1>2, <1>6, <1>7
<1>9. [i \in DOMAIN ends |-> Encoded(u, ends[i])] = [i \in DOMAIN items |-> ToBytes(ends[i], Word)]
  BY <1>1, <1>2, <1>7 DEF Encoded
<1>10. /\ Numbers(u, Concat([i \in DOMAIN ends |-> Encoded(u, ends[i])])) = Ok(ends)
       /\ Concat([i \in DOMAIN ends |-> Encoded(u, ends[i])]) \in Seq(Bytes)
       /\ Len(ends) <= Len(Concat([i \in DOMAIN ends |-> Encoded(u, ends[i])]))
  BY <1>7, <1>8, NumbersReads
<1> QED BY <1>8, <1>9, <1>10 DEF u, ends

----------------------------------------------------------------------------
(* Nested buffers                                                          *)

\* The two sub-buffers are within the buffer.
LEMMA CompoundType ==
  ASSUME NEW first \in Seq(Bytes), NEW second \in Seq(Bytes)
  PROVE  /\ Compound(first, second) \in Seq(Bytes) /\ Compound(first, second) # <<>>
         /\ Len(first) <= Len(Compound(first, second))
         /\ Len(second) <= Len(Compound(first, second))
<1> DEFINE a == SizedBuf(first)
           b == SizedBuf(second)
<1>1. /\ a \in Seq(Bytes) /\ Len(a) = Word + Align(Len(first))
      /\ b \in Seq(Bytes) /\ Len(b) = Word + Align(Len(second))
  BY SizedBufType
<1>2. Len(first) \in Nat /\ Len(second) \in Nat
  OBVIOUS
<1>3. Word \in Nat \ {0} /\ Align(Len(first)) \in Nat /\ Align(Len(second)) \in Nat
      /\ Align(Len(first)) >= Len(first) /\ Align(Len(second)) >= Len(second)
  <2>1. \A n \in Nat : Align(n) \in Nat /\ Align(n) >= n
    <3> TAKE n \in Nat
    <3>1. Pad(n) \in Nat /\ Align(n) = n + Pad(n)
      BY PadType
    <3> QED BY <3>1
  <2> QED BY <1>2, <2>1, Widths
<1>4. Compound(first, second) = IF second = <<>> THEN a ELSE a \o b
  BY DEF Compound
<1> HIDE DEF a, b
<1>5. a \o b \in Seq(Bytes) /\ Len(a \o b) = Len(a) + Len(b)
  BY <1>1, CutFirst
<1>6. Len(a) \in Nat /\ Len(b) \in Nat
  BY <1>1
<1>7. Len(a) > 0 /\ Len(a) + Len(b) > 0
  BY <1>1, <1>2, <1>3, <1>6
<1>8. CASE second = <<>>
  <2>1. Len(second) = 0 /\ Len(<<>>) = 0
    BY <1>8
  <2> QED BY <1>1, <1>2, <1>3, <1>4, <1>7, <1>8, <2>1
<1>9. CASE second # <<>>
  <2>1. Len(<<>>) = 0
    OBVIOUS
  <2>2. a \o b # <<>>
    BY <1>5, <1>7, <2>1
  <2>3. Len(first) <= Len(a) + Len(b) /\ Len(second) <= Len(a) + Len(b)
    BY <1>1, <1>2, <1>3, <1>6
  <2> QED BY <1>4, <1>5, <1>9, <2>2, <2>3
<1> QED BY <1>8, <1>9

\* What the recorded types' items list, and what an option's items are.
LEMMA RecordedListing ==
  ASSUME NEW t \in Recorded, Listed(Bare(t)), NEW items \in Seq(ItemsOf[t])
  PROVE  Listing(t, ItemsOf[Element(t)], items)
BY ListedItems DEF Listing

\* The items of an option are optional items of its subtype.
LEMMA OptionItems ==
  ASSUME NEW t \in Recorded, t.type = "Option", NEW items \in Seq(ItemsOf[t])
  PROVE  /\ t.subtype \in Recorded /\ t.subtype \in Types
         /\ ItemsOf[t] = Optional(ItemsOf[t.subtype])
         /\ items \in Seq(Optional(ItemsOf[t.subtype]))
         /\ items \in Seq(Seq(ItemsOf[t.subtype]))
<1>1. t.subtype \in Recorded
  BY RecordedSubtypes DEF Composite
<1>2. t \in Types /\ t.subtype \in Types
  BY <1>1 DEF Recorded
<1>3. ItemsOf[t] = Optional(ItemsOf[t.subtype])
  BY <1>2, ItemsOfTypes
<1> QED BY <1>1, <1>2, <1>3 DEF Optional

\* Bytes of some items: none for none, and no fewer bits than items.
Coded(items, bytes) ==
  /\ bytes \in Seq(Bytes)
  /\ items = <<>> <=> bytes = <<>>
  /\ Len(items) <= Bit * Len(bytes)

\* The mask has a bit for each item, set where the item is there.
LEMMA MaskType ==
  ASSUME NEW S, NEW items \in Seq(S)
  PROVE  /\ Mask(items) \in Seq(BOOLEAN) /\ Len(Mask(items)) = Len(items)
         /\ \A j \in 1..Len(items) : Mask(items)[j] = (items[j] # <<>>)
         /\ items # <<>> => Mask(items) # <<>>
<1>1. Len(items) \in Nat /\ DOMAIN items = 1..Len(items)
  OBVIOUS
<1> QED BY <1>1 DEF Mask

\* What the accumulator writes before its content (ends or mask) is bytes, and
\* some.
LEMMA HeadsType ==
  ASSUME NEW t \in Recorded, Nested(t), NEW items \in Seq(ItemsOf[t]), items # <<>>
  PROVE  Coded(items, Heads(t, items))
<1>0. Len(items) \in Nat /\ Bit \in Nat \ {0} /\ Word \in Nat \ {0} /\ Len(items) # 0
      /\ DOMAIN items = 1..Len(items)
  BY Widths
<1>1. CASE RawAcc(t) = "OptBitVec"
  <2>1. Mask(items) \in Seq(BOOLEAN) /\ Len(Mask(items)) = Len(items) /\ Mask(items) # <<>>
    BY MaskType
  <2>2. Heads(t, items) = Pack(Mask(items))
    BY <1>1 DEF Heads
  <2>3. Pack(Mask(items)) \in Seq(Bytes) /\ Pack(Mask(items)) # <<>>
        /\ Len(Mask(items)) <= Bit * Len(Pack(Mask(items)))
    BY <2>1, PackUnpack
  <2> QED BY <2>1, <2>2, <2>3 DEF Coded
<1>2. CASE RawAcc(t) # "OptBitVec"
  <2> DEFINE ends == Ends(t, items)
             parts == [i \in DOMAIN items |-> ToBytes(ends[i], Word)]
             S == ItemsOf[Element(t)]
  <2>1. Listing(t, S, items)
    <3>1. Listed(Bare(t))
      BY <1>2, RecordedKind DEF Kind, Nested
    <3> QED BY <3>1, RecordedListing
  <2>2. \A i \in 1..Len(items) : ends[i] \in Nat
    <3> TAKE i \in 1..Len(items)
    <3>1. ends[i] = IF Absent(t, items, i) THEN MaxU64 ELSE Before(Pieces(t, items), i)
      BY <2>1, EndsAre
    <3>2. Pieces(t, items) \in Seq(Seq(S)) /\ Len(Pieces(t, items)) = Len(items)
      BY <2>1, PiecesType
    <3>3. Before(Pieces(t, items), i) \in Nat
      <4> HIDE DEF S
      <4>1. i \in 0..Len(Pieces(t, items))
        BY <3>2
      <4>2. Before(Pieces(t, items), i) \in 0..Len(Concat(Pieces(t, items)))
        BY <3>2, <4>1, ConcatSlice
      <4> QED BY <4>2
    <3>4. MaxU64 \in Nat
      <4>1. Word \in Nat
        BY Widths
      <4>2. Limit(Word) \in Nat \ {0}
        BY <4>1, LimitType
      <4> QED BY <4>2 DEF MaxU64
    <3> QED BY <3>1, <3>3, <3>4
  <2> HIDE DEF ends, S
  <2>3. \A i \in 1..Len(items) : parts[i] \in Seq(Bytes) /\ Len(parts[i]) = Word
    <3> TAKE i \in 1..Len(items)
    <3>1. ends[i] \in Int /\ Word \in Nat
      BY <2>2, <1>0
    <3>2. ToBytes(ends[i], Word) \in Seq(Bytes) /\ Len(ToBytes(ends[i], Word)) = Word
      BY <3>1, ToBytesType
    <3> QED BY <3>2, <1>0
  <2>4. parts = [i \in 1..Len(items) |-> parts[i]]
    BY <1>0
  <2>5. Heads(t, items) = Concat(parts)
    BY <1>2 DEF Heads, ends
  <2> HIDE DEF parts
  <2>6. parts \in Seq(Seq(Bytes)) /\ Len(parts) = Len(items)
    BY <1>0, <2>3, <2>4
  <2>7. Concat(parts) \in Seq(Bytes)
    BY <2>6, PrefixType
  <2>8. Len(Concat(parts)) = Len(items) * Word
    <3>1. \A n \in 1..Len(parts) : Len(parts[n]) = Word
      BY <2>3, <2>6
    <3>2. Word \in Nat
      BY <1>0
    <3>3. Len(Concat(parts)) = Len(parts) * Word
      BY <2>6, <3>1, <3>2, EqualParts
    <3> QED BY <3>3, <2>6
  <2>9. \A l \in Nat, w, b \in Nat \ {0} : l # 0 => l * w # 0 /\ l <= b * (l * w)
    BY SMT
  <2>10. Len(items) * Word # 0 /\ Len(items) <= Bit * (Len(items) * Word)
    BY <1>0, <2>9
  <2>11. Concat(parts) # <<>>
    <3>1. Len(<<>>) = 0
      OBVIOUS
    <3> QED BY <2>8, <2>10, <3>1
  <2> QED BY <2>5, <2>7, <2>8, <2>10, <2>11 DEF Coded
<1> QED BY <1>1, <1>2

\* What is in the second sub-buffer are items of the inner type.
LEMMA ContentType ==
  ASSUME NEW t \in Recorded, Nested(t), NEW items \in Seq(ItemsOf[t])
  PROVE  /\ Inner(t) \in Recorded
         /\ Content(t, items) \in Seq(ItemsOf[Inner(t)])
<1>1. CASE RawAcc(t) = "OptBitVec"
  <2>1. t.type = "Option" /\ Inner(t) = t.subtype
    BY <1>1, RecordedKind DEF Kind
  <2>2. items \in Seq(Seq(ItemsOf[t.subtype])) /\ t.subtype \in Recorded
    BY <2>1, OptionItems
  <2>3. Concat(items) \in Seq(ItemsOf[t.subtype])
    BY <2>2, PrefixType
  <2> QED BY <1>1, <2>1, <2>2, <2>3 DEF Content, Values
<1>2. CASE RawAcc(t) # "OptBitVec"
  <2>1. Listed(Bare(t)) /\ Inner(t) = Element(t)
    BY <1>2, RecordedKind DEF Kind, Nested
  <2>2. Listing(t, ItemsOf[Element(t)], items) /\ Element(t) \in Recorded
    BY <2>1, RecordedListing, ListedItems
  <2> DEFINE S == ItemsOf[Element(t)]
  <2>3. Listing(t, S, items)
    BY <2>2
  <2> HIDE DEF S
  <2>4. Pieces(t, items) \in Seq(Seq(S)) /\ Elements(t, items) = Concat(Pieces(t, items))
    BY <2>3, PiecesType, ElementsOfPieces
  <2>5. Elements(t, items) \in Seq(S)
    BY <2>4, PrefixType
  <2> QED BY <1>2, <2>1, <2>2, <2>5 DEF Content, S
<1> QED BY <1>1, <1>2

----------------------------------------------------------------------------
(* Readers and writers by the kind of type                                 *)

\* A reader of each kind.
IterKinds(t, src) ==
  LET halves == Halves(src)
      inner == Iter[Inner(t)][halves.it[2]]
      ends == Numbers(Number("UInt", Word), halves.it[1])
  IN  /\ Src(t) = "slice" => Iter[t][src] = Numbers(t, src)
      /\ Src(t) = "BitSlice" => Iter[t][src] = Ok(Unpack(src))
      /\ Src(t) = "OptInSitu" => Iter[t][src] = Niches(t.subtype, src)
      /\ Src(t) = "OptBitVec" => Iter[t][src] =
           IF ~ halves.ok THEN Err
           ELSE IF ~ inner.ok THEN Err
           ELSE Ok(Masked(Unpack(halves.it[1]), inner.it))
      /\ Src(t) = "Seq" => Iter[t][src] =
           IF ~ halves.ok THEN Err
           ELSE IF ~ ends.ok \/ ~ inner.ok THEN Err
           ELSE Ok(Delimited(t, ends.it, inner.it))

\* What the reader of each kind of type is.
LEMMA IterIs ==
  ASSUME NEW t \in Types, NEW src \in Seq(Bytes)
  PROVE  IterKinds(t, src)
<1>1. Iter[t] = IterOf(Iter, t)
  BY IterEquation
<1>2. Iter[t][src] = IterOf(Iter, t)[src]
  BY <1>1
<1> QED BY <1>2 DEF IterOf, IterKinds

\* The bytes of each kind.
LEMMA SerializeIs ==
  ASSUME NEW t \in Types, NEW items \in Seq(ItemsOf[t])
  PROVE  /\ items = <<>> => Serialize[t][items] = <<>>
         /\ items # <<>> /\ Nested(t) =>
              Serialize[t][items] = Compound(Heads(t, items), Serialize[Inner(t)][Content(t, items)])
         /\ items # <<>> /\ ~ Nested(t) => Serialize[t][items] = Leaf(t, items)
<1>1. Serialize[t] = SerializeOf(Serialize, t)
  BY SerializeEquation
<1>2. Serialize[t][items] = SerializeOf(Serialize, t)[items]
  BY <1>1
<1> QED BY <1>2 DEF SerializeOf

\* The reader gets the items from the bytes, and may get more after them.
Reads(t, items, src) ==
  /\ Iter[t][src].ok
  /\ Iter[t][src].it \in Seq(ItemsOf[t])
  /\ Begins(Iter[t][src].it, items)

\* What Ok wraps is taken out again.
LEMMA OkIs == \A x : Ok(x).ok /\ Ok(x).it = x
BY DEF Ok

\* Items read with what the padding adds begin with those that were written.
LEMMA ReadsOk ==
  ASSUME NEW t, NEW items, NEW src, NEW out \in Seq(ItemsOf[t]),
         Iter[t][src] = Ok(out), Begins(out, items)
  PROVE  Reads(t, items, src)
BY OkIs DEF Reads

\* Items in a single buffer are read as they were; from nothing, none are.
LEMMA FixedReads ==
  ASSUME NEW t \in Recorded, Fixed(t), NEW items \in Seq(ItemsOf[t])
  PROVE  Reads(t, items, Leaf(t, items)) /\ Coded(items, Leaf(t, items))
<1>1. t \in Types /\ t \in NumberTypes \cup {Char} /\ ItemsOf[t] = Scalar(t)
  BY ItemsOfTypes DEF Recorded
<1>2. RawAcc(t) = "Vec" /\ Src(t) = "slice"
  BY RecordedKind DEF Kind, Fixed, Listed, Bare
<1> DEFINE bytes == Concat([i \in DOMAIN items |-> Encoded(t, items[i])])
<1>3. Leaf(t, items) = bytes
  BY <1>2 DEF Leaf
<1>4. Numbers(t, bytes) = Ok(items) /\ bytes \in Seq(Bytes) /\ Len(items) <= Len(bytes)
  BY <1>1, NumbersReads
<1>5. items = <<>> => bytes = <<>>
  <2>1. DOMAIN <<>> = {}
    OBVIOUS
  <2>2. [i \in {} |-> Encoded(t, items[i])] = <<>>
    OBVIOUS
  <2> QED BY <2>1, <2>2, ConcatEmpty
<1> HIDE DEF bytes
<1>6. Iter[t][bytes] = Ok(items)
  BY <1>1, <1>2, <1>4, IterIs DEF IterKinds
<1>7. Begins(items, items)
  BY BeginsSelf
<1>8. Reads(t, items, bytes)
  BY <1>6, <1>7, ReadsOk
<1>9. Coded(items, bytes)
  <2>1. Len(items) \in Nat /\ Len(bytes) \in Nat /\ Bit \in Nat \ {0}
        /\ (items # <<>> => Len(items) # 0)
    BY <1>4, Widths
  <2>2. \A m, n \in Nat, b \in Nat \ {0} : m <= n => m <= b * n
    BY SMT
  <2>3. items # <<>> => bytes # <<>>
    <3>1. Len(<<>>) = 0
      OBVIOUS
    <3> QED BY <1>4, <2>1, <3>1
  <2>4. Len(items) <= Bit * Len(bytes)
    BY <1>4, <2>1, <2>2
  <2> QED BY <1>4, <1>5, <2>3, <2>4 DEF Coded
<1> QED BY <1>3, <1>8, <1>9

\* An optional value with a niche reads back from its in-situ encoding.
LEMMA NicheReads ==
  ASSUME NEW t \in Recorded, t.type = "Option", Niche(t.subtype),
         NEW items \in Seq(ItemsOf[t])
  PROVE  Reads(t, items, Leaf(t, items)) /\ Coded(items, Leaf(t, items))
<1>0. t.subtype \in Types /\ ItemsOf[t] = Optional(ItemsOf[t.subtype]) /\ t \in Types
  BY OptionItems DEF Recorded
<1>1. /\ t.subtype \in NumberTypes \cup {Char} /\ ItemsOf[t.subtype] = Scalar(t.subtype)
      /\ items \in Seq(Optional(Scalar(t.subtype)))
  BY <1>0, ItemsOfTypes DEF Fixed, Niche, NonZero
<1>2. RawAcc(t) = "OptInSitu" /\ Src(t) = "OptInSitu"
  BY DEF RawAcc, OptAcc, Src, OptSrc, Fixed, Listed, Niche, NonZero
<1> DEFINE bytes == Concat([i \in DOMAIN items |-> Cell(t.subtype, items[i])])
<1>3. Leaf(t, items) = bytes
  BY <1>2 DEF Leaf, Cell
<1>4. Niches(t.subtype, bytes) = Ok(items) /\ bytes \in Seq(Bytes) /\ Len(items) <= Len(bytes)
  BY <1>1, NichesReads
<1>5. items = <<>> => bytes = <<>>
  <2>1. DOMAIN <<>> = {}
    OBVIOUS
  <2>2. [i \in {} |-> Cell(t.subtype, items[i])] = <<>>
    OBVIOUS
  <2> QED BY <2>1, <2>2, ConcatEmpty
<1> HIDE DEF bytes
<1>6. Iter[t][bytes] = Ok(items)
  BY <1>0, <1>2, <1>4, IterIs DEF IterKinds
<1>7. Begins(items, items)
  BY BeginsSelf
<1>8. Reads(t, items, bytes)
  BY <1>6, <1>7, ReadsOk
<1>9. Coded(items, bytes)
  <2>1. Len(items) \in Nat /\ Len(bytes) \in Nat /\ Bit \in Nat \ {0}
        /\ (items # <<>> => Len(items) # 0)
    BY <1>4, Widths
  <2>2. \A m, n \in Nat, b \in Nat \ {0} : m <= n => m <= b * n
    BY SMT
  <2>3. items # <<>> => bytes # <<>>
    <3>1. Len(<<>>) = 0
      OBVIOUS
    <3> QED BY <1>4, <2>1, <3>1
  <2>4. Len(items) <= Bit * Len(bytes)
    BY <1>4, <2>1, <2>2
  <2> QED BY <1>4, <1>5, <2>3, <2>4 DEF Coded
<1> QED BY <1>3, <1>8, <1>9

\* Booleans read back from their packed bits, whatever the last byte is padded
\* with.
LEMMA BoolReads ==
  ASSUME NEW t \in Recorded, t.type = "Bool", NEW items \in Seq(ItemsOf[t])
  PROVE  Reads(t, items, Leaf(t, items)) /\ Coded(items, Leaf(t, items))
<1>1. t \in Types /\ ItemsOf[t] = BOOLEAN
  BY ItemsOfTypes DEF Recorded
<1>2. RawAcc(t) = "BitVec" /\ Src(t) = "BitSlice"
  BY DEF RawAcc, Src, Fixed, Listed
<1> DEFINE bytes == Pack(items)
           out == Unpack(bytes)
<1>3. Leaf(t, items) = bytes
  BY <1>2 DEF Leaf
<1>4. /\ bytes \in Seq(Bytes) /\ (items # <<>> => bytes # <<>>)
      /\ out \in Seq(BOOLEAN) /\ Len(out) = Bit * Len(bytes) /\ Len(items) <= Bit * Len(bytes)
      /\ \A j \in 1..Len(out) : out[j] = (j <= Len(items) /\ items[j])
  BY <1>1, PackUnpack
<1>5. items = <<>> => bytes = <<>>
  <2> HAVE items = <<>>
  <2>1. Len(<<>>) = 0 /\ (0 + Bit - 1) \div Bit = 0
    <3>1. \A b \in Nat \ {0} : (0 + b - 1) \div b = 0
      OBVIOUS
    <3> QED BY <3>1, Widths
  <2>2. 1..((Len(items) + Bit - 1) \div Bit) = {}
    BY <2>1
  <2>3. DOMAIN bytes = {}
    BY <2>2 DEF Pack
  <2> HIDE DEF bytes
  <2>4. Len(bytes) = 0
    BY <1>4, <2>3
  <2> QED BY <1>4, <2>4
<1> HIDE DEF bytes, out
<1>6. Iter[t][bytes] = Ok(out)
  BY <1>1, <1>2, <1>4, IterIs DEF IterKinds, out
<1>7. Begins(out, items)
  <2>1. Len(items) <= Len(out) /\ Len(items) \in Nat /\ Len(out) \in Nat
    BY <1>4
  <2>2. \A j \in 1..Len(items) : out[j] = items[j]
    <3> TAKE j \in 1..Len(items)
    <3>1. j \in 1..Len(out) /\ j <= Len(items)
      BY <2>1
    <3>2. items[j] \in BOOLEAN
      BY <1>1
    <3> QED BY <1>4, <3>1, <3>2
  <2> QED BY <2>1, <2>2 DEF Begins
<1>8. Reads(t, items, bytes)
  BY <1>1, <1>4, <1>6, <1>7, ReadsOk
<1>9. Coded(items, bytes)
  BY <1>4, <1>5 DEF Coded
<1> QED BY <1>3, <1>8, <1>9

----------------------------------------------------------------------------
(* What is serialized                                                      *)

\* Types with one buffer.
LEMMA LeafReads ==
  ASSUME NEW t \in Recorded, ~ Nested(t), NEW items \in Seq(ItemsOf[t])
  PROVE  Reads(t, items, Serialize[t][items]) /\ Coded(items, Serialize[t][items])
<1>1. Reads(t, items, Leaf(t, items)) /\ Coded(items, Leaf(t, items))
  <2>1. Kind(t)
    BY RecordedKind
  <2>2. Fixed(t) \/ t.type = "Bool" \/ (t.type = "Option" /\ Niche(t.subtype))
    BY <2>1 DEF Kind, Nested
  <2> QED BY <2>2, FixedReads, BoolReads, NicheReads
<1>2. Serialize[t][items] = Leaf(t, items)
  <2>1. t \in Types
    BY DEF Recorded
  <2>2. items = <<>> => Serialize[t][items] = <<>>
    BY <2>1, SerializeIs
  <2>3. items # <<>> => Serialize[t][items] = Leaf(t, items)
    BY <2>1, SerializeIs
  <2> QED BY <1>1, <2>2, <2>3 DEF Coded
<1> QED BY <1>1, <1>2

\* Every buffer has bytes if it has items, and no fewer bits than items.
SerializesTo(n) ==
  \A t \in TypesTo(n) \cap Recorded : \A items \in Seq(ItemsOf[t]) :
    Coded(items, Serialize[t][items])

\* If the serializers of shallower types give bytes, so does that of a type.
LEMMA SerializesNext ==
  ASSUME NEW n \in Nat, \A m \in Nat : m + 1 = n => SerializesTo(m)
  PROVE  SerializesTo(n)
<1> SUFFICES ASSUME NEW t \in TypesTo(n), t \in Recorded, NEW items \in Seq(ItemsOf[t])
             PROVE  Coded(items, Serialize[t][items])
  BY DEF SerializesTo
<1>1. t \in Types
  BY DEF Recorded
<1>2. CASE ~ Nested(t)
  BY <1>2, LeafReads
<1>3. CASE items = <<>>
  <2>1. Serialize[t][items] = <<>>
    BY <1>1, <1>3, SerializeIs
  <2>2. <<>> \in Seq(Bytes) /\ Len(<<>>) = 0 /\ Bit * 0 = 0
    BY Widths
  <2> QED BY <1>3, <2>1, <2>2 DEF Coded
<1>4. CASE Nested(t) /\ items # <<>>
  <2> DEFINE first == Heads(t, items)
             content == Content(t, items)
             second == Serialize[Inner(t)][content]
  <2>1. Serialize[t][items] = Compound(first, second)
    BY <1>1, <1>4, SerializeIs
  <2>2. Coded(items, first)
    BY <1>4, HeadsType
  <2>3. Inner(t) \in Recorded /\ content \in Seq(ItemsOf[Inner(t)])
    BY <1>4, ContentType
  <2>4. n # 0 /\ Inner(t) \in TypesTo(n - 1)
    BY <1>4, InnerIn
  <2>5. SerializesTo(n - 1)
    <3>1. n - 1 \in Nat /\ (n - 1) + 1 = n
      BY <2>4
    <3> QED BY <3>1
  <2>6. Coded(content, second)
    BY <2>3, <2>4, <2>5 DEF SerializesTo
  <2> HIDE DEF first, second, content
  <2>7. first \in Seq(Bytes) /\ second \in Seq(Bytes) /\ Len(items) <= Bit * Len(first)
    BY <2>2, <2>6 DEF Coded
  <2>8. /\ Compound(first, second) \in Seq(Bytes) /\ Compound(first, second) # <<>>
        /\ Len(first) <= Len(Compound(first, second))
    BY <2>7, CompoundType
  <2>9. Len(items) <= Bit * Len(Compound(first, second))
    <3>1. \A a, l, m \in Nat, b \in Nat \ {0} : a <= b * l /\ l <= m => a <= b * m
      BY SMT
    <3>2. Len(items) \in Nat /\ Len(first) \in Nat /\ Len(Compound(first, second)) \in Nat
      BY <2>7, <2>8
    <3> QED BY <2>7, <2>8, <3>1, <3>2, Widths
  <2> QED BY <1>4, <2>1, <2>8, <2>9 DEF Coded
<1> QED BY <1>2, <1>3, <1>4

\* Serialization gives bytes for any items of any type, and some for some
\* items.
LEMMA SerializeType ==
  \A t \in Recorded : \A items \in Seq(ItemsOf[t]) : Coded(items, Serialize[t][items])
<1> DEFINE T == {n \in 0..MaxDepth : SerializesTo(n)}
<1>1. MaxDepth \in Nat
  BY DepthAssumption
<1>2. 0 \in T
  <2>1. \A m \in Nat : m + 1 # 0
    OBVIOUS
  <2>2. SerializesTo(0)
    BY <2>1, SerializesNext
  <2> QED BY <1>1, <2>2
<1>3. ASSUME NEW n \in 1..MaxDepth, n - 1 \in T PROVE n \in T
  <2>1. n \in Nat /\ \A m \in Nat : m + 1 = n => m = n - 1
    OBVIOUS
  <2>2. \A m \in Nat : m + 1 = n => SerializesTo(m)
    BY <1>3, <2>1
  <2>3. SerializesTo(n)
    BY <2>1, <2>2, SerializesNext
  <2> QED BY <2>3
<1>4. 0..MaxDepth \subseteq T
  <2> HIDE DEF T
  <2> QED BY <1>1, <1>2, <1>3, BoundedInduction
<1>5. SerializesTo(MaxDepth)
  <2>1. MaxDepth \in T
    <3> HIDE DEF T
    <3> QED BY <1>1, <1>4
  <2> QED BY <2>1
<1> QED BY <1>5 DEF SerializesTo, Types, Recorded

\* Nothing is read as no items, except by a reader that wants two sub-buffers.
LEMMA NothingReads ==
  ASSUME NEW t \in Recorded
  PROVE  /\ ~ Nested(t) => Reads(t, <<>>, <<>>)
         /\ Nested(t) => ~ Iter[t][<<>>].ok
<1>1. t \in Types /\ <<>> \in Seq(ItemsOf[t]) /\ <<>> \in Seq(Bytes)
  BY DEF Recorded
<1>2. CASE ~ Nested(t)
  BY <1>1, <1>2, LeafReads, SerializeIs
<1>3. CASE Nested(t)
  <2>1. ~ Halves(<<>>).ok
    BY SizedOfNothing DEF Halves, Err
  <2>2. Src(t) \in {"OptBitVec", "Seq"}
    BY <1>3, RecordedKind DEF Kind, Nested
  <2>3. Iter[t][<<>>] = Err
    BY <1>1, <2>1, <2>2, IterIs DEF IterKinds
  <2> QED BY <1>3, <2>3 DEF Err
<1> QED BY <1>2, <1>3

\* Items are hollow where a reader of ends or masks at some depth has no
\* buffer to read.
LEMMA HollowIs ==
  ASSUME NEW t \in Types, NEW items \in Seq(ItemsOf[t])
  PROVE  Hollow[t][items] <=>
           /\ Bare(t).type = "Sequence"
           /\ IF Elements(t, items) = <<>> THEN Nested(Element(t))
              ELSE Hollow[Element(t)][Elements(t, items)]
<1>1. Hollow[t] = HollowOf(Hollow, t)
  BY HollowEquation
<1>2. Hollow[t][items] = HollowOf(Hollow, t)[items]
  BY <1>1
<1> QED BY <1>2 DEF HollowOf

\* What a reader makes of the bytes of some items, which fit in a file.
RoundTrip(t, items) ==
  LET src == Serialize[t][items]
  IN  Bit * Len(src) < MaxU64 =>
        IF Hollow[t][items] THEN ~ Iter[t][src].ok ELSE Reads(t, items, src)

RoundTripsTo(n) ==
  \A t \in TypesTo(n) \cap Recorded : \A items \in Seq(ItemsOf[t]) :
    items # <<>> => RoundTrip(t, items)

\* The two sub-buffers of a buffer that fits in a file.
Buffers(t, items, first, second) ==
  /\ Halves(Serialize[t][items]) = Ok(<<first, second>>)
  /\ Len(Content(t, items)) < MaxU64
  /\ Bit * Len(second) < MaxU64
  /\ Content(t, items) = <<>> <=> second = <<>>
  /\ second \in Seq(Bytes)

\* A nested buffer holds the ends or the mask, then the content, each sized
\* and padded.
LEMMA BuffersAre ==
  ASSUME NEW t \in Recorded, Nested(t), NEW items \in Seq(ItemsOf[t]), items # <<>>,
         Bit * Len(Serialize[t][items]) < MaxU64
  PROVE  Buffers(t, items, Heads(t, items), Serialize[Inner(t)][Content(t, items)])
<1> DEFINE first == Heads(t, items)
           content == Content(t, items)
           second == Serialize[Inner(t)][content]
           src == Serialize[t][items]
<1>1. src = Compound(first, second)
  BY SerializeIs DEF Recorded
<1>2. Coded(items, first)
  BY HeadsType
<1>3. Inner(t) \in Recorded /\ content \in Seq(ItemsOf[Inner(t)])
  BY ContentType
<1>4. Coded(content, second)
  BY <1>3, SerializeType
<1>5. Len(content) \in Nat
  BY <1>3
<1>6. Bit * Len(src) < MaxU64
  OBVIOUS
<1> HIDE DEF first, second, content, src
<1>7. /\ first \in Seq(Bytes) /\ first # <<>> /\ second \in Seq(Bytes)
      /\ (content = <<>> <=> second = <<>>) /\ Len(content) <= Bit * Len(second)
  BY <1>2, <1>4 DEF Coded
<1>8. Len(first) <= Len(src) /\ Len(second) <= Len(src) /\ src \in Seq(Bytes)
  BY <1>1, <1>7, CompoundType
<1>9. MaxU64 \in Nat /\ MaxU64 = Limit(Word) - 1 /\ Limit(Word) \in Nat
  <2>1. Word \in Nat
    BY Widths
  <2>2. Limit(Word) \in Nat \ {0}
    BY <2>1, LimitType
  <2> QED BY <2>2 DEF MaxU64
<1>10. Len(first) \in Nat /\ Len(second) \in Nat /\ Len(src) \in Nat
  BY <1>7, <1>8
<1>11. \A l, m, x \in Nat, b \in Nat \ {0} : l <= m /\ b * m < x => b * l < x /\ l < x
  <2> TAKE l, m, x \in Nat, b \in Nat \ {0}
  <2> HAVE l <= m /\ b * m < x
  <2>1. b * l <= b * m
    BY SMT
  <2>2. l <= b * l
    BY SMT
  <2>3. b * l \in Nat /\ b * m \in Nat
    BY SMT
  <2> QED BY <2>1, <2>2, <2>3
<1>12. Bit * Len(second) < MaxU64 /\ Len(second) < MaxU64 /\ Len(first) < MaxU64
  BY <1>6, <1>8, <1>9, <1>10, <1>11, Widths
<1>13. Len(first) < Limit(Word) /\ Len(second) < Limit(Word)
  BY <1>9, <1>10, <1>12
<1>14. Halves(src) = Ok(<<first, second>>)
  BY <1>1, <1>7, <1>13, HalvesReads
<1>15. Len(content) < MaxU64
  <2>1. Bit * Len(second) \in Nat
    <3>1. \A a, b \in Nat : a * b \in Nat
      OBVIOUS
    <3> QED BY <1>10, <3>1, Widths
  <2> QED BY <1>5, <1>7, <1>9, <1>12, <2>1
<1> QED BY <1>7, <1>12, <1>14, <1>15 DEF Buffers, first, second, content, src

----------------------------------------------------------------------------
(* The round trip                                                          *)

\* A mask and the values that are present.
LEMMA MaskRoundTrip ==
  ASSUME NEW t \in Recorded, RawAcc(t) = "OptBitVec", NEW items \in Seq(ItemsOf[t]),
         items # <<>>
  PROVE  RoundTrip(t, items)
<1> DEFINE src == Serialize[t][items]
           bits == Unpack(Heads(t, items))
           content == Content(t, items)
           second == Serialize[Inner(t)][content]
           values == Iter[Inner(t)][second].it
           S == ItemsOf[t.subtype]
<1> SUFFICES ASSUME Bit * Len(src) < MaxU64
             PROVE  ~ Hollow[t][items] /\ Reads(t, items, src)
  BY DEF RoundTrip
<1>1. /\ Nested(t) /\ t.type = "Option" /\ Src(t) = "OptBitVec" /\ Inner(t) = t.subtype
      /\ ~ Nested(t.subtype) /\ ~ Listed(Bare(t)) /\ t \in Types
  BY RecordedKind DEF Kind, Nested, Recorded
<1>2. /\ t.subtype \in Recorded /\ ItemsOf[t] = Optional(S) /\ items \in Seq(Optional(S))
  BY <1>1, OptionItems
<1>3. Buffers(t, items, Heads(t, items), second)
  BY <1>1, BuffersAre
<1>4. content \in Seq(S) /\ content = Concat(items)
  BY <1>1, ContentType DEF Content, Values
<1>5. Reads(t.subtype, content, second)
  BY <1>1, <1>2, <1>4, LeafReads
<1>6. Iter[Inner(t)][second].ok /\ values \in Seq(S) /\ Begins(values, content)
  BY <1>1, <1>5 DEF Reads
<1>7. Heads(t, items) = Pack(Mask(items))
  BY DEF Heads
<1>8. Masks(bits, items)
  <2>1. Mask(items) \in Seq(BOOLEAN) /\ Len(Mask(items)) = Len(items) /\ Len(items) \in Nat
        /\ \A j \in 1..Len(items) : Mask(items)[j] = (items[j] # <<>>)
    BY <1>2, MaskType
  <2>2. /\ bits \in Seq(BOOLEAN) /\ Len(bits) = Bit * Len(Pack(Mask(items)))
        /\ Len(Mask(items)) <= Bit * Len(Pack(Mask(items)))
        /\ \A j \in 1..Len(bits) : bits[j] = (j <= Len(Mask(items)) /\ Mask(items)[j])
    BY <1>7, <2>1, PackUnpack
  <2> HIDE DEF bits
  <2>3. Len(items) <= Len(bits) /\ Len(bits) \in Nat
    BY <2>1, <2>2
  <2>4. \A j \in 1..Len(bits) : bits[j] = (j <= Len(items) /\ items[j] # <<>>)
    <3> TAKE j \in 1..Len(bits)
    <3>1. bits[j] = (j <= Len(items) /\ Mask(items)[j])
      BY <2>1, <2>2
    <3>2. j <= Len(items) => j \in 1..Len(items)
      BY <2>1, <2>3
    <3> QED BY <2>1, <3>1, <3>2
  <2> QED BY <2>2, <2>3, <2>4 DEF Masks
<1>9. Halves(src).ok /\ Halves(src).it = <<Heads(t, items), second>>
  BY <1>3, OkIs DEF Buffers
<1>10. src \in Seq(Bytes)
  BY SerializeType DEF Coded
<1>11. Iter[t][src] = Ok(Masked(bits, values))
  <2>1. IterKinds(t, src)
    BY <1>1, <1>10, IterIs
  <2>2. Halves(src).it[1] = Heads(t, items) /\ Halves(src).it[2] = second
    BY <1>9
  <2> HIDE DEF src, second
  <2> QED BY <1>1, <1>6, <1>9, <2>1, <2>2 DEF IterKinds
<1>12. Begins(Masked(bits, values), items) /\ Masked(bits, values) \in Seq(Optional(S))
  <2> HIDE DEF bits, values, S
  <2> QED BY <1>2, <1>4, <1>6, <1>8, MaskedReads
<1>13. Reads(t, items, src)
  <2> DEFINE out == Masked(bits, values)
  <2>1. out \in Seq(ItemsOf[t]) /\ Iter[t][src] = Ok(out) /\ Begins(out, items)
    BY <1>2, <1>11, <1>12
  <2> HIDE DEF out, src
  <2> QED BY <2>1, ReadsOk
<1>14. ~ Hollow[t][items]
  <2>1. Bare(t).type # "Sequence"
    BY <1>1 DEF Listed
  <2> QED BY <1>1, <2>1, HollowIs
<1> QED BY <1>13, <1>14

\* The ends, and the elements of all.
LEMMA EndsRoundTrip ==
  ASSUME NEW t \in Recorded, Listed(Bare(t)), NEW items \in Seq(ItemsOf[t]), items # <<>>,
         Bare(t).type = "Sequence" =>
           \A more \in Seq(ItemsOf[Element(t)]) : more # <<>> => RoundTrip(Element(t), more)
  PROVE  RoundTrip(t, items)
<1> DEFINE src == Serialize[t][items]
           e == Element(t)
           S == ItemsOf[e]
           content == Elements(t, items)
           second == Serialize[e][content]
           values == Iter[e][second].it
           ends == Ends(t, items)
           first == Heads(t, items)
<1> SUFFICES ASSUME Bit * Len(src) < MaxU64
             PROVE  IF Hollow[t][items] THEN ~ Iter[t][src].ok ELSE Reads(t, items, src)
  BY DEF RoundTrip
<1>1. /\ Nested(t) /\ RawAcc(t) # "OptBitVec" /\ Src(t) = "Seq" /\ Inner(t) = e
      /\ t \in Types /\ e \in Recorded
  <2>1. Kind(t)
    BY RecordedKind
  <2>2. ~ Fixed(t) /\ t.type # "Bool"
    BY DEF Listed, Bare, Fixed
  <2>3. Nested(t) /\ RawAcc(t) # "OptBitVec" /\ Src(t) = "Seq" /\ Inner(t) = Element(t)
    BY <2>1, <2>2 DEF Kind, Nested
  <2>4. t \in Types /\ Element(t) \in Recorded
    BY ListedItems DEF Recorded
  <2> QED BY <2>3, <2>4
<1>2. Listing(t, S, items)
  BY RecordedListing
<1>3. Content(t, items) = content
  BY <1>1 DEF Content
<1>4. content \in Seq(S)
  BY <1>1, <1>3, ContentType
<1>5. Buffers(t, items, first, second)
  BY <1>1, <1>3, BuffersAre
<1>6. Len(content) < MaxU64 /\ Bit * Len(second) < MaxU64 /\ second \in Seq(Bytes)
      /\ (content = <<>> <=> second = <<>>)
  BY <1>3, <1>5 DEF Buffers
<1>7. Numbers(Number("UInt", Word), first) = Ok(ends)
  <2>1. first = Concat([i \in DOMAIN items |-> ToBytes(ends[i], Word)])
    BY <1>1 DEF Heads
  <2> HIDE DEF S, first
  <2> QED BY <1>2, <1>6, <2>1, EndsReads
<1>8. src \in Seq(Bytes)
  BY SerializeType DEF Coded
<1>9. Iter[t][src] = IF ~ Iter[e][second].ok THEN Err ELSE Ok(Delimited(t, ends, values))
  <2>1. IterKinds(t, src)
    BY <1>1, <1>8, IterIs
  <2>2. Halves(src).ok /\ Halves(src).it[1] = first /\ Halves(src).it[2] = second
    BY <1>5, OkIs DEF Buffers
  <2>3. Numbers(Number("UInt", Word), first).ok /\ Numbers(Number("UInt", Word), first).it = ends
    BY <1>7, OkIs
  <2> HIDE DEF src, second, first, ends, e
  <2> QED BY <1>1, <2>1, <2>2, <2>3 DEF IterKinds, values
<1>10. Hollow[t][items] <=>
         /\ Bare(t).type = "Sequence"
         /\ IF content = <<>> THEN Nested(e) ELSE Hollow[e][content]
  BY <1>1, HollowIs
<1>11. Bare(t).type # "Sequence" => e = U8 /\ ~ Nested(e)
  BY DEF Element, Listed, U8, Nested, RawAcc, Number, Fixed
<1>12. IF Hollow[t][items] THEN ~ Iter[e][second].ok
       ELSE Iter[e][second].ok /\ values \in Seq(S) /\ Begins(values, content)
  <2>1. CASE content = <<>>
    <3>1. second = <<>>
      BY <1>6, <2>1
    <3>2. /\ ~ Nested(e) => Reads(e, <<>>, <<>>)
          /\ Nested(e) => ~ Iter[e][<<>>].ok
      BY <1>1, NothingReads
    <3>3. Hollow[t][items] <=> Nested(e)
      BY <1>10, <1>11, <2>1
    <3>4. ~ Nested(e) => Reads(e, content, second)
      BY <2>1, <3>1, <3>2
    <3> HIDE DEF second, content
    <3> QED BY <3>1, <3>2, <3>3, <3>4 DEF Reads
  <2>2. CASE content # <<>> /\ Bare(t).type = "Sequence"
    <3>1. RoundTrip(e, content)
      BY <1>4, <2>2
    <3>2. Hollow[t][items] <=> Hollow[e][content]
      BY <1>10, <2>2
    <3>3. IF Hollow[e][content] THEN ~ Iter[e][second].ok ELSE Reads(e, content, second)
      BY <1>6, <3>1 DEF RoundTrip
    <3> HIDE DEF second, content
    <3> QED BY <3>2, <3>3 DEF Reads
  <2>3. CASE content # <<>> /\ Bare(t).type # "Sequence"
    <3>1. Reads(e, content, second)
      BY <1>1, <1>4, <1>11, <2>3, LeafReads
    <3> HIDE DEF second, content
    <3> QED BY <1>10, <2>3, <3>1 DEF Reads
  <2> QED BY <2>1, <2>2, <2>3
<1>13. CASE Hollow[t][items]
  <2>1. ~ Iter[e][second].ok
    BY <1>12, <1>13
  <2>2. Iter[t][src] = Err
    <3> HIDE DEF src, second
    <3> QED BY <1>9, <2>1
  <2> HIDE DEF src
  <2> QED BY <1>13, <2>2 DEF Err
<1>14. CASE ~ Hollow[t][items]
  <2>1. Iter[e][second].ok /\ values \in Seq(S) /\ Begins(values, content)
    BY <1>12, <1>14
  <2>2. MaxU64 \in Nat
    <3>1. Word \in Nat
      BY Widths
    <3>2. Limit(Word) \in Nat \ {0}
      BY <3>1, LimitType
    <3> QED BY <3>2 DEF MaxU64
  <2>3. Delimited(t, ends, values) = items
    <3> HIDE DEF S, values
    <3> QED BY <1>2, <1>6, <2>1, <2>2, DelimitedReads
  <2>4. Iter[t][src] = Ok(items)
    <3> HIDE DEF src, second, ends, values
    <3> QED BY <1>9, <2>1, <2>3
  <2>5. Begins(items, items)
    BY BeginsSelf
  <2> HIDE DEF src
  <2>6. Reads(t, items, src)
    BY <2>4, <2>5, ReadsOk
  <2> QED BY <1>14, <2>6
<1> QED BY <1>13, <1>14

\* If the items of shallower types read back, so do those of a type.
LEMMA RoundTripsNext ==
  ASSUME NEW n \in Nat, \A m \in Nat : m + 1 = n => RoundTripsTo(m)
  PROVE  RoundTripsTo(n)
<1> SUFFICES ASSUME NEW t \in TypesTo(n), t \in Recorded, NEW items \in Seq(ItemsOf[t]),
                    items # <<>>
             PROVE  RoundTrip(t, items)
  BY DEF RoundTripsTo
<1>1. t \in Types
  BY DEF Recorded
<1>2. CASE ~ Nested(t)
  <2>1. Reads(t, items, Serialize[t][items])
    BY <1>2, LeafReads
  <2>2. Bare(t).type # "Sequence"
    BY <1>2, RecordedKind DEF Kind, Nested, Fixed, Listed, Bare
  <2>3. ~ Hollow[t][items]
    BY <1>1, <2>2, HollowIs
  <2> QED BY <2>1, <2>3 DEF RoundTrip
<1>3. CASE RawAcc(t) = "OptBitVec"
  BY <1>3, MaskRoundTrip
<1>4. CASE Listed(Bare(t))
  <2>1. Element(t) \in Recorded
    BY <1>4, ListedItems
  <2>2. ASSUME Bare(t).type = "Sequence"
        PROVE  \A more \in Seq(ItemsOf[Element(t)]) : more # <<>> => RoundTrip(Element(t), more)
    <3>1. n # 0 /\ Element(t) \in TypesTo(n - 1)
      BY <2>2, InnerIn
    <3>2. n - 1 \in Nat /\ (n - 1) + 1 = n
      BY <3>1
    <3>3. RoundTripsTo(n - 1)
      BY <3>2
    <3> QED BY <2>1, <3>1, <3>3 DEF RoundTripsTo
  <2> QED BY <1>4, <2>2, EndsRoundTrip
<1> QED BY <1>2, <1>3, <1>4, RecordedKind DEF Kind, Nested

\* The reader of a type gets every item that the accumulator of that type
\* was given, and only those that are hollow are refused.
LEMMA ItemsRoundTrip ==
  \A t \in Recorded : \A items \in Seq(ItemsOf[t]) : items # <<>> => RoundTrip(t, items)
<1> DEFINE T == {n \in 0..MaxDepth : RoundTripsTo(n)}
<1>1. MaxDepth \in Nat
  BY DepthAssumption
<1>2. 0 \in T
  <2>1. \A m \in Nat : m + 1 # 0
    OBVIOUS
  <2>2. RoundTripsTo(0)
    BY <2>1, RoundTripsNext
  <2> QED BY <1>1, <2>2
<1>3. ASSUME NEW n \in 1..MaxDepth, n - 1 \in T PROVE n \in T
  <2>1. n \in Nat /\ \A m \in Nat : m + 1 = n => m = n - 1
    OBVIOUS
  <2>2. \A m \in Nat : m + 1 = n => RoundTripsTo(m)
    BY <1>3, <2>1
  <2>3. RoundTripsTo(n)
    BY <2>1, <2>2, RoundTripsNext
  <2> QED BY <2>3
<1>4. 0..MaxDepth \subseteq T
  <2> HIDE DEF T
  <2> QED BY <1>1, <1>2, <1>3, BoundedInduction
<1>5. RoundTripsTo(MaxDepth)
  <2>1. MaxDepth \in T
    <3> HIDE DEF T
    <3> QED BY <1>1, <1>4
  <2> QED BY <2>1
<1> QED BY <1>5 DEF RoundTripsTo, Types, Recorded

----------------------------------------------------------------------------
(* Hollow columns                                                          *)

\* What a type unfolds to, by its kind.
LEMMA UnfoldIs ==
  ASSUME NEW t \in Types
  PROVE  /\ t.type = "Option" => Unfold[t] = TypeOption(Unfold[t.subtype])
         /\ t.type = "Sequence" => Unfold[t] = Vec(Unfold[t.subtype])
         /\ ~ Composite(t) => Unfold[t] = t
         /\ Unfold[t].type = "Option" <=> t.type = "Option"
<1>1. Unfold[t] = UnfoldOf(Unfold, t)
  BY UnfoldEquation
<1>2. /\ t.type = "Option" => Unfold[t] = TypeOption(Unfold[t.subtype])
      /\ t.type = "Sequence" => Unfold[t] = Vec(Unfold[t.subtype])
      /\ ~ Composite(t) => Unfold[t] = t
  BY <1>1 DEF UnfoldOf, Composite
<1>3. \A u : TypeOption(u).type = "Option" /\ Vec(u).type = "Sequence"
  BY DEF TypeOption, Option, Vec
<1> QED BY <1>2, <1>3 DEF Composite

\* What an item flattens to, by the kind of its type.
LEMMA FlattenedIs ==
  ASSUME NEW t \in Types, NEW item \in ItemsOf[t]
  PROVE  /\ t.type = "Option" =>
              Flattened[t][item] = IF t.subtype.type = "Option" /\ item # <<>>
                                   THEN Flattened[t.subtype][item[1]]
                                   ELSE [i \in DOMAIN item |-> Flattened[t.subtype][item[i]]]
         /\ t.type = "Sequence" =>
              Flattened[t][item] = [i \in DOMAIN item |-> Flattened[t.subtype][item[i]]]
         /\ ~ Composite(t) => Flattened[t][item] = item
<1>1. Flattened[t] = FlattenedOf(Flattened, t)
  BY FlattenedEquation
<1>2. Flattened[t][item] = FlattenedOf(Flattened, t)[item]
  BY <1>1
<1> QED BY <1>2 DEF FlattenedOf, Composite

\* Flattening gives items of the type that is recorded.
FlattensTo(n) ==
  \A t \in TypesTo(n) : \A item \in ItemsOf[t] : Flattened[t][item] \in ItemsOf[Unfold[t]]

\* If items of shallower types flatten to those of what the types unfold to,
\* so do those of a type.
LEMMA FlattensNext ==
  ASSUME NEW n \in 0..MaxDepth, \A m \in Nat : m + 1 = n => FlattensTo(m)
  PROVE  FlattensTo(n)
<1> SUFFICES ASSUME NEW t \in TypesTo(n), NEW item \in ItemsOf[t]
             PROVE  Flattened[t][item] \in ItemsOf[Unfold[t]]
  BY DEF FlattensTo
<1>1. t \in Types
  BY TypesWithin
<1>2. CASE ~ Composite(t)
  BY <1>1, <1>2, FlattenedIs, UnfoldIs
<1>3. CASE Composite(t)
  <2> DEFINE u == t.subtype
  <2>1. n # 0 /\ u \in TypesTo(n - 1) /\ u \in TypesTo(n)
    BY <1>3, SubtypesIn
  <2>2. n - 1 \in Nat /\ (n - 1) + 1 = n
    BY <2>1
  <2>3. \A x \in ItemsOf[u] : Flattened[u][x] \in ItemsOf[Unfold[u]]
    BY <2>1, <2>2 DEF FlattensTo
  <2>4. u \in Types /\ Unfold[u] \in Types /\ Unfold[t] \in Types
    BY <1>1, <2>1, TypesWithin, UnfoldType
  <2> DEFINE f == Flattened[u]
             S == ItemsOf[Unfold[u]]
             out == [i \in DOMAIN item |-> f[item[i]]]
  <2>5. CASE t.type = "Sequence"
    <3>1. item \in Seq(ItemsOf[u])
      BY <1>1, <2>5, ItemsOfTypes
    <3>2. Flattened[t][item] = out
      BY <1>1, <2>5, FlattenedIs
    <3>3. Unfold[t] = Vec(Unfold[u])
      BY <1>1, <2>5, UnfoldIs
    <3>4. Vec(Unfold[u]).type = "Sequence" /\ Vec(Unfold[u]).subtype = Unfold[u]
      BY DEF Vec
    <3>5. ItemsOf[Unfold[t]] = Seq(S)
      BY <2>4, <3>3, <3>4, ItemsOfTypes
    <3> HIDE DEF S, f
    <3>6. out \in Seq(S)
      BY <2>3, <3>1 DEF S, f
    <3> QED BY <3>2, <3>5, <3>6
  <2>6. CASE t.type = "Option"
    <3>1. item \in Optional(ItemsOf[u])
      BY <1>1, <2>6, ItemsOfTypes
    <3>2. Optioned(ItemsOf[u], item)
      BY <3>1, OptionalType
    <3>3. Unfold[t] = TypeOption(Unfold[u]) /\ (Unfold[u].type = "Option" <=> u.type = "Option")
      BY <1>1, <2>4, <2>6, UnfoldIs
    <3>4. Flattened[t][item] = IF u.type = "Option" /\ item # <<>> THEN f[item[1]] ELSE out
      BY <1>1, <2>6, FlattenedIs
    <3>5. CASE u.type = "Option"
      <4>1. ItemsOf[Unfold[t]] = S
        BY <3>3, <3>5 DEF TypeOption
      <4>2. CASE item # <<>>
        BY <2>3, <3>2, <3>4, <3>5, <4>1, <4>2 DEF Optioned
      <4>3. CASE item = <<>>
        <5>1. out = <<>>
          BY <4>3
        <5>2. S = Optional(ItemsOf[Unfold[u].subtype])
          BY <2>4, <3>3, <3>5, ItemsOfTypes
        <5>3. \A X : <<>> \in Optional(X)
          BY DEF Optional
        <5> QED BY <3>4, <4>1, <4>3, <5>1, <5>2, <5>3
      <4> QED BY <4>2, <4>3
    <3>6. CASE u.type # "Option"
      <4>1. Unfold[t] = Option(Unfold[u])
        BY <3>3, <3>6 DEF TypeOption
      <4>2. Option(Unfold[u]).type = "Option" /\ Option(Unfold[u]).subtype = Unfold[u]
        BY DEF Option
      <4>3. ItemsOf[Unfold[t]] = Optional(S)
        BY <2>4, <4>1, <4>2, ItemsOfTypes
      <4>4. item \in Seq(ItemsOf[u]) /\ Len(item) <= 1
        BY <3>1 DEF Optional
      <4> HIDE DEF S, f
      <4>5. out \in Seq(S) /\ Len(out) = Len(item)
        BY <2>3, <4>4 DEF S, f
      <4> HIDE DEF out
      <4>6. out \in Optional(S)
        BY <4>4, <4>5 DEF Optional
      <4> QED BY <3>4, <3>6, <4>3, <4>6
    <3> QED BY <3>5, <3>6
  <2> QED BY <1>3, <2>5, <2>6 DEF Composite
<1> QED BY <1>2, <1>3

\* An item of a type flattens to one of the type it unfolds to.
LEMMA FlattenedType ==
  \A t \in Types : \A item \in ItemsOf[t] : Flattened[t][item] \in ItemsOf[Unfold[t]]
<1> DEFINE T == {n \in 0..MaxDepth : FlattensTo(n)}
<1>1. MaxDepth \in Nat
  BY DepthAssumption
<1>2. 0 \in T
  <2>1. 0 \in 0..MaxDepth /\ \A m \in Nat : m + 1 # 0
    BY <1>1
  <2>2. FlattensTo(0)
    BY <2>1, FlattensNext
  <2> QED BY <2>1, <2>2
<1>3. ASSUME NEW n \in 1..MaxDepth, n - 1 \in T PROVE n \in T
  <2>1. n \in 0..MaxDepth /\ \A m \in Nat : m + 1 = n => m = n - 1
    BY <1>1
  <2>2. \A m \in Nat : m + 1 = n => FlattensTo(m)
    BY <1>3, <2>1
  <2>3. FlattensTo(n)
    BY <2>1, <2>2, FlattensNext
  <2> QED BY <2>1, <2>3
<1>4. 0..MaxDepth \subseteq T
  <2> HIDE DEF T
  <2> QED BY <1>1, <1>2, <1>3, BoundedInduction
<1>5. FlattensTo(MaxDepth)
  <2>1. MaxDepth \in T
    <3> HIDE DEF T
    <3> QED BY <1>1, <1>4
  <2> QED BY <2>1
<1> QED BY <1>5 DEF FlattensTo, Types

Among(x, seq) == \E i \in 1..Len(seq) : seq[i] = x

\* The elements of all sequences are those of each.
LEMMA AmongConcat ==
  ASSUME NEW S, NEW parts \in Seq(Seq(S)), NEW x
  PROVE  Among(x, Concat(parts)) <=> \E n \in 1..Len(parts) : Among(x, parts[n])
<1> DEFINE T == {n \in 0..Len(parts) :
                   Among(x, Prefix(parts, n)) <=> \E m \in 1..n : Among(x, parts[m])}
<1>1. Len(parts) \in Nat
  OBVIOUS
<1>2. 0 \in T
  <2>1. Prefix(parts, 0) = <<>> /\ Len(<<>>) = 0 /\ 0 \in 0..Len(parts)
    BY PrefixZero, <1>1
  <2> QED BY <2>1 DEF Among
<1>3. ASSUME NEW n \in 1..Len(parts), n - 1 \in T PROVE n \in T
  <2> DEFINE a == Prefix(parts, n - 1)
             b == parts[n]
  <2>1. Prefix(parts, n) = a \o b /\ n \in 0..Len(parts)
    <3>1. Prefix(parts, n) = Prefix(parts, n - 1) \o parts[n]
      BY PrefixNext
    <3>2. n \in 0..Len(parts)
      OBVIOUS
    <3> QED BY <3>1, <3>2
  <2>2. a \in Seq(S) /\ b \in Seq(S)
    <3>1. n - 1 \in 0..Len(parts)
      OBVIOUS
    <3> QED BY <3>1, PrefixType
  <2>3. Among(x, a) <=> \E m \in 1..n - 1 : Among(x, parts[m])
    BY <1>3
  <2> HIDE DEF a
  <2>4. Among(x, a \o b) <=> Among(x, a) \/ Among(x, b)
    <3> HIDE DEF b
    <3>1. Len(a \o b) = Len(a) + Len(b) /\ Len(a) \in Nat /\ Len(b) \in Nat
      BY <2>2
    <3>2. \A i \in 1..Len(a) : (a \o b)[i] = a[i]
      BY <2>2
    <3>3. \A i \in 1..Len(b) : (a \o b)[Len(a) + i] = b[i]
      BY <2>2
    <3>4. ASSUME Among(x, a) PROVE Among(x, a \o b)
      <4>1. PICK i \in 1..Len(a) : a[i] = x
        BY <3>4 DEF Among
      <4>2. i \in 1..Len(a \o b)
        BY <3>1
      <4> QED BY <3>2, <4>1, <4>2 DEF Among
    <3>5. ASSUME Among(x, b) PROVE Among(x, a \o b)
      <4>1. PICK i \in 1..Len(b) : b[i] = x
        BY <3>5 DEF Among
      <4>2. Len(a) + i \in 1..Len(a \o b)
        BY <3>1
      <4> QED BY <3>3, <4>1, <4>2 DEF Among
    <3>6. ASSUME Among(x, a \o b) PROVE Among(x, a) \/ Among(x, b)
      <4>1. PICK i \in 1..Len(a \o b) : (a \o b)[i] = x
        BY <3>6 DEF Among
      <4>2. CASE i <= Len(a)
        <5>1. i \in 1..Len(a)
          BY <3>1, <4>2
        <5> QED BY <3>2, <4>1, <5>1 DEF Among
      <4>3. CASE i > Len(a)
        <5>1. i - Len(a) \in 1..Len(b) /\ Len(a) + (i - Len(a)) = i
          BY <3>1, <4>3
        <5>2. b[i - Len(a)] = x
          BY <3>3, <4>1, <5>1
        <5> QED BY <5>1, <5>2 DEF Among
      <4> QED BY <3>1, <4>2, <4>3
    <3> QED BY <3>4, <3>5, <3>6
  <2>5. (\E m \in 1..n : Among(x, parts[m])) <=> (\E m \in 1..n - 1 : Among(x, parts[m])) \/ Among(x, b)
    <3>1. \A m : m \in 1..n <=> (m \in 1..n - 1 \/ m = n)
      OBVIOUS
    <3> QED BY <3>1
  <2> QED BY <2>1, <2>3, <2>4, <2>5
<1>4. 0..Len(parts) \subseteq T
  <2> HIDE DEF T
  <2> QED BY <1>1, <1>2, <1>3, BoundedInduction
<1>5. Len(parts) \in T
  <2> HIDE DEF T
  <2> QED BY <1>1, <1>4
<1> QED BY <1>5, PrefixWhole

\* A sequence is empty if nothing is in it.
LEMMA AmongNone == ASSUME NEW S, NEW seq \in Seq(S) PROVE seq = <<>> <=> \A x : ~ Among(x, seq)
<1>1. Len(seq) \in Nat /\ (seq = <<>> <=> Len(seq) = 0)
  OBVIOUS
<1>2. Len(seq) # 0 => Among(seq[1], seq)
  BY <1>1 DEF Among
<1>3. Len(seq) = 0 => \A x : ~ Among(x, seq)
  <2>1. \A i : i \notin 1..0
    OBVIOUS
  <2> QED BY <2>1 DEF Among
<1> QED BY <1>1, <1>2, <1>3

Alike(items, more) == \A x : Among(x, items) <=> Among(x, more)

\* So the elements of like items are alike.
LEMMA ElementsAlike ==
  ASSUME NEW t, NEW S, NEW items, NEW more, Listing(t, S, items), Listing(t, S, more),
         Alike(items, more)
  PROVE  /\ Alike(Elements(t, items), Elements(t, more))
         /\ Elements(t, items) \in Seq(S) /\ Elements(t, more) \in Seq(S)
<1>1. ASSUME NEW l, Listing(t, S, l)
      PROVE  /\ Elements(t, l) \in Seq(S)
             /\ \A x : Among(x, Elements(t, l)) <=> \E y : Among(y, l) /\ Among(x, Piece(t, y))
  <2>1. /\ Pieces(t, l) \in Seq(Seq(S)) /\ Len(Pieces(t, l)) = Len(l)
        /\ \A i \in 1..Len(l) : Pieces(t, l)[i] = Piece(t, l[i])
        /\ Elements(t, l) = Concat(Pieces(t, l))
    BY <1>1, PiecesType, ElementsOfPieces
  <2>2. Concat(Pieces(t, l)) \in Seq(S)
    BY <2>1, PrefixType
  <2>3. \A x : Among(x, Concat(Pieces(t, l))) <=> \E n \in 1..Len(Pieces(t, l)) : Among(x, Pieces(t, l)[n])
    BY <2>1, AmongConcat
  <2>4. ASSUME NEW x
        PROVE  Among(x, Elements(t, l)) <=> \E y : Among(y, l) /\ Among(x, Piece(t, y))
    <3>1. Among(x, Elements(t, l)) <=> \E n \in 1..Len(l) : Among(x, Piece(t, l[n]))
      BY <2>1, <2>3
    <3>2. (\E n \in 1..Len(l) : Among(x, Piece(t, l[n])))
            <=> \E y : (\E n \in 1..Len(l) : l[n] = y) /\ Among(x, Piece(t, y))
      OBVIOUS
    <3> QED BY <3>1, <3>2 DEF Among
  <2> QED BY <2>1, <2>2, <2>4
<1>2. \A x : Among(x, Elements(t, items)) <=> \E y : Among(y, items) /\ Among(x, Piece(t, y))
  BY <1>1
<1>3. \A x : Among(x, Elements(t, more)) <=> \E y : Among(y, more) /\ Among(x, Piece(t, y))
  BY <1>1
<1>4. Elements(t, items) \in Seq(S) /\ Elements(t, more) \in Seq(S)
  BY <1>1
<1> QED BY <1>2, <1>3, <1>4, Zenon DEF Alike

\* How often an item is repeated does not matter to what is hollow.
HollowsTo(n) ==
  \A t \in TypesTo(n) \cap Recorded : \A items, more \in Seq(ItemsOf[t]) :
    Alike(items, more) => (Hollow[t][items] <=> Hollow[t][more])

\* If alike items of shallower types are hollow together, so are those of a
\* type.
LEMMA HollowsNext ==
  ASSUME NEW n \in Nat, \A m \in Nat : m + 1 = n => HollowsTo(m)
  PROVE  HollowsTo(n)
<1> SUFFICES ASSUME NEW t \in TypesTo(n), t \in Recorded,
                    NEW items \in Seq(ItemsOf[t]), NEW more \in Seq(ItemsOf[t]), Alike(items, more)
             PROVE  Hollow[t][items] <=> Hollow[t][more]
  BY DEF HollowsTo
<1>1. t \in Types
  BY DEF Recorded
<1>2. CASE Bare(t).type # "Sequence"
  BY <1>1, <1>2, HollowIs
<1>3. CASE Bare(t).type = "Sequence"
  <2> DEFINE e == Element(t)
             S == ItemsOf[e]
             a == Elements(t, items)
             b == Elements(t, more)
  <2>1. Listing(t, S, items) /\ Listing(t, S, more) /\ e \in Recorded
    BY <1>3, RecordedListing, ListedItems DEF Listed
  <2>2. Alike(a, b) /\ a \in Seq(S) /\ b \in Seq(S)
    <3> HIDE DEF S
    <3> QED BY <2>1, ElementsAlike
  <2>3. n # 0 /\ e \in TypesTo(n - 1)
    BY <1>3, InnerIn
  <2>4. HollowsTo(n - 1)
    <3>1. n - 1 \in Nat /\ (n - 1) + 1 = n
      BY <2>3
    <3> QED BY <3>1
  <2>5. Hollow[e][a] <=> Hollow[e][b]
    BY <2>1, <2>2, <2>3, <2>4 DEF HollowsTo
  <2>6. a = <<>> <=> b = <<>>
    <3> HIDE DEF a, b, S
    <3> QED BY <2>2, AmongNone DEF Alike
  <2>7. /\ Hollow[t][items] <=> IF a = <<>> THEN Nested(e) ELSE Hollow[e][a]
        /\ Hollow[t][more] <=> IF b = <<>> THEN Nested(e) ELSE Hollow[e][b]
    BY <1>1, <1>3, HollowIs
  <2> HIDE DEF a, b, e
  <2> QED BY <2>5, <2>6, <2>7
<1> QED BY <1>2, <1>3

\* Whether items are hollow depends on which items there are, not how often.
LEMMA HollowAlike ==
  \A t \in Recorded : \A items, more \in Seq(ItemsOf[t]) :
    Alike(items, more) => (Hollow[t][items] <=> Hollow[t][more])
<1> DEFINE T == {n \in 0..MaxDepth : HollowsTo(n)}
<1>1. MaxDepth \in Nat
  BY DepthAssumption
<1>2. 0 \in T
  <2>1. \A m \in Nat : m + 1 # 0
    OBVIOUS
  <2>2. HollowsTo(0)
    BY <2>1, HollowsNext
  <2> QED BY <1>1, <2>2
<1>3. ASSUME NEW n \in 1..MaxDepth, n - 1 \in T PROVE n \in T
  <2>1. n \in Nat /\ \A m \in Nat : m + 1 = n => m = n - 1
    OBVIOUS
  <2>2. \A m \in Nat : m + 1 = n => HollowsTo(m)
    BY <1>3, <2>1
  <2>3. HollowsTo(n)
    BY <2>1, <2>2, HollowsNext
  <2> QED BY <2>3
<1>4. 0..MaxDepth \subseteq T
  <2> HIDE DEF T
  <2> QED BY <1>1, <1>2, <1>3, BoundedInduction
<1>5. HollowsTo(MaxDepth)
  <2>1. MaxDepth \in T
    <3> HIDE DEF T
    <3> QED BY <1>1, <1>4
  <2> QED BY <2>1
<1> QED BY <1>5 DEF HollowsTo, Types, Recorded

----------------------------------------------------------------------------
(* Column buffers                                                          *)

\* Some items, their options flattened.
Flat(t, items) == [i \in DOMAIN items |-> Flattened[t][items[i]]]

\* Column items flatten to items of the recorded type, as many.
LEMMA FlatType ==
  ASSUME NEW t \in Types, NEW items \in Seq(ItemsOf[t])
  PROVE  /\ Unfold[t] \in Recorded
         /\ Flat(t, items) \in Seq(ItemsOf[Unfold[t]])
         /\ Len(Flat(t, items)) = Len(items)
         /\ Len(items) \in Nat /\ DOMAIN items = 1..Len(items)
         /\ \A i \in 1..Len(items) : Flat(t, items)[i] = Flattened[t][items[i]]
         /\ items # <<>> => Flat(t, items) # <<>>
<1>1. Len(items) \in Nat /\ DOMAIN items = 1..Len(items) /\ \A i \in 1..Len(items) : items[i] \in ItemsOf[t]
  OBVIOUS
<1>2. \A x \in ItemsOf[t] : Flattened[t][x] \in ItemsOf[Unfold[t]]
  BY FlattenedType
<1>3. Unfold[t] \in Recorded
  BY UnfoldRecorded
<1> QED BY <1>1, <1>2, <1>3 DEF Flat

\* The items that a buffer holds: one of them if they are all the same.
Once(items) == IF Uniform(items) THEN SubSeq(items, 1, 1) ELSE items

\* A uniform buffer keeps one of its items, any other keeps all.
LEMMA OnceType ==
  ASSUME NEW S, NEW items \in Seq(S), items # <<>>
  PROVE  /\ Once(items) \in Seq(S) /\ Once(items) # <<>>
         /\ Uniform(items) => Once(items) = <<items[1]>> /\ \A i \in 1..Len(items) : items[i] = items[1]
         /\ ~ Uniform(items) => Once(items) = items
<1>1. Len(items) \in Nat /\ Len(items) >= 1 /\ DOMAIN items = 1..Len(items) /\ items[1] \in S
  <2>1. Len(items) \in Nat /\ Len(items) # 0
    OBVIOUS
  <2> QED BY <2>1
<1>2. SubSeq(items, 1, 1) = <<items[1]>>
  <2> DEFINE first == SubSeq(items, 1, 1)
  <2>1. first \in Seq(S) /\ Len(first) = 1 /\ first[1] = items[1]
    BY <1>1
  <2> HIDE DEF first
  <2>2. first # <<>> /\ Len(first) <= 1
    <3>1. Len(<<>>) = 0 /\ 1 # 0
      OBVIOUS
    <3>2. first # <<>>
      BY <2>1, <3>1, Zenon
    <3>3. Len(first) <= 1
      BY <2>1
    <3> QED BY <3>2, <3>3
  <2>3. first = <<first[1]>>
    BY <2>1, <2>2, ShortSeq
  <2> QED BY <2>1, <2>3 DEF first
<1>3. <<items[1]>> \in Seq(S) /\ <<items[1]>> # <<>>
  BY <1>1
<1> QED BY <1>1, <1>2, <1>3 DEF Once, Uniform

\* The body of a buffer is the serialization of its flattened items, one of
\* them if they are equal.
LEMMA BodyIs == \A t, items : Body(t, items) = Serialize[Unfold[t]][Flat(t, Once(items))]
BY DEF Body, Once, Flat

\* The body of a buffer is made of bytes, and not empty.
LEMMA BodyType ==
  ASSUME NEW t \in Types, NEW items \in Seq(ItemsOf[t]), items # <<>>
  PROVE  Body(t, items) \in Seq(Bytes) /\ Body(t, items) # <<>>
<1>1. Once(items) \in Seq(ItemsOf[t]) /\ Once(items) # <<>>
  BY OnceType
<1>2. Unfold[t] \in Recorded /\ Flat(t, Once(items)) \in Seq(ItemsOf[Unfold[t]])
      /\ Flat(t, Once(items)) # <<>>
  BY <1>1, FlatType
<1>3. Coded(Flat(t, Once(items)), Serialize[Unfold[t]][Flat(t, Once(items))])
  BY <1>2, SerializeType
<1> QED BY <1>2, <1>3, BodyIs DEF Coded

\* One of them is like all of them.
LEMMA OnceAlike ==
  ASSUME NEW t \in Types, NEW items \in Seq(ItemsOf[t]), items # <<>>
  PROVE  Hollow[Unfold[t]][Flat(t, items)] <=> Hollow[Unfold[t]][Flat(t, Once(items))]
<1>1. Once(items) \in Seq(ItemsOf[t]) /\ Once(items) # <<>>
  BY OnceType
<1> DEFINE ty == Unfold[t]
           a == Flat(t, items)
           b == Flat(t, Once(items))
<1>2. ty \in Recorded /\ a \in Seq(ItemsOf[ty]) /\ b \in Seq(ItemsOf[ty])
  BY <1>1, FlatType
<1>3. CASE ~ Uniform(items)
  <2>1. Once(items) = items
    BY <1>3, OnceType
  <2> QED BY <2>1
<1>4. CASE Uniform(items)
  <2>1. Once(items) = <<items[1]>> /\ \A i \in 1..Len(items) : items[i] = items[1]
    BY <1>4, OnceType
  <2>2. Len(items) \in Nat /\ Len(items) >= 1 /\ Len(a) = Len(items)
        /\ \A i \in 1..Len(items) : a[i] = Flattened[t][items[i]]
    <3>1. Len(items) \in Nat /\ Len(items) # 0
      OBVIOUS
    <3>2. Len(a) = Len(items) /\ \A i \in 1..Len(items) : a[i] = Flattened[t][items[i]]
      BY FlatType
    <3> HIDE DEF a
    <3> QED BY <3>1, <3>2
  <2>3. Len(b) = 1 /\ b[1] = Flattened[t][items[1]]
    <3>1. Len(Once(items)) = 1 /\ Once(items)[1] = items[1] /\ 1 \in 1..1
      BY <2>1
    <3>2. Len(b) = Len(Once(items))
          /\ \A i \in 1..Len(Once(items)) : b[i] = Flattened[t][Once(items)[i]]
      BY <1>1, FlatType
    <3> HIDE DEF b
    <3> QED BY <3>1, <3>2
  <2> HIDE DEF a, b
  <2>4. Alike(a, b)
    <3>1. \A x : Among(x, a) <=> x = Flattened[t][items[1]]
      BY <2>1, <2>2 DEF Among
    <3>2. \A x : Among(x, b) <=> x = Flattened[t][items[1]]
      BY <2>3 DEF Among
    <3> QED BY <3>1, <3>2 DEF Alike
  <2> HIDE DEF ty
  <2>5. Hollow[ty][a] <=> Hollow[ty][b]
    BY <1>2, <2>4, HollowAlike
  <2> QED BY <2>5 DEF a, b, ty
<1> QED BY <1>3, <1>4

\* What the manifest says of a buffer of some items.
Described(desc, items) ==
  /\ desc.count = Len(items)
  /\ desc.kind = "Compact" <=> Uniform(items)

\* What is read of the buffer of some items: the items, their options
\* flattened, unless they are hollow.
ReadsBack(t, items, desc) ==
  LET read == Read(Unfold[t], desc, Body(t, items))
  IN  IF Hollow[Unfold[t]][Flat(t, items)] THEN ~ read.ok
      ELSE read.ok /\ read.it = Flat(t, items)

\* Any items of any type, however nested, read back from the buffer they are
\* serialized to: the readers of bits, niches, masks and ends invert the
\* accumulators, at every depth; the exception is a column of sequences that
\* is hollow.
THEOREM BufferReadsBack ==
  ASSUME NEW t \in Types, NEW items \in Seq(ItemsOf[t]), items # <<>>,
         Bit * Len(Body(t, items)) < MaxU64, NEW desc, Described(desc, items)
  PROVE  ReadsBack(t, items, desc)
<1> DEFINE ty == Unfold[t]
           src == Body(t, items)
           flat == Flat(t, items)
           once == Flat(t, Once(items))
           out == Iter[ty][src].it
<1>1. Once(items) \in Seq(ItemsOf[t]) /\ Once(items) # <<>>
  BY OnceType
<1>2. ty \in Recorded /\ once \in Seq(ItemsOf[ty]) /\ once # <<>>
  BY <1>1, FlatType
<1>3. flat \in Seq(ItemsOf[ty]) /\ Len(flat) = Len(items) /\ Len(items) \in Nat /\ Len(items) >= 1
      /\ \A i \in 1..Len(items) : flat[i] = Flattened[t][items[i]]
  <2>1. Len(items) \in Nat /\ Len(items) # 0
    OBVIOUS
  <2>2. flat \in Seq(ItemsOf[ty]) /\ Len(flat) = Len(items)
      /\ \A i \in 1..Len(items) : flat[i] = Flattened[t][items[i]]
    BY FlatType
  <2> HIDE DEF flat
  <2> QED BY <2>1, <2>2
<1>4. src = Serialize[ty][once]
  BY BodyIs
<1>5. Hollow[ty][flat] <=> Hollow[ty][once]
  BY OnceAlike
<1>6. Bit * Len(src) < MaxU64
  OBVIOUS
<1> HIDE DEF ty, src, flat, once
<1>7. IF Hollow[ty][once] THEN ~ Iter[ty][src].ok ELSE Reads(ty, once, src)
  BY <1>2, <1>4, <1>6, ItemsRoundTrip DEF RoundTrip
<1>8. Read(ty, desc, src) =
        IF ~ Iter[ty][src].ok THEN Err
        ELSE Ok(IF desc.kind = "Compact" THEN [n \in 1..desc.count |-> out[1]]
                ELSE SubSeq(out, 1, desc.count))
  BY DEF Read
<1>9. CASE Hollow[ty][flat]
  <2>1. Read(ty, desc, src) = Err
    BY <1>5, <1>7, <1>8, <1>9
  <2>2. ~ Read(ty, desc, src).ok
    BY <2>1 DEF Err
  <2> QED BY <1>9, <2>2 DEF ReadsBack, ty, src, flat
<1>10. CASE ~ Hollow[ty][flat]
  <2>1. Iter[ty][src].ok /\ out \in Seq(ItemsOf[ty]) /\ Begins(out, once)
    BY <1>5, <1>7, <1>10 DEF Reads
  <2> HIDE DEF out
  <2>2. flat = [i \in 1..Len(items) |-> flat[i]]
    BY <1>3
  <2>3. (IF desc.kind = "Compact" THEN [n \in 1..desc.count |-> out[1]]
         ELSE SubSeq(out, 1, desc.count)) = flat
    <3>1. CASE Uniform(items)
      <4>1. Once(items) = <<items[1]>> /\ \A i \in 1..Len(items) : items[i] = items[1]
        BY <3>1, OnceType
      <4>2. Len(once) = 1 /\ once[1] = Flattened[t][items[1]]
        <5>1. Len(Once(items)) = 1 /\ Once(items)[1] = items[1] /\ 1 \in 1..1
          BY <4>1
        <5>2. Len(once) = Len(Once(items))
              /\ \A i \in 1..Len(Once(items)) : once[i] = Flattened[t][Once(items)[i]]
          BY <1>1, FlatType DEF once
        <5> QED BY <5>1, <5>2
      <4>3. out[1] = once[1]
        BY <2>1, <4>2 DEF Begins
      <4>4. \A i \in 1..Len(items) : flat[i] = out[1]
        BY <1>3, <4>1, <4>2, <4>3
      <4>5. [n \in 1..Len(items) |-> out[1]] = [i \in 1..Len(items) |-> flat[i]]
        BY <4>4
      <4>6. desc.kind = "Compact" /\ desc.count = Len(items)
        BY <3>1 DEF Described
      <4> QED BY <2>2, <4>5, <4>6
    <3>2. CASE ~ Uniform(items)
      <4>1. once = flat
        BY <3>2, OnceType DEF once, flat
      <4>2. desc.kind # "Compact" /\ desc.count = Len(items)
        BY <3>2 DEF Described
      <4>3. Len(items) <= Len(out) /\ (\A n \in 1..Len(items) : out[n] = flat[n]) /\ Len(out) \in Nat
        BY <1>3, <2>1, <4>1 DEF Begins
      <4>4. SubSeq(out, 1, Len(items)) = [i \in 1..Len(items) |-> out[i]]
        BY <1>3, <2>1, <4>3
      <4>5. [i \in 1..Len(items) |-> out[i]] = [i \in 1..Len(items) |-> flat[i]]
        BY <4>3
      <4> QED BY <2>2, <4>2, <4>4, <4>5
    <3> QED BY <3>1, <3>2
  <2>4. Read(ty, desc, src) = Ok(flat)
    BY <1>8, <2>1, <2>3
  <2>5. Read(ty, desc, src).ok /\ Read(ty, desc, src).it = flat
    BY <2>4, OkIs
  <2> QED BY <1>10, <2>5 DEF ReadsBack, ty, src, flat
<1> QED BY <1>9, <1>10

----------------------------------------------------------------------------
(* The least and the greatest item                                         *)

\* One item is better than another, as the least or as the greatest.
Beats(t, items, least, i, j) ==
  IF least THEN LessThan(t, items[i][1], items[j][1])
  ELSE LessThan(t, items[j][1], items[i][1])

Chosen(t, items, least, best, n) ==
  IF items[n] = <<>> \/ (best # 0 /\ ~ Beats(t, items, least, n, best)) THEN best ELSE n

\* The fold that defines Find, as a function by recursion.
LEMMA FindEquation ==
  ASSUME NEW t, NEW items, NEW least, Len(items) \in Nat
  PROVE  \E f : /\ Find(t, items, least) = f[Len(items)]
                /\ f[0] = 0
                /\ \A n \in 1..Len(items) : f[n] = Chosen(t, items, least, f[n - 1], n)
<1> DEFINE Eq(m, g) ==
      g = [n \in 0..m |-> IF n = 0 THEN 0 ELSE Chosen(t, items, least, g[n - 1], n)]
           T == {m \in Nat : \E g : Eq(m, g)}
<1>1. 0 \in T
  <2>1. Eq(0, [n \in 0..0 |-> 0])
    OBVIOUS
  <2>2. \E g : Eq(0, g)
    <3> HIDE DEF Eq
    <3> QED BY <2>1
  <2> HIDE DEF Eq
  <2> QED BY <2>2
<1>2. ASSUME NEW m \in Nat, m \in T PROVE m + 1 \in T
  <2>1. PICK g : Eq(m, g)
    BY <1>2
  <2> DEFINE h == [n \in 0..(m + 1) |-> IF n = 0 THEN 0 ELSE Chosen(t, items, least, g[n - 1], n)]
  <2>2. \A n \in 0..m : h[n] = g[n]
    BY <2>1
  <2>3. \A n \in 0..(m + 1) : n # 0 => h[n - 1] = g[n - 1]
    <3> TAKE n \in 0..(m + 1)
    <3> HAVE n # 0
    <3>1. n - 1 \in 0..m
      OBVIOUS
    <3> HIDE DEF h
    <3> QED BY <2>2, <3>1
  <2>4. \A n \in 0..(m + 1) : h[n] = IF n = 0 THEN 0 ELSE Chosen(t, items, least, h[n - 1], n)
    <3> TAKE n \in 0..(m + 1)
    <3>1. h[n] = IF n = 0 THEN 0 ELSE Chosen(t, items, least, g[n - 1], n)
      OBVIOUS
    <3> HIDE DEF h
    <3> QED BY <3>1, <2>3
  <2>5. h = [n \in 0..(m + 1) |-> h[n]]
    OBVIOUS
  <2>6. Eq(m + 1, h)
    <3> HIDE DEF h
    <3> QED BY <2>4, <2>5
  <2> HIDE DEF h, Eq
  <2>7. \E k : Eq(m + 1, k)
    BY <2>6
  <2> QED BY <2>7
<1>3. Nat \subseteq T
  <2> HIDE DEF T
  <2> QED BY <1>1, <1>2, Induction
<1> DEFINE f == CHOOSE g : Eq(Len(items), g)
<1>4. Eq(Len(items), f)
  <2> HIDE DEF Eq
  <2> QED BY <1>3
<1>5. Find(t, items, least) = f[Len(items)]
  BY DEF Find, Chosen, Beats
<1> HIDE DEF f
<1>6. f[0] = 0
  BY <1>4
<1>7. \A n \in 1..Len(items) : f[n] = Chosen(t, items, least, f[n - 1], n)
  BY <1>4
<1> QED BY <1>5, <1>6, <1>7

\* Values are compared by numbers, NaN included.
LEMMA RankType ==
  ASSUME NEW t \in NumberTypes \cup {Char}, NEW n \in Scalar(t)
  PROVE  Rank(t, n) \in Int
<1>1. n \in Int
  BY ScalarRoundTrip
<1>2. t.type = "Number" => Limit(t.size) \in Nat \ {0} /\ Limit(t.size) \div 2 \in Int
  <2> HAVE t.type = "Number"
  <2>1. t.size \in Nat
    BY DEF NumberTypes, Char
  <2>2. Limit(t.size) \in Nat \ {0}
    BY <2>1, LimitType
  <2>3. \A l \in Nat : l \div 2 \in Int
    OBVIOUS
  <2> QED BY <2>2, <2>3
<1> QED BY <1>1, <1>2 DEF Rank

\* The order of numbers is strict; what is better than the better is better.
LEMMA BeatsBoth ==
  ASSUME NEW t \in NumberTypes \cup {Char}, NEW items \in Seq(Optional(Scalar(t))),
         NEW least \in BOOLEAN,
         NEW i \in 1..Len(items), NEW j \in 1..Len(items), NEW k \in 1..Len(items),
         items[i] # <<>>, items[j] # <<>>, items[k] # <<>>
  PROVE  /\ ~ Beats(t, items, least, i, i)
         /\ Beats(t, items, least, i, j) /\ Beats(t, items, least, j, k) => Beats(t, items, least, i, k)
<1>1. \A n \in 1..Len(items) : items[n] # <<>> => Rank(t, items[n][1]) \in Int
  <2> TAKE n \in 1..Len(items)
  <2> HAVE items[n] # <<>>
  <2>1. items[n][1] \in Scalar(t)
    BY OptionalType DEF Optioned
  <2> QED BY <2>1, RankType
<1>2. Rank(t, items[i][1]) \in Int /\ Rank(t, items[j][1]) \in Int /\ Rank(t, items[k][1]) \in Int
  BY <1>1
<1> QED BY <1>2 DEF Beats, LessThan

\* The place that is found is of an item that is present, which no item beats.
Best(t, items, least, m, n) ==
  /\ m \in 0..n
  /\ m = 0 => \A j \in 1..n : items[j] = <<>>
  /\ m # 0 => /\ items[m] # <<>>
              /\ \A j \in 1..n : items[j] # <<>> => ~ Beats(t, items, least, j, m)

\* One more item looked at, the choice is still the least (or the greatest) so
\* far.
LEMMA ChosenBest ==
  ASSUME NEW t \in NumberTypes \cup {Char}, NEW items \in Seq(Optional(Scalar(t))),
         NEW least \in BOOLEAN,
         NEW n \in 1..Len(items), NEW m, Best(t, items, least, m, n - 1)
  PROVE  Best(t, items, least, Chosen(t, items, least, m, n), n)
<1>1. m \in 0..n - 1 /\ m \in 0..n /\ (m # 0 => m \in 1..Len(items)) /\ Len(items) \in Nat
  BY DEF Best
<1>2. \A j \in 1..n : j \in 1..n - 1 \/ j = n
  OBVIOUS
<1>3. \A j \in 1..n : j \in 1..Len(items)
  OBVIOUS
<1>4. CASE items[n] = <<>>
  <2>1. Chosen(t, items, least, m, n) = m
    BY <1>4 DEF Chosen
  <2> QED BY <1>1, <1>2, <1>4, <2>1 DEF Best
<1>5. CASE items[n] # <<>> /\ m # 0 /\ ~ Beats(t, items, least, n, m)
  <2>1. Chosen(t, items, least, m, n) = m
    BY <1>5 DEF Chosen
  <2> QED BY <1>1, <1>2, <1>5, <2>1 DEF Best
<1>6. CASE items[n] # <<>> /\ m = 0
  <2>1. Chosen(t, items, least, m, n) = n
    BY <1>6 DEF Chosen
  <2>2. \A j \in 1..n : items[j] # <<>> => j = n
    BY <1>2, <1>6 DEF Best
  <2>3. ~ Beats(t, items, least, n, n)
    BY <1>6, BeatsBoth
  <2>4. n \in 0..n /\ n # 0
    OBVIOUS
  <2> QED BY <1>6, <2>1, <2>2, <2>3, <2>4 DEF Best
<1>7. CASE items[n] # <<>> /\ m # 0 /\ Beats(t, items, least, n, m)
  <2>1. Chosen(t, items, least, m, n) = n
    BY <1>7 DEF Chosen
  <2>2. ASSUME NEW j \in 1..n, items[j] # <<>> PROVE ~ Beats(t, items, least, j, n)
    <3>1. CASE j = n
      BY <1>7, <3>1, BeatsBoth
    <3>2. CASE j # n
      <4>1. j \in 1..n - 1 /\ j \in 1..Len(items) /\ m \in 1..Len(items)
        BY <1>1, <1>2, <1>7, <3>2
      <4>2. ~ Beats(t, items, least, j, m) /\ items[m] # <<>>
        BY <1>7, <2>2, <4>1 DEF Best
      <4> QED BY <1>7, <2>2, <4>1, <4>2, BeatsBoth
    <3> QED BY <3>1, <3>2
  <2>3. n \in 0..n /\ n # 0
    OBVIOUS
  <2> QED BY <1>7, <2>1, <2>2, <2>3 DEF Best
<1> QED BY <1>4, <1>5, <1>6, <1>7

\* find_min and find_max choose an item that none is below, or above.
LEMMA FindBest ==
  ASSUME NEW t \in NumberTypes \cup {Char}, NEW items \in Seq(Optional(Scalar(t))),
         NEW least \in BOOLEAN
  PROVE  Best(t, items, least, Find(t, items, least), Len(items))
<1>1. Len(items) \in Nat
  OBVIOUS
<1>2. PICK f : /\ Find(t, items, least) = f[Len(items)]
               /\ f[0] = 0
               /\ \A n \in 1..Len(items) : f[n] = Chosen(t, items, least, f[n - 1], n)
  BY <1>1, FindEquation
<1> DEFINE T == {n \in 0..Len(items) : Best(t, items, least, f[n], n)}
<1>3. 0 \in T
  <2>1. 0 \in 0..Len(items) /\ 0 \in 0..0 /\ \A j : j \notin 1..0
    BY <1>1
  <2> QED BY <1>2, <2>1 DEF Best
<1>4. ASSUME NEW n \in 1..Len(items), n - 1 \in T PROVE n \in T
  <2>1. n \in 0..Len(items)
    OBVIOUS
  <2>2. Best(t, items, least, f[n - 1], n - 1)
    BY <1>4
  <2>3. Best(t, items, least, Chosen(t, items, least, f[n - 1], n), n)
    BY <2>2, ChosenBest
  <2> QED BY <1>2, <2>1, <2>3
<1>5. 0..Len(items) \subseteq T
  <2> HIDE DEF T
  <2> QED BY <1>1, <1>3, <1>4, BoundedInduction
<1>6. Len(items) \in T
  <2> HIDE DEF T
  <2> QED BY <1>1, <1>5
<1> QED BY <1>2, <1>6

----------------------------------------------------------------------------
(* Statistics by the accumulator                                           *)

\* A slice of what follows a sequence is a slice of both, shifted.
LEMMA CutShift ==
  ASSUME NEW S, NEW a \in Seq(S), NEW b \in Seq(S), NEW p \in Nat, NEW q \in Nat,
         q <= Len(b)
  PROVE  /\ SubSeq(a \o b, Len(a) + p + 1, Len(a) + q) = SubSeq(b, p + 1, q)
         /\ Len(a) + q <= Len(a \o b) /\ a \o b \in Seq(S)
<1> DEFINE l == SubSeq(a \o b, Len(a) + p + 1, Len(a) + q)
           r == SubSeq(b, p + 1, q)
<1>1. Len(a \o b) = Len(a) + Len(b) /\ a \o b \in Seq(S) /\ Len(a) \in Nat /\ Len(b) \in Nat
  OBVIOUS
<1>2. l \in Seq(S) /\ r \in Seq(S)
  <2>1. \A i \in Len(a) + p + 1..Len(a) + q : i \in 1..Len(a \o b)
    BY <1>1
  <2>2. \A i \in p + 1..q : i \in 1..Len(b)
    BY <1>1
  <2>3. l \in Seq(S)
    BY <1>1, <2>1, SubSeqProperties
  <2>4. r \in Seq(S)
    BY <1>1, <2>2, SubSeqProperties
  <2> QED BY <2>3, <2>4
<1>3. Len(l) = IF p + 1 <= q THEN q - p ELSE 0
  BY <1>1
<1>4. Len(r) = IF p + 1 <= q THEN q - p ELSE 0
  BY <1>1
<1>5. \A i \in 1..Len(l) : l[i] = r[i]
  <2> TAKE i \in 1..Len(l)
  <2>1. p + 1 <= q /\ i \in 1..q - p
    BY <1>3
  <2>2. l[i] = (a \o b)[Len(a) + p + i]
    BY <1>1, <2>1
  <2>3. r[i] = b[p + i]
    BY <1>1, <2>1
  <2>4. p + i \in 1..Len(b)
    BY <2>1, <1>1
  <2>5. (a \o b)[Len(a) + (p + i)] = b[p + i]
    BY <2>4, SMTT(30)
  <2>6. Len(a) + (p + i) = Len(a) + p + i
    BY <1>1, <2>1
  <2> QED BY <2>2, <2>3, <2>5, <2>6
<1> HIDE DEF l, r
<1>6. l = r
  <2>1. l = [i \in 1..Len(l) |-> l[i]] /\ r = [i \in 1..Len(r) |-> r[i]] /\ Len(l) = Len(r)
    BY <1>2, <1>3, <1>4
  <2>2. [i \in 1..Len(l) |-> l[i]] = [i \in 1..Len(l) |-> r[i]]
    BY <1>5
  <2> QED BY <2>1, <2>2
<1> QED BY <1>1, <1>6 DEF l, r

\* Part of the whole, which lies in it from o on.
Within(whole, o, part, p, q) ==
  /\ SubSeq(whole, o + p + 1, o + q) = SubSeq(part, p + 1, q)
  /\ o + q <= Len(whole)

\* A slice of the middle of a sequence.
LEMMA CutSecond ==
  ASSUME NEW S, NEW a \in Seq(S), NEW x \in Seq(S), NEW y \in Seq(S), NEW z \in Seq(S),
         NEW p \in Nat, NEW q \in Nat, q <= Len(y)
  PROVE  Within(a \o ((x \o y) \o z), Len(a) + Len(x), y, p, q)
<1>1. /\ SubSeq(x \o y, Len(x) + p + 1, Len(x) + q) = SubSeq(y, p + 1, q)
      /\ Len(x) + q <= Len(x \o y) /\ x \o y \in Seq(S)
  BY CutShift
<1>2. Len(x) \in Nat /\ Len(a) \in Nat /\ Len(x) + p \in Nat /\ Len(x) + q \in Nat
      /\ Len(x \o y) \in Nat
  BY <1>1
<1>3. ASSUME NEW u \in Seq(S), NEW m \in Nat, NEW n \in Nat, n <= Len(u)
      PROVE  /\ SubSeq(u \o z, m + 1, n) = SubSeq(u, m + 1, n)
             /\ n <= Len(u \o z) /\ u \o z \in Seq(S)
  <2>1. SubSeq(u \o z, m + 1, n) = SubSeq(u, m + 1, n)
    BY <1>3, CutLonger
  <2>2. Len(u \o z) = Len(u) + Len(z) /\ Len(u) \in Nat /\ Len(z) \in Nat /\ u \o z \in Seq(S)
    OBVIOUS
  <2> QED BY <1>3, <2>1, <2>2
<1>4. /\ SubSeq((x \o y) \o z, Len(x) + p + 1, Len(x) + q) = SubSeq(y, p + 1, q)
      /\ Len(x) + q <= Len((x \o y) \o z) /\ (x \o y) \o z \in Seq(S)
  BY <1>1, <1>2, <1>3, SMTT(30)
<1>5. ASSUME NEW u \in Seq(S), NEW m \in Nat, NEW n \in Nat, n <= Len(u)
      PROVE  /\ SubSeq(a \o u, Len(a) + m + 1, Len(a) + n) = SubSeq(u, m + 1, n)
             /\ Len(a) + n <= Len(a \o u)
  BY <1>5, CutShift
<1>6. /\ SubSeq(a \o ((x \o y) \o z), Len(a) + (Len(x) + p) + 1, Len(a) + (Len(x) + q))
             = SubSeq((x \o y) \o z, (Len(x) + p) + 1, Len(x) + q)
      /\ Len(a) + (Len(x) + q) <= Len(a \o ((x \o y) \o z))
  BY <1>2, <1>4, <1>5, SMTT(30)
<1>7. Len(a) + (Len(x) + p) + 1 = (Len(a) + Len(x)) + p + 1 /\ Len(a) + (Len(x) + q) = (Len(a) + Len(x)) + q
  BY <1>2
<1> QED BY <1>4, <1>6, <1>7 DEF Within

\* The items that are present.
Holds(ty, flat, x) == Among(x, IF ty.type = "Option" THEN Values(ty, flat) ELSE flat)

MeasuredTypes == NumberTypes \cup {Char}

\* A column with statistics is one of fixed-width values, plain or optional.
LEMMA MeasuredKind ==
  ASSUME NEW ty \in Recorded, Measured(ty)
  PROVE  /\ Bare(ty) \in MeasuredTypes /\ Bare(ty) \in Types /\ Bare(ty) \in Recorded
         /\ ItemsOf[Bare(ty)] = Scalar(Bare(ty)) /\ Fixed(Bare(ty)) /\ ~ Nested(Bare(ty))
         /\ RawAcc(Bare(ty)) = "Vec"
         /\ \/ RawAcc(ty) = "Vec" /\ Bare(ty) = ty /\ ty.type # "Option" /\ ~ Nested(ty)
            \/ ty.type = "Option" /\ RawAcc(ty) \in {"OptInSitu", "OptBitVec"} /\ Bare(ty) = ty.subtype
               /\ (RawAcc(ty) = "OptInSitu" => ~ Nested(ty))
               /\ (RawAcc(ty) = "OptBitVec" => Nested(ty) /\ Inner(ty) = ty.subtype)
<1>1. Kind(ty)
  BY RecordedKind
<1>2. CASE ty.type # "Option"
  <2>1. Fixed(ty) /\ RawAcc(ty) = "Vec" /\ Bare(ty) = ty
    BY <1>1, <1>2 DEF Kind, Measured, Bare
  <2> QED BY <1>2, <2>1, ItemsOfTypes DEF Recorded, MeasuredTypes, Nested
<1>3. CASE ty.type = "Option"
  <2>1. Bare(ty) = ty.subtype
    BY <1>3 DEF Bare
  <2>2. ty.subtype \in Recorded
    BY <1>3, RecordedSubtypes DEF Composite
  <2>3. ~ Fixed(ty)
    BY <1>3 DEF Fixed
  <2>4. Fixed(ty.subtype) /\ RawAcc(ty) \in {"OptInSitu", "OptBitVec"}
        /\ (RawAcc(ty) = "OptBitVec" => Inner(ty) = ty.subtype)
    BY <1>1, <1>3, <2>1, <2>3 DEF Kind, Measured, Niche, NonZero, Fixed
  <2>5. ty.subtype \in MeasuredTypes /\ ItemsOf[ty.subtype] = Scalar(ty.subtype)
    BY <2>2, <2>4, ItemsOfTypes DEF Recorded, MeasuredTypes
  <2>6. RawAcc(ty.subtype) = "Vec"
    BY <2>4 DEF RawAcc, Fixed, Listed
  <2> QED BY <1>3, <2>1, <2>2, <2>4, <2>5, <2>6 DEF Nested, Recorded
<1> QED BY <1>2, <1>3

\* Where cell i is among the bytes.
Lies(ty, flat, i) ==
  LET src == Serialize[ty][flat]
      width == Width(Bare(ty))
      cells == Scanned(ty, flat)
      origin == Origin(ty, flat)
  IN  /\ origin + i * width <= Len(src)
      /\ SubSeq(src, origin + (i - 1) * width + 1, origin + i * width)
           = Encoded(Bare(ty), cells[i][1])

ScannedWell(ty, flat) ==
  /\ Scanned(ty, flat) \in Seq(Optional(Scalar(Bare(ty))))
  /\ Origin(ty, flat) \in Nat
  /\ \A x : Holds(ty, flat, x)
              <=> \E i \in 1..Len(Scanned(ty, flat)) : Scanned(ty, flat)[i] # <<>> /\ Scanned(ty, flat)[i][1] = x
  /\ \A i \in 1..Len(Scanned(ty, flat)) : Scanned(ty, flat)[i] # <<>> => Lies(ty, flat, i)

\* Cells that hold an item each.
Boxes(items) == [i \in DOMAIN items |-> <<items[i]>>]

BoxedWell(S, items, cells) ==
  /\ cells \in Seq(Optional(S)) /\ Len(cells) = Len(items)
  /\ \A i \in 1..Len(items) : cells[i] # <<>> /\ cells[i][1] = items[i]
  /\ \A x : Among(x, items) <=> \E i \in 1..Len(cells) : cells[i] # <<>> /\ cells[i][1] = x

\* Items and their optional forms are at the same places.
LEMMA Boxed ==
  ASSUME NEW S, NEW items \in Seq(S)
  PROVE  BoxedWell(S, items, Boxes(items))
<1> DEFINE cells == Boxes(items)
<1>1. Len(items) \in Nat /\ DOMAIN items = 1..Len(items) /\ \A i \in 1..Len(items) : items[i] \in S
  OBVIOUS
<1>2. \A x \in S : <<x>> \in Optional(S) /\ <<x>> # <<>> /\ <<x>>[1] = x
  <2> TAKE x \in S
  <2>1. <<x>> \in Seq(S) /\ Len(<<x>>) = 1 /\ <<x>>[1] = x /\ <<x>> # <<>>
    OBVIOUS
  <2> QED BY <2>1 DEF Optional
<1>3. \A i \in 1..Len(items) : cells[i] \in Optional(S) /\ cells[i] # <<>> /\ cells[i][1] = items[i]
  BY <1>1, <1>2 DEF Boxes
<1>4. cells = [i \in 1..Len(items) |-> cells[i]]
  BY <1>1 DEF Boxes
<1> HIDE DEF cells
<1>5. cells \in Seq(Optional(S)) /\ Len(cells) = Len(items)
  BY <1>1, <1>3, <1>4
<1> QED BY <1>3, <1>5 DEF Among, cells, BoxedWell

\* Encoded one after the other, each has its place.
LEMMA EncodedPlaces ==
  ASSUME NEW b \in MeasuredTypes, NEW items \in Seq(Scalar(b))
  PROVE  LET src == Concat([i \in DOMAIN items |-> Encoded(b, items[i])])
         IN  /\ src \in Seq(Bytes) /\ Len(src) = Len(items) * Width(b)
             /\ \A i \in 1..Len(items) :
                  SubSeq(src, (i - 1) * Width(b) + 1, i * Width(b)) = Encoded(b, items[i])
<1> DEFINE parts == [i \in DOMAIN items |-> Encoded(b, items[i])]
<1>1. Len(items) \in Nat /\ DOMAIN items = 1..Len(items) /\ \A i \in 1..Len(items) : items[i] \in Scalar(b)
  OBVIOUS
<1>2. Width(b) \in Nat
  BY WidthType DEF MeasuredTypes
<1>3. \A i \in 1..Len(items) : parts[i] \in Seq(Bytes) /\ Len(parts[i]) = Width(b)
  <2> TAKE i \in 1..Len(items)
  <2>1. Encoded(b, items[i]) \in Seq(Bytes) /\ Len(Encoded(b, items[i])) = Width(b)
    BY <1>1, ScalarRoundTrip DEF MeasuredTypes
  <2> QED BY <1>1, <2>1
<1>4. parts = [i \in 1..Len(items) |-> parts[i]] /\ \A i \in 1..Len(items) : parts[i] = Encoded(b, items[i])
  BY <1>1
<1> HIDE DEF parts
<1>5. parts \in Seq(Seq(Bytes)) /\ Len(parts) = Len(items)
  BY <1>1, <1>3, <1>4
<1>6. /\ Len(Concat(parts)) = Len(parts) * Width(b)
      /\ \A n \in 1..Len(parts) : SubSeq(Concat(parts), (n - 1) * Width(b) + 1, n * Width(b)) = parts[n]
  BY <1>2, <1>3, <1>5, EqualParts
<1>7. Concat(parts) \in Seq(Bytes)
  BY <1>5, PrefixType
<1> QED BY <1>4, <1>5, <1>6, <1>7 DEF parts

\* The i-th value of w bytes is within l of them.
LEMMA Places ==
  ASSUME NEW l \in Nat, NEW w \in Nat, NEW i \in 1..l
  PROVE  i * w \in Nat /\ (i - 1) * w \in Nat /\ i * w <= l * w
<1>1. i \in Nat /\ i - 1 \in Nat /\ i <= l
  OBVIOUS
<1>2. \A a, b, c \in Nat : a * c \in Nat /\ (a <= b => a * c <= b * c)
  BY SMT
<1> QED BY <1>1, <1>2

\* The statistics of plain values address values of the buffer.
LEMMA VecScanned ==
  ASSUME NEW ty \in Recorded, Measured(ty), RawAcc(ty) = "Vec",
         NEW flat \in Seq(ItemsOf[ty]), flat # <<>>
  PROVE  ScannedWell(ty, flat)
<1>1. /\ Bare(ty) = ty /\ ty.type # "Option" /\ ~ Nested(ty) /\ ty \in MeasuredTypes
      /\ ItemsOf[ty] = Scalar(ty) /\ ty \in Types
  BY MeasuredKind DEF Recorded
<1>2. Scanned(ty, flat) = Boxes(flat)
  BY DEF Scanned, Boxes
<1>3. Origin(ty, flat) = 0
  BY DEF Origin
<1>4. Serialize[ty][flat] = Concat([i \in DOMAIN flat |-> Encoded(ty, flat[i])])
  BY <1>1, SerializeIs DEF Leaf
<1> DEFINE src == Concat([i \in DOMAIN flat |-> Encoded(ty, flat[i])])
           cells == Scanned(ty, flat)
           w == Width(ty)
<1>5. /\ src \in Seq(Bytes) /\ Len(src) = Len(flat) * w
      /\ \A i \in 1..Len(flat) : SubSeq(src, (i - 1) * w + 1, i * w) = Encoded(ty, flat[i])
  BY <1>1, EncodedPlaces
<1>6. /\ cells \in Seq(Optional(Scalar(ty))) /\ Len(cells) = Len(flat)
      /\ \A i \in 1..Len(flat) : cells[i] # <<>> /\ cells[i][1] = flat[i]
      /\ \A x : Among(x, flat) <=> \E i \in 1..Len(cells) : cells[i] # <<>> /\ cells[i][1] = x
  <2>1. flat \in Seq(Scalar(ty))
    BY <1>1
  <2>2. BoxedWell(Scalar(ty), flat, Boxes(flat))
    BY <2>1, Boxed
  <2> QED BY <1>2, <2>2 DEF BoxedWell
<1>7. w \in Nat /\ Len(flat) \in Nat
  BY <1>1, WidthType DEF MeasuredTypes
<1>8. Serialize[ty][flat] = src
  BY <1>4
<1> HIDE DEF src, cells, w
<1>9. ASSUME NEW i \in 1..Len(cells) PROVE Lies(ty, flat, i)
  <2>1. i * w <= Len(src) /\ i * w \in Nat /\ (i - 1) * w \in Nat
    BY <1>5, <1>6, <1>7, Places
  <2>2. 0 + i * w = i * w /\ 0 + (i - 1) * w = (i - 1) * w
    BY <2>1
  <2>3. SubSeq(src, 0 + (i - 1) * w + 1, 0 + i * w) = Encoded(ty, cells[i][1])
    BY <1>5, <1>6, <2>2
  <2> QED BY <1>1, <1>3, <1>8, <2>1, <2>2, <2>3 DEF Lies, cells, w
<1> QED BY <1>1, <1>3, <1>6, <1>9 DEF ScannedWell, Holds, cells

\* The statistics of optional values with a niche address values of the
\* buffer.
LEMMA NicheScanned ==
  ASSUME NEW ty \in Recorded, Measured(ty), RawAcc(ty) = "OptInSitu",
         NEW flat \in Seq(ItemsOf[ty]), flat # <<>>
  PROVE  ScannedWell(ty, flat)
<1> DEFINE b == Bare(ty)
<1>1. /\ b = ty.subtype /\ ty.type = "Option" /\ ~ Nested(ty) /\ b \in MeasuredTypes
      /\ ItemsOf[b] = Scalar(b) /\ ty \in Types
  BY MeasuredKind DEF Recorded
<1>2. ItemsOf[ty] = Optional(Scalar(b)) /\ flat \in Seq(Optional(Scalar(b)))
      /\ flat \in Seq(Seq(Scalar(b)))
  BY <1>1, OptionItems
<1>3. Scanned(ty, flat) = flat /\ Origin(ty, flat) = 0
  BY DEF Origin, Scanned
<1> HIDE DEF b
<1> DEFINE parts == [i \in DOMAIN flat |-> Cell(b, flat[i])]
           w == Width(b)
           src == Serialize[ty][flat]
<1>4. src = Concat(parts)
  <2>1. src = Leaf(ty, flat)
    BY <1>1, SerializeIs
  <2> HIDE DEF src
  <2> QED BY <1>1, <2>1 DEF Leaf, Cell
<1>5. w \in Nat /\ Len(flat) \in Nat /\ DOMAIN flat = 1..Len(flat)
  BY <1>1, WidthType DEF MeasuredTypes
<1>6. Niche(b)
  BY <1>1, RecordedKind DEF Kind, RawAcc, OptAcc, Fixed, Listed
<1>7. \A i \in 1..Len(flat) : parts[i] \in Seq(Bytes) /\ Len(parts[i]) = w
                              /\ (flat[i] # <<>> => parts[i] = Encoded(b, flat[i][1]))
  <2> TAKE i \in 1..Len(flat)
  <2>1. Optioned(Scalar(b), flat[i])
    BY <1>2, OptionalType
  <2>2. CASE flat[i] = <<>>
    <3>1. NoneBytes(b) \in Seq(Bytes) /\ Len(NoneBytes(b)) = Width(b)
      BY <1>1, <1>6, NoneBytesDistinct DEF MeasuredTypes
    <3> QED BY <1>5, <2>2, <3>1 DEF Cell
  <2>3. CASE flat[i] # <<>>
    <3>1. Encoded(b, flat[i][1]) \in Seq(Bytes) /\ Len(Encoded(b, flat[i][1])) = Width(b)
      BY <1>1, <2>1, <2>3, ScalarRoundTrip DEF MeasuredTypes, Optioned
    <3> QED BY <1>5, <2>3, <3>1 DEF Cell
  <2> QED BY <2>2, <2>3
<1>8. parts = [i \in 1..Len(flat) |-> parts[i]]
  BY <1>5
<1> HIDE DEF parts, w, src
<1>9. parts \in Seq(Seq(Bytes)) /\ Len(parts) = Len(flat)
  BY <1>5, <1>7, <1>8
<1>10. /\ Len(src) = Len(flat) * w
       /\ \A n \in 1..Len(flat) : SubSeq(src, (n - 1) * w + 1, n * w) = parts[n]
  BY <1>4, <1>5, <1>7, <1>9, EqualParts
<1>11. ASSUME NEW i \in 1..Len(flat), flat[i] # <<>> PROVE Lies(ty, flat, i)
  <2>1. i * w <= Len(src) /\ i * w \in Nat /\ (i - 1) * w \in Nat
    BY <1>5, <1>10, Places
  <2>2. 0 + i * w = i * w /\ 0 + (i - 1) * w = (i - 1) * w
    BY <2>1
  <2>3. SubSeq(src, 0 + (i - 1) * w + 1, 0 + i * w) = Encoded(b, flat[i][1])
    BY <1>7, <1>10, <1>11, <2>2
  <2> QED BY <1>3, <2>1, <2>2, <2>3 DEF Lies, b, w, src
<1>12. ASSUME NEW x
       PROVE  Holds(ty, flat, x) <=> \E i \in 1..Len(flat) : flat[i] # <<>> /\ flat[i][1] = x
  <2>1. Holds(ty, flat, x) <=> Among(x, Concat(flat))
    BY <1>1 DEF Holds, Values
  <2>2. Among(x, Concat(flat)) <=> \E i \in 1..Len(flat) : Among(x, flat[i])
    BY <1>2, AmongConcat
  <2>3. \A i \in 1..Len(flat) : Among(x, flat[i]) <=> flat[i] # <<>> /\ flat[i][1] = x
    <3> TAKE i \in 1..Len(flat)
    <3>1. Optioned(Scalar(b), flat[i])
      BY <1>2, OptionalType
    <3>2. CASE flat[i] = <<>>
      <4>1. Len(flat[i]) = 0 /\ \A j : j \notin 1..0
        BY <3>1, <3>2 DEF Optioned
      <4> QED BY <3>2, <4>1 DEF Among
    <3>3. CASE flat[i] # <<>>
      <4>1. Len(flat[i]) = 1 /\ \A j : j \in 1..1 <=> j = 1
        BY <3>1, <3>3 DEF Optioned
      <4> QED BY <3>3, <4>1 DEF Among
    <3> QED BY <3>2, <3>3
  <2> QED BY <2>1, <2>2, <2>3
<1> QED BY <1>2, <1>3, <1>11, <1>12 DEF ScannedWell, b

\* What is in the second sub-buffer comes after the first and a prefix.
LEMMA SecondPlaces ==
  ASSUME NEW first \in Seq(Bytes), NEW second \in Seq(Bytes), second # <<>>,
         NEW p \in Nat, NEW q \in Nat, q <= Len(second)
  PROVE  Within(Compound(first, second), Len(SizedBuf(first)) + Word, second, p, q)
<1>1. Len(second) \in Nat /\ Len(second) \in Int /\ Word \in Nat
  BY Widths
<1>2. Pad(Len(second)) \in Nat
  BY <1>1, PadType
<1>3. ToBytes(Len(second), Word) \in Seq(Bytes) /\ Len(ToBytes(Len(second), Word)) = Word
  BY <1>1, ToBytesType
<1>4. Zeros(Pad(Len(second))) \in Seq(Bytes)
  BY <1>2, ZerosType
<1>5. SizedBuf(first) \in Seq(Bytes)
  BY SizedBufType
<1>6. Compound(first, second) =
        SizedBuf(first) \o ((ToBytes(Len(second), Word) \o second) \o Zeros(Pad(Len(second))))
  BY DEF Compound, SizedBuf
<1>7. ASSUME NEW a \in Seq(Bytes), NEW x \in Seq(Bytes), NEW z \in Seq(Bytes), Len(x) = Word
      PROVE  Within(a \o ((x \o second) \o z), Len(a) + Word, second, p, q)
  <2>1. Within(a \o ((x \o second) \o z), Len(a) + Len(x), second, p, q)
    BY CutSecond
  <2> QED BY <1>7, <2>1
<1> QED BY <1>3, <1>4, <1>5, <1>6, <1>7

\* The statistics of optional values with a mask address values of the buffer
\* behind the mask.
LEMMA MaskScanned ==
  ASSUME NEW ty \in Recorded, Measured(ty), RawAcc(ty) = "OptBitVec",
         NEW flat \in Seq(ItemsOf[ty]), flat # <<>>
  PROVE  ScannedWell(ty, flat)
<1> DEFINE b == Bare(ty)
           values == Values(ty, flat)
           first == Heads(ty, flat)
           second == Serialize[b][values]
           src == Serialize[ty][flat]
           cells == Scanned(ty, flat)
           w == Width(b)
           origin == Origin(ty, flat)
<1>1. /\ b = ty.subtype /\ ty.type = "Option" /\ Nested(ty) /\ Inner(ty) = b /\ b \in MeasuredTypes
      /\ ItemsOf[b] = Scalar(b) /\ ty \in Types /\ b \in Types /\ b \in Recorded /\ ~ Nested(b)
      /\ RawAcc(b) = "Vec"
  BY MeasuredKind DEF Recorded
<1>2. Content(ty, flat) = values
  BY DEF Content
<1>3. values \in Seq(ItemsOf[b])
  BY <1>1, <1>2, ContentType
<1>4. cells = Boxes(values)
  BY DEF Scanned, Boxes
<1>5. origin = Len(SizedBuf(first)) + Word
  BY DEF Origin, Heads
<1>6. src = Compound(first, second)
  BY <1>1, <1>2, SerializeIs
<1>7. first \in Seq(Bytes)
  BY <1>1, HeadsType DEF Coded
<1>8. values # <<>> => second = Concat([i \in DOMAIN values |-> Encoded(b, values[i])])
  BY <1>1, <1>3, SerializeIs DEF Leaf
<1>9. second \in Seq(Bytes) /\ (values # <<>> => second # <<>>)
  BY <1>1, <1>3, SerializeType DEF Coded
<1>10. \A x : Holds(ty, flat, x) <=> Among(x, values)
  BY <1>1 DEF Holds
<1> HIDE DEF b, values, first, second, src, cells, w, origin
<1>11. /\ cells \in Seq(Optional(Scalar(b))) /\ Len(cells) = Len(values)
       /\ \A i \in 1..Len(values) : cells[i] # <<>> /\ cells[i][1] = values[i]
       /\ \A x : Among(x, values) <=> \E i \in 1..Len(cells) : cells[i] # <<>> /\ cells[i][1] = x
  <2>1. values \in Seq(Scalar(b))
    BY <1>1, <1>3
  <2>2. BoxedWell(Scalar(b), values, Boxes(values))
    BY <2>1, Boxed
  <2> QED BY <1>4, <2>2 DEF BoxedWell
<1>12. w \in Nat /\ Len(values) \in Nat /\ Word \in Nat
  BY <1>1, <1>3, WidthType, Widths DEF MeasuredTypes, w
<1>13. SizedBuf(first) \in Seq(Bytes) /\ Len(SizedBuf(first)) \in Nat
  BY <1>7, SizedBufType
<1>14. origin \in Nat
  BY <1>5, <1>12, <1>13
<1>15. ASSUME NEW i \in 1..Len(values) PROVE Lies(ty, flat, i)
  <2>1. values # <<>>
    <3>1. Len(<<>>) = 0 /\ Len(values) >= 1
      BY <1>12
    <3> QED BY <3>1
  <2>2. /\ Len(second) = Len(values) * w
        /\ SubSeq(second, (i - 1) * w + 1, i * w) = Encoded(b, values[i])
    BY <1>1, <1>3, <1>8, <2>1, EncodedPlaces DEF w
  <2>3. i * w <= Len(second) /\ i * w \in Nat /\ (i - 1) * w \in Nat
    BY <1>12, <2>2, Places
  <2>4. Within(Compound(first, second), Len(SizedBuf(first)) + Word, second, (i - 1) * w, i * w)
    BY <1>7, <1>9, <2>1, <2>3, SecondPlaces
  <2>13. /\ origin + i * w <= Len(src)
         /\ SubSeq(src, origin + (i - 1) * w + 1, origin + i * w) = Encoded(b, cells[i][1])
    BY <1>5, <1>6, <1>11, <2>2, <2>4 DEF Within
  <2> QED BY <2>13 DEF Lies, b, src, cells, origin, w
<1> QED BY <1>10, <1>11, <1>14, <1>15 DEF ScannedWell, b, cells, origin

----------------------------------------------------------------------------
(* Statistics of a buffer                                                  *)

\* A slice of a slice.
LEMMA CutCut ==
  ASSUME NEW S, NEW file \in Seq(S), NEW o \in Nat, NEW n \in Nat, o + n <= Len(file),
         NEW p \in Nat, NEW q \in Nat, q <= n
  PROVE  SubSeq(SubSeq(file, o + 1, o + n), p + 1, q) = SubSeq(file, o + p + 1, o + q)
<1> DEFINE c == SubSeq(file, o + 1, o + n)
           l == SubSeq(c, p + 1, q)
           r == SubSeq(file, o + p + 1, o + q)
<1>1. Len(file) \in Nat
  OBVIOUS
<1>2. c \in Seq(S) /\ Len(c) = n
  BY <1>1
<1>3. \A i \in 1..n : c[i] = file[o + i]
  BY <1>1
<1> HIDE DEF c
<1>4. Len(l) = (IF p + 1 <= q THEN q - p ELSE 0) /\ l = [i \in 1..Len(l) |-> l[i]]
  BY <1>2
<1>5. Len(r) = (IF p + 1 <= q THEN q - p ELSE 0) /\ r = [i \in 1..Len(r) |-> r[i]]
  BY <1>1
<1>6. \A i \in 1..Len(l) : l[i] = r[i]
  <2> TAKE i \in 1..Len(l)
  <2>1. p + 1 <= q /\ i \in 1..q - p
    BY <1>4
  <2>2. l[i] = c[p + i]
    <3>1. i \in 1..q - (p + 1) + 1
      BY <2>1
    <3>2. l[i] = c[(p + 1) + i - 1]
      BY <1>2, <3>1
    <3>3. (p + 1) + i - 1 = p + i
      BY <2>1
    <3> QED BY <3>2, <3>3
  <2>3. r[i] = file[o + p + i]
    BY <1>1, <2>1
  <2>4. p + i \in 1..n /\ o + (p + i) = o + p + i
    BY <2>1
  <2> QED BY <1>3, <2>2, <2>3, <2>4
<1> HIDE DEF l, r
<1>7. l = r
  <2>1. [i \in 1..Len(l) |-> l[i]] = [i \in 1..Len(l) |-> r[i]]
    BY <1>6
  <2> QED BY <1>4, <1>5, <2>1
<1> QED BY <1>7 DEF l, r, c

\* What a descriptor says of the items, whatever its statistics.
LEMMA DescribeIs ==
  ASSUME NEW t, NEW items, NEW sector
  PROVE  /\ Describe(t, items, sector).buffer = sector
         /\ Describe(t, items, sector).count = Len(items)
         /\ Described(Describe(t, items, sector), items)
BY DEF Describe, Detail, Described

\* The item in a sector of the file.
At(file, type, sector) ==
  Decoded(type, SubSeq(file, sector.offset + 1, sector.offset + sector.size))

\* Some item, and no other is better.
Measures(file, ty, flat, min, max) ==
  LET type == Bare(ty)
  IN  /\ Holds(ty, flat, At(file, type, min)) /\ Holds(ty, flat, At(file, type, max))
      /\ \A x : Holds(ty, flat, x) => /\ ~ LessThan(type, x, At(file, type, min))
                                       /\ ~ LessThan(type, At(file, type, max), x)

\* The minimum and maximum that a descriptor addresses are the least and the
\* greatest of the items.
LEMMA AllScanned ==
  ASSUME NEW ty \in Recorded, Measured(ty), NEW flat \in Seq(ItemsOf[ty]), flat # <<>>
  PROVE  ScannedWell(ty, flat)
BY VecScanned, NicheScanned, MaskScanned DEF Measured

\* The item of a cell is found in the file.
LEMMA CellAt ==
  ASSUME NEW ty \in Recorded, Measured(ty), NEW flat \in Seq(ItemsOf[ty]), flat # <<>>,
         NEW file \in Seq(Bytes), NEW o \in Nat, NEW src \in Seq(Bytes),
         src = Serialize[ty][flat],
         o + Len(src) <= Len(file), SubSeq(file, o + 1, o + Len(src)) = src,
         NEW i \in 1..Len(Scanned(ty, flat)), Scanned(ty, flat)[i] # <<>>
  PROVE  At(file, Bare(ty),
            [offset |-> o + Origin(ty, flat) + (i - 1) * Width(Bare(ty)), size |-> Width(Bare(ty))])
           = Scanned(ty, flat)[i][1]
<1> DEFINE b == Bare(ty)
           w == Width(b)
           cells == Scanned(ty, flat)
           origin == Origin(ty, flat)
<1>1. ScannedWell(ty, flat)
  BY AllScanned
<1>2. cells \in Seq(Optional(Scalar(b))) /\ origin \in Nat /\ Lies(ty, flat, i)
  BY <1>1 DEF ScannedWell
<1>3. origin + i * w <= Len(src)
      /\ SubSeq(src, origin + (i - 1) * w + 1, origin + i * w) = Encoded(b, cells[i][1])
  BY <1>2 DEF Lies
<1>4. b \in MeasuredTypes
  BY MeasuredKind
<1>5. w \in Nat
  BY <1>4, WidthType DEF MeasuredTypes
<1> HIDE DEF b, w, cells, origin
<1>6. cells[i][1] \in Scalar(b)
  <2>1. Optioned(Scalar(b), cells[i]) /\ cells[i] # <<>>
    BY <1>2, OptionalType DEF cells
  <2> QED BY <2>1 DEF Optioned
<1>7. Decoded(b, Encoded(b, cells[i][1])) = cells[i][1]
  BY <1>4, <1>6, ScalarRoundTrip DEF MeasuredTypes
<1>8. i * w \in Nat /\ (i - 1) * w \in Nat /\ i * w = (i - 1) * w + w
  <2>1. i \in Nat /\ i - 1 \in Nat
    BY <1>2
  <2>2. \A x, y \in Nat : x * y \in Nat
    BY SMT
  <2>3. \A x \in Int, y \in Nat : x * y = (x - 1) * y + y
    BY SMT
  <2>4. i \in Int
    BY <2>1
  <2> QED BY <1>5, <2>1, <2>2, <2>3, <2>4
<1>9. origin + (i - 1) * w \in Nat /\ origin + i * w \in Nat /\ Len(src) \in Nat
  BY <1>2, <1>8, SMTT(30)
<1>10. SubSeq(SubSeq(file, o + 1, o + Len(src)), (origin + (i - 1) * w) + 1, origin + i * w)
         = SubSeq(file, o + (origin + (i - 1) * w) + 1, o + (origin + i * w))
  <2>1. o \in Nat /\ o + Len(src) <= Len(file) /\ origin + i * w <= Len(src)
    BY <1>3
  <2>2. \A p, q \in Nat : q <= Len(src) =>
          SubSeq(SubSeq(file, o + 1, o + Len(src)), p + 1, q) = SubSeq(file, o + p + 1, o + q)
    BY <1>9, <2>1, CutCut, SMTT(30)
  <2> QED BY <1>9, <2>1, <2>2
<1>11. o + (origin + (i - 1) * w) = o + origin + (i - 1) * w
       /\ o + (origin + i * w) = (o + origin + (i - 1) * w) + w
  BY <1>2, <1>5, <1>8
<1>12. SubSeq(file, (o + origin + (i - 1) * w) + 1, (o + origin + (i - 1) * w) + w) = Encoded(b, cells[i][1])
  BY <1>3, <1>10, <1>11
<1>13. At(file, b, [offset |-> o + origin + (i - 1) * w, size |-> w]) = cells[i][1]
  BY <1>7, <1>12 DEF At
<1> QED BY <1>13 DEF b, w, cells, origin

\* What the statistics are of.
LEMMA FoundMeasures ==
  ASSUME NEW ty \in Recorded, Measured(ty), NEW flat \in Seq(ItemsOf[ty]), flat # <<>>,
         Find(Bare(ty), Scanned(ty, flat), TRUE) # 0, NEW file, NEW min, NEW max,
         \A i \in 1..Len(Scanned(ty, flat)) : Scanned(ty, flat)[i] # <<>> =>
           /\ Find(Bare(ty), Scanned(ty, flat), TRUE) = i => At(file, Bare(ty), min) = Scanned(ty, flat)[i][1]
           /\ Find(Bare(ty), Scanned(ty, flat), FALSE) = i => At(file, Bare(ty), max) = Scanned(ty, flat)[i][1]
  PROVE  Measures(file, ty, flat, min, max)
<1> DEFINE b == Bare(ty)
           cells == Scanned(ty, flat)
           m == Find(b, cells, TRUE)
           n == Find(b, cells, FALSE)
<1>1. ScannedWell(ty, flat)
  BY AllScanned
<1>2. /\ cells \in Seq(Optional(Scalar(b))) /\ Len(cells) \in Nat
      /\ \A x : Holds(ty, flat, x) <=> \E i \in 1..Len(cells) : cells[i] # <<>> /\ cells[i][1] = x
  BY <1>1 DEF ScannedWell
<1>3. b \in NumberTypes \cup {Char}
  BY MeasuredKind DEF MeasuredTypes
<1>4. Best(b, cells, TRUE, m, Len(cells)) /\ Best(b, cells, FALSE, n, Len(cells))
  <2> HIDE DEF b, cells
  <2> QED BY <1>2, <1>3, FindBest
<1>5. m # 0 /\ \A i \in 1..Len(cells) : cells[i] # <<>> =>
        /\ m = i => At(file, b, min) = cells[i][1]
        /\ n = i => At(file, b, max) = cells[i][1]
  OBVIOUS
<1> HIDE DEF b, cells, m, n
<1>6. /\ m \in 1..Len(cells) /\ cells[m] # <<>>
      /\ \A j \in 1..Len(cells) : cells[j] # <<>> => ~ Beats(b, cells, TRUE, j, m)
  <2>1. m \in 0..Len(cells) /\ m # 0
    BY <1>4, <1>5, Zenon DEF Best
  <2>2. cells[m] # <<>> /\ \A j \in 1..Len(cells) : cells[j] # <<>> => ~ Beats(b, cells, TRUE, j, m)
    BY <1>4, <2>1, Zenon DEF Best
  <2>3. m \in 1..Len(cells)
    BY <1>2, <2>1
  <2> QED BY <2>2, <2>3
<1>7. n # 0
  BY <1>4, <1>6 DEF Best
<1>8. /\ n \in 1..Len(cells) /\ cells[n] # <<>>
      /\ \A j \in 1..Len(cells) : cells[j] # <<>> => ~ Beats(b, cells, FALSE, j, n)
  <2>1. n \in 0..Len(cells) /\ n # 0
    BY <1>4, <1>7, Zenon DEF Best
  <2>2. cells[n] # <<>> /\ \A j \in 1..Len(cells) : cells[j] # <<>> => ~ Beats(b, cells, FALSE, j, n)
    BY <1>4, <2>1, Zenon DEF Best
  <2>3. n \in 1..Len(cells)
    BY <1>2, <2>1
  <2> QED BY <2>2, <2>3
<1>9. At(file, b, min) = cells[m][1] /\ At(file, b, max) = cells[n][1]
  BY <1>5, <1>6, <1>8
<1>10. ASSUME NEW x, Holds(ty, flat, x)
       PROVE  ~ LessThan(b, x, At(file, b, min)) /\ ~ LessThan(b, At(file, b, max), x)
  <2>1. PICK j \in 1..Len(cells) : cells[j] # <<>> /\ cells[j][1] = x
    BY <1>2, <1>10
  <2> QED BY <1>6, <1>8, <1>9, <2>1 DEF Beats
<1>11. Holds(ty, flat, At(file, b, min)) /\ Holds(ty, flat, At(file, b, max))
  BY <1>2, <1>6, <1>8, <1>9
<1> QED BY <1>10, <1>11 DEF Measures, b

\* The sectors of the statistics are of the least and the greatest item that
\* is present, once the buffer is in the file.
THEOREM StatisticsAreItems ==
  ASSUME NEW t \in Types, NEW items \in Seq(ItemsOf[t]), items # <<>>,
         NEW file \in Seq(Bytes), NEW sector, sector.offset \in Nat,
         sector.size = Len(Body(t, items)),
         sector.offset + sector.size <= Len(file),
         SubSeq(file, sector.offset + 1, sector.offset + sector.size) = Body(t, items),
         Describe(t, items, sector).kind = "Detailed"
  PROVE  Measures(file, Unfold[t], Flat(t, items), Describe(t, items, sector).min, Describe(t, items, sector).max)
<1> DEFINE ty == Unfold[t]
           flat == Flat(t, items)
           b == Bare(ty)
           w == Width(b)
           cells == Scanned(ty, flat)
           o == sector.offset
           desc == Describe(t, items, sector)
           src == Body(t, items)
           Statistic(i) == [offset |-> o + Origin(ty, flat) + (i - 1) * w, size |-> w]
<1>1. ty \in Recorded /\ flat \in Seq(ItemsOf[ty]) /\ flat # <<>>
  BY FlatType
<1>2. ~ Uniform(items) /\ Measured(ty)
      /\ desc = Detail([buffer |-> sector, count |-> Len(items), kind |-> "Basic"], b, cells,
                       o + Origin(ty, flat))
  <2>1. desc.kind = "Detailed" => ~ Uniform(items) /\ Measured(ty)
    BY DEF Describe
  <2>2. ~ Uniform(items) /\ Measured(ty)
    BY <2>1
  <2> QED BY <2>2 DEF Describe, Flat
<1>3. /\ Find(b, cells, TRUE) # 0
      /\ desc.min = Statistic(Find(b, cells, TRUE)) /\ desc.max = Statistic(Find(b, cells, FALSE))
  <2>1. desc.kind = "Detailed"
    OBVIOUS
  <2> HIDE DEF desc, b, cells
  <2>2. Find(b, cells, TRUE) # 0
    BY <1>2, <2>1 DEF Detail
  <2> QED BY <1>2, <2>2 DEF Detail
<1>4. src = Serialize[ty][flat]
  <2>1. Once(items) = items
    BY <1>2 DEF Once
  <2> QED BY <2>1, BodyIs
<1>5. src \in Seq(Bytes)
  BY BodyType
<1>6. ASSUME NEW i \in 1..Len(cells), cells[i] # <<>> PROVE At(file, b, Statistic(i)) = cells[i][1]
  <2>1. o \in Nat /\ o + Len(src) <= Len(file) /\ SubSeq(file, o + 1, o + Len(src)) = src
    OBVIOUS
  <2> HIDE DEF ty, flat, src, o
  <2> QED BY <1>1, <1>2, <1>4, <1>5, <1>6, <2>1, CellAt
<1>7. \A i \in 1..Len(cells) : cells[i] # <<>> =>
        /\ Find(b, cells, TRUE) = i => At(file, b, desc.min) = cells[i][1]
        /\ Find(b, cells, FALSE) = i => At(file, b, desc.max) = cells[i][1]
  BY <1>3, <1>6
<1> HIDE DEF ty, flat, desc
<1>8. Measures(file, ty, flat, desc.min, desc.max)
  BY <1>1, <1>2, <1>3, <1>7, FoundMeasures
<1> QED BY <1>8 DEF ty, flat, desc

=============================================================================
