--------------------------- MODULE NumeralProofs ---------------------------
(***************************************************************************)
(* Induction over the natural numbers and functions defined by recursion,   *)
(* in the form the proofs need (over a set, not over a formula), and what   *)
(* follows about digits: Numeral and Temporal.                              *)
(***************************************************************************)
EXTENDS Temporal, WellFoundedInduction, SequenceTheorems, TLAPS

\* Every set of natural numbers that is not empty has a least element.
LEMMA LeastNumber ==
    ASSUME NEW T, T \subseteq Nat, T # {}
    PROVE  \E n \in T : \A m \in T : n <= m
<1> DEFINE R == OpToRel(<, Nat)
<1>1. IsWellFoundedOn(R, Nat)
  BY NatLessThanWellFounded
<1>2. \A x, y \in Nat : x < y => <<x, y>> \in R
  BY DEF OpToRel
<1> HIDE DEF R
<1>3. PICK x \in T : \A y \in T : ~(<<y, x>> \in R)
  BY <1>1, WFMin
<1>4. \A y \in T : ~(y < x)
  BY <1>2, <1>3
<1>5. \A y \in T : x <= y
  BY <1>4
<1> QED
  BY <1>5

\* A set that contains 0 and the successor of each of its numbers contains
\* every number.
LEMMA Induct ==
    ASSUME NEW S, 0 \in S, \A n \in Nat : n \in S => n + 1 \in S
    PROVE  \A n \in Nat : n \in S
<1> SUFFICES ASSUME Nat \ S # {} PROVE FALSE
  OBVIOUS
<1>1. PICK n \in Nat \ S : \A m \in Nat \ S : n <= m
  BY LeastNumber
<1>2. n # 0 /\ n - 1 \in Nat
  BY <1>1
<1>3. n - 1 \in S
  BY <1>1, <1>2
<1> QED
  BY <1>1, <1>2, <1>3

\* Induction up to a bound.
LEMMA BoundedInduct ==
    ASSUME NEW n \in Nat, NEW S, 0 \in S, \A i \in 1..n : i - 1 \in S => i \in S
    PROVE  \A i \in 0..n : i \in S
<1> DEFINE U == {i \in Nat : i <= n => i \in S}
<1>1. 0 \in U
  OBVIOUS
<1>2. \A i \in Nat : i \in U => i + 1 \in U
  <2> SUFFICES ASSUME NEW i \in Nat, i \in U, i + 1 <= n PROVE i + 1 \in S
    OBVIOUS
  <2>1. i \in S /\ i + 1 \in 1..n /\ (i + 1) - 1 = i
    OBVIOUS
  <2> QED
    BY <2>1
<1> HIDE DEF U
<1>3. \A i \in Nat : i \in U
  BY <1>1, <1>2, Induct
<1> QED
  BY <1>3 DEF U

\* There is a function on 0..n with a given value at 0 and a given step from
\* each value to the next.
LEMMA RecursionExists ==
    ASSUME NEW T, NEW c \in T, NEW n \in Nat, NEW F \in [1..n -> [T -> T]]
    PROVE  \E g \in [0..n -> T] : g[0] = c /\ \A i \in 1..n : g[i] = F[i][g[i - 1]]
<1> DEFINE S == {m \in Nat : m <= n =>
                   \E g \in [0..m -> T] :
                      \A i \in 0..m : g[i] = IF i = 0 THEN c ELSE F[i][g[i - 1]]}
<1>1. 0 \in S
  <2> DEFINE g == [i \in 0..0 |-> c]
  <2>1. /\ g \in [0..0 -> T]
        /\ \A i \in 0..0 : g[i] = IF i = 0 THEN c ELSE F[i][g[i - 1]]
    OBVIOUS
  <2> QED
    BY <2>1
<1>2. ASSUME NEW m \in Nat, m \in S PROVE m + 1 \in S
  <2> SUFFICES ASSUME m + 1 <= n
               PROVE  \E h \in [0..(m + 1) -> T] :
                         \A i \in 0..(m + 1) : h[i] = IF i = 0 THEN c ELSE F[i][h[i - 1]]
    OBVIOUS
  <2>1. PICK g \in [0..m -> T] : \A i \in 0..m : g[i] = IF i = 0 THEN c ELSE F[i][g[i - 1]]
    BY <1>2
  <2> DEFINE h == [i \in 0..(m + 1) |-> IF i = m + 1 THEN F[m + 1][g[m]] ELSE g[i]]
  <2>2. m \in 0..m /\ g[m] \in T /\ m + 1 \in 1..n
    BY <2>1
  <2>3. F[m + 1][g[m]] \in T
    BY <2>2
  <2>4. \A i \in 0..(m + 1) : i # m + 1 => i \in 0..m
    OBVIOUS
  <2>5. h \in [0..(m + 1) -> T]
    BY <2>3, <2>4
  <2>6. ASSUME NEW i \in 0..(m + 1)
        PROVE  h[i] = IF i = 0 THEN c ELSE F[i][h[i - 1]]
    <3>1. CASE i = m + 1
      <4>1. m \in 0..(m + 1) /\ m # m + 1 /\ m + 1 # 0
        OBVIOUS
      <4>2. h[m] = g[m] /\ h[m + 1] = F[m + 1][g[m]]
        BY <4>1
      <4>3. i - 1 = m
        BY <3>1
      <4> QED
        BY <3>1, <4>1, <4>2, <4>3
    <3>2. CASE i # m + 1 /\ i # 0
      <4>1. i \in 0..m /\ i - 1 \in 0..m /\ i - 1 # m + 1 /\ i - 1 \in 0..(m + 1)
        BY <3>2
      <4>2. h[i] = g[i] /\ h[i - 1] = g[i - 1]
        BY <3>2, <4>1
      <4> QED
        BY <2>1, <3>2, <4>1, <4>2
    <3>3. CASE i = 0
      <4>1. 0 \in 0..m /\ 0 # m + 1 /\ 0 \in 0..(m + 1)
        OBVIOUS
      <4> QED
        BY <2>1, <3>3, <4>1
    <3> QED
      BY <3>1, <3>2, <3>3
  <2> HIDE DEF h
  <2> QED
    BY <2>5, <2>6
<1>3. n \in S
  <2> HIDE DEF S
  <2>1. \A m \in Nat : m \in S => m + 1 \in S
    BY <1>2
  <2> QED
    BY <1>1, <2>1, Induct
<1>4. PICK g \in [0..n -> T] : \A i \in 0..n : g[i] = IF i = 0 THEN c ELSE F[i][g[i - 1]]
  BY <1>3
<1>5. g[0] = c /\ \A i \in 1..n : g[i] = F[i][g[i - 1]]
  BY <1>4
<1> QED
  BY <1>5

-----------------------------------------------------------------------------
(* Powers and digits                                                       *)

\* p is the list of the powers of b up to the k-th.
Powers(p, b, k) == /\ p[0] = 1
                   /\ \A i \in 0..k : p[i] \in Nat
                   /\ \A i \in 1..k : p[i] = b * p[i - 1]

\* Power computes such a list.
LEMMA PowersExist ==
    ASSUME NEW b \in Nat, NEW k \in Nat
    PROVE  \E p : Powers(p, b, k) /\ Power(b, k) = p[k]
<1> DEFINE F == [i \in 1..k |-> [x \in Nat |-> b * x]]
           p == CHOOSE p : p = [i \in 0..k |-> IF i = 0 THEN 1 ELSE b * p[i - 1]]
<1>1. F \in [1..k -> [Nat -> Nat]] /\ 1 \in Nat
  OBVIOUS
<1>2. PICK g \in [0..k -> Nat] : g[0] = 1 /\ \A i \in 1..k : g[i] = F[i][g[i - 1]]
  <2> DEFINE T == Nat
             c == 1
  <2>1. F \in [1..k -> [T -> T]] /\ c \in T
    BY <1>1
  <2> HIDE DEF F, T, c
  <2>2. \E g \in [0..k -> T] : g[0] = c /\ \A i \in 1..k : g[i] = F[i][g[i - 1]]
    BY <2>1, RecursionExists
  <2> QED
    BY <2>2 DEF T, c
<1>3. \A i \in 1..k : g[i] = b * g[i - 1]
  <2>1. \A i \in 1..k : i - 1 \in 0..k /\ g[i - 1] \in Nat
    OBVIOUS
  <2> QED
    BY <1>2, <2>1
<1>4. g = [i \in 0..k |-> IF i = 0 THEN 1 ELSE b * g[i - 1]]
  <2>1. \A i \in 0..k : i # 0 => i \in 1..k
    OBVIOUS
  <2>2. \A i \in 0..k : g[i] = IF i = 0 THEN 1 ELSE b * g[i - 1]
    BY <1>2, <1>3, <2>1
  <2> QED
    BY <2>2
<1>5. p = [i \in 0..k |-> IF i = 0 THEN 1 ELSE b * p[i - 1]]
  BY <1>4
<1>6. Power(b, k) = p[k]
  BY DEF Power
<1> HIDE DEF p
<1>7. p[0] = 1 /\ \A i \in 1..k : p[i] = b * p[i - 1]
  <2>1. 0 \in 0..k /\ \A i \in 1..k : i \in 0..k /\ i # 0
    OBVIOUS
  <2> QED
    BY <1>5, <2>1
<1>8. \A i \in 0..k : p[i] \in Nat
  <2> DEFINE S == {i \in Nat : p[i] \in Nat}
  <2>1. 0 \in S
    BY <1>7
  <2>2. \A i \in 1..k : i - 1 \in S => i \in S
    BY <1>7
  <2> HIDE DEF S
  <2>3. \A i \in 0..k : i \in S
    BY <2>1, <2>2, BoundedInduct
  <2> QED
    BY <2>3 DEF S
<1> QED
  BY <1>6, <1>7, <1>8 DEF Powers

\* Power satisfies the equations of a power.
LEMMA PowerUnfolds ==
    ASSUME NEW b \in Nat, NEW k \in Nat
    PROVE  Power(b, 0) = 1 /\ Power(b, k) \in Nat /\ Power(b, k + 1) = b * Power(b, k)
<1>1. PICK p : Powers(p, b, k) /\ Power(b, k) = p[k]
  BY PowersExist
<1>2. PICK q : Powers(q, b, k + 1) /\ Power(b, k + 1) = q[k + 1]
  BY PowersExist
<1>3. PICK r : Powers(r, b, 0) /\ Power(b, 0) = r[0]
  BY PowersExist
<1>4. \A i \in 0..k : p[i] = q[i]
  <2> DEFINE S == {i \in Nat : p[i] = q[i]}
  <2>1. 0 \in S
    BY <1>1, <1>2 DEF Powers
  <2>2. \A i \in 1..k : i - 1 \in S => i \in S
    BY <1>1, <1>2 DEF Powers
  <2> HIDE DEF S
  <2>3. \A i \in 0..k : i \in S
    BY <2>1, <2>2, BoundedInduct
  <2> QED
    BY <2>3 DEF S
<1>5. k \in 0..k /\ k + 1 \in 1..(k + 1) /\ (k + 1) - 1 = k
  OBVIOUS
<1> QED
  BY <1>1, <1>2, <1>3, <1>4, <1>5 DEF Powers

\* Powers of a base of at least 2 grow, and exceed their exponent.
LEMMA PowerGrows ==
    ASSUME NEW b \in Nat, b >= 2
    PROVE  /\ \A k \in Nat : Power(b, k) \in Nat /\ Power(b, k + 1) = b * Power(b, k)
           /\ \A k \in Nat : Power(b, k) > k
           /\ \A k, j \in Nat : Power(b, k) <= Power(b, k + j)
<1>1. \A k \in Nat : Power(b, k) \in Nat /\ Power(b, k + 1) = b * Power(b, k)
  BY PowerUnfolds
<1>2. Power(b, 0) = 1
  BY PowerUnfolds
<1>3. \A x \in Nat : b * x >= 2 * x
  OBVIOUS
<1>4. \A k \in Nat : Power(b, k) > k
  <2> DEFINE S == {k \in Nat : Power(b, k) > k}
  <2>1. 0 \in S
    BY <1>2
  <2>2. \A k \in Nat : k \in S => k + 1 \in S
    <3> SUFFICES ASSUME NEW k \in Nat, k \in S PROVE k + 1 \in S
      OBVIOUS
    <3>1. k + 1 \in Nat /\ Power(b, k) > k
      OBVIOUS
    <3>2. Power(b, k) \in Nat /\ Power(b, k + 1) = b * Power(b, k) /\ Power(b, k + 1) \in Nat
      BY <1>1, <3>1
    <3>3. Power(b, k + 1) >= 2 * Power(b, k)
      BY <1>3, <3>2
    <3> QED
      BY <3>1, <3>2, <3>3
  <2> HIDE DEF S
  <2>3. \A k \in Nat : k \in S
    BY <2>1, <2>2, Induct
  <2> QED
    BY <2>3 DEF S
<1>5. ASSUME NEW k \in Nat PROVE \A j \in Nat : Power(b, k) <= Power(b, k + j)
  <2> DEFINE S == {j \in Nat : Power(b, k) <= Power(b, k + j)}
  <2>1. 0 \in S
    <3>1. k + 0 = k /\ Power(b, k) \in Nat
      BY <1>1
    <3> QED
      BY <3>1
  <2>2. \A j \in Nat : j \in S => j + 1 \in S
    <3> SUFFICES ASSUME NEW j \in Nat, j \in S PROVE j + 1 \in S
      OBVIOUS
    <3>1. k + j \in Nat /\ k + (j + 1) = (k + j) + 1
      OBVIOUS
    <3>2. /\ Power(b, (k + j) + 1) = b * Power(b, k + j) /\ Power(b, k + j) \in Nat
          /\ Power(b, k) \in Nat /\ Power(b, (k + j) + 1) \in Nat
      BY <1>1, <3>1
    <3>3. Power(b, (k + j) + 1) >= 2 * Power(b, k + j)
      BY <1>3, <3>2
    <3> QED
      BY <3>1, <3>2, <3>3
  <2> HIDE DEF S
  <2>3. \A j \in Nat : j \in S
    BY <2>1, <2>2, Induct
  <2> QED
    BY <2>3 DEF S
<1> QED
  BY <1>1, <1>4, <1>5

\* The rules for powers.
LEMMA PowerAdds ==
    ASSUME NEW b \in Nat, b >= 2, NEW x \in Nat
    PROVE  \A y \in Nat : Power(b, x + y) = Power(b, x) * Power(b, y)
<1>1. \A k \in Nat : Power(b, k) \in Nat /\ Power(b, k + 1) = b * Power(b, k)
  BY PowerGrows
<1>2. Power(b, 0) = 1
  BY PowerUnfolds
<1> DEFINE S == {y \in Nat : Power(b, x + y) = Power(b, x) * Power(b, y)}
<1>3. 0 \in S
  <2>1. x + 0 = x /\ Power(b, x) \in Nat
    BY <1>1
  <2>2. Power(b, x) * 1 = Power(b, x)
    BY <2>1
  <2> QED
    BY <1>2, <2>1, <2>2
<1>4. \A y \in Nat : y \in S => y + 1 \in S
  <2> SUFFICES ASSUME NEW y \in Nat, y \in S PROVE y + 1 \in S
    OBVIOUS
  <2>1. x + (y + 1) = (x + y) + 1 /\ x + y \in Nat /\ y + 1 \in Nat
    OBVIOUS
  <2>2. /\ Power(b, (x + y) + 1) = b * Power(b, x + y) /\ Power(b, y + 1) = b * Power(b, y)
        /\ Power(b, x) \in Nat /\ Power(b, y) \in Nat
    BY <1>1, <2>1
  <2>3. \A p, q \in Nat : b * (p * q) = p * (b * q)
    OBVIOUS
  <2>4. b * (Power(b, x) * Power(b, y)) = Power(b, x) * (b * Power(b, y))
    BY <2>2, <2>3
  <2> QED
    BY <2>1, <2>2, <2>4
<1> HIDE DEF S
<1>5. \A y \in Nat : y \in S
  BY <1>3, <1>4, Induct
<1> QED
  BY <1>5 DEF S

\* g[i] is v without its lowest i digits, for i up to w.
Shifts(g, v, base, w) ==
    /\ g[0] = v
    /\ \A i \in 0..w : g[i] \in Int
    /\ \A i \in 1..w : g[i] = g[i - 1] \div base

\* The functions that Digits and Width define are such functions.
LEMMA ShiftsExist ==
    ASSUME NEW v \in Int, NEW base \in Nat, base >= 2, NEW w \in Nat,
           NEW g, g = CHOOSE f : f = [i \in 0..w |-> IF i = 0 THEN v ELSE f[i - 1] \div base]
    PROVE  Shifts(g, v, base, w)
<1> DEFINE F == [i \in 1..w |-> [x \in Int |-> x \div base]]
<1>1. F \in [1..w -> [Int -> Int]]
  OBVIOUS
<1>2. PICK f \in [0..w -> Int] : f[0] = v /\ \A i \in 1..w : f[i] = F[i][f[i - 1]]
  <2> DEFINE T == Int
             c == v
  <2>1. F \in [1..w -> [T -> T]] /\ c \in T
    BY <1>1
  <2> HIDE DEF F, T, c
  <2>2. \E f \in [0..w -> T] : f[0] = c /\ \A i \in 1..w : f[i] = F[i][f[i - 1]]
    BY <2>1, RecursionExists
  <2> QED
    BY <2>2 DEF T, c
<1>3. \A i \in 1..w : f[i] = f[i - 1] \div base
  <2>1. \A i \in 1..w : i - 1 \in 0..w /\ f[i - 1] \in Int
    OBVIOUS
  <2> QED
    BY <1>2, <2>1
<1>4. f = [i \in 0..w |-> IF i = 0 THEN v ELSE f[i - 1] \div base]
  <2>1. \A i \in 0..w : i # 0 => i \in 1..w
    OBVIOUS
  <2>2. \A i \in 0..w : f[i] = IF i = 0 THEN v ELSE f[i - 1] \div base
    BY <1>2, <1>3, <2>1
  <2> QED
    BY <2>2
<1>5. g = [i \in 0..w |-> IF i = 0 THEN v ELSE g[i - 1] \div base]
  BY <1>4
<1>6. g[0] = v /\ \A i \in 1..w : g[i] = g[i - 1] \div base
  <2>1. 0 \in 0..w /\ \A i \in 1..w : i \in 0..w /\ i # 0
    OBVIOUS
  <2> QED
    BY <1>5, <2>1
<1>7. \A i \in 0..w : g[i] \in Int
  <2> DEFINE S == {i \in Nat : g[i] \in Int}
  <2>1. 0 \in S
    BY <1>6
  <2>2. \A i \in 1..w : i - 1 \in S => i \in S
    <3>1. \A x \in Int : x \div base \in Int
      OBVIOUS
    <3> SUFFICES ASSUME NEW i \in 1..w, g[i - 1] \in Int PROVE i \in Nat /\ g[i] \in Int
      OBVIOUS
    <3>2. g[i] = g[i - 1] \div base
      BY <1>6
    <3>3. g[i - 1] \div base \in Int
      BY <3>1
    <3> QED
      BY <3>2, <3>3
  <2> HIDE DEF S
  <2>3. \A i \in 0..w : i \in S
    BY <2>1, <2>2, BoundedInduct
  <2> QED
    BY <2>3 DEF S
<1> QED
  BY <1>6, <1>7 DEF Shifts

\* Digits takes the lowest digit of each of them.
LEMMA DigitsShift ==
    ASSUME NEW v \in Int, NEW base \in Nat, base >= 2, NEW w \in Nat
    PROVE  /\ \E g : Shifts(g, v, base, w) /\ Digits(v, base, w) = [i \in 1..w |-> g[i - 1] % base]
           /\ Digits(v, base, w) \in Seq(0..(base - 1)) /\ Len(Digits(v, base, w)) = w
<1> DEFINE g == CHOOSE f : f = [i \in 0..w |-> IF i = 0 THEN v ELSE f[i - 1] \div base]
<1>1. Digits(v, base, w) = [i \in 1..w |-> g[i - 1] % base]
  BY DEF Digits
<1>2. Shifts(g, v, base, w)
  <2>1. \A h : h = g => Shifts(h, v, base, w)
    BY ShiftsExist
  <2> HIDE DEF g
  <2> QED
    BY <2>1
<1> HIDE DEF g
<1>3. \A i \in 1..w : g[i - 1] % base \in 0..(base - 1)
  <2>1. \A x \in Int : x % base \in 0..(base - 1)
    OBVIOUS
  <2>2. \A i \in 1..w : g[i - 1] \in Int
    BY <1>2 DEF Shifts
  <2> QED
    BY <2>1, <2>2
<1> DEFINE D == 0..(base - 1)
<1>4. Digits(v, base, w) \in [1..w -> D]
  BY <1>1, <1>3
<1> HIDE DEF D
<1>5. Digits(v, base, w) \in Seq(D) /\ Len(Digits(v, base, w)) = w
  BY <1>4
<1> QED
  BY <1>1, <1>2, <1>5 DEF D

\* Two such functions agree as far as both go.
LEMMA ShiftsAgree ==
    ASSUME NEW v \in Int, NEW base \in Nat, base >= 2, NEW w \in Nat, NEW u \in Nat, w <= u,
           NEW g, Shifts(g, v, base, w), NEW h, Shifts(h, v, base, u)
    PROVE  \A i \in 0..w : g[i] = h[i]
<1> DEFINE S == {i \in Nat : g[i] = h[i]}
<1>1. 0 \in S
  BY DEF Shifts
<1>2. \A i \in 1..w : i - 1 \in S => i \in S
  BY DEF Shifts
<1> HIDE DEF S
<1>3. \A i \in 0..w : i \in S
  BY <1>1, <1>2, BoundedInduct
<1> QED
  BY <1>3 DEF S

\* A number without its lowest digit.
LEMMA DivFacts ==
    ASSUME NEW base \in Nat, base >= 2, NEW x \in Nat
    PROVE  /\ x \div base \in Nat /\ x = base * (x \div base) + (x % base) /\ x % base \in 0..(base - 1)
           /\ x # 0 => x \div base < x
           /\ x = 0 => x \div base = 0
           /\ x \div base = 0 => x % base = x
<1>1. x \div base \in Nat /\ x = base * (x \div base) + (x % base) /\ x % base \in 0..(base - 1)
  OBVIOUS
<1>2. ASSUME NEW q \in Nat, NEW r \in Nat, x = base * q + r
      PROVE  (x # 0 => q < x) /\ (x = 0 => q = 0) /\ (q = 0 => r = x)
  <2>1. base * q >= 2 * q
    OBVIOUS
  <2>2. CASE q = 0
    BY <1>2, <2>2
  <2>3. CASE q # 0
    BY <1>2, <2>1, <2>3
  <2> QED
    BY <2>2, <2>3
<1> QED
  BY <1>1, <1>2

\* Nothing is left of a number without its lowest Width digits, and something
\* before.
LEMMA WidthFacts ==
    ASSUME NEW n \in Nat, NEW base \in Nat, base >= 2
    PROVE  /\ Width(n, base) \in 0..n
           /\ \E g : /\ Shifts(g, n, base, n)
                     /\ \A i \in 0..n : g[i] \in Nat
                     /\ g[Width(n, base)] = 0
                     /\ \A i \in 0..(Width(n, base) - 1) : g[i] # 0
<1> DEFINE g == CHOOSE f : f = [i \in 0..n |-> IF i = 0 THEN n ELSE f[i - 1] \div base]
           P(k) == g[k] = 0 /\ \A i \in 0..(k - 1) : g[i] # 0
<1>1. Shifts(g, n, base, n)
  <2>1. \A h : h = g => Shifts(h, n, base, n)
    BY ShiftsExist
  <2> HIDE DEF g
  <2> QED
    BY <2>1
<1>2. Width(n, base) = CHOOSE k \in 0..n : P(k)
  BY DEF Width
<1> HIDE DEF g
<1>3. \A i \in 0..n : g[i] \in Nat /\ (g[i] = 0 \/ g[i] + i <= n)
  <2> DEFINE S == {i \in Nat : g[i] \in Nat /\ (g[i] = 0 \/ g[i] + i <= n)}
  <2>1. 0 \in S
    BY <1>1 DEF Shifts
  <2>2. \A i \in 1..n : i - 1 \in S => i \in S
    <3> SUFFICES ASSUME NEW i \in 1..n, i - 1 \in S PROVE i \in S
      OBVIOUS
    <3>1. g[i] = g[i - 1] \div base /\ g[i - 1] \in Nat /\ (g[i - 1] = 0 \/ g[i - 1] + (i - 1) <= n)
      BY <1>1 DEF Shifts
    <3>2. /\ g[i - 1] \div base \in Nat
          /\ g[i - 1] # 0 => g[i - 1] \div base < g[i - 1]
          /\ g[i - 1] = 0 => g[i - 1] \div base = 0
      BY <3>1, DivFacts
    <3> QED
      BY <3>1, <3>2
  <2> HIDE DEF S
  <2>3. \A i \in 0..n : i \in S
    BY <2>1, <2>2, BoundedInduct
  <2> QED
    BY <2>3 DEF S
<1>4. g[n] = 0
  <2>1. n \in 0..n
    OBVIOUS
  <2> QED
    BY <1>3, <2>1
<1>5. \E k \in 0..n : P(k)
  <2> DEFINE Z == {k \in Nat : k <= n /\ g[k] = 0}
  <2>1. Z \subseteq Nat /\ Z # {}
    BY <1>4
  <2>2. PICK k \in Z : \A m \in Z : k <= m
    <3> HIDE DEF Z
    <3> QED
      BY <2>1, LeastNumber
  <2>3. k \in 0..n /\ g[k] = 0 /\ \A i \in 0..(k - 1) : g[i] # 0
    BY <2>2
  <2> QED
    BY <2>3
<1> HIDE DEF P
<1>6. Width(n, base) \in 0..n /\ P(Width(n, base))
  BY <1>2, <1>5
<1> QED
  BY <1>1, <1>3, <1>6 DEF P

\* A number is below base^i exactly when nothing is left without i digits.
LEMMA ShiftBound ==
    ASSUME NEW n \in Nat, NEW base \in Nat, base >= 2, NEW w \in Nat, NEW g, Shifts(g, n, base, w)
    PROVE  \A i \in 0..w : /\ g[i] \in Nat
                           /\ g[i] * Power(base, i) <= n /\ n < (g[i] + 1) * Power(base, i)
<1>1. \A k \in Nat : Power(base, k) \in Nat /\ Power(base, k + 1) = base * Power(base, k)
  BY PowerGrows
<1>2. Power(base, 0) = 1
  BY PowerUnfolds
<1> DEFINE S == {i \in Nat : /\ g[i] \in Nat
                             /\ g[i] * Power(base, i) <= n /\ n < (g[i] + 1) * Power(base, i)}
<1>3. 0 \in S
  BY <1>2 DEF Shifts
<1>4. \A i \in 1..w : i - 1 \in S => i \in S
  <2> SUFFICES ASSUME NEW i \in 1..w, i - 1 \in S PROVE i \in S
    OBVIOUS
  <2>1. /\ g[i] = g[i - 1] \div base /\ g[i - 1] \in Nat
        /\ g[i - 1] * Power(base, i - 1) <= n /\ n < (g[i - 1] + 1) * Power(base, i - 1)
    BY DEF Shifts
  <2>2. i - 1 \in Nat /\ (i - 1) + 1 = i
    OBVIOUS
  <2>3. Power(base, i - 1) \in Nat /\ Power(base, i) = base * Power(base, i - 1)
    BY <1>1, <2>2
  <2>4. g[i] \in Nat /\ base * g[i] <= g[i - 1] /\ g[i - 1] + 1 <= base * (g[i] + 1)
    <3>1. /\ g[i - 1] \div base \in Nat /\ g[i - 1] = base * (g[i - 1] \div base) + (g[i - 1] % base)
          /\ g[i - 1] % base \in 0..(base - 1)
      BY <2>1, DivFacts
    <3>2. ASSUME NEW x \in Nat, NEW q \in Nat, NEW r \in 0..(base - 1), x = base * q + r
          PROVE  base * q <= x /\ x + 1 <= base * (q + 1)
      <4>1. base * (q + 1) = base * q + base
        OBVIOUS
      <4> QED
        BY <3>2, <4>1
    <3> QED
      BY <2>1, <3>1, <3>2
  <2>5. ASSUME NEW x \in Nat, NEW q \in Nat, NEW p \in Nat,
               base * q <= x, x + 1 <= base * (q + 1), x * p <= n, n < (x + 1) * p
        PROVE  q * (base * p) <= n /\ n < (q + 1) * (base * p)
    <3>1. (base * q) * p <= x * p
      BY <2>5
    <3>2. (x + 1) * p <= (base * (q + 1)) * p
      BY <2>5
    <3>3. (base * q) * p = q * (base * p) /\ (base * (q + 1)) * p = (q + 1) * (base * p)
      BY <2>5
    <3> QED
      BY <2>5, <3>1, <3>2, <3>3
  <2>6. g[i] * (base * Power(base, i - 1)) <= n /\ n < (g[i] + 1) * (base * Power(base, i - 1))
    BY <2>1, <2>3, <2>4, <2>5
  <2> QED
    BY <2>3, <2>4, <2>6
<1> HIDE DEF S
<1>5. \A i \in 0..w : i \in S
  BY <1>3, <1>4, BoundedInduct
<1> QED
  BY <1>5 DEF S

\* There are functions on 0..n that begin with 0.
LEMMA SumsExist ==
    \A n \in Nat : \A F \in [1..n -> [Int -> Int]] :
        \E f \in [0..n -> Int] : f[0] = 0 /\ \A i \in 1..n : f[i] = F[i][f[i - 1]]
<1> DEFINE T == Int
           c == 0
<1>1. c \in T
  OBVIOUS
<1> HIDE DEF T, c
<1>2. ASSUME NEW n \in Nat, NEW F \in [1..n -> [T -> T]]
      PROVE  \E f \in [0..n -> T] : f[0] = c /\ \A i \in 1..n : f[i] = F[i][f[i - 1]]
  BY <1>1, RecursionExists
<1> QED
  BY <1>2 DEF T, c

\* u[i] is the number that the first i digits of s stand for.
PartialSums(u, s, base) ==
    /\ u[0] = 0
    /\ \A i \in 0..Len(s) : u[i] \in Int
    /\ \A i \in 1..Len(s) : u[i] = u[i - 1] * base + s[i]

\* Value computes such a list.
LEMMA ValuePrefixes ==
    ASSUME NEW base \in Nat, NEW s \in Seq(Int)
    PROVE  \E u : PartialSums(u, s, base) /\ Value(s, base) = u[Len(s)]
<1> DEFINE n == Len(s)
           F == [i \in 1..n |-> [x \in Int |-> x * base + s[i]]]
           u == CHOOSE f : f = [i \in 0..Len(s) |-> IF i = 0 THEN 0 ELSE f[i - 1] * base + s[i]]
<1>1. n \in Nat /\ \A i \in 1..n : s[i] \in Int
  OBVIOUS
<1>2. F \in [1..n -> [Int -> Int]]
  BY <1>1
<1>3. Value(s, base) = u[Len(s)]
  BY DEF Value
<1>4. PICK f \in [0..n -> Int] : f[0] = 0 /\ \A i \in 1..n : f[i] = F[i][f[i - 1]]
  <2>1. n \in Nat
    BY <1>1
  <2> HIDE DEF F, n
  <2> QED
    BY <1>2, <2>1, SumsExist
<1>5. \A i \in 1..n : f[i] = f[i - 1] * base + s[i]
  <2>1. \A i \in 1..n : i - 1 \in 0..n /\ f[i - 1] \in Int
    BY <1>1
  <2> QED
    BY <1>4, <2>1
<1>6. f = [i \in 0..n |-> IF i = 0 THEN 0 ELSE f[i - 1] * base + s[i]]
  <2>1. \A i \in 0..n : i # 0 => i \in 1..n
    BY <1>1
  <2>2. \A i \in 0..n : f[i] = IF i = 0 THEN 0 ELSE f[i - 1] * base + s[i]
    BY <1>4, <1>5, <2>1
  <2> QED
    BY <2>2
<1>7. u = [i \in 0..n |-> IF i = 0 THEN 0 ELSE u[i - 1] * base + s[i]]
  BY <1>6
<1> HIDE DEF u
<1>8. u[0] = 0 /\ \A i \in 1..n : u[i] = u[i - 1] * base + s[i]
  <2>1. 0 \in 0..n /\ \A i \in 1..n : i \in 0..n /\ i # 0
    BY <1>1
  <2> QED
    BY <1>7, <2>1
<1>9. \A i \in 0..n : u[i] \in Int
  <2> DEFINE S == {i \in Nat : u[i] \in Int}
  <2>1. 0 \in S
    BY <1>8
  <2>2. \A i \in 1..n : i - 1 \in S => i \in S
    BY <1>1, <1>8
  <2> HIDE DEF S, n
  <2>3. \A i \in 0..n : i \in S
    BY <1>1, <2>1, <2>2, BoundedInduct
  <2> QED
    BY <2>3 DEF S
<1> QED
  BY <1>3, <1>8, <1>9 DEF PartialSums

\* The number that digits stand for is below the power of their number.
LEMMA ValueBound ==
    ASSUME NEW base \in Nat, base >= 2, NEW s \in Seq(0..(base - 1))
    PROVE  Value(s, base) \in 0..(Power(base, Len(s)) - 1)
<1>1. s \in Seq(Int) /\ Len(s) \in Nat /\ \A i \in 1..Len(s) : s[i] \in Nat /\ s[i] <= base - 1
  OBVIOUS
<1>2. PICK u : PartialSums(u, s, base) /\ Value(s, base) = u[Len(s)]
  BY <1>1, ValuePrefixes
<1>3. \A k \in Nat : Power(base, k) \in Nat /\ Power(base, k + 1) = base * Power(base, k)
  BY PowerGrows
<1>4. Power(base, 0) = 1
  BY PowerUnfolds
<1> DEFINE n == Len(s)
           S == {i \in Nat : u[i] \in Nat /\ u[i] + 1 <= Power(base, i)}
<1>5. 0 \in S
  BY <1>2, <1>4 DEF PartialSums
<1>6. \A i \in 1..n : i - 1 \in S => i \in S
  <2> SUFFICES ASSUME NEW i \in 1..n, i - 1 \in S PROVE i \in S
    OBVIOUS
  <2>1. u[i] = u[i - 1] * base + s[i] /\ u[i - 1] \in Nat /\ u[i - 1] + 1 <= Power(base, i - 1)
    BY <1>2 DEF PartialSums
  <2>2. i - 1 \in Nat /\ (i - 1) + 1 = i /\ i \in Nat /\ i \in 1..Len(s)
    BY <1>1
  <2>3. Power(base, i - 1) \in Nat /\ Power(base, i) = base * Power(base, i - 1)
    BY <1>3, <2>2
  <2>4. ASSUME NEW x \in Nat, NEW q \in Nat, x + 1 <= q, NEW d \in Nat, d <= base - 1
        PROVE  x * base + d \in Nat /\ x * base + d + 1 <= base * q
    <3>1. (x + 1) * base <= q * base
      BY <2>4
    <3>2. (x + 1) * base = x * base + base /\ q * base = base * q /\ x * base \in Nat /\ base * q \in Nat
      OBVIOUS
    <3>3. ASSUME NEW a \in Nat, NEW b \in Nat, a + base <= b
          PROVE  a + d \in Nat /\ a + d + 1 <= b
      BY <2>4, <3>3
    <3>4. x * base + base <= base * q
      BY <3>1, <3>2
    <3> HIDE <2>4
    <3> QED
      BY <3>2, <3>3, <3>4
  <2>5. s[i] \in Nat /\ s[i] <= base - 1
    BY <1>1, <2>2
  <2>6. u[i - 1] * base + s[i] \in Nat /\ u[i - 1] * base + s[i] + 1 <= base * Power(base, i - 1)
    BY <2>1, <2>3, <2>4, <2>5
  <2>7. u[i] \in Nat /\ u[i] + 1 <= Power(base, i)
    BY <2>1, <2>3, <2>6
  <2> QED
    BY <2>2, <2>7
<1>7. \A i \in 0..n : i \in S
  <2> HIDE DEF S, n
  <2> QED
    BY <1>1, <1>5, <1>6, BoundedInduct DEF n
<1>8. n \in 0..n /\ Power(base, n) \in Nat
  BY <1>1, <1>3
<1>9. u[n] \in Nat /\ u[n] + 1 <= Power(base, n)
  BY <1>7, <1>8
<1>10. u[n] \in 0..(Power(base, n) - 1)
  BY <1>8, <1>9
<1> QED
  BY <1>2, <1>10

\* Reversing turns the elements round.
LEMMA ReversedFacts ==
    ASSUME NEW T, NEW s \in Seq(T)
    PROVE  /\ Reversed(s) \in Seq(T) /\ Len(Reversed(s)) = Len(s)
           /\ \A i \in 1..Len(s) : Reversed(s)[i] = s[Len(s) + 1 - i]
<1>1. Len(s) \in Nat /\ \A i \in 1..Len(s) : s[i] \in T
  OBVIOUS
<1>2. \A i \in 1..Len(s) : Len(s) + 1 - i \in 1..Len(s)
  BY <1>1
<1>3. Reversed(s) \in [1..Len(s) -> T]
  BY <1>1, <1>2 DEF Reversed
<1>4. Reversed(s) \in Seq(T) /\ Len(Reversed(s)) = Len(s)
  BY <1>1, <1>3
<1> QED
  BY <1>4 DEF Reversed

\* The reverse of the reverse.
LEMMA ReversedTwice ==
    ASSUME NEW T, NEW s \in Seq(T)
    PROVE  Reversed(Reversed(s)) = s
<1>1. PICK r : r = Reversed(s)
  OBVIOUS
<1>2. r \in Seq(T) /\ Len(r) = Len(s) /\ \A i \in 1..Len(s) : r[i] = s[Len(s) + 1 - i]
  BY <1>1, ReversedFacts
<1>3. /\ Reversed(r) \in Seq(T) /\ Len(Reversed(r)) = Len(r)
      /\ \A i \in 1..Len(r) : Reversed(r)[i] = r[Len(r) + 1 - i]
  BY <1>2, ReversedFacts
<1>4. ASSUME NEW i \in 1..Len(s) PROVE Reversed(r)[i] = s[i]
  <2>1. Len(s) + 1 - i \in 1..Len(s) /\ Len(s) + 1 - (Len(s) + 1 - i) = i
    OBVIOUS
  <2> QED
    BY <1>2, <1>3, <2>1
<1>5. Reversed(r) = s
  BY <1>2, <1>3, <1>4
<1> QED
  BY <1>1, <1>5

\* The same of any integer.
LEMMA IntDivFacts ==
    ASSUME NEW base \in Nat, base >= 2, NEW x \in Int
    PROVE  x \div base \in Int /\ x = base * (x \div base) + (x % base) /\ x % base \in 0..(base - 1)
OBVIOUS

\* Zero is the only multiple of p that is nearer to zero than p.
LEMMA NoMultiple ==
    ASSUME NEW p \in Nat, NEW q \in Int, -p < q * p, q * p < p
    PROVE  q = 0
<1>1. CASE q >= 1
  <2>1. q - 1 \in Nat /\ q * p = (q - 1) * p + p
    BY <1>1
  <2>2. (q - 1) * p \in Nat
    BY <2>1
  <2> QED
    BY <2>1, <2>2
<1>2. CASE q <= -1
  <2>1. -q - 1 \in Nat /\ q * p = -((-q - 1) * p) - p
    BY <1>2
  <2>2. (-q - 1) * p \in Nat
    BY <2>1
  <2> QED
    BY <2>1, <2>2
<1> QED
  BY <1>1, <1>2

\* Digits are those of the number, up to a multiple of the first power that
\* has one more.
LEMMA DigitsValue ==
    ASSUME NEW base \in Nat, base >= 2, NEW w \in Nat, NEW v \in Int
    PROVE  /\ Reversed(Digits(v, base, w)) \in Seq(0..(base - 1)) /\ Len(Reversed(Digits(v, base, w))) = w
           /\ Power(base, w) \in Nat /\ Power(base, w) > 0
           /\ Value(Reversed(Digits(v, base, w)), base) \in 0..(Power(base, w) - 1)
           /\ \E q \in Int : v = q * Power(base, w) + Value(Reversed(Digits(v, base, w)), base)
<1> DEFINE d == Digits(v, base, w)
           s == Reversed(d)
<1>1. d \in Seq(0..(base - 1)) /\ Len(d) = w
  BY DigitsShift
<1>2. PICK g : Shifts(g, v, base, w) /\ d = [i \in 1..w |-> g[i - 1] % base]
  BY DigitsShift
<1> HIDE DEF d
<1>3. s \in Seq(0..(base - 1)) /\ Len(s) = w /\ \A i \in 1..w : s[i] = d[w + 1 - i]
  <2> DEFINE D == 0..(base - 1)
  <2> HIDE DEF D
  <2>1. d \in Seq(D)
    BY <1>1 DEF D
  <2>2. s \in Seq(D) /\ Len(s) = Len(d) /\ \A i \in 1..Len(d) : s[i] = d[Len(d) + 1 - i]
    BY <2>1, ReversedFacts
  <2> QED
    BY <1>1, <2>2 DEF D
<1>4. s \in Seq(Int)
  BY <1>3
<1> HIDE DEF s
<1>5. PICK u : PartialSums(u, s, base) /\ Value(s, base) = u[Len(s)]
  BY <1>4, ValuePrefixes
<1>6. /\ \A k \in Nat : Power(base, k) \in Nat /\ Power(base, k + 1) = base * Power(base, k)
      /\ Power(base, w) > w /\ Power(base, 0) = 1
  <2>1. 0 \in Nat
    OBVIOUS
  <2> QED
    BY <2>1, PowerGrows, PowerUnfolds
<1>7. \A i \in 0..w : g[i] \in Int
  BY <1>2 DEF Shifts
<1> DEFINE S == {i \in Nat : u[i] \in Int /\ g[w - i] = g[w] * Power(base, i) + u[i]}
<1>8. 0 \in S
  <2>1. w - 0 = w /\ w \in 0..w /\ g[w] \in Int /\ u[0] = 0
    BY <1>5, <1>7 DEF PartialSums
  <2>2. g[w] = g[w] * 1 + 0
    BY <2>1
  <2> QED
    BY <1>6, <2>1, <2>2
<1>9. \A i \in 1..w : i - 1 \in S => i \in S
  <2> SUFFICES ASSUME NEW i \in 1..w, i - 1 \in S PROVE i \in S
    OBVIOUS
  <2>1. /\ w - (i - 1) = w + 1 - i /\ w + 1 - i \in 1..w /\ (w + 1 - i) - 1 = w - i
        /\ w - i \in 0..w /\ i - 1 \in Nat /\ (i - 1) + 1 = i /\ w \in 0..w /\ i \in Nat
    OBVIOUS
  <2>2. u[i] = u[i - 1] * base + s[i] /\ u[i - 1] \in Int /\ g[w + 1 - i] = g[w] * Power(base, i - 1) + u[i - 1]
    BY <1>3, <1>5, <2>1 DEF PartialSums
  <2>3. s[i] = g[w - i] % base
    BY <1>2, <1>3, <2>1
  <2>4. g[w + 1 - i] = g[w - i] \div base
    BY <1>2, <2>1 DEF Shifts
  <2>5. g[w - i] \in Int /\ g[w] \in Int
    BY <1>7, <2>1
  <2>6. /\ g[w - i] \div base \in Int /\ g[w - i] = base * (g[w - i] \div base) + (g[w - i] % base)
        /\ g[w - i] % base \in 0..(base - 1)
    BY <2>5, IntDivFacts
  <2>7. Power(base, i) = base * Power(base, i - 1) /\ Power(base, i - 1) \in Nat
    BY <1>6, <2>1
  <2>8. ASSUME NEW x \in Int, NEW p \in Int, NEW t \in Int, NEW r \in Int
        PROVE  base * (x * p + t) + r = x * (base * p) + (t * base + r)
    OBVIOUS
  <2>9. s[i] \in Int /\ u[i] \in Int
    BY <2>2, <2>3, <2>6
  <2>10. g[w - i] = base * (g[w] * Power(base, i - 1) + u[i - 1]) + s[i]
    BY <2>2, <2>3, <2>4, <2>6
  <2>11. g[w - i] = g[w] * Power(base, i) + u[i]
    BY <2>2, <2>5, <2>7, <2>8, <2>9, <2>10
  <2> QED
    BY <2>1, <2>9, <2>11
<1> HIDE DEF S
<1>10. \A i \in 0..w : i \in S
  BY <1>8, <1>9, BoundedInduct
<1>11. v = g[w] * Power(base, w) + Value(s, base) /\ g[w] \in Int
  <2>1. w \in 0..w /\ w - w = 0
    OBVIOUS
  <2>2. g[0] = g[w] * Power(base, w) + u[w]
    BY <1>10, <2>1 DEF S
  <2> QED
    BY <1>2, <1>3, <1>5, <1>7, <2>1, <2>2 DEF Shifts
<1>12. Value(s, base) \in 0..(Power(base, w) - 1)
  <2>1. Value(s, base) \in 0..(Power(base, Len(s)) - 1)
    BY <1>3, ValueBound
  <2> QED
    BY <1>3, <2>1
<1>13. Power(base, w) \in Nat /\ Power(base, w) > 0
  BY <1>6
<1>14. \E q \in Int : v = q * Power(base, w) + Value(s, base)
  BY <1>11
<1>15. s \in Seq(0..(base - 1)) /\ Len(s) = w
  BY <1>3
<1> QED
  BY <1>12, <1>13, <1>14, <1>15, Zenon DEF s, d

\* A number that fits is what its digits stand for.
LEMMA DigitsRoundTrip ==
    ASSUME NEW base \in Nat, base >= 2, NEW w \in Nat, NEW n \in Nat, n < Power(base, w)
    PROVE  Value(Reversed(Digits(n, base, w)), base) = n
<1> DEFINE x == Value(Reversed(Digits(n, base, w)), base)
           p == Power(base, w)
<1>1. p \in Nat /\ x \in 0..(p - 1)
  BY DigitsValue
<1>2. PICK q \in Int : n = q * p + x
  BY DigitsValue
<1> HIDE DEF x, p
<1>3. n < p
  BY DEF p
<1>4. q * p \in Int
  BY <1>1, <1>2
<1>5. -p < q * p /\ q * p < p
  BY <1>1, <1>2, <1>3, <1>4
<1>6. q = 0
  BY <1>1, <1>5, NoMultiple
<1>7. q * p = 0
  BY <1>1, <1>6
<1> QED
  BY <1>1, <1>2, <1>4, <1>7 DEF x

\* A complement is the number without its sign, less the next power if the
\* first digit has the sign, and is in the range of its width.
LEMMA SignedValueFacts ==
    ASSUME NEW base \in Nat, NEW half \in Nat, half >= 1, base = 2 * half,
           NEW s \in Seq(0..(base - 1)), Len(s) >= 1
    PROVE  /\ SignedValue(s, base) \in Int
           /\ SignedValue(s, base) = Value(s, base) - IF s[1] >= half THEN Power(base, Len(s)) ELSE 0
           /\ -(Power(base, Len(s)) \div 2) <= SignedValue(s, base)
           /\ SignedValue(s, base) < Power(base, Len(s)) \div 2
<1> DEFINE n == Len(s)
           e == IF s[1] >= half THEN 1 ELSE 0
           first == IF 2 * s[1] >= base THEN s[1] - base ELSE s[1]
           Rec(f) == f = [i \in 1..n |-> IF i = 1 THEN first ELSE f[i - 1] * base + s[i]]
           h == CHOOSE f : Rec(f)
<1>1. base >= 2 /\ n \in Nat /\ n >= 1 /\ s \in Seq(Int) /\ s # <<>> /\ e \in {0, 1}
      /\ \A i \in 1..n : s[i] \in Int /\ 0 <= s[i] /\ s[i] < base
  OBVIOUS
<1>2. SignedValue(s, base) = h[n]
  BY <1>1 DEF SignedValue
<1>3. PICK u : PartialSums(u, s, base) /\ Value(s, base) = u[n]
  BY <1>1, ValuePrefixes
<1>4. /\ \A k \in Nat : Power(base, k) \in Nat /\ Power(base, k + 1) = base * Power(base, k)
      /\ Power(base, 0) = 1
  <2>1. 0 \in Nat
    OBVIOUS
  <2> QED
    BY <1>1, <2>1, PowerGrows, PowerUnfolds
<1>5. 1 \in 1..n /\ s[1] \in Int /\ 0 <= s[1] /\ s[1] < base /\ Power(base, 1) = base
  <2>1. 1 \in 1..n /\ 0 + 1 = 1 /\ 0 \in Nat
    BY <1>1
  <2>2. Power(base, 0 + 1) = base * Power(base, 0)
    BY <1>4, <2>1
  <2> QED
    BY <1>1, <1>4, <2>1, <2>2
<1>6. first = s[1] - e * base /\ -half <= first /\ first < half /\ first \in Int
  BY <1>1, <1>5
<1> HIDE DEF n, e, first
<1> DEFINE f == [i \in 1..n |-> u[i] - e * Power(base, i)]
<1>7. \A i \in 1..n : f[i] = IF i = 1 THEN first ELSE f[i - 1] * base + s[i]
  <2> SUFFICES ASSUME NEW i \in 1..n PROVE f[i] = IF i = 1 THEN first ELSE f[i - 1] * base + s[i]
    OBVIOUS
  <2>1. u[i] = u[i - 1] * base + s[i] /\ u[i - 1] \in Int /\ u[0] = 0
    BY <1>1, <1>3 DEF PartialSums, n
  <2>2. f[i] = u[i] - e * Power(base, i)
    OBVIOUS
  <2> HIDE DEF f
  <2>3. CASE i = 1
    <3>1. u[1] = 0 * base + s[1]
      BY <2>1, <2>3
    <3> QED
      BY <1>5, <1>6, <2>2, <2>3, <3>1
  <2>4. CASE i # 1
    <3>1. i - 1 \in 1..n /\ i - 1 \in Nat /\ (i - 1) + 1 = i /\ s[i] \in Int
      BY <1>1, <2>4
    <3>2. f[i - 1] = u[i - 1] - e * Power(base, i - 1)
      BY <3>1 DEF f
    <3>3. Power(base, i) = base * Power(base, i - 1) /\ Power(base, i - 1) \in Nat
      BY <1>4, <3>1
    <3>4. ASSUME NEW x \in Int, NEW p \in Int, NEW r \in Int
          PROVE  (x * base + r) - e * (base * p) = (x - e * p) * base + r
      BY <1>1
    <3>5. (u[i - 1] * base + s[i]) - e * (base * Power(base, i - 1))
            = (u[i - 1] - e * Power(base, i - 1)) * base + s[i]
      <4>1. \A x, p, r \in Int : (x * base + r) - e * (base * p) = (x - e * p) * base + r
        BY <3>4
      <4>2. u[i - 1] \in Int /\ Power(base, i - 1) \in Int /\ s[i] \in Int
        BY <2>1, <3>1, <3>3
      <4> QED
        BY ONLY <4>1, <4>2, Zenon
    <3>6. f[i] = f[i - 1] * base + s[i]
      BY <2>1, <2>2, <3>2, <3>3, <3>5
    <3> QED
      BY <2>4, <3>6
  <2> QED
    BY <2>3, <2>4
<1>8. Rec(h)
  <2>1. Rec(f)
    <3> DEFINE r == [i \in 1..n |-> IF i = 1 THEN first ELSE f[i - 1] * base + s[i]]
    <3>1. \A i \in 1..n : f[i] = r[i]
      BY <1>7
    <3>2. DOMAIN f = 1..n /\ DOMAIN r = 1..n
      OBVIOUS
    <3>3. f = [i \in 1..n |-> f[i]] /\ r = [i \in 1..n |-> r[i]]
      OBVIOUS
    <3> HIDE DEF r, f
    <3>4. f = r
      BY <3>1, <3>3
    <3> QED
      BY <3>4 DEF r
  <2> HIDE DEF f, Rec
  <2> QED
    BY <2>1
<1> HIDE DEF h, f
<1>9. \A i \in 1..n : h[i] = IF i = 1 THEN first ELSE h[i - 1] * base + s[i]
  BY <1>8
<1> HIDE DEF Rec
<1> DEFINE S == {i \in Nat : i < n => /\ h[i + 1] = u[i + 1] - e * Power(base, i + 1)
                                      /\ h[i + 1] \in Int
                                      /\ -(half * Power(base, i)) <= h[i + 1]
                                      /\ h[i + 1] < half * Power(base, i)}
<1>10. \A i \in 0..n : u[i] \in Int
  BY <1>3 DEF PartialSums, n
<1>11. 0 \in S
  <2>1. 0 + 1 = 1 /\ u[1] = 0 * base + s[1] /\ h[1] = first
    <3>1. u[1] = u[1 - 1] * base + s[1] /\ u[0] = 0
      BY <1>3, <1>5 DEF PartialSums, n
    <3> QED
      BY <1>5, <1>9, <3>1
  <2>2. half * Power(base, 0) = half
    BY <1>4
  <2>3. 0 * base = 0 /\ s[1] \in Int
    BY <1>5
  <2>4. u[0 + 1] - e * Power(base, 0 + 1) = s[1] - e * base
    BY <1>5, <2>1, <2>3
  <2>5. /\ h[0 + 1] = u[0 + 1] - e * Power(base, 0 + 1) /\ h[0 + 1] \in Int
        /\ -(half * Power(base, 0)) <= h[0 + 1] /\ h[0 + 1] < half * Power(base, 0)
    BY <1>6, <2>1, <2>2, <2>4
  <2> QED
    BY <2>5
<1>12. \A i \in Nat : i \in S => i + 1 \in S
  <2> SUFFICES ASSUME NEW i \in Nat, i \in S, i + 1 < n PROVE i + 1 \in S
    BY DEF S
  <2>1. /\ i < n /\ (i + 1) + 1 \in 1..n /\ (i + 1) + 1 # 1 /\ ((i + 1) + 1) - 1 = i + 1
        /\ i + 1 \in 0..n /\ i + 1 \in Nat
    BY <1>1
  <2> DEFINE x == h[i + 1]
             y == u[i + 1]
             r == s[(i + 1) + 1]
             p == Power(base, i)
             q == Power(base, i + 1)
  <2>2. x = y - e * q /\ x \in Int /\ -(half * p) <= x /\ x < half * p
    BY <2>1
  <2>3. h[(i + 1) + 1] = x * base + r /\ u[(i + 1) + 1] = y * base + r
    BY <1>3, <1>9, <2>1 DEF PartialSums, n
  <2>4. Power(base, (i + 1) + 1) = base * q /\ q = base * p /\ p \in Nat /\ q \in Nat
    BY <1>4, <2>1
  <2>5. y \in Int /\ r \in Int /\ 0 <= r /\ r < base
    BY <1>1, <1>10, <2>1
  <2> HIDE DEF x, y, r, p, q
  <2>6. x * base + r = (y * base + r) - e * (base * q)
    <3>1. (y - e * q) * base + r = (y * base + r) - e * (base * q)
      BY <1>1, <2>4, <2>5
    <3> QED
      BY <2>2, <3>1
  <2>7. x * base + r \in Int
    BY <2>2, <2>5
  <2>8. -(half * q) <= x * base + r /\ x * base + r < half * q
    <3> DEFINE m == half * p
    <3>1. m \in Int /\ half * q = m * base
      <4>1. half * (base * p) = (half * p) * base
        BY <2>4
      <4> QED
        BY <2>4, <4>1
    <3>2. -m <= x /\ x <= m - 1
      BY <2>2, <2>4
    <3> HIDE DEF m
    <3>3. ASSUME NEW k \in Int, k >= 0 PROVE k * base >= 0 /\ k * base \in Int
      BY <3>3
    <3>4. x + m \in Int /\ x + m >= 0 /\ (m - 1) - x \in Int /\ (m - 1) - x >= 0
      BY <2>2, <3>1, <3>2
    <3>5. (x + m) * base >= 0 /\ ((m - 1) - x) * base >= 0
      BY <3>3, <3>4
    <3>8. ASSUME NEW a \in Int, NEW b \in Int
          PROVE  (a + b) * base = a * base + b * base /\ ((b - 1) - a) * base = b * base - base - a * base
      OBVIOUS
    <3>6. (x + m) * base = x * base + m * base /\ ((m - 1) - x) * base = m * base - base - x * base
      BY <2>2, <3>1, <3>8
    <3>7. x * base \in Int /\ m * base \in Int
      BY <2>2, <3>1
    <3> QED
      BY <2>5, <3>1, <3>5, <3>6, <3>7
  <2>9. i + 1 < n => /\ h[(i + 1) + 1] = u[(i + 1) + 1] - e * Power(base, (i + 1) + 1)
                     /\ h[(i + 1) + 1] \in Int
                     /\ -(half * Power(base, i + 1)) <= h[(i + 1) + 1]
                     /\ h[(i + 1) + 1] < half * Power(base, i + 1)
    BY <2>3, <2>4, <2>6, <2>7, <2>8 DEF q
  <2> QED
    BY <2>1, <2>9 DEF S
<1> HIDE DEF S
<1>13. n - 1 \in Nat /\ n - 1 < n /\ (n - 1) + 1 = n
  BY <1>1
<1>14. n - 1 \in S
  BY <1>11, <1>12, <1>13, Induct
<1>15. /\ h[n] = u[n] - e * Power(base, n) /\ h[n] \in Int
       /\ -(half * Power(base, n - 1)) <= h[n] /\ h[n] < half * Power(base, n - 1)
  BY <1>13, <1>14 DEF S
<1>16. Power(base, n) \div 2 = half * Power(base, n - 1)
  <2>1. Power(base, n) = base * Power(base, n - 1) /\ Power(base, n - 1) \in Nat
    BY <1>4, <1>13
  <2>2. base * Power(base, n - 1) = 2 * (half * Power(base, n - 1)) /\ half * Power(base, n - 1) \in Nat
    BY <2>1
  <2>3. ASSUME NEW x \in Nat PROVE (2 * x) \div 2 = x
    OBVIOUS
  <2> QED
    BY <2>1, <2>2, <2>3
<1>17. e * Power(base, n) = IF s[1] >= half THEN Power(base, n) ELSE 0
  <2>1. Power(base, n) \in Int
    BY <1>1, <1>4
  <2>2. 1 * Power(base, n) = Power(base, n) /\ 0 * Power(base, n) = 0
    BY <2>1
  <2> QED
    BY <2>2 DEF e
<1> QED
  BY <1>2, <1>3, <1>15, <1>16, <1>17 DEF n

\* The low w digits of a number, read with their sign, are the number exactly
\* if it is in the range of w digits.
LEMMA SignedDigits ==
    ASSUME NEW base \in Nat, NEW half \in Nat, half >= 1, base = 2 * half,
           NEW w \in Nat, w >= 1, NEW v \in Int
    PROVE  /\ SignedValue(Reversed(Digits(v, base, w)), base) \in Int
           /\ SignedValue(Reversed(Digits(v, base, w)), base) = v
                <=> -(Power(base, w) \div 2) <= v /\ v < Power(base, w) \div 2
<1> DEFINE s == Reversed(Digits(v, base, w))
           p == Power(base, w)
           r == SignedValue(s, base)
<1>1. base >= 2
  OBVIOUS
<1>2. /\ s \in Seq(0..(base - 1)) /\ Len(s) = w /\ p \in Nat /\ p > 0 /\ Value(s, base) \in 0..(p - 1)
  BY <1>1, DigitsValue
<1>3. PICK q \in Int : v = q * p + Value(s, base)
  BY <1>1, DigitsValue
<1> HIDE DEF s
<1>4. /\ r \in Int /\ r = Value(s, base) - IF s[1] >= half THEN Power(base, Len(s)) ELSE 0
      /\ -(Power(base, Len(s)) \div 2) <= r /\ r < Power(base, Len(s)) \div 2
  <2>1. Len(s) >= 1
    BY <1>2
  <2> QED
    BY <1>2, <2>1, SignedValueFacts
<1>5. r = Value(s, base) - (IF s[1] >= half THEN p ELSE 0) /\ -(p \div 2) <= r /\ r < p \div 2
  BY <1>2, <1>4
<1> HIDE DEF p, r
<1>6. PICK k \in Int : v = k * p + r
  <2>1. CASE s[1] >= half
    <3>2. (q + 1) * p = q * p + p /\ q * p \in Int /\ q + 1 \in Int
      BY <1>2
    <3>3. r = Value(s, base) - p
      BY <1>5, <2>1
    <3>1. v = (q + 1) * p + r /\ q + 1 \in Int
      BY <1>2, <1>3, <3>2, <3>3
    <3> QED
      BY <3>1
  <2>2. CASE ~(s[1] >= half)
    <3>1. v = q * p + r
      BY <1>2, <1>3, <1>5, <2>2
    <3> QED
      BY <3>1
  <2> QED
    BY <2>1, <2>2
<1>7. ASSUME -(p \div 2) <= v, v < p \div 2 PROVE r = v
  <2>1. k * p \in Int /\ p \div 2 \in Int /\ (p \div 2) + (p \div 2) <= p
    BY <1>2
  <2> DEFINE m == k * p
             h == p \div 2
  <2>5. m \in Int /\ h \in Int /\ h + h <= p /\ v = m + r /\ -h <= v /\ v < h /\ -h <= r /\ r < h
    BY <1>5, <1>6, <1>7, <2>1
  <2> HIDE DEF m, h
  <2>6. -p < m /\ m < p
    BY <1>2, <1>4, <2>5
  <2>2. -p < k * p /\ k * p < p
    BY <2>6 DEF m
  <2>3. k = 0
    BY <1>2, <2>2, NoMultiple
  <2>4. k * p = 0
    BY <1>2, <2>3
  <2> QED
    BY <1>4, <1>6, <2>4
<1> QED
  BY <1>4, <1>5, <1>7 DEF s, p, r

\* The power of a power.
LEMMA PowerOfPower ==
    ASSUME NEW b \in Nat, b >= 2, NEW x \in Nat, Power(b, x) >= 2
    PROVE  \A i \in Nat : Power(Power(b, x), i) = Power(b, x * i)
<1> DEFINE c == Power(b, x)
           S == {i \in Nat : Power(c, i) = Power(b, x * i)}
<1>1. c \in Nat /\ c >= 2
  BY PowerGrows
<1>2. 0 \in S
  <2>1. x * 0 = 0
    OBVIOUS
  <2> QED
    BY <1>1, <2>1, PowerUnfolds
<1>3. \A i \in Nat : i \in S => i + 1 \in S
  <2> SUFFICES ASSUME NEW i \in Nat, i \in S PROVE i + 1 \in S
    OBVIOUS
  <2>1. x * (i + 1) = x + x * i /\ x * i \in Nat /\ i + 1 \in Nat
    OBVIOUS
  <2>2. Power(b, x + x * i) = c * Power(b, x * i)
    BY <2>1, PowerAdds
  <2>3. Power(c, i + 1) = c * Power(c, i)
    BY <1>1, PowerGrows
  <2>4. Power(c, i) = Power(b, x * i)
    OBVIOUS
  <2> HIDE DEF c
  <2>5. Power(c, i + 1) = Power(b, x * (i + 1))
    BY <2>1, <2>2, <2>3, <2>4
  <2> QED
    BY <2>1, <2>5
<1> HIDE DEF S
<1>4. \A i \in Nat : i \in S
  BY <1>2, <1>3, Induct
<1> QED
  BY <1>4 DEF S

-----------------------------------------------------------------------------
(* Sequences                                                               *)

\* Putting two sequences together.
LEMMA ConcatFacts ==
    ASSUME NEW T, NEW a \in Seq(T), NEW b \in Seq(T)
    PROVE  /\ a \o b \in Seq(T) /\ Len(a \o b) = Len(a) + Len(b)
           /\ \A i \in 1..Len(a) : (a \o b)[i] = a[i]
           /\ \A i \in 1..Len(b) : (a \o b)[Len(a) + i] = b[i]
OBVIOUS

\* A sequence of one element.
LEMMA SingleFacts ==
    ASSUME NEW T, NEW x \in T
    PROVE  <<x>> \in Seq(T) /\ Len(<<x>>) = 1 /\ <<x>>[1] = x
OBVIOUS

\* A function on the first n numbers.
LEMMA FunctionIsSeq ==
    ASSUME NEW T, NEW n \in Nat, NEW f \in [1..n -> T]
    PROVE  f \in Seq(T) /\ Len(f) = n /\ DOMAIN f = 1..n
OBVIOUS

\* A part of a sequence.
LEMMA PartFacts ==
    ASSUME NEW T, NEW s \in Seq(T), NEW m \in Nat, NEW n \in Nat, m <= n, n <= Len(s)
    PROVE  /\ SubSeq(s, m + 1, n) \in Seq(T) /\ Len(SubSeq(s, m + 1, n)) = n - m
           /\ \A i \in 1..(n - m) : SubSeq(s, m + 1, n)[i] = s[m + i]
<1>1. SubSeq(s, m + 1, n) = [i \in 1..(n - m) |-> s[m + i]]
  OBVIOUS
<1>2. \A i \in 1..(n - m) : m + i \in 1..Len(s) /\ s[m + i] \in T
  OBVIOUS
<1>3. SubSeq(s, m + 1, n) \in [1..(n - m) -> T]
  BY <1>1, <1>2
<1>4. n - m \in Nat
  OBVIOUS
<1>5. SubSeq(s, m + 1, n) \in Seq(T) /\ Len(SubSeq(s, m + 1, n)) = n - m
  BY <1>3, <1>4
<1> QED
  BY <1>1, <1>5

\* Bits, and bits put together.
LEMMA BitsFacts ==
    ASSUME NEW n \in Int, NEW w \in Nat
    PROVE  Bits(n, w) \in Seq(0..1) /\ Len(Bits(n, w)) = w
<1>1. 2 \in Nat /\ 2 >= 2 /\ 0..(2 - 1) = 0..1
  OBVIOUS
<1>2. Digits(n, 2, w) \in Seq(0..(2 - 1)) /\ Len(Digits(n, 2, w)) = w
  BY <1>1, DigitsShift
<1> QED
  BY <1>1, <1>2 DEF Bits

\* What follows the first part of two.
LEMMA SuffixFacts ==
    ASSUME NEW T, NEW a \in Seq(T), NEW b \in Seq(T)
    PROVE  SubSeq(a \o b, Len(a) + 1, Len(a \o b)) = b
<1>1. /\ a \o b \in Seq(T) /\ Len(a \o b) = Len(a) + Len(b) /\ Len(a) \in Nat /\ Len(b) \in Nat
      /\ \A i \in 1..Len(b) : (a \o b)[Len(a) + i] = b[i]
  BY ConcatFacts
<1>2. Len(a) <= Len(a \o b) /\ Len(a \o b) - Len(a) = Len(b) /\ Len(a \o b) \in Nat
  BY <1>1
<1> DEFINE c == a \o b
           t == SubSeq(c, Len(a) + 1, Len(c))
<1>3. c \in Seq(T) /\ Len(a) <= Len(c) /\ Len(c) \in Nat /\ Len(c) <= Len(c) /\ Len(c) - Len(a) = Len(b)
  BY <1>1, <1>2
<1>4. \A i \in 1..Len(b) : c[Len(a) + i] = b[i]
  BY <1>1
<1> HIDE DEF c
<1>5. /\ t \in Seq(T) /\ Len(t) = Len(c) - Len(a)
      /\ \A i \in 1..(Len(c) - Len(a)) : t[i] = c[Len(a) + i]
  BY <1>1, <1>3, PartFacts
<1>6. Len(t) = Len(b) /\ \A i \in 1..Len(b) : t[i] = b[i]
  BY <1>3, <1>4, <1>5
<1> HIDE DEF t
<1>7. t = b
  BY <1>5, <1>6, SeqEqual
<1> QED
  BY <1>7 DEF t, c

\* A part of a first part, and a part of the second of two.
LEMMA PartOfConcat ==
    ASSUME NEW T, NEW a \in Seq(T), NEW b \in Seq(T), NEW m \in Nat, NEW n \in Nat, m <= n
    PROVE  /\ n <= Len(a) => SubSeq(a \o b, m + 1, n) = SubSeq(a, m + 1, n)
           /\ n <= Len(b) => SubSeq(a \o b, Len(a) + m + 1, Len(a) + n) = SubSeq(b, m + 1, n)
<1> DEFINE c == a \o b
<1>1. /\ c \in Seq(T) /\ Len(c) = Len(a) + Len(b) /\ Len(a) \in Nat /\ Len(b) \in Nat
      /\ \A i \in 1..Len(a) : c[i] = a[i]
      /\ \A i \in 1..Len(b) : c[Len(a) + i] = b[i]
  BY ConcatFacts
<1> HIDE DEF c
<1>2. ASSUME n <= Len(a) PROVE SubSeq(c, m + 1, n) = SubSeq(a, m + 1, n)
  <2> DEFINE x == SubSeq(c, m + 1, n)
             y == SubSeq(a, m + 1, n)
  <2>1. n <= Len(c)
    BY <1>1, <1>2
  <2>2. x \in Seq(T) /\ Len(x) = n - m /\ \A i \in 1..(n - m) : x[i] = c[m + i]
    BY <1>1, <2>1, PartFacts
  <2>3. y \in Seq(T) /\ Len(y) = n - m /\ \A i \in 1..(n - m) : y[i] = a[m + i]
    BY <1>2, PartFacts
  <2> HIDE DEF x, y
  <2>4. \A i \in 1..(n - m) : m + i \in 1..Len(a)
    BY <1>1, <1>2
  <2>5. Len(x) = Len(y) /\ \A i \in 1..Len(x) : x[i] = y[i]
    BY <1>1, <2>2, <2>3, <2>4
  <2>6. x = y
    BY <2>2, <2>3, <2>5, SeqEqual
  <2> QED
    BY <2>6 DEF x, y
<1>3. ASSUME n <= Len(b) PROVE SubSeq(c, Len(a) + m + 1, Len(a) + n) = SubSeq(b, m + 1, n)
  <2> DEFINE k == Len(a) + m
             l == Len(a) + n
             x == SubSeq(c, k + 1, l)
             y == SubSeq(b, m + 1, n)
  <2>1. k \in Nat /\ l \in Nat /\ k <= l /\ l <= Len(c) /\ l - k = n - m
    BY <1>1, <1>3
  <2>2. /\ \A i \in 1..(n - m) : m + i \in 1..Len(b)
        /\ \A i \in 1..(n - m) : k + i = Len(a) + (m + i)
    BY <1>1, <1>3
  <2> HIDE DEF k, l
  <2>3. x \in Seq(T) /\ Len(x) = l - k /\ \A i \in 1..(l - k) : x[i] = c[k + i]
    BY <1>1, <2>1, PartFacts
  <2>4. y \in Seq(T) /\ Len(y) = n - m /\ \A i \in 1..(n - m) : y[i] = b[m + i]
    BY <1>3, PartFacts
  <2> HIDE DEF x, y
  <2>5. Len(x) = Len(y) /\ \A i \in 1..Len(x) : x[i] = y[i]
    <3>1. Len(x) = n - m /\ Len(y) = n - m
      BY <2>1, <2>3, <2>4
    <3>2. ASSUME NEW i \in 1..(n - m) PROVE x[i] = y[i]
      <4>1. m + i \in 1..Len(b) /\ k + i = Len(a) + (m + i)
        BY <2>2
      <4>2. x[i] = c[k + i] /\ y[i] = b[m + i]
        BY <2>1, <2>3, <2>4
      <4>3. c[Len(a) + (m + i)] = b[m + i]
        BY <1>1, <4>1
      <4> QED
        BY <4>1, <4>2, <4>3
    <3> QED
      BY <3>1, <3>2
  <2>6. x = y
    BY <2>3, <2>4, <2>5, SeqEqual
  <2> QED
    BY <2>6 DEF x, y, k, l
<1> QED
  BY <1>2, <1>3 DEF c

-----------------------------------------------------------------------------
(* Digits in a sequence                                                    *)

\* The first part of a concatenation.
LEMMA PrefixFacts ==
    ASSUME NEW T, NEW a \in Seq(T), NEW b \in Seq(T)
    PROVE  SubSeq(a \o b, 1, Len(a)) = a
<1>1. PICK m \in Nat : m = 0
  OBVIOUS
<1>2. Len(a) \in Nat /\ m <= Len(a)
  BY <1>1
<1>3. SubSeq(a \o b, m + 1, Len(a)) = SubSeq(a, m + 1, Len(a))
  BY <1>2, PartOfConcat
<1>4. SubSeq(a, 1, Len(a)) = a
  OBVIOUS
<1>5. m + 1 = 1
  BY <1>1
<1> QED
  BY <1>3, <1>4, <1>5

\* What has a length is not empty.
LEMMA NotEmpty == \A b : Len(b) # 0 => b # <<>>
<1>1. Len(<<>>) = 0
  OBVIOUS
<1> QED
  BY <1>1, Zenon

\* A sequence of two parts.
LEMMA TwoParts ==
    ASSUME NEW T, NEW m \in Nat, NEW n \in Nat, NEW a \in Seq(T), Len(a) = m,
           NEW c \in Seq(T), Len(c) = n, NEW b, b = a \o c
    PROVE  /\ b \in Seq(T) /\ Len(b) = m + n
           /\ SubSeq(b, 1, m) = a /\ SubSeq(b, m + 1, m + n) = c
<1>1. b \in Seq(T) /\ Len(b) = m + n
  BY ConcatFacts
<1>2. SubSeq(b, 1, Len(a)) = a
  BY PrefixFacts
<1>3. SubSeq(b, Len(a) + 1, Len(b)) = c
  BY SuffixFacts
<1> QED
  BY <1>1, <1>2, <1>3

\* A sequence is its first m elements and the others.
LEMMA SplitFacts ==
    ASSUME NEW T, NEW s \in Seq(T), NEW m \in Nat, m <= Len(s)
    PROVE  /\ s = SubSeq(s, 1, m) \o SubSeq(s, m + 1, Len(s))
           /\ SubSeq(s, 1, m) \in Seq(T) /\ Len(SubSeq(s, 1, m)) = m
           /\ SubSeq(s, m + 1, Len(s)) \in Seq(T) /\ Len(SubSeq(s, m + 1, Len(s))) = Len(s) - m
<1>1. PICK a, c : a = SubSeq(s, 1, m) /\ c = SubSeq(s, m + 1, Len(s))
  OBVIOUS
<1>2. a \in Seq(T) /\ Len(a) = m /\ \A i \in 1..m : a[i] = s[i]
  <2>1. PICK z \in Nat : z = 0
    OBVIOUS
  <2>2. /\ SubSeq(s, z + 1, m) \in Seq(T) /\ Len(SubSeq(s, z + 1, m)) = m - z
        /\ \A i \in 1..(m - z) : SubSeq(s, z + 1, m)[i] = s[z + i]
    BY <2>1, PartFacts
  <2>3. z + 1 = 1 /\ m - z = m /\ \A i \in 1..m : z + i = i
    BY <2>1
  <2> QED
    BY <1>1, <2>2, <2>3
<1>3. c \in Seq(T) /\ Len(c) = Len(s) - m /\ \A i \in 1..(Len(s) - m) : c[i] = s[m + i]
  BY <1>1, PartFacts
<1>7. PICK d : d = a \o c
  OBVIOUS
<1>4. /\ d \in Seq(T) /\ Len(d) = Len(s)
      /\ \A i \in 1..Len(a) : d[i] = a[i]
      /\ \A i \in 1..Len(c) : d[Len(a) + i] = c[i]
  BY <1>2, <1>3, <1>7, ConcatFacts
<1>5. ASSUME NEW i \in 1..Len(s) PROVE d[i] = s[i]
  <2>1. CASE i <= m
    <3>1. i \in 1..m
      BY <2>1
    <3> QED
      BY <1>2, <1>4, <3>1
  <2>2. CASE i > m
    <3>1. i - m \in 1..Len(c) /\ m + (i - m) = i
      BY <1>3, <2>2
    <3>2. d[m + (i - m)] = c[i - m] /\ c[i - m] = s[m + (i - m)]
      BY <1>2, <1>3, <1>4, <3>1
    <3> QED
      BY <3>1, <3>2
  <2> QED
    BY <2>1, <2>2
<1>6. d = s
  BY <1>4, <1>5
<1> QED
  BY <1>1, <1>2, <1>3, <1>6, <1>7

\* The value of two parts.
LEMMA ValueConcat ==
    ASSUME NEW base \in Nat, base >= 2, NEW a \in Seq(Int), NEW b \in Seq(Int)
    PROVE  /\ Value(a, base) \in Int /\ Value(b, base) \in Int /\ Power(base, Len(b)) \in Nat
           /\ Value(a \o b, base) = Value(a, base) * Power(base, Len(b)) + Value(b, base)
<1> DEFINE c == a \o b
           m == Len(a)
           n == Len(b)
<1>1. /\ c \in Seq(Int) /\ Len(c) = m + n
      /\ \A i \in 1..m : c[i] = a[i]
      /\ \A i \in 1..n : c[m + i] = b[i]
  <2> DEFINE Z == Int
  <2>1. a \in Seq(Z) /\ b \in Seq(Z)
    OBVIOUS
  <2> HIDE DEF Z
  <2>2. /\ c \in Seq(Z) /\ Len(c) = m + n
        /\ \A i \in 1..m : c[i] = a[i]
        /\ \A i \in 1..n : c[m + i] = b[i]
    BY <2>1, ConcatFacts
  <2> QED
    BY <2>2 DEF Z
<1>2. m \in Nat /\ n \in Nat /\ \A i \in 1..n : b[i] \in Int
  OBVIOUS
<1> HIDE DEF c
<1>3. PICK u : PartialSums(u, a, base) /\ Value(a, base) = u[Len(a)]
  BY ValuePrefixes
<1>4. PICK r : PartialSums(r, b, base) /\ Value(b, base) = r[Len(b)]
  BY ValuePrefixes
<1>5. PICK t : PartialSums(t, c, base) /\ Value(c, base) = t[Len(c)]
  BY <1>1, ValuePrefixes
<1> HIDE DEF m, n
<1>6. /\ u[0] = 0 /\ r[0] = 0 /\ t[0] = 0
      /\ \A i \in 1..m : u[i] = u[i - 1] * base + a[i]
      /\ \A i \in 1..n : r[i] = r[i - 1] * base + b[i]
      /\ \A i \in 1..(m + n) : t[i] = t[i - 1] * base + c[i]
      /\ \A i \in 0..m : u[i] \in Int
      /\ \A i \in 0..n : r[i] \in Int
  BY <1>1, <1>3, <1>4, <1>5 DEF PartialSums, m, n
<1>7. t[m] = u[m]
  <2> DEFINE S == {i \in Nat : t[i] = u[i]}
  <2>1. 0 \in S
    BY <1>6
  <2>2. \A i \in 1..m : i - 1 \in S => i \in S
    <3> SUFFICES ASSUME NEW i \in 1..m, i - 1 \in S PROVE i \in S
      OBVIOUS
    <3>1. i \in 1..(m + n) /\ i \in Nat
      BY <1>2
    <3>2. t[i] = u[i]
      BY <1>1, <1>6, <3>1
    <3> QED
      BY <3>1, <3>2
  <2> HIDE DEF S
  <2>3. \A i \in 0..m : i \in S
    BY <1>2, <2>1, <2>2, BoundedInduct
  <2> QED
    BY <1>2, <2>3 DEF S
<1>8. /\ \A k \in Nat : Power(base, k) \in Nat /\ Power(base, k + 1) = base * Power(base, k)
      /\ Power(base, 0) = 1
  <2>1. 0 \in Nat
    OBVIOUS
  <2> QED
    BY <2>1, PowerGrows, PowerUnfolds
<1>9. t[m + n] = u[m] * Power(base, n) + r[n]
  <2> DEFINE S == {i \in Nat : t[m + i] = u[m] * Power(base, i) + r[i]}
  <2>1. 0 \in S
    <3>1. m + 0 = m /\ u[m] \in Int
      BY <1>2, <1>6
    <3>2. u[m] = u[m] * 1 + 0
      BY <3>1
    <3> QED
      BY <1>6, <1>7, <1>8, <3>1, <3>2
  <2>2. \A i \in 1..n : i - 1 \in S => i \in S
    <3> SUFFICES ASSUME NEW i \in 1..n, i - 1 \in S PROVE i \in S
      OBVIOUS
    <3>1. /\ m + i \in 1..(m + n) /\ (m + i) - 1 = m + (i - 1) /\ i \in Nat /\ i - 1 \in Nat
          /\ (i - 1) + 1 = i /\ i - 1 \in 0..n /\ m \in 0..m
      BY <1>2
    <3>2. t[m + i] = t[m + (i - 1)] * base + b[i]
      BY <1>1, <1>6, <3>1
    <3>3. r[i] = r[i - 1] * base + b[i] /\ r[i - 1] \in Int /\ u[m] \in Int /\ b[i] \in Int
      BY <1>2, <1>6, <3>1
    <3>4. Power(base, i) = base * Power(base, i - 1) /\ Power(base, i - 1) \in Int
      BY <1>8, <3>1
    <3>6. (u[m] * Power(base, i - 1) + r[i - 1]) * base + b[i]
            = u[m] * (base * Power(base, i - 1)) + (r[i - 1] * base + b[i])
      <4>1. u[m] \in Int /\ Power(base, i - 1) \in Int /\ r[i - 1] \in Int /\ b[i] \in Int
        BY <3>3, <3>4
      <4> DEFINE X == u[m]
                 P == Power(base, i - 1)
                 R == r[i - 1]
                 Z == b[i]
      <4>2. X \in Int /\ P \in Int /\ R \in Int /\ Z \in Int
        BY <4>1
      <4> HIDE DEF X, P, R, Z
      <4>3. (X * P + R) * base + Z = X * (base * P) + (R * base + Z)
        BY <4>2
      <4> QED
        BY <4>3 DEF X, P, R, Z
    <3>7. t[m + (i - 1)] = u[m] * Power(base, i - 1) + r[i - 1]
      OBVIOUS
    <3>8. t[m + i] = u[m] * Power(base, i) + r[i]
      BY <3>2, <3>3, <3>4, <3>6, <3>7
    <3> QED
      BY <3>1, <3>8
  <2> HIDE DEF S
  <2>3. \A i \in 0..n : i \in S
    BY <1>2, <2>1, <2>2, BoundedInduct
  <2> QED
    BY <1>2, <2>3 DEF S
<1>10. u[m] \in Int /\ r[n] \in Int /\ Power(base, n) \in Nat
  <2>1. m \in 0..m /\ n \in 0..n /\ n \in Nat
    BY <1>2
  <2> QED
    BY ONLY <1>6, <1>8, <2>1
<1> QED
  BY <1>1, <1>3, <1>4, <1>5, <1>9, <1>10 DEF c, m, n

\* A digit stands for itself.
LEMMA ValueOfDigit ==
    ASSUME NEW base \in Nat, NEW x \in Int
    PROVE  Value(<<x>>, base) = x
<1> DEFINE s == <<x>>
<1>1. s \in Seq(Int) /\ Len(s) = 1 /\ s[1] = x /\ 1 - 1 = 0
  BY SingleFacts
<1> HIDE DEF s
<1>2. PICK u : PartialSums(u, s, base) /\ Value(s, base) = u[Len(s)]
  BY <1>1, ValuePrefixes
<1>3. u[0] = 0 /\ 1 \in 1..Len(s)
  BY <1>1, <1>2 DEF PartialSums
<1>4. u[1] = u[1 - 1] * base + s[1]
  BY <1>2, <1>3 DEF PartialSums
<1>5. u[1] = x
  BY <1>1, <1>3, <1>4
<1> QED
  BY <1>1, <1>2, <1>5 DEF s

\* A digit in front.
LEMMA DigitInFront ==
    ASSUME NEW base \in Nat, base >= 2, NEW x \in 0..(base - 1),
           NEW b \in Seq(0..(base - 1)), Len(b) >= 1
    PROVE  /\ <<x>> \o b \in Seq(0..(base - 1)) /\ Len(<<x>> \o b) = Len(b) + 1
           /\ (<<x>> \o b)[1] = x /\ (<<x>> \o b)[2] = b[1]
           /\ Value(<<x>> \o b, base) = x * Power(base, Len(b)) + Value(b, base)
<1> DEFINE a == <<x>>
<1>1. Len(a) = 1 /\ a[1] = x
  BY SingleFacts
<1>8. a \in Seq(0..(base - 1))
  BY SingleFacts
<1>2. Value(a, base) = x
  BY ValueOfDigit
<1>3. Seq(0..(base - 1)) \subseteq Seq(Int)
  OBVIOUS
<1> HIDE DEF a
<1>4. Value(a \o b, base) = Value(a, base) * Power(base, Len(b)) + Value(b, base)
  <2>1. base \in Nat /\ base >= 2 /\ a \in Seq(Int) /\ b \in Seq(Int)
    BY <1>3, <1>8
  <2> QED
    BY <2>1, ValueConcat
<1>5. /\ a \o b \in Seq(0..(base - 1)) /\ Len(a \o b) = Len(a) + Len(b)
      /\ \A i \in 1..Len(a) : (a \o b)[i] = a[i]
      /\ \A i \in 1..Len(b) : (a \o b)[Len(a) + i] = b[i]
  BY <1>8, ConcatFacts
<1>6. Len(b) \in Nat /\ 1 \in 1..Len(b) /\ 1 \in 1..Len(a) /\ Len(a) + 1 = 2
  BY <1>1
<1>7. (a \o b)[1] = a[1] /\ (a \o b)[2] = b[1] /\ Len(a \o b) = Len(b) + 1
  BY <1>1, <1>5, <1>6
<1> QED
  BY <1>1, <1>2, <1>4, <1>5, <1>7 DEF a

\* The highest digits only: one less than the next power.
LEMMA ValueOfHighest ==
    ASSUME NEW base \in Nat, base >= 2, NEW s \in Seq(Int), \A i \in 1..Len(s) : s[i] = base - 1
    PROVE  Value(s, base) = Power(base, Len(s)) - 1
<1> DEFINE n == Len(s)
<1>1. n \in Nat
  OBVIOUS
<1>2. PICK u : PartialSums(u, s, base) /\ Value(s, base) = u[Len(s)]
  BY ValuePrefixes
<1>3. \A k \in Nat : Power(base, k) \in Nat /\ Power(base, k + 1) = base * Power(base, k)
  BY PowerGrows
<1>4. Power(base, 0) = 1
  BY PowerUnfolds
<1> DEFINE S == {i \in Nat : u[i] = Power(base, i) - 1}
<1>5. 0 \in S
  BY <1>2, <1>4 DEF PartialSums
<1>6. \A i \in 1..n : i - 1 \in S => i \in S
  <2> SUFFICES ASSUME NEW i \in 1..n, i - 1 \in S PROVE i \in S
    OBVIOUS
  <2>1. u[i] = u[i - 1] * base + (base - 1)
    BY <1>2 DEF PartialSums
  <2>2. i - 1 \in Nat /\ (i - 1) + 1 = i /\ i \in Nat
    BY <1>1
  <2>3. Power(base, i - 1) \in Nat /\ Power(base, i) = base * Power(base, i - 1)
    BY <1>3, <2>2
  <2>4. u[i - 1] = Power(base, i - 1) - 1
    OBVIOUS
  <2>5. ASSUME NEW q \in Nat PROVE (q - 1) * base + (base - 1) = base * q - 1
    OBVIOUS
  <2>6. u[i] = Power(base, i) - 1
    BY <2>1, <2>3, <2>4, <2>5
  <2> QED
    BY <2>2, <2>6
<1>7. \A i \in 0..n : i \in S
  <2> HIDE DEF S, n
  <2> QED
    BY <1>1, <1>5, <1>6, BoundedInduct DEF n
<1>8. n \in 0..n
  BY <1>1
<1> QED
  BY <1>2, <1>7, <1>8

\* The digits of the number that digits stand for are these.
LEMMA DigitsOfValue ==
    ASSUME NEW base \in Nat, base >= 2, NEW s \in Seq(0..(base - 1))
    PROVE  Digits(Value(Reversed(s), base), base, Len(s)) = s
<1> DEFINE w == Len(s)
           z == Reversed(s)
           v == Value(z, base)
<1>1. z \in Seq(0..(base - 1)) /\ Len(z) = w /\ \A i \in 1..w : z[i] = s[w + 1 - i]
  <2> DEFINE D == 0..(base - 1)
  <2>1. s \in Seq(D)
    OBVIOUS
  <2> HIDE DEF D
  <2>2. z \in Seq(D) /\ Len(z) = Len(s) /\ \A i \in 1..Len(s) : z[i] = s[Len(s) + 1 - i]
    BY <2>1, ReversedFacts
  <2> QED
    BY <2>2 DEF D
<1>2. w \in Nat /\ z \in Seq(Int) /\ s = [i \in 1..w |-> s[i]] /\ \A i \in 1..w : s[i] \in 0..(base - 1)
  BY <1>1
<1> HIDE DEF z
<1>3. PICK u : PartialSums(u, z, base) /\ v = u[Len(z)]
  BY <1>2, ValuePrefixes
<1> HIDE DEF w
<1>4. /\ u[0] = 0 /\ v = u[w] /\ \A i \in 0..w : u[i] \in Int
      /\ \A i \in 1..w : u[i] = u[i - 1] * base + z[i]
  BY <1>1, <1>3 DEF PartialSums
<1>5. v \in Int
  BY <1>2, <1>4
<1>6. PICK g : Shifts(g, v, base, w) /\ Digits(v, base, w) = [i \in 1..w |-> g[i - 1] % base]
  BY <1>2, <1>5, DigitsShift
<1> HIDE DEF v
<1>7. \A q \in Int : \A r \in 0..(base - 1) : (q * base + r) \div base = q /\ (q * base + r) % base = r
  <2> SUFFICES ASSUME NEW q \in Int, NEW r \in 0..(base - 1)
               PROVE  (q * base + r) \div base = q /\ (q * base + r) % base = r
    OBVIOUS
  <2> DEFINE x == q * base + r
  <2>1. x \in Int
    OBVIOUS
  <2>2. x \div base \in Int /\ x = base * (x \div base) + (x % base) /\ x % base \in 0..(base - 1)
    BY <2>1, IntDivFacts
  <2> DEFINE y == x \div base
             t == x % base
  <2>3. y \in Int /\ t \in 0..(base - 1) /\ q * base + r = base * y + t
    BY <2>2
  <2> HIDE DEF x, y, t
  <2>4. (q - y) * base = t - r /\ q - y \in Int
    <3>1. (q - y) * base = q * base - base * y
      BY <2>3
    <3>2. q * base \in Int /\ base * y \in Int
      BY <2>3
    <3> QED
      BY <2>3, <3>1, <3>2
  <2>5. -base < (q - y) * base /\ (q - y) * base < base
    BY <2>3, <2>4
  <2>6. q - y = 0
    BY <2>4, <2>5, NoMultiple
  <2>7. q = y /\ (q - y) * base = 0
    BY <2>3, <2>6
  <2>8. t = r
    BY <2>3, <2>4, <2>7
  <2> QED
    BY <2>7, <2>8 DEF x, y, t
<1> DEFINE S == {i \in Nat : g[i] = u[w - i]}
<1>8. \A i \in 1..w : /\ g[i - 1] = u[w - (i - 1)]
                           => g[i] = u[w - i] /\ g[i - 1] % base = s[i]
  <2> SUFFICES ASSUME NEW i \in 1..w, g[i - 1] = u[w - (i - 1)]
               PROVE  g[i] = u[w - i] /\ g[i - 1] % base = s[i]
    OBVIOUS
  <2>1. /\ w - (i - 1) = w + 1 - i /\ w + 1 - i \in 1..w /\ (w + 1 - i) - 1 = w - i
        /\ w - i \in 0..w /\ w + 1 - (w + 1 - i) = i
    <3>1. w \in Nat
      BY <1>2
    <3> QED
      BY ONLY <3>1, i \in 1..w
  <2>2. u[w + 1 - i] = u[w - i] * base + z[w + 1 - i] /\ u[w - i] \in Int
    BY <1>4, <2>1
  <2>3. z[w + 1 - i] = s[i] /\ s[i] \in 0..(base - 1)
    BY <1>1, <1>2, <2>1
  <2>4. g[i] = g[i - 1] \div base
    BY <1>6 DEF Shifts
  <2>5. g[i - 1] = u[w - i] * base + s[i]
    BY <2>1, <2>2, <2>3
  <2>6. (u[w - i] * base + s[i]) \div base = u[w - i] /\ (u[w - i] * base + s[i]) % base = s[i]
    BY <1>7, <2>2, <2>3
  <2> QED
    BY <2>4, <2>5, <2>6
<1>9. \A i \in 0..w : i \in S
  <2>1. 0 \in S
    BY <1>2, <1>4, <1>6 DEF Shifts
  <2>2. \A i \in 1..w : i - 1 \in S => i \in S
    BY <1>8
  <2> HIDE DEF S
  <2> QED
    BY <1>2, <2>1, <2>2, BoundedInduct
<1>10. \A i \in 1..w : g[i - 1] % base = s[i]
  <2> SUFFICES ASSUME NEW i \in 1..w PROVE g[i - 1] % base = s[i]
    OBVIOUS
  <2>1. i - 1 \in 0..w
    BY <1>2
  <2>2. g[i - 1] = u[w - (i - 1)]
    BY <1>9, <2>1
  <2> QED
    BY <1>8, <2>2
<1>11. Digits(v, base, w) = [i \in 1..w |-> s[i]]
  BY <1>6, <1>10
<1> QED
  BY <1>2, <1>11 DEF v, z, w

\* All digits of a number: no leading zero, and as many as it needs.
LEMMA AllDigitsFacts ==
    ASSUME NEW base \in Nat, base >= 2, NEW n \in Nat
    PROVE  /\ AllDigits(n, base) \in Seq(0..(base - 1)) /\ Len(AllDigits(n, base)) \in Nat
           /\ Len(AllDigits(n, base)) = Width(n, base)
           /\ Value(AllDigits(n, base), base) = n
           /\ n < Power(base, Len(AllDigits(n, base)))
           /\ n = 0 => AllDigits(n, base) = <<>>
           /\ n # 0 => /\ Len(AllDigits(n, base)) >= 1 /\ AllDigits(n, base)[1] # 0
                       /\ Power(base, Len(AllDigits(n, base)) - 1) <= n
<1> DEFINE w == Width(n, base)
           d == Digits(n, base, w)
           D == 0..(base - 1)
<1>1. n \in Int /\ w \in 0..n
  BY WidthFacts
<1>2. PICK g : /\ Shifts(g, n, base, n) /\ \A i \in 0..n : g[i] \in Nat
               /\ g[w] = 0 /\ \A i \in 0..(w - 1) : g[i] # 0
  BY WidthFacts
<1> HIDE DEF w
<1>3. w \in Nat
  BY <1>1
<1>4. d \in Seq(D) /\ Len(d) = w
  BY <1>1, <1>3, DigitsShift
<1>5. PICK h : Shifts(h, n, base, w) /\ d = [i \in 1..w |-> h[i - 1] % base]
  BY <1>1, <1>3, DigitsShift
<1>6. \A i \in 0..n : g[i] \in Nat /\ g[i] * Power(base, i) <= n /\ n < (g[i] + 1) * Power(base, i)
  BY <1>2, ShiftBound
<1>7. \A k \in Nat : Power(base, k) \in Nat
  BY PowerGrows
<1>8. n < Power(base, w)
  <2>1. n < (0 + 1) * Power(base, w) /\ Power(base, w) \in Nat
    BY <1>1, <1>2, <1>3, <1>6, <1>7
  <2> QED
    BY <2>1
<1>9. Value(Reversed(d), base) = n
  BY <1>3, <1>8, DigitsRoundTrip
<1> HIDE DEF d, D
<1>10. AllDigits(n, base) = Reversed(d)
  BY DEF AllDigits, d, w
<1>11. /\ Reversed(d) \in Seq(D) /\ Len(Reversed(d)) = w
       /\ \A i \in 1..w : Reversed(d)[i] = d[w + 1 - i]
  <2>1. /\ Reversed(d) \in Seq(D) /\ Len(Reversed(d)) = Len(d)
        /\ \A i \in 1..Len(d) : Reversed(d)[i] = d[Len(d) + 1 - i]
    BY <1>4, ReversedFacts
  <2> QED
    BY <1>4, <2>1
<1>12. n = 0 => Reversed(d) = <<>>
  <2> SUFFICES ASSUME n = 0 PROVE Reversed(d) = <<>>
    OBVIOUS
  <2>1. w = 0
    BY <1>1
  <2> QED
    BY <1>11, <2>1
<1>13. n # 0 => w >= 1 /\ Reversed(d)[1] # 0 /\ Power(base, w - 1) <= n
  <2> SUFFICES ASSUME n # 0 PROVE w >= 1 /\ Reversed(d)[1] # 0 /\ Power(base, w - 1) <= n
    OBVIOUS
  <2>1. w # 0
    BY <1>2 DEF Shifts
  <2>2. /\ w - 1 \in 0..n /\ w \in 1..n /\ w - 1 \in 0..(w - 1) /\ 1 \in 1..w /\ w + 1 - 1 = w /\ w \in 1..w
        /\ w - 1 \in Nat /\ w - 1 \in 0..w /\ w >= 1
    BY <1>1, <2>1
  <2>3. \A i \in 0..w : h[i] = g[i]
    BY <1>1, <1>2, <1>3, <1>5, ShiftsAgree
  <2>4. g[w - 1] \in Nat /\ g[w - 1] # 0 /\ g[w] = g[w - 1] \div base
    BY <1>2, <2>2 DEF Shifts
  <2>5. g[w - 1] % base = g[w - 1]
    BY <1>2, <2>4, DivFacts
  <2>6. d[w] = g[w - 1]
    BY <1>5, <2>2, <2>3, <2>5
  <2>7. Reversed(d)[1] = d[w]
    BY <1>11, <2>2
  <2>8. Power(base, w - 1) <= n
    <3>1. g[w - 1] * Power(base, w - 1) <= n /\ Power(base, w - 1) \in Nat
      BY <1>6, <1>7, <2>2
    <3>2. \A x, y \in Nat : x # 0 => y <= x * y /\ x * y \in Nat
      OBVIOUS
    <3>3. Power(base, w - 1) <= g[w - 1] * Power(base, w - 1) /\ g[w - 1] * Power(base, w - 1) \in Nat
      BY <2>4, <3>1, <3>2
    <3> QED
      BY <3>1, <3>3
  <2> QED
    BY <2>2, <2>4, <2>6, <2>7, <2>8
<1> QED
  BY <1>3, <1>8, <1>9, <1>10, <1>11, <1>12, <1>13 DEF D, w

\* The width is the only one with such bounds.
LEMMA WidthIs ==
    ASSUME NEW base \in Nat, base >= 2, NEW n \in Nat, n # 0, NEW k \in Nat, k >= 1,
           Power(base, k - 1) <= n, n < Power(base, k)
    PROVE  Width(n, base) = k
<1> DEFINE w == Width(n, base)
<1>1. w \in Nat /\ w >= 1 /\ Power(base, w - 1) <= n /\ n < Power(base, w)
  BY AllDigitsFacts
<1> HIDE DEF w
<1>2. \A i, j \in Nat : Power(base, i) \in Nat /\ Power(base, i) <= Power(base, i + j)
  BY PowerGrows
<1>3. ASSUME NEW i \in Nat, NEW j \in Nat, i < j, n < Power(base, i), Power(base, j - 1) <= n
      PROVE  FALSE
  <2>1. (j - 1) - i \in Nat /\ i + ((j - 1) - i) = j - 1 /\ j - 1 \in Nat
    BY <1>3
  <2>2. Power(base, i) <= Power(base, j - 1) /\ Power(base, i) \in Nat /\ Power(base, j - 1) \in Nat
    BY <1>2, <2>1
  <2> QED
    BY <1>3, <2>2
<1>4. ~(w < k) /\ ~(k < w)
  BY <1>1, <1>3
<1>5. w = k
  BY <1>1, <1>4
<1> QED
  BY <1>5 DEF w

-----------------------------------------------------------------------------
(* Bits                                                                    *)

\* n bits.
BitString(b, n) == b \in Seq(0..1) /\ Len(b) = n

\* Bits are such, and put together they are.
LEMMA BitStrings ==
    /\ \A n \in Int : \A w \in Nat : BitString(Bits(n, w), w)
    /\ \A m, n \in Nat : \A a, b : BitString(a, m) /\ BitString(b, n) => BitString(a \o b, m + n)
    /\ BitString(<<0>>, 1)
<1>1. \A n \in Int : \A w \in Nat : BitString(Bits(n, w), w)
  BY BitsFacts DEF BitString
<1>2. ASSUME NEW m \in Nat, NEW n \in Nat, NEW a, NEW b, BitString(a, m), BitString(b, n)
      PROVE  BitString(a \o b, m + n)
  <2> DEFINE B == 0..1
  <2>1. a \in Seq(B) /\ b \in Seq(B)
    BY <1>2 DEF BitString
  <2>2. Len(a) = m /\ Len(b) = n
    BY <1>2 DEF BitString
  <2> HIDE DEF B
  <2>3. a \o b \in Seq(B) /\ Len(a \o b) = Len(a) + Len(b)
    BY <2>1, ConcatFacts
  <2> QED
    BY <2>2, <2>3 DEF B, BitString
<1>3. BitString(<<0>>, 1)
  BY DEF BitString
<1> QED
  BY <1>1, <1>2, <1>3

\* The second part of two.
LEMMA SecondBits ==
    ASSUME NEW m \in Nat, NEW n \in Nat, NEW a, BitString(a, m), NEW c, BitString(c, n)
    PROVE  BitString(a \o c, m + n) /\ SubSeq(a \o c, m + 1, m + n) = c
<1> DEFINE B == 0..1
<1>1. a \in Seq(B) /\ Len(a) = m /\ c \in Seq(B) /\ Len(c) = n
  BY DEF BitString
<1> HIDE DEF B
<1>2. a \o c \in Seq(B) /\ Len(a \o c) = m + n /\ SubSeq(a \o c, m + 1, m + n) = c
  <2>1. a \o c \in Seq(B) /\ Len(a \o c) = Len(a) + Len(c)
    BY <1>1, ConcatFacts
  <2>2. SubSeq(a \o c, Len(a) + 1, Len(a \o c)) = c
    BY <1>1, SuffixFacts
  <2> QED
    BY <1>1, <2>1, <2>2, Zenon
<1> QED
  BY <1>2, Zenon DEF BitString, B

\* The number of w bits.
LEMMA NumberOfBits ==
    /\ \A w \in Nat : \A b : BitString(b, w) =>
          Number(b) \in Nat /\ Number(b) < Power(2, w) /\ Bits(Number(b), w) = b
    /\ \A w, n \in Nat : n < Power(2, w) => Number(Bits(n, w)) = n
<1>1. 2 \in Nat /\ 2 >= 2 /\ 0..(2 - 1) = 0..1
  OBVIOUS
<1>2. ASSUME NEW w \in Nat, NEW b, BitString(b, w)
      PROVE  Number(b) \in Nat /\ Number(b) < Power(2, w) /\ Bits(Number(b), w) = b
  <2> DEFINE D == 0..(2 - 1)
  <2>1. b \in Seq(D) /\ Len(b) = w
    BY <1>1, <1>2 DEF BitString
  <2>2. Digits(Value(Reversed(b), 2), 2, Len(b)) = b
    BY <1>1, <2>1, DigitsOfValue
  <2> HIDE DEF D
  <2>3. Reversed(b) \in Seq(D) /\ Len(Reversed(b)) = w
    BY <2>1, ReversedFacts
  <2>4. Value(Reversed(b), 2) \in 0..(Power(2, Len(Reversed(b))) - 1)
    BY <1>1, <2>3, ValueBound DEF D
  <2>5. Value(Reversed(b), 2) \in 0..(Power(2, w) - 1) /\ Power(2, w) \in Nat
    BY <1>1, <2>3, <2>4, PowerGrows
  <2>6. Value(Reversed(b), 2) \in Nat /\ Value(Reversed(b), 2) < Power(2, w)
    BY ONLY <2>5
  <2> QED
    BY <2>1, <2>2, <2>6 DEF Bits, Number
<1>3. \A w, n \in Nat : n < Power(2, w) => Number(Bits(n, w)) = n
  BY <1>1, DigitsRoundTrip DEF Bits, Number
<1> QED
  BY <1>2, <1>3

\* A field of the first or of the second of two parts.
LEMMA FieldOfConcat ==
    ASSUME NEW m \in Nat, NEW n \in Nat, NEW a, NEW b, BitString(a, m), BitString(b, n),
           NEW i \in Nat, NEW w \in Nat
    PROVE  /\ i + w <= m => Field(a \o b, i, w) = Field(a, i, w)
           /\ i + w <= n => Field(a \o b, m + i, w) = Field(b, i, w)
<1> DEFINE B == 0..1
<1>1. a \in Seq(B) /\ b \in Seq(B)
  BY DEF BitString
<1>2. Len(a) = m /\ Len(b) = n
  BY DEF BitString
<1> HIDE DEF B
<1>3. i + w \in Nat /\ i <= i + w /\ (m + i) + w = m + (i + w)
  OBVIOUS
<1>4. /\ i + w <= Len(a) => SubSeq(a \o b, i + 1, i + w) = SubSeq(a, i + 1, i + w)
      /\ i + w <= Len(b) => SubSeq(a \o b, Len(a) + i + 1, Len(a) + (i + w)) = SubSeq(b, i + 1, i + w)
  BY <1>1, <1>3, PartOfConcat
<1> QED
  BY <1>2, <1>3, <1>4 DEF Field

\* All bits are a field.
LEMMA FieldOfAll ==
    ASSUME NEW n \in Nat, NEW b, BitString(b, n)
    PROVE  Field(b, 0, n) = Number(b)
<1> DEFINE B == 0..1
<1>1. b \in Seq(B)
  BY DEF BitString
<1>2. Len(b) = n /\ 0 + 1 = 1 /\ 0 + n = n
  BY DEF BitString
<1> HIDE DEF B
<1>3. SubSeq(b, 1, Len(b)) = b
  BY <1>1
<1> QED
  BY <1>2, <1>3 DEF Field

\* Packing keeps the bits, when they are whole groups.
LEMMA PackFacts ==
    ASSUME NEW w \in Nat, w >= 1, NEW n \in Nat, NEW b, BitString(b, n * w)
    PROVE  /\ Pack(b, w) \in Seq(0..(Power(2, w) - 1)) /\ Len(Pack(b, w)) = n
           /\ Unpack(Pack(b, w), w) = b
<1> DEFINE B == 0..1
           part(k) == SubSeq(b, (k - 1) * w + 1, (k - 1) * w + w)
           p == Pack(b, w)
<1>1. b \in Seq(B)
  BY DEF BitString
<1>2. Len(b) = n * w /\ n * w \in Nat
  BY DEF BitString
<1>3. Len(b) \div w = n
  <2>1. ASSUME NEW x \in Nat, x = n * w PROVE x \div w = n
    <3>1. x \div w \in Nat /\ x = w * (x \div w) + (x % w) /\ x % w \in 0..(w - 1)
      BY <2>1
    <3> DEFINE y == x \div w
               r == x % w
    <3>2. y \in Nat /\ r \in 0..(w - 1) /\ n * w = w * y + r
      BY <2>1, <3>1
    <3> HIDE DEF y, r
    <3>3. (n - y) * w = r /\ n - y \in Int
      <4>1. (n - y) * w = n * w - w * y /\ n * w \in Int /\ w * y \in Int
        BY <3>2
      <4> QED
        BY <3>2, <4>1
    <3>4. -w < (n - y) * w /\ (n - y) * w < w
      BY <3>2, <3>3
    <3>5. n - y = 0
      BY <3>3, <3>4, NoMultiple
    <3>6. n = y
      BY <3>2, <3>5
    <3> QED
      BY <3>6 DEF y
  <2> QED
    BY <1>2, <2>1
<1>4. ASSUME NEW k \in 1..n
      PROVE  /\ (k - 1) * w \in Nat /\ (k - 1) * w + w <= n * w
             /\ BitString(part(k), w)
             /\ \A j \in 1..w : part(k)[j] = b[(k - 1) * w + j]
  <2> DEFINE f == (k - 1) * w
  <2>1. f \in Nat /\ f + w = k * w /\ k * w <= n * w
    <3>1. k - 1 \in Nat /\ n - k \in Nat
      OBVIOUS
    <3>2. (k - 1) * w \in Nat /\ (k - 1) * w + w = k * w /\ (n - k) * w \in Nat /\ n * w = (n - k) * w + k * w
          /\ k * w \in Nat
      BY <3>1
    <3> QED
      BY <3>2
  <2> HIDE DEF f
  <2>2. f + w \in Nat /\ f <= f + w /\ f + w <= Len(b) /\ (f + w) - f = w
    BY <1>2, <2>1
  <2> HIDE DEF B
  <2>3. /\ SubSeq(b, f + 1, f + w) \in Seq(B) /\ Len(SubSeq(b, f + 1, f + w)) = (f + w) - f
        /\ \A i \in 1..((f + w) - f) : SubSeq(b, f + 1, f + w)[i] = b[f + i]
    BY <1>1, <2>1, <2>2, PartFacts
  <2> QED
    BY <1>2, <2>1, <2>2, <2>3 DEF B, f, BitString
<1> HIDE DEF B
<1>5. \A k \in 1..n : Field(b, (k - 1) * w, w) = Number(part(k))
  BY DEF Field
<1> DEFINE D == 0..(Power(2, w) - 1)
<1>6. \A k \in 1..n : Number(part(k)) \in D /\ Bits(Number(part(k)), w) = part(k)
  <2> SUFFICES ASSUME NEW k \in 1..n PROVE Number(part(k)) \in D /\ Bits(Number(part(k)), w) = part(k)
    OBVIOUS
  <2>1. BitString(part(k), w)
    BY <1>4
  <2>2. Number(part(k)) \in Nat /\ Number(part(k)) < Power(2, w) /\ Bits(Number(part(k)), w) = part(k)
    BY <2>1, NumberOfBits
  <2>3. 2 \in Nat
    OBVIOUS
  <2>4. Power(2, w) \in Nat
    BY <2>3, PowerUnfolds
  <2> QED
    BY <2>2, <2>4
<1> HIDE DEF part, D
<1>7. p = [k \in 1..n |-> Number(part(k))]
  BY <1>3, <1>5 DEF Pack
<1>8. p \in [1..n -> D]
  BY <1>6, <1>7
<1>9. p \in Seq(D) /\ Len(p) = n
  BY <1>8
<1> DEFINE u == Unpack(p, w)
           q(i) == (i - 1) \div w
           r(i) == (i - 1) % w
<1>10. u = [i \in 1..(n * w) |-> Bits(p[q(i) + 1], w)[r(i) + 1]]
  BY <1>9 DEF Unpack
<1> HIDE DEF p
<1>11. ASSUME NEW i \in 1..(n * w) PROVE Bits(p[q(i) + 1], w)[r(i) + 1] = b[i]
  <2>1. i - 1 \in Nat /\ i - 1 < n * w
    BY <1>2
  <2>2. q(i) \in Nat /\ i - 1 = w * q(i) + r(i) /\ r(i) \in 0..(w - 1)
    BY <2>1
  <2> DEFINE k == q(i) + 1
             j == r(i) + 1
  <2> HIDE DEF q, r
  <2>3. q(i) < n
    <3> SUFFICES ASSUME q(i) >= n PROVE FALSE
      BY <2>2
    <3>1. q(i) - n \in Nat /\ w * q(i) = w * (q(i) - n) + n * w
      BY <2>2
    <3>2. w * (q(i) - n) \in Nat
      BY <3>1
    <3> QED
      BY <1>2, <2>1, <2>2, <3>1, <3>2
  <2>4. k \in 1..n /\ j \in 1..w /\ k - 1 = q(i)
    BY <2>2, <2>3
  <2>5. (k - 1) * w + j = i
    <3>1. (k - 1) * w = w * q(i) /\ w * q(i) \in Nat
      BY <2>2, <2>4
    <3> QED
      BY <2>1, <2>2, <3>1
  <2> HIDE DEF k, j
  <2>6. p[k] = Number(part(k))
    BY <1>7, <2>4
  <2>7. Bits(p[k], w)[j] = b[(k - 1) * w + j]
    BY <1>4, <1>6, <2>4, <2>6
  <2> QED
    BY <2>5, <2>7 DEF k, j
<1>12. u = [i \in 1..(n * w) |-> b[i]]
  BY <1>10, <1>11
<1>13. b = [i \in 1..(n * w) |-> b[i]]
  <2>1. b = [i \in 1..Len(b) |-> b[i]]
    BY <1>1
  <2> QED
    BY <1>2, <2>1
<1> QED
  BY <1>9, <1>12, <1>13 DEF p, D

-----------------------------------------------------------------------------
(* Dates and times                                                         *)

\* The powers of two that are met.
LEMMA PowersOfTwo ==
    /\ Power(2, 3) = 8 /\ Power(2, 4) = 16 /\ Power(2, 5) = 32 /\ Power(2, 6) = 64
    /\ Power(2, 10) = 1024 /\ Power(2, 15) = 32768 /\ Power(2, 20) = 1048576
    /\ Power(2, 30) = 1073741824
<1>1. 2 \in Nat /\ 2 >= 2
  OBVIOUS
<1>2. \A k \in Nat : Power(2, k + 1) = 2 * Power(2, k)
  BY <1>1, PowerUnfolds
<1>3. \A x, y \in Nat : Power(2, x + y) = Power(2, x) * Power(2, y)
  BY <1>1, PowerAdds
<1>4. Power(2, 0) = 1
  BY <1>1, PowerUnfolds
<1>5. Power(2, 0 + 1) = 2 * Power(2, 0) /\ Power(2, 1 + 1) = 2 * Power(2, 1)
  BY <1>2
<1>6. Power(2, 1) = 2 /\ Power(2, 2) = 4
  BY <1>4, <1>5
<1>7. Power(2, 2 + 1) = 2 * Power(2, 2) /\ Power(2, 3 + 1) = 2 * Power(2, 3)
      /\ Power(2, 4 + 1) = 2 * Power(2, 4) /\ Power(2, 5 + 1) = 2 * Power(2, 5)
  BY <1>2
<1>8. Power(2, 3) = 8 /\ Power(2, 4) = 16 /\ Power(2, 5) = 32 /\ Power(2, 6) = 64
  BY <1>6, <1>7
<1>9. /\ Power(2, 5 + 5) = Power(2, 5) * Power(2, 5) /\ Power(2, 10 + 5) = Power(2, 10) * Power(2, 5)
      /\ Power(2, 10 + 10) = Power(2, 10) * Power(2, 10) /\ Power(2, 20 + 10) = Power(2, 20) * Power(2, 10)
  BY <1>3
<1>10. Power(2, 10) = 1024
  BY <1>8, <1>9
<1>11. Power(2, 15) = 32768 /\ Power(2, 20) = 1048576
  BY <1>8, <1>9, <1>10
<1>12. Power(2, 30) = 1073741824
  BY <1>9, <1>10, <1>11
<1> QED
  BY <1>8, <1>10, <1>11, <1>12

\* The fields of a date.
LEMMA DateFields ==
    ASSUME NEW v, v.day \in 1..31, v.month \in 1..12, v.year \in Int
    PROVE  /\ BitString(encodeDate(v), 24)
           /\ Field(encodeDate(v), 0, 5) = v.day /\ Field(encodeDate(v), 5, 4) = v.month
           /\ Field(encodeDate(v), 9, 15) = Number(Bits(v.year, 15))
           /\ Number(Bits(v.year, 15)) \in Nat
           /\ v.year \in Nat /\ v.year <= 16383 => Number(Bits(v.year, 15)) = v.year
<1> DEFINE a == Bits(v.day, 5)
           b == Bits(v.month, 4)
           c == Bits(v.year, 15)
<1>1. BitString(a, 5) /\ BitString(b, 4) /\ BitString(c, 15)
  BY BitStrings
<1>2. Number(a) = v.day /\ Number(b) = v.month /\ (v.year \in Nat /\ v.year <= 16383 => Number(c) = v.year)
  <2>1. v.day \in Nat /\ v.day < Power(2, 5) /\ v.month \in Nat /\ v.month < Power(2, 4)
    BY PowersOfTwo
  <2>2. v.year \in Nat /\ v.year <= 16383 => v.year < Power(2, 15)
    BY PowersOfTwo
  <2> QED
    BY <2>1, <2>2, NumberOfBits
<1>3. Number(c) \in Nat
  BY <1>1, NumberOfBits
<1> HIDE DEF a, b, c
<1>4. BitString(a \o b, 9) /\ BitString((a \o b) \o c, 24)
  <2>1. BitString(a \o b, 5 + 4)
    BY <1>1, BitStrings
  <2>2. BitString(a \o b, 9)
    BY <2>1
  <2>3. BitString((a \o b) \o c, 9 + 15)
    BY <1>1, <2>2, BitStrings
  <2> QED
    BY <2>2, <2>3
<1>5. Field((a \o b) \o c, 0, 5) = Number(a)
  <2>1. Field((a \o b) \o c, 0, 5) = Field(a \o b, 0, 5)
    BY <1>1, <1>4, FieldOfConcat
  <2>2. Field(a \o b, 0, 5) = Field(a, 0, 5)
    BY <1>1, FieldOfConcat
  <2>3. Field(a, 0, 5) = Number(a)
    BY <1>1, FieldOfAll
  <2> QED
    BY <2>1, <2>2, <2>3
<1>6. Field((a \o b) \o c, 5, 4) = Number(b)
  <2>1. Field((a \o b) \o c, 5, 4) = Field(a \o b, 5, 4)
    BY <1>1, <1>4, FieldOfConcat
  <2>2. Field(a \o b, 5 + 0, 4) = Field(b, 0, 4)
    BY <1>1, FieldOfConcat
  <2>3. Field(b, 0, 4) = Number(b)
    BY <1>1, FieldOfAll
  <2> QED
    BY <2>1, <2>2, <2>3
<1>7. Field((a \o b) \o c, 9, 15) = Number(c)
  <2>1. Field((a \o b) \o c, 9 + 0, 15) = Field(c, 0, 15)
    BY <1>1, <1>4, FieldOfConcat
  <2>2. Field(c, 0, 15) = Number(c)
    BY <1>1, FieldOfAll
  <2> QED
    BY <2>1, <2>2
<1> QED
  BY <1>2, <1>3, <1>4, <1>5, <1>6, <1>7 DEF encodeDate, a, b, c

\* The fields of the clock.
LEMMA ClockFields ==
    ASSUME NEW secs \in Nat, secs < Day
    PROVE  /\ BitString(clockBits(secs), 17)
           /\ Field(clockBits(secs), 0, 6) = secs % 60
           /\ Field(clockBits(secs), 6, 6) = (secs \div 60) % 60
           /\ Field(clockBits(secs), 12, 5) = secs \div Hour
<1> DEFINE a == Bits(secs % 60, 6)
           b == Bits((secs \div 60) % 60, 6)
           c == Bits(secs \div Hour, 5)
<1>1. /\ secs % 60 \in Nat /\ secs % 60 < 64
      /\ (secs \div 60) % 60 \in Nat /\ (secs \div 60) % 60 < 64
      /\ secs \div Hour \in Nat /\ secs \div Hour < 32
  BY DEF Hour, Day
<1>2. BitString(a, 6) /\ BitString(b, 6) /\ BitString(c, 5)
  BY <1>1, BitStrings
<1>3. Number(a) = secs % 60 /\ Number(b) = (secs \div 60) % 60 /\ Number(c) = secs \div Hour
  <2>1. \A n \in Nat : (n < 64 => Number(Bits(n, 6)) = n) /\ (n < 32 => Number(Bits(n, 5)) = n)
    BY PowersOfTwo, NumberOfBits
  <2> QED
    BY ONLY <1>1, <2>1
<1> HIDE DEF a, b, c
<1>4. BitString(a \o b, 12) /\ BitString((a \o b) \o c, 17)
  <2>1. BitString(a \o b, 6 + 6)
    BY <1>2, BitStrings
  <2>2. BitString(a \o b, 12)
    BY <2>1
  <2>3. BitString((a \o b) \o c, 12 + 5)
    BY <1>2, <2>2, BitStrings
  <2> QED
    BY <2>2, <2>3
<1>5. Field((a \o b) \o c, 0, 6) = Number(a)
  <2>1. Field((a \o b) \o c, 0, 6) = Field(a \o b, 0, 6)
    BY <1>2, <1>4, FieldOfConcat
  <2>2. Field(a \o b, 0, 6) = Field(a, 0, 6)
    BY <1>2, FieldOfConcat
  <2>3. Field(a, 0, 6) = Number(a)
    BY <1>2, FieldOfAll
  <2> QED
    BY <2>1, <2>2, <2>3
<1>6. Field((a \o b) \o c, 6, 6) = Number(b)
  <2>1. Field((a \o b) \o c, 6, 6) = Field(a \o b, 6, 6)
    BY <1>2, <1>4, FieldOfConcat
  <2>2. Field(a \o b, 6 + 0, 6) = Field(b, 0, 6)
    BY <1>2, FieldOfConcat
  <2>3. Field(b, 0, 6) = Number(b)
    BY <1>2, FieldOfAll
  <2> QED
    BY <2>1, <2>2, <2>3
<1>7. Field((a \o b) \o c, 12, 5) = Number(c)
  <2>1. Field((a \o b) \o c, 12 + 0, 5) = Field(c, 0, 5)
    BY <1>2, <1>4, FieldOfConcat
  <2>2. Field(c, 0, 5) = Number(c)
    BY <1>2, FieldOfAll
  <2> QED
    BY <2>1, <2>2
<1> QED
  BY <1>3, <1>4, <1>5, <1>6, <1>7 DEF clockBits, a, b, c

\* Seconds, minutes and hours are the second of the day.
LEMMA ClockSum ==
    ASSUME NEW secs \in Nat, NEW x, x = secs % 60, NEW y, y = (secs \div 60) % 60,
           NEW z, z = secs \div Hour
    PROVE  x + 60 * y + Hour * z = secs
<1> DEFINE q == secs \div 60
<1>1. q \in Nat /\ secs = 60 * q + x /\ x \in Nat
  OBVIOUS
<1>2. z = q \div 60 /\ y = q % 60
  BY DEF Hour
<1> HIDE DEF q
<1>3. q = 60 * (q \div 60) + (q % 60) /\ q \div 60 \in Nat /\ q % 60 \in Nat
  BY <1>1
<1>4. q = 60 * z + y /\ z \in Nat /\ y \in Nat
  BY <1>2, <1>3
<1> QED
  BY <1>1, <1>4 DEF Hour

IsTime(t, a, secs, z) == t = (a \o clockBits(secs)) \o z

\* The fields of a time with a fraction of f bits.
LEMMA TimeFields ==
    ASSUME NEW f \in Nat, NEW k \in Nat, NEW a, BitString(a, f), NEW z, BitString(z, k),
           NEW secs \in Nat, secs < Day, NEW t, IsTime(t, a, secs, z)
    PROVE  /\ BitString(t, f + 17 + k)
           /\ Field(t, 0, f) = Number(a)
           /\ Field(t, f, 6) + 60 * Field(t, f + 6, 6) + Hour * Field(t, f + 12, 5) = secs
           /\ SubSeq(t, f + 1, f + 17) = clockBits(secs)
<1> DEFINE c == clockBits(secs)
<1>1. /\ BitString(c, 17) /\ Field(c, 0, 6) = secs % 60 /\ Field(c, 6, 6) = (secs \div 60) % 60
      /\ Field(c, 12, 5) = secs \div Hour
  BY ClockFields
<1> HIDE DEF c
<1>2. t = (a \o c) \o z
  BY DEF c, IsTime
<1>3. BitString(a \o c, f + 17) /\ f + 17 \in Nat
  BY <1>1, BitStrings
<1>4. BitString(t, f + 17 + k)
  BY <1>2, <1>3, BitStrings
<1>5. \A i, w \in Nat : i + w <= f + 17 => Field(t, i, w) = Field(a \o c, i, w)
  BY <1>2, <1>3, FieldOfConcat
<1>6. \A i, w \in Nat : i + w <= 17 => Field(a \o c, f + i, w) = Field(c, i, w)
  BY <1>1, FieldOfConcat
<1>7. Field(t, 0, f) = Number(a)
  <2>1. Field(t, 0, f) = Field(a \o c, 0, f)
    BY <1>5
  <2>2. Field(a \o c, 0, f) = Field(a, 0, f)
    BY <1>1, FieldOfConcat
  <2>3. Field(a, 0, f) = Number(a)
    BY FieldOfAll
  <2> QED
    BY <2>1, <2>2, <2>3
<1>8. Field(t, f, 6) = Field(c, 0, 6) /\ Field(t, f + 6, 6) = Field(c, 6, 6) /\ Field(t, f + 12, 5) = Field(c, 12, 5)
  <2>1. /\ Field(t, f, 6) = Field(a \o c, f, 6) /\ Field(t, f + 6, 6) = Field(a \o c, f + 6, 6)
        /\ Field(t, f + 12, 5) = Field(a \o c, f + 12, 5)
    BY <1>5
  <2>2. /\ Field(a \o c, f + 0, 6) = Field(c, 0, 6) /\ Field(a \o c, f + 6, 6) = Field(c, 6, 6)
        /\ Field(a \o c, f + 12, 5) = Field(c, 12, 5)
    BY <1>6
  <2>3. f + 0 = f
    OBVIOUS
  <2> QED
    BY <2>1, <2>2, <2>3
<1>10. SubSeq(t, f + 1, f + 17) = c
  <2> DEFINE B == 0..1
  <2>1. a \in Seq(B) /\ c \in Seq(B) /\ z \in Seq(B) /\ a \o c \in Seq(B)
    BY <1>1, <1>3 DEF BitString
  <2>2. Len(a) = f /\ Len(c) = 17 /\ Len(a \o c) = f + 17
    BY <1>1, <1>3 DEF BitString
  <2> HIDE DEF B
  <2>3. f + 17 <= Len(a \o c) => SubSeq((a \o c) \o z, f + 1, f + 17) = SubSeq(a \o c, f + 1, f + 17)
    BY <1>3, <2>1, PartOfConcat
  <2>4. SubSeq(a \o c, Len(a) + 1, Len(a \o c)) = c
    BY <2>1, SuffixFacts
  <2> QED
    BY <1>2, <1>3, <2>2, <2>3, <2>4
<1>11. Field(t, f, 6) + 60 * Field(t, f + 6, 6) + Hour * Field(t, f + 12, 5) = secs
  BY <1>1, <1>8, ClockSum
<1>12. SubSeq(t, f + 1, f + 17) = clockBits(secs)
  BY <1>10 DEF c
<1> QED
  BY <1>4, <1>7, <1>11, <1>12

\* A time of day.
IsClock(secs, nsec) == secs \in Nat /\ secs < Day /\ nsec \in Nat /\ nsec < Billion

\* A date is 24 bits, a time 48.
LEMMA TimesFacts ==
    /\ \A v : v.day \in 1..31 /\ v.month \in 1..12 /\ v.year \in Int => BitString(encodeDate(v), 24)
    /\ \A v : IsClock(v.secs, v.nsec) =>
          /\ BitString(Bits(v.nsec, 30), 30) /\ BitString(<<0>>, 1)
          /\ IsTime(encodeTime(v), Bits(v.nsec, 30), v.secs, <<0>>)
          /\ BitString(encodeTime(v), 48)
<1>1. \A v : v.day \in 1..31 /\ v.month \in 1..12 /\ v.year \in Int => BitString(encodeDate(v), 24)
  BY DateFields
<1>2. ASSUME NEW v, IsClock(v.secs, v.nsec)
      PROVE  /\ BitString(Bits(v.nsec, 30), 30) /\ BitString(<<0>>, 1)
             /\ IsTime(encodeTime(v), Bits(v.nsec, 30), v.secs, <<0>>)
             /\ BitString(encodeTime(v), 48)
  <2>1. v.secs \in Nat /\ v.secs < Day /\ v.nsec \in Int /\ 30 \in Nat /\ 1 \in Nat /\ 30 + 17 + 1 = 48
    BY <1>2 DEF IsClock
  <2>2. BitString(Bits(v.nsec, 30), 30) /\ BitString(<<0>>, 1)
    BY <2>1, BitStrings
  <2>3. IsTime(encodeTime(v), Bits(v.nsec, 30), v.secs, <<0>>)
    BY DEF IsTime, encodeTime
  <2>4. BitString(encodeTime(v), 30 + 17 + 1)
    BY <2>1, <2>2, <2>3, TimeFields
  <2> QED
    BY <2>1, <2>2, <2>3, <2>4
<1> QED
  BY <1>1, <1>2

\* The year, by the bit that has its sign.
LEMMA YearSign ==
    ASSUME NEW v, v.year \in Int, v.month \in 1..12, v.day \in 1..31, DateInRange(v)
    PROVE  /\ encodeDate(v)[24] \in 0..1
           /\ Field(encodeDate(v), 9, 15) - 32768 * encodeDate(v)[24] = v.year
<1>1. PICK y \in Int, w \in Nat : y = v.year /\ w = 15
  OBVIOUS
<1>2. PICK b : b = Bits(y, w)
  OBVIOUS
<1>3. BitString(b, w) /\ b = Digits(y, 2, w)
  BY <1>1, <1>2, BitStrings DEF Bits
<1>4. PICK h \in Nat : h = Power(2, 14) /\ Power(2, w) = 2 * h /\ -h <= y /\ y < h
  <2>1. Power(2, 14 + 1) = 2 * Power(2, 14) /\ Power(2, 14) \in Nat
    <3>1. 2 \in Nat /\ 2 >= 2 /\ 14 \in Nat
      OBVIOUS
    <3> QED
      BY <3>1, PowerGrows
  <2>2. 2 * Power(2, 14) = 32768
    BY <1>1, <2>1, PowersOfTwo
  <2>3. Power(2, 14) = 16384
    BY <2>1, <2>2
  <2>4. -16384 <= y /\ y < 16384
    BY <1>1 DEF DateInRange
  <2> QED
    BY <1>1, <2>1, <2>3, <2>4
<1>5. PICK s : s = Reversed(b)
  OBVIOUS
<1>6. s \in Seq(0..(2 - 1)) /\ Len(s) = w /\ s[1] = b[w] /\ b[w] \in 0..1
  <2>1. b \in Seq(0..1) /\ Len(b) = w /\ 1 \in 1..w
    BY <1>1, <1>3 DEF BitString
  <2>2. s \in Seq(0..1) /\ Len(s) = w /\ s[1] = b[w + 1 - 1]
    BY <1>5, <2>1, ReversedFacts
  <2>3. w + 1 - 1 = w /\ 2 - 1 = 1 /\ w \in 1..w
    BY <1>1
  <2> QED
    BY <2>1, <2>2, <2>3
<1>7. SignedValue(s, 2) = y
  <2>1. 2 \in Nat /\ 1 \in Nat /\ 1 >= 1 /\ 2 = 2 * 1 /\ w >= 1
    BY <1>1
  <2>2. SignedValue(Reversed(Digits(y, 2, w)), 2) = y
          <=> -(Power(2, w) \div 2) <= y /\ y < Power(2, w) \div 2
    BY <2>1, SignedDigits
  <2>3. Power(2, w) \div 2 = h
    BY <1>4
  <2> QED
    BY <1>3, <1>4, <1>5, <2>2, <2>3
<1>8. SignedValue(s, 2) = Value(s, 2) - IF s[1] >= 1 THEN Power(2, Len(s)) ELSE 0
  <2>1. 2 \in Nat /\ 1 \in Nat /\ 1 >= 1 /\ 2 = 2 * 1 /\ Len(s) >= 1
    BY <1>1, <1>6
  <2> QED
    BY <1>6, <2>1, SignedValueFacts
<1>9. Number(b) = Value(s, 2) /\ Number(b) \in Nat
  <2>1. Number(b) = Value(s, 2)
    BY <1>5 DEF Number
  <2> QED
    BY <1>1, <1>3, <2>1, NumberOfBits
<1>10. Number(b) - Power(2, w) * b[w] = y
  <2>1. CASE b[w] = 0
    <3>1. ~(s[1] >= 1)
      BY <1>6, <2>1
    <3>2. y = Number(b) - 0
      BY <1>7, <1>8, <1>9, <3>1
    <3>3. Power(2, w) * b[w] = 0
      BY <1>4, <2>1
    <3> QED
      BY <1>9, <3>2, <3>3
  <2>2. CASE b[w] = 1
    <3>1. s[1] >= 1
      BY <1>6, <2>2
    <3>2. y = Number(b) - Power(2, w)
      BY <1>6, <1>7, <1>8, <1>9, <3>1
    <3>3. Power(2, w) * b[w] = Power(2, w)
      BY <1>4, <2>2
    <3> QED
      BY <3>2, <3>3
  <2> QED
    BY <1>6, <2>1, <2>2
<1>11. encodeDate(v)[24] = b[w]
  <2>1. PICK a, c : a = Bits(v.day, 5) /\ c = Bits(v.month, 4)
    OBVIOUS
  <2>2. BitString(a, 5) /\ BitString(c, 4)
    BY <2>1, BitStrings
  <2>3. BitString(a \o c, 5 + 4)
    BY <2>2, BitStrings
  <2>4. PICK u \in Nat : u = 5 + 4
    OBVIOUS
  <2>5. a \o c \in Seq(0..1) /\ Len(a \o c) = u /\ b \in Seq(0..1) /\ Len(b) = w /\ w \in 1..w
    BY <1>1, <1>3, <2>3, <2>4 DEF BitString
  <2>6. ((a \o c) \o b)[u + w] = b[w]
    BY <2>5, ConcatFacts
  <2>7. u + w = 24 /\ encodeDate(v) = (a \o c) \o b
    BY <1>1, <1>2, <2>1, <2>4 DEF encodeDate
  <2> QED
    BY <2>6, <2>7
<1>12. Field(encodeDate(v), 9, 15) = Number(b)
  BY <1>1, <1>2, DateFields
<1>13. Power(2, w) = 32768
  BY <1>1, PowersOfTwo
<1> QED
  BY <1>6, <1>10, <1>11, <1>12, <1>13, <1>1

=============================================================================
