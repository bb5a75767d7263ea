---------------------------- MODULE ParsingProofs ----------------------------
(* Proofs about the reading and writing of elements: about the codec       *)
(* (Ebml, Webm, Arrival, Wire), for bytes of any size, and about the       *)
(* parser that uses it (StreamParser), for every stream and every way to   *)
(* cut it.                                                                 *)
EXTENDS StreamParser, Wire, Arrival, SequenceTheorems, WellFoundedInduction, TLAPS

-----------------------------------------------------------------------------
(* A set of numbers that is not empty has a least element, since less-than *)
(* is well founded. Induction over data is done with it: by the least case *)
(* in which what is to be shown fails.                                     *)
LEMMA LeastNumber ==
  ASSUME NEW T \in SUBSET Nat, T # {}
  PROVE  \E m \in T : \A n \in T : m <= n
<1> DEFINE R == OpToRel(<, Nat)
<1>1. IsWellFoundedOn(R, Nat)
  BY NatLessThanWellFounded
<1> HIDE DEF R
<1>2. PICK m \in T : \A n \in T : ~(<<n, m>> \in R)
  BY <1>1, WFMin
<1>3. ASSUME NEW n \in T PROVE m <= n
  <2>1. n \in Nat /\ m \in Nat
    OBVIOUS
  <2>2. n < m => <<n, m>> \in R
    BY <2>1 DEF R, OpToRel
  <2> QED
    BY <1>2, <2>1, <2>2
<1> QED
  BY <1>3

-----------------------------------------------------------------------------
(* The two recursive functions of Ebml have the form f[0] = z,             *)
(* f[i] = f[i - 1] * a + w[i]; such a function exists, up to any number,   *)
(* by the least number for which it would not.                             *)
Recursion(g, z, a, w, n) ==
  g[0] = z /\ \A i \in 1..n : g[i] = g[i - 1] * a + w[i]

LEMMA RecursionExists ==
  ASSUME NEW z \in Nat, NEW a \in Nat, NEW n \in Nat, NEW w \in [1..n -> Nat]
  PROVE  \E g \in [0..n -> Nat] : Recursion(g, z, a, w, n)
<1> DEFINE Ok(g, m) == g[0] = z /\ \A i \in 1..m : g[i] = g[i - 1] * a + w[i]
           Has(m) == \E g \in [0..m -> Nat] : Ok(g, m)
           T == {m \in 0..n : ~Has(m)}
<1>1. T = {}
  <2>1. SUFFICES ASSUME T # {} PROVE FALSE
    BY <2>1
  <2> HIDE DEF Has
  <2>2. PICK m \in T : \A k \in T : m <= k
    <3>1. T \in SUBSET Nat
      OBVIOUS
    <3> QED
      BY <2>1, <3>1, LeastNumber
  <2>3. m \in 0..n /\ ~Has(m) /\ (m # 0 => Has(m - 1))
    BY <2>2
  <2> HIDE DEF T
  <2>4. m # 0
    <3>1. [k \in 0..0 |-> z] \in [0..0 -> Nat] /\ Ok([k \in 0..0 |-> z], 0)
      OBVIOUS
    <3>2. Has(0)
      BY <3>1 DEF Has
    <3> QED
      BY <2>3, <3>2
  <2>5. m - 1 \in Nat /\ m - 1 \in 0..m - 1 /\ m \in 1..n
    BY <2>3, <2>4
  <2>6. PICK g \in [0..m - 1 -> Nat] : Ok(g, m - 1)
    BY <2>3, <2>4 DEF Has
  <2> DEFINE new == g[m - 1] * a + w[m]
             h == [k \in 0..m |-> IF k = m THEN new ELSE g[k]]
  <2>7. new \in Nat
    <3>1. \A x, y, v \in Nat : x * y + v \in Nat
      OBVIOUS
    <3>2. g[m - 1] \in Nat /\ w[m] \in Nat
      BY <2>5
    <3> QED
      BY <3>1, <3>2
  <2>8. h \in [0..m -> Nat]
    <3>1. \A k \in 0..m : k # m => k \in 0..m - 1
      BY <2>3
    <3> QED
      BY <2>7, <3>1
  <2>9. h[0] = z
    BY <2>3, <2>4, <2>6
  <2>10. ASSUME NEW k \in 1..m PROVE h[k] = h[k - 1] * a + w[k]
    <3>1. k - 1 \in 0..m /\ k - 1 # m /\ k \in 0..m
      BY <2>3
    <3>2. CASE k = m
      BY <3>1, <3>2
    <3>3. CASE k # m
      <4>1. k \in 1..m - 1
        BY <2>3, <3>3
      <4>2. g[k] = g[k - 1] * a + w[k]
        BY <2>6, <4>1
      <4> QED
        BY <3>1, <3>3, <4>2
    <3> QED
      BY <3>2, <3>3
  <2> HIDE DEF h, new
  <2>11. Ok(h, m)
    BY <2>9, <2>10
  <2> QED
    BY <2>3, <2>8, <2>11 DEF Has
<1> HIDE DEF Has
<1>2. n \in 0..n
  OBVIOUS
<1>3. Has(n)
  BY <1>1, <1>2
<1> QED
  BY <1>3 DEF Has, Recursion

-----------------------------------------------------------------------------
(* Such a function on all numbers exists: it is put together from those    *)
(* below each number, which agree.                                         *)
LEMMA PowExists ==
  \E f \in [Nat -> Nat] : f = [n \in Nat |-> IF n = 0 THEN 1 ELSE 2 * f[n - 1]]
<1> DEFINE Ok(g, n) == g[0] = 1 /\ \A k \in 1..n : g[k] = 2 * g[k - 1]
<1>1. ASSUME NEW n \in Nat PROVE \E g \in [0..n -> Nat] : Ok(g, n)
  <2> DEFINE w == [i \in 1..n |-> 0]
  <2>1. w \in [1..n -> Nat]
    OBVIOUS
  <2>2. \A i \in 1..n : w[i] = 0
    OBVIOUS
  <2> HIDE DEF w
  <2>3. PICK g \in [0..n -> Nat] :
             Recursion(g, 1, 2, w, n)
    BY <2>1, RecursionExists
  <2>4. g[0] = 1
    BY <2>3 DEF Recursion
  <2>5. ASSUME NEW k \in 1..n PROVE g[k] = 2 * g[k - 1]
    <3>1. k \in 0..n /\ k # 0 /\ k - 1 \in 0..n
      OBVIOUS
    <3>2. g[k] = g[k - 1] * 2 + w[k]
      BY <2>3, <3>1 DEF Recursion
    <3>3. g[k - 1] \in Nat /\ w[k] = 0
      BY <2>2, <3>1
    <3> QED
      BY <3>2, <3>3
  <2> QED
    BY <2>4, <2>5
<1>2. ASSUME NEW n \in Nat, NEW g, Ok(g, n), NEW h, Ok(h, n + 1)
      PROVE  g[n] = h[n]
  <2> DEFINE D == {k \in Nat : k <= n /\ g[k] # h[k]}
  <2>1. SUFFICES ASSUME D # {} PROVE FALSE
    BY <2>1
  <2>2. PICK m \in D : \A k \in D : m <= k
    BY <2>1, LeastNumber
  <2>3. m # 0
    BY <1>2, <2>2
  <2>4. m - 1 \in Nat /\ m - 1 <= n /\ m - 1 \notin D /\ m \in 1..n /\ m \in 1..n + 1
    BY <2>2, <2>3
  <2>5. g[m - 1] = h[m - 1]
    BY <2>4
  <2>6. g[m] = 2 * g[m - 1] /\ h[m] = 2 * h[m - 1]
    BY <1>2, <2>4
  <2> QED
    BY <2>2, <2>5, <2>6
<1> HIDE DEF Ok
<1> DEFINE G(n) == CHOOSE g \in [0..n -> Nat] : Ok(g, n)
           f == [n \in Nat |-> G(n)[n]]
<1>3. \A n \in Nat : G(n) \in [0..n -> Nat] /\ Ok(G(n), n)
  BY <1>1
<1> HIDE DEF G
<1>4. f \in [Nat -> Nat]
  <2>1. \A n \in Nat : n \in 0..n
    OBVIOUS
  <2> QED
    BY <1>3, <2>1
<1>5. ASSUME NEW n \in Nat PROVE f[n] = IF n = 0 THEN 1 ELSE 2 * f[n - 1]
  <2>1. CASE n = 0
    BY <1>3, <2>1 DEF Ok
  <2>2. CASE n # 0
    <3>1. n - 1 \in Nat /\ n \in 1..n /\ (n - 1) + 1 = n
      BY <2>2
    <3>2. G(n)[n] = 2 * G(n)[n - 1]
      BY <1>3, <3>1 DEF Ok
    <3>3. G(n - 1)[n - 1] = G(n)[n - 1]
      BY <1>2, <1>3, <3>1
    <3> QED
      BY <2>2, <3>1, <3>2, <3>3
  <2> QED
    BY <2>1, <2>2
<1> HIDE DEF f
<1>6. f = [n \in Nat |-> IF n = 0 THEN 1 ELSE 2 * f[n - 1]]
  BY <1>4, <1>5
<1> QED
  BY <1>4, <1>6

(* What the definition of Pow2 says.                                       *)
LEMMA PowStep ==
  /\ Pow2[0] = 1
  /\ \A n \in Nat : Pow2[n + 1] = 2 * Pow2[n]
<1>1. Pow2 = [n \in Nat |-> IF n = 0 THEN 1 ELSE 2 * Pow2[n - 1]]
  BY PowExists DEF Pow2
<1>2. ASSUME NEW n \in Nat PROVE Pow2[n + 1] = 2 * Pow2[n]
  <2>1. n + 1 \in Nat /\ n + 1 # 0 /\ (n + 1) - 1 = n
    OBVIOUS
  <2> QED
    BY <1>1, <2>1
<1> QED
  BY <1>1, <1>2

(* A power exceeds its exponent; in particular it is not 0.                *)
LEMMA PowExceeds ==
  ASSUME NEW n \in Nat PROVE Pow2[n] \in Nat /\ Pow2[n] > n
<1> DEFINE T == {m \in Nat : ~(Pow2[m] \in Nat /\ Pow2[m] > m)}
<1>1. SUFFICES ASSUME T # {} PROVE FALSE
  BY <1>1
<1>2. PICK m \in T : \A k \in T : m <= k
  BY <1>1, LeastNumber
<1>3. m # 0
  BY <1>2, PowStep
<1>4. m - 1 \in Nat /\ m - 1 \notin T /\ (m - 1) + 1 = m
  BY <1>2, <1>3
<1>5. Pow2[m] = 2 * Pow2[m - 1] /\ Pow2[m - 1] \in Nat /\ Pow2[m - 1] > m - 1
  BY <1>4, PowStep
<1> QED
  BY <1>2, <1>4, <1>5

(* The product of two powers.                                              *)
LEMMA PowSum ==
  ASSUME NEW m \in Nat, NEW n \in Nat PROVE Pow2[m + n] = Pow2[m] * Pow2[n]
<1> DEFINE T == {k \in Nat : Pow2[m + k] # Pow2[m] * Pow2[k]}
<1>1. SUFFICES ASSUME T # {} PROVE FALSE
  BY <1>1
<1>2. PICK k \in T : \A j \in T : k <= j
  BY <1>1, LeastNumber
<1>3. k # 0
  BY <1>2, PowStep, PowExceeds
<1>4. k - 1 \in Nat /\ k - 1 \notin T /\ (k - 1) + 1 = k /\ m + (k - 1) \in Nat
      /\ (m + (k - 1)) + 1 = m + k
  BY <1>2, <1>3
<1>5. Pow2[m + k] = 2 * Pow2[m + (k - 1)] /\ Pow2[k] = 2 * Pow2[k - 1]
      /\ Pow2[m + (k - 1)] = Pow2[m] * Pow2[k - 1]
  BY <1>4, PowStep
<1>6. Pow2[m] \in Nat /\ Pow2[k - 1] \in Nat
  BY <1>4, PowExceeds
<1>7. \A x, y \in Nat : 2 * (x * y) = x * (2 * y)
  OBVIOUS
<1> QED
  BY <1>2, <1>5, <1>6, <1>7

LEMMA PowMonotonic ==
  ASSUME NEW m \in Nat, NEW n \in Nat, m <= n PROVE Pow2[m] <= Pow2[n]
<1>1. n - m \in Nat /\ m + (n - m) = n
  OBVIOUS
<1>2. Pow2[n] = Pow2[m] * Pow2[n - m]
  BY <1>1, PowSum
<1>3. Pow2[m] \in Nat /\ Pow2[n - m] \in Nat /\ Pow2[n - m] > 0
  BY <1>1, PowExceeds
<1>4. \A x, y \in Nat : y > 0 => x <= x * y
  OBVIOUS
<1> QED
  BY <1>2, <1>3, <1>4

(* Two functions with the same steps agree.                                *)
LEMMA RecursionUnique ==
  ASSUME NEW z, NEW a, NEW w, NEW n \in Nat, NEW g, NEW h,
         Recursion(g, z, a, w, n), Recursion(h, z, a, w, n)
  PROVE  \A i \in 0..n : g[i] = h[i]
<1> DEFINE D == {k \in 0..n : g[k] # h[k]}
<1>1. SUFFICES ASSUME D # {} PROVE FALSE
  BY <1>1
<1>2. PICK m \in D : \A k \in D : m <= k
  <2>1. D \in SUBSET Nat
    OBVIOUS
  <2> QED
    BY <1>1, <2>1, LeastNumber
<1>3. m # 0
  BY <1>2 DEF Recursion
<1>4. m - 1 \in 0..n /\ m - 1 \notin D /\ m \in 1..n
  BY <1>2, <1>3
<1>5. g[m - 1] = h[m - 1]
  BY <1>4
<1>6. g[m] = g[m - 1] * a + w[m] /\ h[m] = h[m - 1] * a + w[m]
  BY <1>4 DEF Recursion
<1> QED
  BY <1>2, <1>5, <1>6

LEMMA SeqIsFunction ==
  ASSUME NEW S, NEW s \in Seq(S) PROVE Len(s) \in Nat /\ s \in [1..Len(s) -> S]
OBVIOUS

(* The value of a sequence of bytes, prefix by prefix.                     *)
LEMMA ReadUintSteps ==
  ASSUME NEW s \in Seq(Nat), NEW p \in Nat, p = Pow2[ByteBits]
  PROVE  \E g \in [0..Len(s) -> Nat] :
           Recursion(g, 0, p, s, Len(s)) /\ ReadUint(s) = g[Len(s)]
<1> DEFINE n == Len(s)
           f == LET value[i \in 0..n] == IF i = 0 THEN 0 ELSE value[i - 1] * p + s[i]
                IN  value
<1>1. n \in Nat /\ s \in [1..n -> Nat]
  OBVIOUS
<1>2. ReadUint(s) = f[n]
  BY DEF ReadUint
<1> HIDE DEF n
<1>3. PICK g \in [0..n -> Nat] : Recursion(g, 0, p, s, n)
  BY <1>1, RecursionExists
<1>4. \A i \in 0..n : g[i] = IF i = 0 THEN 0 ELSE g[i - 1] * p + s[i]
  BY <1>1, <1>3 DEF Recursion
<1>5. g = [i \in 0..n |-> IF i = 0 THEN 0 ELSE g[i - 1] * p + s[i]]
  BY <1>4
<1>6. f = [i \in 0..n |-> IF i = 0 THEN 0 ELSE f[i - 1] * p + s[i]]
  BY <1>5
<1> HIDE DEF f
<1>7. Recursion(f, 0, p, s, n)
  <2>1. f[0] = 0
    BY <1>1, <1>6
  <2>2. ASSUME NEW i \in 1..n PROVE f[i] = f[i - 1] * p + s[i]
    <3>1. i \in 0..n /\ i # 0
      BY <1>1
    <3> QED
      BY <1>6, <3>1
  <2> QED
    BY <2>1, <2>2 DEF Recursion
<1>8. n \in 0..n
  BY <1>1
<1>9. f[n] = g[n]
  BY <1>1, <1>3, <1>7, <1>8, RecursionUnique
<1> QED
  BY <1>2, <1>3, <1>9 DEF n

-----------------------------------------------------------------------------
(* Arithmetic that the provers find only where there is nothing else.      *)

LEMMA DivType ==
  ASSUME NEW n \in Nat, NEW d \in Nat, d > 0
  PROVE  /\ n \div d \in Nat /\ n % d \in 0..d - 1
         /\ n = (n \div d) * d + (n % d)
OBVIOUS

LEMMA DivIs ==
  ASSUME NEW q \in Nat, NEW d \in Nat, NEW r \in Nat, r < d
  PROVE  ((q * d) + r) \div d = q /\ (q * d + r) % d = r
OBVIOUS

LEMMA DivSmall ==
  ASSUME NEW n \in Nat, NEW d \in Nat, n < d
  PROVE  n \div d = 0 /\ n % d = n
OBVIOUS

LEMMA DivDiv ==
  ASSUME NEW n \in Nat, NEW a \in Nat, a > 0, NEW b \in Nat, b > 0
  PROVE  (n \div a) \div b = n \div (a * b)
OBVIOUS

LEMMA TimesMonotonic ==
  ASSUME NEW a \in Nat, NEW b \in Nat, NEW c \in Nat, a <= b
  PROVE  a * c \in Nat /\ b * c \in Nat /\ a * c <= b * c
OBVIOUS

LEMMA SeqWider ==
  ASSUME NEW S, NEW T, S \subseteq T, NEW s \in Seq(S)
  PROVE  s \in Seq(T) /\ Len(s) \in Nat /\ \A i \in 1..Len(s) : s[i] \in S
OBVIOUS

-----------------------------------------------------------------------------
(* Bytes are the digits of a number in base Pow2[ByteBits].                *)

LEMMA BaseType ==
  /\ ByteBits \in Nat /\ ByteBits >= 4
  /\ Pow2[ByteBits] \in Nat /\ Pow2[ByteBits] > 4
  /\ Byte \subseteq Nat
BY EbmlAssumption, PowExceeds DEF Byte

(* PutUint writes size bytes.                                              *)
LEMMA PutUintType ==
  ASSUME NEW n \in Nat, NEW size \in Nat
  PROVE  /\ PutUint(n, size) \in Seq(Byte)
         /\ Len(PutUint(n, size)) = size
<1>1. ASSUME NEW i \in 1..size
      PROVE  (n \div Pow2[ByteBits * (size - i)]) % Pow2[ByteBits] \in Byte
  <2>1. size - i \in Nat
    OBVIOUS
  <2>2. ByteBits * (size - i) \in Nat
    BY <2>1, BaseType
  <2>3. PICK a \in Nat : a = Pow2[ByteBits * (size - i)] /\ a > 0
    BY <2>2, PowExceeds
  <2>4. PICK p \in Nat : p = Pow2[ByteBits] /\ p > 0
    BY BaseType
  <2>5. (n \div a) % p \in 0..p - 1
    BY <2>3, <2>4
  <2> QED
    BY <2>3, <2>4, <2>5 DEF Byte
<1>2. PutUint(n, size) \in [1..size -> Byte]
  BY <1>1 DEF PutUint
<1> QED
  BY <1>2

(* One byte more.                                                          *)
LEMMA NextPower ==
  ASSUME NEW k \in Nat
  PROVE  /\ ByteBits * k \in Nat
         /\ Pow2[ByteBits * k] \in Nat /\ Pow2[ByteBits * k] > 0
         /\ Pow2[ByteBits * (k + 1)] = Pow2[ByteBits * k] * Pow2[ByteBits]
<1>1. ByteBits \in Nat /\ ByteBits * k \in Nat /\ ByteBits * (k + 1) = ByteBits * k + ByteBits
  BY BaseType
<1>2. Pow2[ByteBits * k + ByteBits] = Pow2[ByteBits * k] * Pow2[ByteBits]
  BY <1>1, PowSum
<1>3. Pow2[ByteBits * k] \in Nat /\ Pow2[ByteBits * k] > ByteBits * k
  BY <1>1, PowExceeds
<1> QED
  BY <1>1, <1>2, <1>3

(* put_uint and read_uint are inverse, of a number that fits.              *)
LEMMA ReadPut ==
  ASSUME NEW n \in Nat, NEW size \in Nat, n < Pow2[ByteBits * size]
  PROVE  ReadUint(PutUint(n, size)) = n
<1> DEFINE s == PutUint(n, size)
<1>1. s \in Seq(Byte) /\ Len(s) = size /\ s \in Seq(Nat)
  BY PutUintType, BaseType, SeqWider
<1>2. PICK p \in Nat : p = Pow2[ByteBits] /\ p > 0
  BY BaseType
<1>3. \A i \in 1..size : s[i] = (n \div Pow2[ByteBits * (size - i)]) % p
  BY <1>2 DEF PutUint
<1> HIDE DEF s
<1>4. PICK g \in [0..size -> Nat] : Recursion(g, 0, p, s, size) /\ ReadUint(s) = g[size]
  BY <1>1, <1>2, ReadUintSteps
<1> DEFINE D == {k \in 0..size : g[k] # n \div Pow2[ByteBits * (size - k)]}
<1>5. D = {}
  <2>1. SUFFICES ASSUME D # {} PROVE FALSE
    BY <2>1
  <2>2. PICK k \in D : \A j \in D : k <= j
    <3>1. D \in SUBSET Nat
      OBVIOUS
    <3> QED
      BY <2>1, <3>1, LeastNumber
  <2>3. k # 0
    <3>1. g[0] = 0
      BY <1>4 DEF Recursion
    <3>2. size - 0 = size
      OBVIOUS
    <3>3. PICK a \in Nat : a = Pow2[ByteBits * size] /\ a > 0 /\ n < a
      BY NextPower
    <3>4. n \div a = 0
      BY <3>3, DivSmall
    <3> QED
      BY <2>2, <3>1, <3>2, <3>3, <3>4
  <2>4. k \in 1..size /\ k - 1 \in 0..size /\ k - 1 \notin D
    BY <2>2, <2>3
  <2>5. g[k] = g[k - 1] * p + s[k]
    BY <1>4, <2>4 DEF Recursion
  <2>6. size - k \in Nat /\ size - (k - 1) = (size - k) + 1
    BY <2>4
  <2>7. PICK a \in Nat : a = Pow2[ByteBits * (size - k)] /\ a > 0
    BY <2>6, NextPower
  <2>8. Pow2[ByteBits * (size - (k - 1))] = a * p
    BY <1>2, <2>6, <2>7, NextPower
  <2>9. g[k - 1] = n \div (a * p)
    BY <2>4, <2>8
  <2>10. s[k] = (n \div a) % p
    BY <1>3, <2>4, <2>7
  <2>11. (n \div (a * p)) * p + ((n \div a) % p) = n \div a
    <3>1. (n \div a) \div p = n \div (a * p)
      BY <1>2, <2>7, DivDiv
    <3>2. PICK q \in Nat : q = n \div a
      BY <2>7, DivType
    <3>3. q = (q \div p) * p + (q % p)
      BY <1>2, DivType
    <3> QED
      BY <3>1, <3>2, <3>3
  <2>12. g[k] = n \div a
    <3>1. g[k] = (n \div (a * p)) * p + ((n \div a) % p)
      BY <2>5, <2>9, <2>10, Zenon
    <3> QED
      BY <2>11, <3>1, Zenon
  <2> QED
    BY <2>2, <2>7, <2>12
<1>6. size \in 0..size /\ size - size = 0 /\ ByteBits * 0 = 0
  BY BaseType
<1>7. g[size] = n \div Pow2[ByteBits * (size - size)]
  BY <1>5, <1>6
<1>8. n \div 1 = n
  OBVIOUS
<1> QED
  BY <1>4, <1>6, <1>7, <1>8, PowStep DEF s

(* The first byte is the leading digit.                                    *)
LEMMA ReadLeading ==
  ASSUME NEW s \in Seq(Byte), s # << >>
  PROVE  LET a == Pow2[ByteBits * (Len(s) - 1)]
         IN  s[1] * a <= ReadUint(s) /\ ReadUint(s) < (s[1] + 1) * a
<1> DEFINE n == Len(s)
           P(k) == Pow2[ByteBits * (k - 1)]
<1>1. n \in Nat /\ n >= 1 /\ s \in Seq(Nat) /\ \A i \in 1..n : s[i] \in Byte
  <2>1. s \in Seq(Nat) /\ \A i \in 1..Len(s) : s[i] \in Byte
    BY BaseType, SeqWider
  <2>2. Len(s) \in Nat /\ Len(s) # 0
    OBVIOUS
  <2> QED
    BY <2>1, <2>2
<1>2. PICK p \in Nat : p = Pow2[ByteBits] /\ p > 0 /\ Byte = 0..p - 1
  BY BaseType DEF Byte
<1> HIDE DEF n
<1>3. PICK g \in [0..n -> Nat] : Recursion(g, 0, p, s, n) /\ ReadUint(s) = g[n]
  BY <1>1, <1>2, ReadUintSteps DEF n
<1>4. PICK b \in Nat : b = s[1]
  BY <1>1, <1>2
<1>5. P(1) = 1
  BY BaseType, PowStep
<1>6. \A k \in 1..n : P(k) \in Nat /\ P(k + 1) = P(k) * p
  <2>1. SUFFICES ASSUME NEW k \in 1..n PROVE P(k) \in Nat /\ P(k + 1) = P(k) * p
    OBVIOUS
  <2>2. k - 1 \in Nat /\ (k + 1) - 1 = (k - 1) + 1
    BY <1>1
  <2> QED
    BY <1>2, <2>2, NextPower
<1> DEFINE D == {k \in 1..n : ~(b * P(k) <= g[k] /\ g[k] < (b + 1) * P(k))}
<1> HIDE DEF P
<1>7. D = {}
  <2>1. SUFFICES ASSUME D # {} PROVE FALSE
    BY <2>1
  <2>2. PICK k \in D : \A j \in D : k <= j
    <3>1. D \in SUBSET Nat
      BY <1>1
    <3> QED
      BY <2>1, <3>1, LeastNumber
  <2>3. k \in 1..n /\ k - 1 \in 0..n
    BY <1>1, <2>2
  <2>4. g[k] = g[k - 1] * p + s[k] /\ g[0] = 0 /\ g[k - 1] \in Nat
    BY <1>3, <2>3 DEF Recursion
  <2>5. k # 1
    <3>1. SUFFICES ASSUME k = 1 PROVE FALSE
      OBVIOUS
    <3>2. g[1] = b
      BY <1>1, <1>2, <1>4, <2>4, <3>1
    <3>3. ~(b * P(1) <= g[1] /\ g[1] < (b + 1) * P(1))
      BY <2>2, <3>1
    <3> QED
      BY <1>5, <3>2, <3>3
  <2>6. k - 1 \in 1..n /\ k - 1 \notin D /\ (k - 1) + 1 = k
    BY <1>1, <2>2, <2>3, <2>5
  <2>7. PICK a \in Nat : a = P(k - 1) /\ P(k) = a * p
    BY <1>6, <2>6
  <2>8. PICK v \in Nat : v = g[k - 1] /\ b * a <= v /\ v < (b + 1) * a
    BY <2>4, <2>6, <2>7
  <2>9. PICK c \in 0..p - 1 : c = s[k]
    BY <1>1, <1>2, <2>3
  <2>10. b * (a * p) <= v * p + c /\ v * p + c < (b + 1) * (a * p)
    <3>0. b * a \in Nat /\ v \in Nat /\ b * a <= v
      BY <2>8
    <3>1. (b * a) * p <= v * p
      BY <3>0, TimesMonotonic
    <3>2. v + 1 <= (b + 1) * a
      BY <2>8
    <3>3. (v + 1) * p <= ((b + 1) * a) * p
      BY <3>2, TimesMonotonic
    <3> QED
      BY <3>1, <3>3
  <2> QED
    BY <2>2, <2>4, <2>7, <2>8, <2>9, <2>10
<1>8. n \in 1..n
  BY <1>1
<1>9. b * P(n) <= g[n] /\ g[n] < (b + 1) * P(n)
  BY <1>7, <1>8
<1> QED
  BY <1>3, <1>4, <1>9 DEF P, n

(* What n bytes say is below the n-th power.                               *)
LEMMA ReadUintType ==
  ASSUME NEW s \in Seq(Byte)
  PROVE  ReadUint(s) \in Nat /\ ReadUint(s) < Pow2[ByteBits * Len(s)]
<1>1. s \in Seq(Nat) /\ Len(s) \in Nat
  BY BaseType, SeqWider
<1>2. PICK p \in Nat : p = Pow2[ByteBits] /\ p > 0 /\ Byte = 0..p - 1
  BY BaseType DEF Byte
<1>3. PICK g \in [0..Len(s) -> Nat] :
             Recursion(g, 0, p, s, Len(s)) /\ ReadUint(s) = g[Len(s)]
  BY <1>1, <1>2, ReadUintSteps
<1>4. ReadUint(s) \in Nat
  BY <1>1, <1>3
<1>5. CASE s = << >>
  <2>1. Len(s) = 0 /\ ReadUint(s) = 0
    BY <1>3, <1>5 DEF Recursion
  <2>2. ByteBits * 0 = 0
    BY BaseType
  <2> QED
    BY <1>4, <2>1, <2>2, PowStep
<1>6. CASE s # << >>
  <2>1. Len(s) - 1 \in Nat /\ (Len(s) - 1) + 1 = Len(s) /\ s[1] \in 0..p - 1
    BY <1>1, <1>2, <1>6
  <2>2. PICK a \in Nat : a = Pow2[ByteBits * (Len(s) - 1)]
                         /\ Pow2[ByteBits * Len(s)] = a * p
    BY <1>2, <2>1, NextPower
  <2>3. ReadUint(s) < (s[1] + 1) * a
    BY <1>6, <2>2, ReadLeading
  <2>4. PICK b \in 0..p - 1 : b = s[1]
    BY <2>1
  <2>5. (b + 1) * a <= a * p
    BY <2>4
  <2> QED
    BY <1>4, <2>2, <2>3, <2>4, <2>5
<1> QED
  BY <1>5, <1>6

-----------------------------------------------------------------------------
(* Varints.                                                                *)

LEMMA MinType ==
  ASSUME NEW T \in SUBSET Nat, T # {}
  PROVE  Min(T) \in T /\ \A n \in T : Min(T) <= n
<1>1. PICK m \in T : \A n \in T : m <= n
  BY LeastNumber
<1> QED
  BY <1>1 DEF Min

LEMMA MinIs ==
  ASSUME NEW T \in SUBSET Nat, NEW m \in T, \A n \in T : m <= n
  PROVE  Min(T) = m
<1>1. Min(T) \in T /\ \A n \in T : Min(T) <= n
  BY MinType
<1>2. Min(T) \in Nat /\ m \in Nat /\ Min(T) <= m /\ m <= Min(T)
  BY <1>1
<1> QED
  BY <1>2

(* The flag is a bit of the first byte: it leaves room for as much again.  *)
LEMMA FlagType ==
  ASSUME NEW size \in Nat, size >= 1
  PROVE  /\ Flag(size) \in Nat /\ Flag(size) >= 8
         /\ 2 * Flag(size) <= Pow2[ByteBits * size]
<1>1. PICK b \in Nat : b = ByteBits /\ b >= 4
  BY BaseType
<1>2. (b - 1) * size \in Nat /\ 3 <= (b - 1) * size
  BY <1>1
<1>3. Pow2[(b - 1) * size] \in Nat
  BY <1>2, PowExceeds
<1>4. Pow2[3] = 8
  <2>1. Pow2[0] = 1 /\ Pow2[0 + 1] = 2 * Pow2[0] /\ Pow2[1 + 1] = 2 * Pow2[1]
        /\ Pow2[2 + 1] = 2 * Pow2[2]
    BY PowStep
  <2>2. 0 + 1 = 1 /\ 1 + 1 = 2 /\ 2 + 1 = 3
    OBVIOUS
  <2> QED
    BY <2>1, <2>2
<1>5. 8 <= Pow2[(b - 1) * size]
  BY <1>2, <1>4, PowMonotonic
<1>6. 2 * Pow2[(b - 1) * size] <= Pow2[b * size]
  <2>1. Pow2[(b - 1) * size + 1] = 2 * Pow2[(b - 1) * size]
    BY <1>2, PowStep
  <2>2. b * size \in Nat /\ (b - 1) * size + 1 <= b * size
    BY <1>1
  <2>3. Pow2[(b - 1) * size + 1] <= Pow2[b * size]
    BY <1>2, <2>2, PowMonotonic
  <2> QED
    BY <2>1, <2>3
<1> QED
  BY <1>1, <1>3, <1>5, <1>6 DEF Flag

LEMMA FlagMonotonic ==
  ASSUME NEW m \in Nat, NEW n \in Nat, m <= n PROVE Flag(m) <= Flag(n)
<1>1. PICK b \in Nat : b = ByteBits - 1
  BY BaseType
<1>2. b * m \in Nat /\ b * n \in Nat /\ b * m <= b * n
  BY <1>1
<1>3. Pow2[b * m] <= Pow2[b * n]
  BY <1>2, PowMonotonic
<1> QED
  BY <1>1, <1>3 DEF Flag

(* The flag of a size is a bit of the first byte.                          *)
LEMMA FlagSplit ==
  ASSUME NEW size \in 1..ByteBits
  PROVE  Flag(size) = Pow2[ByteBits - size] * Pow2[ByteBits * (size - 1)]
<1>1. PICK b \in Nat : b = ByteBits /\ b >= size
  BY BaseType
<1>2. b - size \in Nat /\ b * (size - 1) \in Nat
  BY <1>1
<1>3. (b - 1) * size = (b - size) + b * (size - 1)
  BY <1>1
<1>4. Pow2[(b - size) + b * (size - 1)] = Pow2[b - size] * Pow2[b * (size - 1)]
  BY <1>2, PowSum
<1> QED
  BY <1>1, <1>3, <1>4 DEF Flag

(* A first byte that is not 0 has a size.                                  *)
LEMMA VarintSizeType ==
  ASSUME NEW byte \in Byte, byte # 0
  PROVE  LET s == VarintSize(byte)
         IN  /\ s \in 1..ByteBits
             /\ Pow2[ByteBits - s] <= byte /\ byte < Pow2[ByteBits - s + 1]
<1> DEFINE T == {s \in 1..ByteBits : byte >= Pow2[ByteBits - s]}
<1>1. ByteBits \in Nat /\ ByteBits >= 4 /\ byte \in Nat /\ byte < Pow2[ByteBits]
  BY BaseType DEF Byte
<1>2. ByteBits \in T
  BY <1>1, PowStep
<1>3. T \in SUBSET Nat /\ T # {}
  BY <1>1, <1>2
<1>4. PICK s \in T : s = VarintSize(byte) /\ \A n \in T : s <= n
  BY <1>3, MinType DEF VarintSize
<1>5. s \in 1..ByteBits /\ byte >= Pow2[ByteBits - s]
  BY <1>4
<1>6. Pow2[ByteBits - s] \in Nat
  BY <1>1, <1>5, PowExceeds
<1>7. byte < Pow2[ByteBits - s + 1]
  <2>1. CASE s = 1
    <3>1. ByteBits - s + 1 = ByteBits
      BY <1>1, <2>1
    <3> QED
      BY <1>1, <3>1
  <2>2. CASE s # 1
    <3>1. s - 1 \in 1..ByteBits /\ ByteBits - s + 1 = ByteBits - (s - 1)
          /\ ~(s <= s - 1) /\ ByteBits - s + 1 \in Nat
      BY <1>1, <1>5, <2>2
    <3>2. s - 1 \notin T
      BY <1>4, <3>1
    <3>3. ~(byte >= Pow2[ByteBits - (s - 1)])
      BY <3>1, <3>2
    <3>4. Pow2[ByteBits - s + 1] \in Nat
      BY <3>1, PowExceeds
    <3> QED
      BY <1>1, <3>1, <3>3, <3>4
  <2> QED
    BY <2>1, <2>2
<1> QED
  BY <1>1, <1>4, <1>5, <1>6, <1>7

(* The size is the one whose flag is the highest bit set.                  *)
LEMMA VarintSizeIs ==
  ASSUME NEW byte \in Byte, NEW s \in 1..ByteBits,
         Pow2[ByteBits - s] <= byte, byte < Pow2[ByteBits - s + 1]
  PROVE  VarintSize(byte) = s
<1> DEFINE T == {n \in 1..ByteBits : byte >= Pow2[ByteBits - n]}
<1>1. ByteBits \in Nat /\ ByteBits - s \in Nat /\ ByteBits - s + 1 \in Nat /\ byte \in Nat
  BY BaseType DEF Byte
<1>2. Pow2[ByteBits - s] \in Nat /\ Pow2[ByteBits - s + 1] \in Nat
  BY <1>1, PowExceeds
<1>3. s \in T
  BY <1>1, <1>2
<1>4. T \in SUBSET Nat
  BY <1>1
<1>5. ASSUME NEW n \in T PROVE s <= n
  <2>1. SUFFICES ASSUME n < s PROVE FALSE
    BY <1>4
  <2>2. n \in 1..ByteBits /\ byte >= Pow2[ByteBits - n]
    OBVIOUS
  <2>3. ByteBits - n \in Nat /\ ByteBits - s + 1 <= ByteBits - n
    BY <1>1, <2>1, <2>2
  <2>4. Pow2[ByteBits - s + 1] <= Pow2[ByteBits - n] /\ Pow2[ByteBits - n] \in Nat
    BY <1>1, <2>3, PowMonotonic, PowExceeds
  <2> QED
    BY <1>1, <1>2, <2>2, <2>4
<1> QED
  BY <1>3, <1>4, <1>5, MinIs DEF VarintSize

LEMMA DivLead ==
  ASSUME NEW a \in Nat, a > 0, NEW h \in Nat, NEW v \in Nat, v < h * a
  PROVE  (h * a + v) \div a \in h..2 * h - 1
<1>1. PICK q \in Nat, r \in 0..a - 1 : v = q * a + r
  BY DivType
<1>2. q < h
  <2>1. SUFFICES ASSUME h <= q PROVE FALSE
    OBVIOUS
  <2>2. h * a <= q * a
    BY <2>1, TimesMonotonic
  <2> QED
    BY <1>1, <2>2
<1>3. h * a + v = (h + q) * a + r
  BY <1>1
<1>4. h + q \in Nat /\ r \in Nat /\ r < a
  OBVIOUS
<1>5. ((h + q) * a + r) \div a = h + q
  BY <1>4, DivIs
<1> QED
  BY <1>2, <1>3, <1>5

(* A varint is read as what was written, whatever size was chosen for it;  *)
(* the value that fills its bits means "unknown".                          *)
LEMMA VarintWritten ==
  ASSUME NEW size \in 1..ByteBits, NEW value \in 0..Flag(size) - 1
  PROVE  /\ PutUint(Flag(size) + value, size) \in Seq(Byte)
         /\ Len(PutUint(Flag(size) + value, size)) = size
         /\ decode_varint(PutUint(Flag(size) + value, size)) = VarintOf(value, size)
<1>1. size \in Nat /\ size >= 1 /\ size - 1 \in Nat /\ ByteBits \in Nat
      /\ ByteBits - size \in Nat
  BY BaseType
<1>2. PICK f \in Nat : f = Flag(size) /\ 2 * f <= Pow2[ByteBits * size]
  BY <1>1, FlagType
<1>3. value \in Nat /\ value < f /\ f + value \in Nat
  BY <1>2
<1> DEFINE s == PutUint(f + value, size)
<1>4. s \in Seq(Byte) /\ Len(s) = size
  BY <1>1, <1>3, PutUintType
<1>5. PICK a \in Nat : a = Pow2[ByteBits * (size - 1)] /\ a > 0
  BY <1>1, NextPower
<1>6. PICK h \in Nat : h = Pow2[ByteBits - size] /\ h > 0
  BY <1>1, PowExceeds
<1>7. f = h * a
  BY <1>2, <1>5, <1>6, FlagSplit
<1>8. PICK p \in Nat : p = Pow2[ByteBits] /\ p > 0
  BY BaseType
<1>9. Pow2[ByteBits - size + 1] = 2 * h /\ 2 * h <= p
  <2>1. Pow2[ByteBits - size + 1] = 2 * h
    BY <1>1, <1>6, PowStep
  <2>2. ByteBits - size + 1 \in Nat /\ ByteBits - size + 1 <= ByteBits
    BY <1>1
  <2>3. Pow2[ByteBits - size + 1] <= Pow2[ByteBits]
    BY <1>1, <2>2, PowMonotonic
  <2> QED
    BY <1>8, <2>1, <2>3
<1>10. s[1] = ((f + value) \div a) % p
  BY <1>1, <1>5, <1>8 DEF PutUint
<1>11. s[1] \in h..2 * h - 1
  <2>1. PICK q \in h..2 * h - 1 : q = (f + value) \div a
    BY <1>3, <1>5, <1>7, DivLead
  <2>2. q \in Nat /\ q < p
    BY <1>9, <2>1
  <2>3. q % p = q
    BY <2>2, DivSmall
  <2> QED
    BY <1>10, <2>1, <2>3
<1>12. s # << >> /\ s[1] # 0 /\ s[1] \in Byte
  <2>1. Len(s) # 0 /\ 1 \in 1..Len(s)
    BY <1>1, <1>4
  <2>2. s # << >> /\ s[1] \in Byte
    BY <1>4, <2>1
  <2> QED
    BY <1>6, <1>11, <2>2
<1>13. VarintSize(s[1]) = size
  <2>1. Pow2[ByteBits - size] <= s[1] /\ s[1] < Pow2[ByteBits - size + 1]
    BY <1>6, <1>9, <1>11
  <2> QED
    BY <1>12, <2>1, VarintSizeIs
<1>14. ReadUint(s) = f + value
  <2>1. f + value < Pow2[ByteBits * size]
    <3>1. Pow2[ByteBits * size] \in Nat
      BY <1>1, NextPower
    <3> QED
      BY <1>2, <1>3, <3>1
  <2> QED
    BY <1>1, <1>3, <2>1, ReadPut
<1> HIDE DEF s
<1>15. SubSeq(s, 1, size) = s
  BY <1>4
<1>16. decode_varint(s) = VarintAt(s, size)
  BY <1>12, <1>13 DEF decode_varint
<1>17. VarintAt(s, size) = VarintOf((f + value) - f, size)
  <2>1. ~(size > Len(s))
    BY <1>1, <1>4
  <2> QED
    BY <1>2, <1>14, <1>15, <2>1 DEF VarintAt, s
<1>18. (f + value) - f = value
  BY <1>3
<1> QED
  BY <1>2, <1>4, <1>16, <1>17, <1>18 DEF s

(* What can be read as a varint.                                           *)
Varints == {Unknown} \cup 0..EIGHT_MAX

LEMMA LargestVarint ==
  /\ FOUR_MAX \in Nat /\ EIGHT_MAX \in Nat /\ FOUR_MAX <= EIGHT_MAX
  /\ \A size \in 1..ByteBits : Flag(size) - 2 \in Nat /\ Flag(size) - 2 <= EIGHT_MAX
<1>1. ByteBits \in Nat /\ ByteBits >= 4
  BY BaseType
<1>2. Flag(ByteBits) \in Nat /\ Flag(ByteBits) >= 8
  BY <1>1, FlagType
<1>3. ASSUME NEW size \in 1..ByteBits
      PROVE  Flag(size) \in Nat /\ Flag(size) >= 8 /\ Flag(size) <= Flag(ByteBits)
  BY <1>1, FlagType, FlagMonotonic
<1>4. Flag(4) \in Nat /\ Flag(4) >= 8 /\ Flag(4) <= Flag(ByteBits)
  BY <1>1, <1>3
<1> QED
  BY <1>2, <1>3, <1>4 DEF FOUR_MAX, EIGHT_MAX

LEMMA VarintOfType ==
  ASSUME NEW size \in 1..ByteBits, NEW value \in 0..Flag(size) - 1
  PROVE  LET v == VarintOf(value, size)
         IN  /\ v.status = "ok" /\ v.size = size /\ v.varint \in Varints
             /\ v.varint # Unknown => v.varint = value /\ value <= Flag(size) - 2
             /\ v = [status |-> "ok", size |-> size, varint |-> v.varint]
<1>1. Flag(size) \in Nat /\ Flag(size) >= 8 /\ Flag(size) - 2 <= EIGHT_MAX
      /\ EIGHT_MAX \in Nat
  BY BaseType, FlagType, LargestVarint
<1> QED
  BY <1>1 DEF VarintOf, Varints, Unknown

(* What decode_varint returns.                                             *)
LEMMA VarintRead ==
  ASSUME NEW s \in Seq(Byte), NEW v, v = decode_varint(s)
  PROVE  \/ v = More
         \/ v = Result("CorruptVarint")
         \/ /\ v.status = "ok" /\ v.size \in 1..ByteBits /\ v.size <= Len(s)
            /\ v.varint \in Varints
            /\ v.varint # Unknown => v.varint <= Flag(v.size) - 2
            /\ v = [status |-> "ok", size |-> v.size, varint |-> v.varint]
<1>1. CASE s = << >>
  BY <1>1 DEF decode_varint
<1>2. CASE s # << >> /\ s[1] = 0
  BY <1>2 DEF decode_varint
<1>3. CASE s # << >> /\ s[1] # 0
  <2>1. s[1] \in Byte /\ Len(s) \in Nat /\ ByteBits \in Nat
    BY <1>3, BaseType
  <2>2. PICK size \in 1..ByteBits :
             /\ size = VarintSize(s[1])
             /\ Pow2[ByteBits - size] <= s[1] /\ s[1] < Pow2[ByteBits - size + 1]
    BY <1>3, <2>1, VarintSizeType
  <2>3. v = VarintAt(s, size)
    BY <1>3, <2>2 DEF decode_varint
  <2>4. CASE size > Len(s)
    BY <2>3, <2>4 DEF VarintAt
  <2>5. CASE ~(size > Len(s))
    <3> DEFINE t == SubSeq(s, 1, size)
    <3>1. size \in Nat /\ size >= 1 /\ size - 1 \in Nat /\ ByteBits - size \in Nat
          /\ size <= Len(s)
      BY <2>1, <2>5
    <3>2. t \in Seq(Byte) /\ Len(t) = size /\ t[1] = s[1] /\ t # << >>
      BY <3>1
    <3> HIDE DEF t
    <3>3. v = VarintOf(ReadUint(t) - Flag(size), size)
      BY <2>3, <2>5 DEF VarintAt, t
    <3>4. PICK a \in Nat : a = Pow2[ByteBits * (size - 1)]
      BY <3>1, NextPower
    <3>5. PICK h \in Nat : h = Pow2[ByteBits - size] /\ Pow2[ByteBits - size + 1] = 2 * h
      BY <3>1, PowExceeds, PowStep
    <3>6. Flag(size) = h * a
      BY <3>4, <3>5, FlagSplit
    <3>7. PICK b \in Nat : b = s[1] /\ h <= b /\ b + 1 <= 2 * h
      <4>1. PICK b \in Nat : b = s[1]
        BY <2>1, BaseType
      <4>2. h <= b /\ b < 2 * h
        BY <2>2, <3>5, <4>1
      <4>3. b + 1 <= 2 * h
        BY <4>2
      <4> QED
        BY <4>1, <4>2, <4>3
    <3>8. PICK n \in Nat : n = ReadUint(t) /\ b * a <= n /\ n < (b + 1) * a
      BY <3>2, <3>4, <3>7, ReadLeading, ReadUintType
    <3>9. n - h * a \in 0..h * a - 1
      <4>0. b + 1 \in Nat /\ 2 * h \in Nat
        OBVIOUS
      <4>1. h * a <= b * a /\ (b + 1) * a <= (2 * h) * a
        BY <3>7, <4>0, TimesMonotonic
      <4>2. h * a \in Nat /\ (2 * h) * a = 2 * (h * a) /\ b * a \in Nat /\ (b + 1) * a \in Nat
        OBVIOUS
      <4> QED
        BY <3>8, <4>1, <4>2
    <3>10. ReadUint(t) - Flag(size) \in 0..Flag(size) - 1
      BY <3>6, <3>8, <3>9
    <3> QED
      BY <2>5, <3>1, <3>3, <3>10, VarintOfType
  <2> QED
    BY <2>4, <2>5
<1> QED
  BY <1>1, <1>2, <1>3

(* The bytes w are the varint v.                                           *)
Writes(w, v) ==
  /\ w \in Seq(Byte) /\ Len(w) \in 1..ByteBits
  /\ decode_varint(w) = [status |-> "ok", size |-> Len(w), varint |-> v]

(* A value that leaves the flag's bits alone is not taken for unknown.     *)
LEMMA WritesValue ==
  ASSUME NEW size \in 1..ByteBits, NEW v \in 0..Flag(size) - 2,
         NEW w, w = PutUint(Flag(size) + v, size)
  PROVE  Writes(w, v) /\ Len(w) = size
<1>1. Flag(size) \in Nat /\ Flag(size) >= 8
  BY BaseType, FlagType
<1>2. v \in 0..Flag(size) - 1 /\ v # Flag(size) - 1
  BY <1>1
<1>3. VarintOf(v, size) = [status |-> "ok", size |-> size, varint |-> v]
  BY <1>2 DEF VarintOf
<1> QED
  BY <1>2, <1>3, VarintWritten DEF Writes

LEMMA WritesUnknown ==
  ASSUME NEW size \in 1..ByteBits,
         NEW w, w = PutUint(2 * Flag(size) - 1, size)
  PROVE  Writes(w, Unknown) /\ Len(w) = size
<1>1. PICK f \in Nat : f = Flag(size) /\ f >= 8
  BY BaseType, FlagType
<1>2. f - 1 \in 0..f - 1 /\ f + (f - 1) = 2 * f - 1
  BY <1>1
<1>3. VarintOf(f - 1, size) = [status |-> "ok", size |-> size, varint |-> Unknown]
  BY <1>1 DEF VarintOf
<1>4. /\ PutUint(f + (f - 1), size) \in Seq(Byte)
      /\ Len(PutUint(f + (f - 1), size)) = size
      /\ decode_varint(PutUint(f + (f - 1), size)) = VarintOf(f - 1, size)
  BY <1>1, <1>2, VarintWritten
<1> QED
  BY <1>1, <1>2, <1>3, <1>4 DEF Writes

(* encode_varint writes every varint that can be read, in the smallest     *)
(* size that has room for it.                                              *)
LEMMA EncodesVarint ==
  ASSUME NEW v \in Varints, NEW w, w = encode_varint(v)
  PROVE  /\ w.status = "ok" /\ Writes(w.bytes, v)
         /\ v # Unknown =>
              \A size \in 1..ByteBits : v <= Flag(size) - 2 => Len(w.bytes) <= size
         /\ v = Unknown => Len(w.bytes) = 1
<1>1. ByteBits \in Nat /\ ByteBits >= 4 /\ 1 \in 1..ByteBits
  BY BaseType
<1>2. CASE v = Unknown
  <2>1. PICK p \in Nat : p = Pow2[ByteBits] /\ p > 0
    BY BaseType
  <2>2. 2 * Flag(1) = p
    <3>1. ByteBits - 1 \in Nat /\ (ByteBits - 1) + 1 = ByteBits /\ (ByteBits - 1) * 1 = ByteBits - 1
      BY <1>1
    <3> QED
      BY <2>1, <3>1, PowStep DEF Flag
  <2>3. PutUint(p - 1, 1) = <<p - 1>>
    <3>1. ByteBits * (1 - 1) = 0 /\ Pow2[0] = 1
      BY <1>1, PowStep
    <3>2. p - 1 \in Nat /\ p - 1 < p
      BY <2>1
    <3>3. (p - 1) \div 1 = p - 1 /\ (p - 1) % p = p - 1
      BY <3>2, DivSmall
    <3>4. PutUint(p - 1, 1) = [i \in 1..1 |-> ((p - 1) \div Pow2[ByteBits * (1 - i)]) % p]
      BY <2>1 DEF PutUint
    <3>5. \A i \in 1..1 : i = 1
      OBVIOUS
    <3>6. PutUint(p - 1, 1) = [i \in 1..1 |-> p - 1]
      BY <3>1, <3>3, <3>4, <3>5
    <3> QED
      BY <3>6
  <2>4. w = [status |-> "ok", bytes |-> PutUint(2 * Flag(1) - 1, 1)]
    <3>1. ~(v > EIGHT_MAX)
      BY <1>2, LargestVarint DEF Unknown
    <3> QED
      BY <1>2, <2>1, <2>2, <2>3, <3>1 DEF encode_varint
  <2>5. PICK x : x = PutUint(2 * Flag(1) - 1, 1) /\ w = [status |-> "ok", bytes |-> x]
    BY <2>4
  <2>6. Writes(x, Unknown) /\ Len(x) = 1
    BY <1>1, <2>5, WritesUnknown
  <2> QED
    BY <1>2, <2>5, <2>6
<1>3. CASE v # Unknown
  <2>1. v \in Nat /\ v <= EIGHT_MAX /\ EIGHT_MAX \in Nat
    BY <1>3, LargestVarint DEF Varints
  <2> DEFINE T == {s \in 1..ByteBits : v < Flag(s) - 1}
  <2>2. \A s \in 1..ByteBits : Flag(s) \in Nat /\ Flag(s) >= 8
    BY <1>1, FlagType
  <2>3. ByteBits \in T
    <3>1. ByteBits \in 1..ByteBits
      BY <1>1
    <3>2. v <= Flag(ByteBits) - 2
      BY <2>1 DEF EIGHT_MAX
    <3>3. Flag(ByteBits) \in Nat
      BY <2>2, <3>1
    <3> QED
      BY <2>1, <3>1, <3>2, <3>3
  <2>4. T \in SUBSET Nat /\ T # {}
    BY <1>1, <2>3
  <2>5. PICK size \in T : size = MinimalSize(v) /\ \A n \in T : size <= n
    BY <2>4, MinType DEF MinimalSize
  <2>6. size \in 1..ByteBits /\ v \in 0..Flag(size) - 2
    BY <2>1, <2>2, <2>5
  <2>7. w = [status |-> "ok", bytes |-> PutUint(Flag(size) + v, size)]
    BY <1>3, <2>1, <2>5 DEF encode_varint
  <2>8. w.status = "ok" /\ Writes(w.bytes, v) /\ Len(w.bytes) = size
    BY <2>6, <2>7, WritesValue
  <2>9. ASSUME NEW n \in 1..ByteBits, v <= Flag(n) - 2 PROVE size <= n
    <3>1. v < Flag(n) - 1
      BY <2>1, <2>2, <2>9
    <3> QED
      BY <2>5, <3>1
  <2> QED
    BY <1>3, <2>8, <2>9
<1> QED
  BY <1>2, <1>3

LEMMA EncodesVarint4 ==
  ASSUME NEW v \in {Unknown} \cup 0..FOUR_MAX, NEW w, w = encode_varint_4(v)
  PROVE  w.status = "ok" /\ Writes(w.bytes, v) /\ Len(w.bytes) = 4
<1>1. 4 \in 1..ByteBits
  BY BaseType
<1>2. CASE v = Unknown
  <2>1. w = [status |-> "ok", bytes |-> PutUint(2 * Flag(4) - 1, 4)]
    <3>1. ~(v > FOUR_MAX)
      BY <1>2, LargestVarint DEF Unknown
    <3> QED
      BY <1>2, <3>1 DEF encode_varint_4
  <2>2. PICK x : x = PutUint(2 * Flag(4) - 1, 4) /\ w = [status |-> "ok", bytes |-> x]
    BY <2>1
  <2>3. Writes(x, Unknown) /\ Len(x) = 4
    BY <1>1, <2>2, WritesUnknown
  <2> QED
    BY <1>2, <2>2, <2>3
<1>3. CASE v # Unknown
  <2>1. v \in Nat /\ v <= FOUR_MAX /\ FOUR_MAX \in Nat
    BY <1>3, LargestVarint
  <2>2. w = [status |-> "ok", bytes |-> PutUint(Flag(4) + v, 4)]
    BY <1>3, <2>1 DEF encode_varint_4
  <2>3. v \in 0..Flag(4) - 2
    BY <2>1 DEF FOUR_MAX
  <2> QED
    BY <1>1, <2>2, <2>3, WritesValue
<1> QED
  BY <1>2, <1>3

-----------------------------------------------------------------------------
(* Bytes arrive.                                                           *)

LEMMA ArrivalType == ArrivalSpec => [](bytes \in Seq(Byte))
<1>1. ArrivalInit => bytes \in Seq(Byte)
  BY DEF ArrivalInit
<1>2. bytes \in Seq(Byte) /\ [ArrivalNext]_bytes => (bytes \in Seq(Byte))'
  BY DEF ArrivalNext, Arrive
<1> QED
  BY <1>1, <1>2, PTL DEF ArrivalSpec

(* Every varint that can be read can be written and is read back.          *)
THEOREM VarintsReadBackAlways == ArrivalSpec => []VarintsReadBack
<1>1. ASSUME bytes \in Seq(Byte) PROVE VarintsReadBack
  <2> DEFINE d == decode_varint(bytes)
             v == d.varint
  <2>1. SUFFICES ASSUME IsVarint
                 PROVE  /\ encode_varint(v).status = "ok"
                        /\ Writes(encode_varint(v).bytes, v)
                        /\ v <= FOUR_MAX => /\ encode_varint_4(v).status = "ok"
                                            /\ Writes(encode_varint_4(v).bytes, v)
    BY <2>1 DEF VarintsReadBack, Writes
  <2>2. d.status = "ok"
    BY <2>1 DEF IsVarint
  <2>3. v \in Varints
    BY <1>1, <2>2, VarintRead DEF More, Result
  <2> HIDE DEF v
  <2>4. v <= FOUR_MAX => v \in {Unknown} \cup 0..FOUR_MAX
    BY <2>3, LargestVarint DEF Varints
  <2> QED
    BY <2>3, <2>4, EncodesVarint, EncodesVarint4
<1> QED
  BY <1>1, ArrivalType, PTL

(* No varint that is read is shorter than the one written for its value.   *)
THEOREM VarintsMinimalAlways == ArrivalSpec => []VarintsMinimal
<1>1. ASSUME bytes \in Seq(Byte) PROVE VarintsMinimal
  <2> DEFINE d == decode_varint(bytes)
             v == d.varint
             w == encode_varint(v)
  <2>1. SUFFICES ASSUME IsVarint PROVE Len(w.bytes) <= Len(bytes)
    BY <2>1 DEF VarintsMinimal
  <2>2. d.status = "ok" /\ d.size = Len(bytes)
    BY <2>1 DEF IsVarint
  <2>3. v \in Varints /\ d.size \in 1..ByteBits /\ (v # Unknown => v <= Flag(d.size) - 2)
    BY <1>1, <2>2, VarintRead DEF More, Result
  <2> HIDE DEF v
  <2>4. v # Unknown => Len(w.bytes) <= d.size
    BY <2>3, EncodesVarint
  <2>5. v = Unknown => Len(w.bytes) = 1
    BY <2>3, EncodesVarint
  <2> HIDE DEF d, w
  <2>6. d.size >= 1
    BY <2>3, BaseType
  <2>7. Len(w.bytes) <= d.size
    BY <2>4, <2>5, <2>6
  <2> QED
    BY <2>2, <2>7
<1> QED
  BY <1>1, ArrivalType, PTL

-----------------------------------------------------------------------------
(* More bytes change nothing.                                              *)

(* The beginning of a concatenation is that of the first sequence.         *)
LEMMA PrefixOfConcat ==
  ASSUME NEW S, NEW s \in Seq(S), NEW t \in Seq(S), NEW m \in Nat, m >= 1,
         NEW n \in Nat, n <= Len(s)
  PROVE  SubSeq(s \o t, m, n) = SubSeq(s, m, n)
<1>1. Len(s) \in Nat /\ Len(t) \in Nat /\ Len(s \o t) = Len(s) + Len(t)
  OBVIOUS
<1>2. \A i \in 1..Len(s) : (s \o t)[i] = s[i]
  OBVIOUS
<1>3. SubSeq(s \o t, m, n) = [i \in 1..(1 + n - m) |-> (s \o t)[i + m - 1]]
  BY <1>1
<1>4. SubSeq(s, m, n) = [i \in 1..(1 + n - m) |-> s[i + m - 1]]
  BY <1>1
<1>5. \A i \in 1..(1 + n - m) : i + m - 1 \in 1..Len(s)
  BY <1>1
<1> QED
  BY <1>2, <1>3, <1>4, <1>5

(* The rest of a concatenation.                                            *)
LEMMA RestOfConcat ==
  ASSUME NEW S, NEW s \in Seq(S), NEW t \in Seq(S), NEW m \in Nat, m <= Len(s)
  PROVE  SubSeq(s \o t, m + 1, Len(s \o t)) = SubSeq(s, m + 1, Len(s)) \o t
<1> DEFINE u == SubSeq(s \o t, m + 1, Len(s \o t))
           r == SubSeq(s, m + 1, Len(s))
<1>1. Len(s) \in Nat /\ Len(t) \in Nat /\ s \o t \in Seq(S) /\ Len(s \o t) = Len(s) + Len(t)
  OBVIOUS
<1>2. u \in Seq(S) /\ Len(u) = Len(s) + Len(t) - m
  BY <1>1
<1>3. r \in Seq(S) /\ Len(r) = Len(s) - m
  BY <1>1
<1>4. r \o t \in Seq(S) /\ Len(r \o t) = Len(s) + Len(t) - m
  BY <1>1, <1>3
<1>5. ASSUME NEW i \in 1..(Len(s) + Len(t) - m) PROVE u[i] = (r \o t)[i]
  <2>1. u[i] = (s \o t)[i + m]
    BY <1>1, <1>2
  <2>2. CASE i <= Len(s) - m
    <3>1. i \in 1..Len(r) /\ i + m \in 1..Len(s)
      BY <1>1, <1>3, <2>2
    <3>2. (r \o t)[i] = r[i] /\ r[i] = s[i + m] /\ (s \o t)[i + m] = s[i + m]
      BY <1>1, <1>3, <3>1
    <3> QED
      BY <2>1, <3>2
  <2>3. CASE ~(i <= Len(s) - m)
    <3>1. i - Len(r) \in 1..Len(t) /\ (i + m) - Len(s) = i - Len(r)
      <4>1. PICK a \in Nat, b \in Nat : a = Len(s) /\ b = Len(t) /\ m <= a
        BY <1>1
      <4>2. i \in 1..(a + b - m) /\ i > a - m /\ Len(r) = a - m
        BY <1>3, <2>3, <4>1
      <4>3. i - (a - m) \in 1..b /\ (i + m) - a = i - (a - m)
        BY <4>1, <4>2
      <4> QED
        BY <4>1, <4>2, <4>3
    <3>2. (r \o t)[i] = t[i - Len(r)] /\ (s \o t)[i + m] = t[(i + m) - Len(s)]
      BY <1>1, <1>3, <2>3
    <3> QED
      BY <2>1, <3>1, <3>2
  <2> QED
    BY <2>2, <2>3
<1> HIDE DEF u, r
<1>6. Len(u) = Len(r \o t) /\ \A i \in 1..Len(u) : u[i] = (r \o t)[i]
  BY <1>2, <1>4, <1>5
<1>7. u = r \o t
  BY <1>2, <1>4, <1>6, SeqEqual
<1> QED
  BY <1>7 DEF u, r

(* A varint is determined by its own bytes.                                *)
LEMMA VarintExtends ==
  ASSUME NEW s \in Seq(Byte), NEW t \in Seq(Byte), decode_varint(s).status # "more"
  PROVE  decode_varint(s \o t) = decode_varint(s)
<1>1. s # << >>
  BY DEF decode_varint, More, Result
<1>2. /\ Len(s) \in Nat /\ Len(s) >= 1 /\ Len(t) \in Nat
      /\ Len(s \o t) = Len(s) + Len(t) /\ s \o t # << >>
      /\ (s \o t)[1] = s[1] /\ s[1] \in Byte
  BY <1>1
<1>3. CASE s[1] = 0
  BY <1>1, <1>2, <1>3 DEF decode_varint
<1>4. CASE s[1] # 0
  <2>1. PICK size \in Nat : size = VarintSize(s[1]) /\ size >= 1
    <3>1. VarintSize(s[1]) \in 1..ByteBits
      BY <1>2, <1>4, VarintSizeType
    <3> QED
      BY <3>1, BaseType
  <2>2. decode_varint(s) = VarintAt(s, size) /\ decode_varint(s \o t) = VarintAt(s \o t, size)
    BY <1>1, <1>2, <1>4, <2>1 DEF decode_varint
  <2>3. ~(size > Len(s))
    BY <2>2 DEF VarintAt, More, Result
  <2>4. ~(size > Len(s \o t)) /\ SubSeq(s \o t, 1, size) = SubSeq(s, 1, size)
    BY <1>2, <2>1, <2>3, PrefixOfConcat
  <2> QED
    BY <2>2, <2>3, <2>4 DEF VarintAt
<1> QED
  BY <1>3, <1>4

(* What decode_tag returns.                                                *)
LEMMA TagRead ==
  ASSUME NEW s \in Seq(Byte), NEW tag, tag = decode_tag(s), tag.status = "ok"
  PROVE  /\ tag.id \in 0..EIGHT_MAX /\ tag.length \in Varints
         /\ tag.size \in Nat /\ tag.size >= 2 /\ tag.size <= Len(s)
<1> DEFINE id == decode_varint(s)
           rest == SubSeq(s, id.size + 1, Len(s))
           length == decode_varint(rest)
<1>1. id.status = "ok" /\ id.varint # Unknown
  BY DEF decode_tag, TagAfter, Result
<1>2. /\ id.size \in 1..ByteBits /\ id.size \in Nat /\ id.size >= 1
      /\ id.size <= Len(s) /\ id.varint \in 0..EIGHT_MAX
  BY <1>1, VarintRead, BaseType DEF More, Result, Varints
<1>3. rest \in Seq(Byte) /\ Len(rest) = Len(s) - id.size /\ Len(s) \in Nat
  BY <1>2
<1>4. tag = TagOf(id, length)
  BY <1>1 DEF decode_tag, TagAfter
<1> HIDE DEF rest
<1>5. length.status = "ok"
  BY <1>4 DEF TagOf
<1>6. length.varint \in Varints /\ length.size \in Nat /\ length.size >= 1
      /\ length.size <= Len(rest)
  BY <1>3, <1>5, VarintRead, BaseType DEF More, Result
<1> HIDE DEF id, length
<1>7. tag.id = id.varint /\ tag.length = length.varint /\ tag.size = id.size + length.size
  BY <1>4, <1>5 DEF TagOf
<1> QED
  BY <1>2, <1>3, <1>6, <1>7

(* So is a header,                                                         *)
LEMMA TagExtends ==
  ASSUME NEW s \in Seq(Byte), NEW t \in Seq(Byte), decode_tag(s).status # "more"
  PROVE  decode_tag(s \o t) = decode_tag(s)
<1> DEFINE id == decode_varint(s)
           rest == SubSeq(s, id.size + 1, Len(s))
<1>1. id.status # "more"
  BY DEF decode_tag, TagAfter
<1>2. decode_varint(s \o t) = id
  BY <1>1, VarintExtends
<1>3. CASE ~(id.status = "ok" /\ id.varint # Unknown)
  BY <1>2, <1>3 DEF decode_tag, TagAfter
<1>4. CASE id.status = "ok" /\ id.varint # Unknown
  <2>1. id.size \in Nat /\ id.size <= Len(s)
    BY <1>4, VarintRead, BaseType DEF More, Result
  <2>2. rest \in Seq(Byte)
    BY <2>1
  <2>3. SubSeq(s \o t, id.size + 1, Len(s \o t)) = rest \o t
    BY <2>1, RestOfConcat
  <2> HIDE DEF rest
  <2>4. decode_tag(s) = TagOf(id, decode_varint(rest))
    BY <1>4 DEF decode_tag, TagAfter, rest
  <2>5. decode_tag(s \o t) = TagOf(id, decode_varint(rest \o t))
    BY <1>2, <1>4, <2>3 DEF decode_tag, TagAfter
  <2>6. decode_varint(rest).status # "more"
    BY <2>4 DEF TagOf
  <2>7. decode_varint(rest \o t) = decode_varint(rest)
    BY <2>2, <2>6, VarintExtends
  <2> QED
    BY <2>4, <2>5, <2>7
<1> QED
  BY <1>3, <1>4

(* What check_space returns: a layout that lies in the bytes there are.    *)
LEMMA SpaceRead ==
  ASSUME NEW s \in Seq(Byte), NEW info, info = check_space(s), info.status = "ok"
  PROVE  /\ info.offset \in Nat /\ info.len \in Nat
         /\ 2 <= info.offset /\ info.offset <= info.len /\ info.len <= Len(s)
         /\ info.id \in 0..EIGHT_MAX
<1> DEFINE tag == decode_tag(s)
<1>1. tag.status = "ok"
  BY DEF check_space, SpaceFor
<1>2. /\ tag.id \in 0..EIGHT_MAX /\ tag.length \in Varints
      /\ tag.size \in Nat /\ tag.size >= 2 /\ tag.size <= Len(s)
  BY <1>1, TagRead
<1> HIDE DEF tag
<1>3. info = SpaceFor(tag, Len(s))
  BY DEF check_space, tag
<1>4. CASE should_unwrap(tag.id)
  <2>1. info = Layout(tag, tag.size)
    BY <1>1, <1>3, <1>4 DEF SpaceFor
  <2> QED
    BY <1>2, <2>1 DEF Layout
<1>5. CASE ~should_unwrap(tag.id)
  <2>1. tag.length # Unknown
    BY <1>1, <1>3, <1>5 DEF SpaceFor, Result, More
  <2>2. tag.length \in Nat
    BY <1>2, <2>1 DEF Varints
  <2>3. ~(tag.size + tag.length > Len(s))
    BY <1>1, <1>3, <1>5, <2>1 DEF SpaceFor, Result, More
  <2>4. info = Layout(tag, tag.size + tag.length)
    BY <1>1, <1>3, <1>5, <2>1, <2>3 DEF SpaceFor
  <2>5. Len(s) \in Nat
    OBVIOUS
  <2> QED
    BY <1>2, <2>2, <2>3, <2>4, <2>5 DEF Layout
<1> QED
  BY <1>4, <1>5

(* the place where an element ends,                                        *)
LEMMA SpaceExtends ==
  ASSUME NEW s \in Seq(Byte), NEW t \in Seq(Byte), check_space(s).status # "more"
  PROVE  check_space(s \o t) = check_space(s)
<1> DEFINE tag == decode_tag(s)
<1>1. tag.status # "more"
  BY DEF check_space, SpaceFor
<1>2. decode_tag(s \o t) = tag
  BY <1>1, TagExtends
<1>3. check_space(s) = SpaceFor(tag, Len(s)) /\ check_space(s \o t) = SpaceFor(tag, Len(s \o t))
  BY <1>2 DEF check_space
<1>4. Len(s) \in Nat /\ Len(s \o t) \in Nat /\ Len(s) <= Len(s \o t)
  OBVIOUS
<1>5. tag.status = "ok" => tag.length \in Varints /\ tag.size \in Nat
  BY TagRead
<1> HIDE DEF tag
<1>6. CASE tag.status # "ok" \/ should_unwrap(tag.id) \/ tag.length = Unknown
  BY <1>3, <1>6 DEF SpaceFor
<1>7. CASE tag.status = "ok" /\ ~should_unwrap(tag.id) /\ tag.length # Unknown
  <2>1. ~(tag.size + tag.length > Len(s))
    BY <1>3, <1>7 DEF SpaceFor, Result, More
  <2>2. tag.length \in Nat
    BY <1>5, <1>7 DEF Varints
  <2>3. ~(tag.size + tag.length > Len(s \o t))
    BY <1>4, <1>5, <1>7, <2>1, <2>2
  <2> QED
    BY <1>3, <1>7, <2>1, <2>3 DEF SpaceFor
<1> QED
  BY <1>6, <1>7

(* and the element.                                                        *)
LEMMA ElementExtends ==
  ASSUME NEW s \in Seq(Byte), NEW t \in Seq(Byte), decode_element(s).status # "more"
  PROVE  decode_element(s \o t) = decode_element(s)
<1> DEFINE info == check_space(s)
<1>1. info.status # "more"
  BY DEF decode_element, ElementIn
<1>2. check_space(s \o t) = info
  BY <1>1, SpaceExtends
<1>3. info.status = "ok" =>
        SubSeq(s \o t, info.offset + 1, info.len) = SubSeq(s, info.offset + 1, info.len)
  <2>1. SUFFICES ASSUME info.status = "ok"
                 PROVE SubSeq(s \o t, info.offset + 1, info.len) =
                         SubSeq(s, info.offset + 1, info.len)
    OBVIOUS
  <2>2. info.offset + 1 \in Nat /\ info.offset + 1 >= 1 /\ info.len \in Nat
        /\ info.len <= Len(s)
    BY <2>1, SpaceRead
  <2> QED
    BY <2>2, PrefixOfConcat
<1> QED
  BY <1>2, <1>3 DEF decode_element, ElementIn

(* An element or an error that was found is found again whatever follows.  *)
THEOREM VerdictFinalAlways == ArrivalSpec => VerdictFinal
<1>1. ASSUME bytes \in Seq(Byte), [ArrivalNext]_bytes,
             decode_element(bytes).status # "more"
      PROVE  decode_element(bytes') = decode_element(bytes)
  <2>1. CASE UNCHANGED bytes
    BY <2>1
  <2>2. CASE ArrivalNext
    <3>1. PICK b \in Byte : bytes' = Append(bytes, b)
      BY <2>2 DEF ArrivalNext, Arrive
    <3>2. bytes' = bytes \o <<b>> /\ <<b>> \in Seq(Byte)
      BY <1>1, <3>1
    <3> QED
      BY <1>1, <3>2, ElementExtends
  <2> QED
    BY <1>1, <2>1, <2>2
<1>2. bytes \in Seq(Byte) /\ [ArrivalNext]_bytes
        => (decode_element(bytes).status # "more"
              => decode_element(bytes') = decode_element(bytes))
  BY <1>1
<1> QED
  BY <1>2, ArrivalType, PTL DEF ArrivalSpec, VerdictFinal

-----------------------------------------------------------------------------
(* What is written is read.                                                *)

LEMMA Joined ==
  ASSUME NEW S, NEW s \in Seq(S), NEW t \in Seq(S)
  PROVE  /\ s \o t \in Seq(S) /\ Len(s \o t) = Len(s) + Len(t)
         /\ Len(s) \in Nat /\ Len(t) \in Nat
OBVIOUS

(* Behind the first part of a concatenation is the second.                 *)
LEMMA BehindFirst ==
  ASSUME NEW S, NEW s \in Seq(S), NEW t \in Seq(S)
  PROVE  /\ SubSeq(s \o t, 1, Len(s)) = s
         /\ SubSeq(s \o t, Len(s) + 1, Len(s \o t)) = t
<1>1. Len(s) \in Nat /\ Len(s) <= Len(s) /\ SubSeq(s, 1, Len(s)) = s
      /\ SubSeq(s, Len(s) + 1, Len(s)) = << >>
  OBVIOUS
<1>2. SubSeq(s \o t, 1, Len(s)) = s
  BY <1>1, PrefixOfConcat
<1>3. SubSeq(s \o t, Len(s) + 1, Len(s \o t)) = << >> \o t
  BY <1>1, RestOfConcat
<1> QED
  BY <1>2, <1>3, ConcatEmptySeq

Associates(x, y, z) == (x \o y) \o z = x \o (y \o z)

LEMMA Associative ==
  ASSUME NEW x \in Seq(Byte), NEW y \in Seq(Byte), NEW z \in Seq(Byte)
  PROVE  Associates(x, y, z)
BY ConcatAssociative DEF Associates

(* The bytes s begin with a header, which is a and b, and go on with t.    *)
Header(s, a, b, t, id, length) ==
  /\ s \in Seq(Byte) /\ Len(s) = Len(a) + Len(b) + Len(t)
  /\ SubSeq(s, Len(a) + Len(b) + 1, Len(s)) = t
  /\ decode_tag(s) = [status |-> "ok", id |-> id, length |-> length,
                      size |-> Len(a) + Len(b)]

(* The header of an element, with its id and length in any form.           *)
LEMMA HeaderReads ==
  ASSUME NEW a \in Seq(Byte), NEW id \in 0..EIGHT_MAX, Writes(a, id),
         NEW b \in Seq(Byte), NEW length \in Varints, Writes(b, length),
         NEW t \in Seq(Byte), NEW s, s = (a \o b) \o t
  PROVE  Header(s, a, b, t, id, length)
<1>3. decode_varint(a) = [status |-> "ok", size |-> Len(a), varint |-> id]
  BY DEF Writes
<1>4. decode_varint(b) = [status |-> "ok", size |-> Len(b), varint |-> length]
  BY DEF Writes
<1>5. PICK h \in Seq(Byte) : h = a \o b /\ Len(h) = Len(a) + Len(b)
  BY Joined
<1>6. PICK r \in Seq(Byte) : r = b \o t
  BY Joined
<1>7. s = a \o r /\ s = h \o t
  <2>1. Associates(a, b, t)
    BY Associative
  <2> QED
    BY <1>5, <1>6, <2>1 DEF Associates
<1>8. decode_varint(a).status # "more" /\ decode_varint(b).status # "more"
  BY <1>3, <1>4
<1>9. decode_varint(s) = decode_varint(a)
  BY <1>7, <1>8, VarintExtends
<1>10. decode_varint(r) = decode_varint(b)
  BY <1>6, <1>8, VarintExtends
<1>11. SubSeq(s, Len(a) + 1, Len(s)) = r
  <2>1. SubSeq(a \o r, Len(a) + 1, Len(a \o r)) = r
    BY BehindFirst
  <2> QED
    BY <1>7, <2>1
<1>12. id # Unknown
  BY DEF Unknown
<1>13. decode_tag(s) = TagOf(decode_varint(a), decode_varint(r))
  <2> DEFINE d == decode_varint(a)
  <2>1. d.status = "ok" /\ d.size = Len(a) /\ d.varint = id
    BY <1>3
  <2> HIDE DEF d
  <2>2. decode_tag(s) = TagAfter(d, s)
    BY <1>9 DEF decode_tag, d
  <2>3. TagAfter(d, s) = TagOf(d, decode_varint(SubSeq(s, d.size + 1, Len(s))))
    BY <1>12, <2>1 DEF TagAfter
  <2> QED
    BY <1>11, <2>1, <2>2, <2>3 DEF d
<1>14. decode_tag(s) = [status |-> "ok", id |-> id, length |-> length,
                        size |-> Len(a) + Len(b)]
  BY <1>3, <1>4, <1>10, <1>13 DEF TagOf
<1>15. /\ s \in Seq(Byte) /\ Len(s) = Len(h) + Len(t)
       /\ SubSeq(s, Len(h) + 1, Len(s)) = t
  BY <1>7, BehindFirst, Joined
<1>16. Len(h) + Len(t) = Len(a) + Len(b) + Len(t) /\ Len(h) + 1 = Len(a) + Len(b) + 1
  BY <1>5
<1> QED
  BY <1>14, <1>15, <1>16 DEF Header

(* In s there is an element with this id and payload, and nothing else.    *)
Holds(s, id, t) ==
  s \in Seq(Byte) /\ decode_element(s) = ElementOf(decode(id, t), Len(s))

(* An element whose length is that of its payload.                         *)
LEMMA PayloadReads ==
  ASSUME NEW a \in Seq(Byte), NEW id \in 0..EIGHT_MAX, Writes(a, id), ~should_unwrap(id),
         NEW t \in Seq(Byte), NEW b \in Seq(Byte), NEW m \in Varints, m = Len(t),
         Writes(b, m), NEW s, s = (a \o b) \o t
  PROVE  Holds(s, id, t)
<1>1. m = Len(t)
  OBVIOUS
<1>2. PICK n \in Nat : n = Len(a) + Len(b)
  OBVIOUS
<1> DEFINE tag == [status |-> "ok", id |-> id, length |-> m, size |-> n]
<1>3. Header(s, a, b, t, id, m)
  BY <1>1, HeaderReads
<1>4. s \in Seq(Byte) /\ Len(s) = n + m /\ SubSeq(s, n + 1, Len(s)) = t
      /\ decode_tag(s) = tag
  BY <1>1, <1>2, <1>3 DEF Header
<1>5. m \in Nat /\ m # Unknown /\ ~(n + m > Len(s))
  BY <1>1, <1>4 DEF Unknown
<1>6. check_space(s) = Layout(tag, n + m)
  BY <1>4, <1>5 DEF check_space, SpaceFor
<1>7. check_space(s) = [status |-> "ok", id |-> id, offset |-> n, len |-> Len(s)]
  BY <1>4, <1>6 DEF Layout
<1>8. decode_element(s) = ElementOf(decode(id, SubSeq(s, n + 1, Len(s))), Len(s))
  BY <1>7 DEF decode_element, ElementIn
<1> QED
  BY <1>4, <1>8 DEF Holds

(* An element that is unwrapped is its header.                             *)
LEMMA UnwrappedReads ==
  ASSUME NEW a \in Seq(Byte), NEW id \in 0..EIGHT_MAX, Writes(a, id), should_unwrap(id),
         NEW b \in Seq(Byte), NEW length \in Varints, Writes(b, length),
         NEW s, s = a \o b
  PROVE  Holds(s, id, << >>)
<1>1. PICK e \in Seq(Byte) : e = << >>
  <2>1. << >> \in Seq(Byte)
    OBVIOUS
  <2> QED
    BY <2>1
<1>2. s \in Seq(Byte) /\ Len(s) = Len(a) + Len(b)
  BY Joined
<1>3. s = (a \o b) \o e
  BY <1>1, <1>2, ConcatEmptySeq
<1>4. Header(s, a, b, e, id, length)
  BY <1>3, HeaderReads
<1>5. PICK n \in Nat : n = Len(s)
  BY <1>2
<1> DEFINE tag == [status |-> "ok", id |-> id, length |-> length, size |-> n]
<1>6. decode_tag(s) = tag
  BY <1>2, <1>4, <1>5 DEF Header
<1>7. check_space(s) = Layout(tag, n)
  BY <1>6 DEF check_space, SpaceFor
<1>8. SubSeq(s, n + 1, n) = << >>
  BY <1>2, <1>5
<1>9. decode_element(s) = ElementOf(decode(id, SubSeq(s, n + 1, n)), n)
  BY <1>7 DEF decode_element, ElementIn, Layout
<1> QED
  BY <1>2, <1>5, <1>8, <1>9 DEF Holds

(* Where u was between a and c there is v.                                 *)
Overwritten(a, u, v, c) == Overwrite((a \o u) \o c, Len(a), v) = (a \o v) \o c

LEMMA OverwriteMiddle ==
  ASSUME NEW a \in Seq(Byte), NEW u \in Seq(Byte), NEW v \in Seq(Byte), NEW c \in Seq(Byte),
         Len(u) = Len(v)
  PROVE  Overwritten(a, u, v, c)
<1>1. PICK i \in Nat, j \in Nat, k \in Nat :
             i = Len(a) /\ j = Len(u) /\ j = Len(v) /\ k = Len(c)
  OBVIOUS
<1>2. PICK p \in Seq(Byte) : p = a \o u /\ Len(p) = i + j
  <2>1. a \o u \in Seq(Byte) /\ Len(a \o u) = Len(a) + Len(u)
    BY Joined
  <2> QED
    BY <1>1, <2>1
<1>3. PICK q \in Seq(Byte) : q = a \o v /\ Len(q) = i + j
  <2>1. a \o v \in Seq(Byte) /\ Len(a \o v) = Len(a) + Len(v)
    BY Joined
  <2> QED
    BY <1>1, <2>1
<1>4. PICK s \in Seq(Byte) : s = p \o c /\ Len(s) = i + j + k
  <2>1. p \o c \in Seq(Byte) /\ Len(p \o c) = Len(p) + Len(c)
    BY Joined
  <2> QED
    BY <1>1, <1>2, <2>1
<1>5. PICK t \in Seq(Byte) : t = q \o c /\ Len(t) = i + j + k
  <2>1. q \o c \in Seq(Byte) /\ Len(q \o c) = Len(q) + Len(c)
    BY Joined
  <2> QED
    BY <1>1, <1>3, <2>1
<1>6. \A n \in 1..(i + j) : p[n] = IF n <= i THEN a[n] ELSE u[n - i]
  BY <1>1, <1>2, ConcatProperties
<1>7. \A n \in 1..(i + j) : q[n] = IF n <= i THEN a[n] ELSE v[n - i]
  BY <1>1, <1>3, ConcatProperties
<1>8. \A n \in 1..(i + j + k) : s[n] = IF n <= i + j THEN p[n] ELSE c[n - (i + j)]
  <2>1. \A n \in 1..Len(p) + Len(c) :
          (p \o c)[n] = IF n <= Len(p) THEN p[n] ELSE c[n - Len(p)]
    BY ConcatProperties
  <2> QED
    BY <1>1, <1>2, <1>4, <2>1
<1>9. \A n \in 1..(i + j + k) : t[n] = IF n <= i + j THEN q[n] ELSE c[n - (i + j)]
  BY <1>1, <1>3, <1>5, ConcatProperties
<1>10. ASSUME NEW n \in 1..(i + j + k)
       PROVE  t[n] = IF n - i \in 1..j THEN v[n - i] ELSE s[n]
  <2>1. CASE n <= i
    BY <1>6, <1>7, <1>8, <1>9, <2>1
  <2>2. CASE i < n /\ n <= i + j
    <3>1. n \in 1..(i + j) /\ n - i \in 1..j /\ ~(n <= i)
      BY <2>2
    <3>2. t[n] = q[n] /\ q[n] = v[n - i]
      BY <1>7, <1>9, <2>2, <3>1
    <3> QED
      BY <3>1, <3>2
  <2>3. CASE i + j < n
    <3>1. ~(n <= i + j) /\ n - i \notin 1..j
      BY <2>3
    <3>2. t[n] = c[n - (i + j)] /\ s[n] = c[n - (i + j)]
      BY <1>8, <1>9, <3>1
    <3> QED
      BY <3>1, <3>2
  <2> QED
    BY <2>1, <2>2, <2>3
<1>11. t = [n \in 1..(i + j + k) |-> t[n]]
  <2>1. t = [n \in 1..Len(t) |-> t[n]]
    OBVIOUS
  <2> QED
    BY <1>5, <2>1
<1>12. Overwrite(s, i, v) =
         [n \in 1..(i + j + k) |-> IF n - i \in 1..j THEN v[n - i] ELSE s[n]]
  BY <1>1, <1>4 DEF Overwrite
<1>13. Overwrite(s, i, v) = t
  BY <1>10, <1>11, <1>12
<1> QED
  BY <1>1, <1>2, <1>3, <1>4, <1>5, <1>13 DEF Overwritten

-----------------------------------------------------------------------------
(* The elements, one kind after the other.                                 *)

(* Ids can be written.                                                     *)
LEMMA IdType ==
  ASSUME NEW t \in TagNames
  PROVE  /\ Id[t] \in 0..EIGHT_MAX /\ Id[t] \in Varints
         /\ encode_varint(Id[t]).bytes \in Seq(Byte)
         /\ Writes(encode_varint(Id[t]).bytes, Id[t])
<1>1. Id[t] \in 0..EIGHT_MAX
  BY WebmAssumption
<1>2. Id[t] \in Varints
  BY <1>1 DEF Varints
<1>3. PICK v \in Varints : v = Id[t]
  BY <1>2
<1>4. Writes(encode_varint(v).bytes, v)
  BY EncodesVarint
<1> QED
  BY <1>1, <1>2, <1>3, <1>4 DEF Writes

LEMMA IdsDiffer ==
  ASSUME NEW t \in Tags, NEW u \in Tags, t # u PROVE Id[t] # Id[u]
BY WebmAssumption

(* Segments and clusters are unwrapped, and nothing else is.               *)
LEMMA Unwrapped ==
  ASSUME NEW t \in Tags PROVE should_unwrap(Id[t]) <=> t \in {"Segment", "Cluster"}
<1>1. "Segment" \in Tags /\ "Cluster" \in Tags
  BY DEF Tags, TagNames
<1> QED
  BY <1>1, IdsDiffer DEF should_unwrap

PlainTags == Tags \ {"Tracks", "Timecode", "SimpleBlock"}

(* An id without a payload of interest stands for its kind,                *)
LEMMA DecodesPlain ==
  ASSUME NEW t \in PlainTags, NEW s PROVE decode(Id[t], s) = Decoded(Plain(t))
<1>1. t \in Tags /\ "Tracks" \in Tags /\ "Timecode" \in Tags /\ "SimpleBlock" \in Tags
      /\ t # "Tracks" /\ t # "Timecode" /\ t # "SimpleBlock"
  BY DEF PlainTags, Tags, TagNames
<1>2. Id[t] # Id["Tracks"] /\ Id[t] # Id["Timecode"] /\ Id[t] # Id["SimpleBlock"]
  BY <1>1, IdsDiffer
<1>3. \A u \in Tags : Id[u] = Id[t] => u = t
  BY <1>1, IdsDiffer
<1>4. (CHOOSE u \in Tags : Id[u] = Id[t]) = t
  BY <1>1, <1>3
<1> QED
  BY <1>1, <1>2, <1>4 DEF decode

(* the others for what their payload says.                                 *)
LEMMA DecodesOther ==
  ASSUME NEW s
  PROVE  /\ decode(Id["Tracks"], s) = Decoded(Tracks(s))
         /\ decode(Id["Timecode"], s) = TimecodeOf(decode_uint(s))
         /\ decode(Id["SimpleBlock"], s) = decode_simple_block(s)
<1>1. "Tracks" \in Tags /\ "Timecode" \in Tags /\ "SimpleBlock" \in Tags
  BY DEF Tags, TagNames
<1>2. /\ Id["Tracks"] # Id["Timecode"] /\ Id["Tracks"] # Id["SimpleBlock"]
      /\ Id["Timecode"] # Id["SimpleBlock"]
  BY <1>1, IdsDiffer
<1> QED
  BY <1>2 DEF decode

(* The bytes s are the element e and nothing else.                         *)
Reads(s, e) ==
  s \in Seq(Byte) /\ decode_element(s) = [status |-> "ok", element |-> e, len |-> Len(s)]

LEMMA FoundIs ==
  ASSUME NEW e, NEW n
  PROVE  ElementOf(Decoded(e), n) = [status |-> "ok", element |-> e, len |-> n]
BY DEF ElementOf, Decoded

(* Writing e appends s, whatever was written before.                       *)
Appends(e, s) ==
  /\ s \in Seq(Byte)
  /\ \A out \in Seq(Byte) : encode_webm_element(e, out) = Written(out \o s)

(* A header is appended.                                                   *)
LEMMA HeaderAppends ==
  ASSUME NEW tag \in Varints, NEW size \in Varints, NEW out \in Seq(Byte)
  PROVE  /\ encode_varint(tag).bytes \in Seq(Byte) /\ encode_varint(size).bytes \in Seq(Byte)
         /\ encode_tag_header(tag, size, out) =
              out \o (encode_varint(tag).bytes \o encode_varint(size).bytes)
<1>1. PICK a \in Seq(Byte) : a = encode_varint(tag).bytes
  BY EncodesVarint DEF Writes
<1>2. PICK b \in Seq(Byte) : b = encode_varint(size).bytes
  BY EncodesVarint DEF Writes
<1>3. Associates(out, a, b)
  BY Associative
<1> QED
  BY <1>1, <1>2, <1>3 DEF encode_tag_header, Associates

(* What follows a header is a payload of the length it says.               *)
LEMMA PayloadAppends ==
  ASSUME NEW t \in Tags, t \notin {"Segment", "Cluster"},
         NEW p \in Seq(Byte), Len(p) <= EIGHT_MAX
  PROVE  \E s \in Seq(Byte) :
           /\ Holds(s, Id[t], p)
           /\ s # << >>
           /\ \A out \in Seq(Byte) :
                encode_tag_header(Id[t], Len(p), out) \o p = out \o s
<1>1. t \in TagNames
  BY DEF Tags
<1>2. PICK a \in Seq(Byte) : a = encode_varint(Id[t]).bytes /\ Writes(a, Id[t])
  BY <1>1, IdType
<1>3. PICK m \in Varints : m = Len(p) /\ m \in Nat
  BY LargestVarint DEF Varints
<1>4. PICK b \in Seq(Byte) : b = encode_varint(m).bytes /\ Writes(b, m)
  BY EncodesVarint DEF Writes
<1>5. PICK h \in Seq(Byte) : h = a \o b
  BY Joined
<1>6. PICK s \in Seq(Byte) : s = h \o p
  BY Joined
<1>7. Holds(s, Id[t], p)
  <2>1. PICK id \in 0..EIGHT_MAX : id = Id[t] /\ Writes(a, id) /\ ~should_unwrap(id)
    BY <1>1, <1>2, Unwrapped, IdType
  <2>2. s = (a \o b) \o p
    BY <1>5, <1>6
  <2>3. Holds(s, id, p)
    BY <1>3, <1>4, <2>1, <2>2, PayloadReads
  <2> QED
    BY <2>1, <2>3
<1>8. s # << >>
  <2>1. Len(a) \in Nat /\ Len(a) > 0 /\ Len(b) \in Nat /\ Len(p) \in Nat
    BY <1>2 DEF Writes
  <2>2. Len(h) = Len(a) + Len(b) /\ Len(s) = Len(h) + Len(p)
    BY <1>5, <1>6, Joined
  <2>3. Len(s) > 0
    BY <2>1, <2>2
  <2> QED
    BY <2>3
<1>9. ASSUME NEW out \in Seq(Byte)
      PROVE  encode_tag_header(Id[t], Len(p), out) \o p = out \o s
  <2>1. encode_tag_header(Id[t], m, out) = out \o h
    BY <1>1, <1>2, <1>4, <1>5, IdType, HeaderAppends
  <2>2. Associates(out, h, p)
    BY Associative
  <2> QED
    BY <1>3, <1>6, <2>1, <2>2 DEF Associates
<1> QED
  BY <1>7, <1>8, <1>9

(* Tracks.                                                                 *)
LEMMA WritesTracks ==
  ASSUME NEW e \in WebmElement, e.kind = "Tracks", Len(e.data) <= EIGHT_MAX
  PROVE  \E s : s # << >> /\ Appends(e, s) /\ Reads(s, e)
<1>1. PICK p \in Seq(Byte) : p = e.data /\ e = Tracks(p)
  BY DEF WebmElement, Tracks, Tags, TagNames
<1>2. "Tracks" \in Tags /\ "Tracks" \notin {"Segment", "Cluster"}
  BY DEF Tags, TagNames
<1>3. PICK s \in Seq(Byte) :
             /\ Holds(s, Id["Tracks"], p)
             /\ s # << >>
             /\ \A out \in Seq(Byte) :
                  encode_tag_header(Id["Tracks"], Len(p), out) \o p = out \o s
  BY <1>1, <1>2, PayloadAppends
<1>4. Reads(s, e)
  BY <1>1, <1>3, DecodesOther, FoundIs DEF Reads, Holds
<1>5. ASSUME NEW out \in Seq(Byte) PROVE encode_webm_element(e, out) = Written(out \o s)
  BY <1>1, <1>3 DEF encode_webm_element, encode_bytes
<1> QED
  BY <1>3, <1>4, <1>5 DEF Appends

(* A timecode, in as many bytes as a u64 has.                              *)
LEMMA WritesTimecode ==
  ASSUME NEW e \in WebmElement, e.kind = "Timecode"
  PROVE  \E s : s # << >> /\ Appends(e, s) /\ Reads(s, e)
<1>1. PICK n \in u64 : n = e.time /\ e = Timecode(n)
  BY DEF WebmElement, Timecode, Tags, TagNames
<1>2. "Timecode" \in Tags /\ "Timecode" \notin {"Segment", "Cluster"}
  BY DEF Tags, TagNames
<1>3. ByteBits \in Nat /\ ByteBits >= 4 /\ n \in Nat /\ n < Pow2[ByteBits * ByteBits]
  BY BaseType, NextPower DEF u64
<1>4. PICK p \in Seq(Byte) : p = PutUint(n, ByteBits) /\ Len(p) = ByteBits
  BY <1>3, PutUintType
<1>5. ReadUint(p) = n
  BY <1>3, <1>4, ReadPut
<1>6. Len(p) <= EIGHT_MAX
  <2>1. (ByteBits - 1) * ByteBits \in Nat /\ (ByteBits - 1) * ByteBits >= ByteBits + 2
    BY <1>3
  <2>2. Flag(ByteBits) \in Nat /\ Flag(ByteBits) > (ByteBits - 1) * ByteBits
    BY <2>1, PowExceeds DEF Flag
  <2> QED
    BY <1>3, <1>4, <2>1, <2>2 DEF EIGHT_MAX
<1>7. PICK s \in Seq(Byte) :
             /\ Holds(s, Id["Timecode"], p)
             /\ s # << >>
             /\ \A out \in Seq(Byte) :
                  encode_tag_header(Id["Timecode"], Len(p), out) \o p = out \o s
  BY <1>2, <1>6, PayloadAppends
<1>8. decode_uint(p) = [status |-> "ok", number |-> n]
  BY <1>3, <1>4, <1>5 DEF decode_uint
<1>9. Reads(s, e)
  <2>1. TimecodeOf(decode_uint(p)) = Decoded(e)
    BY <1>1, <1>8 DEF TimecodeOf
  <2> QED
    BY <1>7, <2>1, DecodesOther, FoundIs DEF Reads, Holds
<1>10. ASSUME NEW out \in Seq(Byte) PROVE encode_webm_element(e, out) = Written(out \o s)
  <2>1. encode_integer(Id["Timecode"], n, out) = out \o s
    BY <1>4, <1>7 DEF encode_integer
  <2> QED
    BY <1>1, <2>1 DEF encode_webm_element, Timecode
<1> QED
  BY <1>7, <1>9, <1>10 DEF Appends

(* A segment or a cluster, of unknown length.                              *)
LEMMA WritesUnwrapped ==
  ASSUME NEW t \in {"Segment", "Cluster"}
  PROVE  \E s : s # << >> /\ Appends(Plain(t), s) /\ Reads(s, Plain(t))
<1>1. t \in Tags /\ t \in TagNames /\ t \in PlainTags
  BY DEF Tags, TagNames, PlainTags
<1>2. PICK a \in Seq(Byte) : a = encode_varint(Id[t]).bytes /\ Writes(a, Id[t])
  BY <1>1, IdType
<1>3. PICK m \in Varints : m = Unknown
  BY DEF Varints
<1>4. PICK b \in Seq(Byte) : b = encode_varint(m).bytes /\ Writes(b, m)
  BY EncodesVarint DEF Writes
<1>5. PICK s \in Seq(Byte) : s = a \o b
  BY Joined
<1>6. Holds(s, Id[t], << >>)
  <2>1. PICK id \in 0..EIGHT_MAX : id = Id[t] /\ Writes(a, id) /\ should_unwrap(id)
    BY <1>1, <1>2, Unwrapped, IdType
  <2>2. Holds(s, id, << >>)
    BY <1>4, <1>5, <2>1, UnwrappedReads
  <2> QED
    BY <2>1, <2>2
<1>7. Reads(s, Plain(t))
  BY <1>1, <1>6, DecodesPlain, FoundIs DEF Reads, Holds
<1>8. s # << >>
  <2>1. Len(a) \in Nat /\ Len(a) > 0 /\ Len(b) \in Nat
    BY <1>2 DEF Writes
  <2>2. Len(s) = Len(a) + Len(b)
    BY <1>5, Joined
  <2> QED
    BY <2>1, <2>2
<1>9. ASSUME NEW out \in Seq(Byte)
      PROVE  encode_webm_element(Plain(t), out) = Written(out \o s)
  <2>1. encode_tag_header(Id[t], m, out) = out \o s
    BY <1>1, <1>2, <1>4, <1>5, IdType, HeaderAppends
  <2> QED
    BY <1>3, <2>1 DEF encode_webm_element, Plain
<1> QED
  BY <1>7, <1>8, <1>9 DEF Appends

(* What is left out.                                                       *)
LEMMA WritesNothing ==
  ASSUME NEW t \in {"SeekHead", "Cues"} PROVE Appends(Plain(t), << >>)
<1>1. << >> \in Seq(Byte)
  OBVIOUS
<1>2. ASSUME NEW out \in Seq(Byte) PROVE encode_webm_element(Plain(t), out) = Written(out \o << >>)
  <2>1. out \o << >> = out
    BY ConcatEmptySeq
  <2> QED
    BY <2>1 DEF encode_webm_element, Plain
<1> QED
  BY <1>1, <1>2 DEF Appends

(* The content of the EBML head is short enough for a length of 4 bytes.   *)
LEMMA DocTypeFits ==
  ASSUME NEW c, c = encode_bytes(Id["DocType"], DocType, << >>)
  PROVE  c \in Seq(Byte) /\ Len(c) \in 0..FOUR_MAX
<1>1. DocType \in Seq(Byte) /\ Len(DocType) = 4
  <2>1. DocType \in [1..4 -> Byte] /\ 4 \in Nat
    BY WebmAssumption
  <2>2. DocType \in Seq(Byte)
    BY <2>1, SeqDef
  <2> QED
    BY <2>1, <2>2
<1>2. PICK a \in Seq(Byte) : a = encode_varint(Id["DocType"]).bytes /\ Len(a) <= ByteBits
  <2>1. "DocType" \in TagNames
    BY DEF TagNames
  <2>2. PICK v \in Varints : v = Id["DocType"] /\ v \in 0..EIGHT_MAX /\ v # Unknown
    BY <2>1, IdType DEF Unknown
  <2>3. ByteBits \in 1..ByteBits /\ v <= Flag(ByteBits) - 2
    BY <2>2, BaseType, LargestVarint DEF EIGHT_MAX
  <2>4. Writes(encode_varint(v).bytes, v) /\ Len(encode_varint(v).bytes) <= ByteBits
    BY <2>2, <2>3, EncodesVarint
  <2> QED
    BY <2>2, <2>4 DEF Writes
<1>3. PICK b \in Seq(Byte) : b = encode_varint(Len(DocType)).bytes /\ Len(b) <= ByteBits
  <2>1. PICK v \in Varints : v = Len(DocType) /\ v # Unknown /\ v <= Flag(ByteBits) - 2
                             /\ ByteBits \in 1..ByteBits
    <3>1. ByteBits \in Nat /\ ByteBits >= 4 /\ Flag(ByteBits) \in Nat /\ Flag(ByteBits) >= 8
      BY BaseType, FlagType
    <3>2. 4 \in 0..EIGHT_MAX
      BY <3>1 DEF EIGHT_MAX
    <3> QED
      BY <1>1, <3>1, <3>2 DEF Varints, Unknown
  <2>2. Writes(encode_varint(v).bytes, v) /\ Len(encode_varint(v).bytes) <= ByteBits
    BY <2>1, EncodesVarint
  <2> QED
    BY <2>1, <2>2 DEF Writes
<1>4. PICK e \in Seq(Byte) : e = << >> /\ Len(e) = 0
  <2>1. << >> \in Seq(Byte) /\ Len(<< >>) = 0
    OBVIOUS
  <2> QED
    BY <2>1
<1>5. PICK f \in Seq(Byte) : f = e \o a /\ Len(f) <= ByteBits
  <2>1. e \o a \in Seq(Byte) /\ Len(e \o a) = Len(e) + Len(a) /\ Len(a) \in Nat
    BY Joined
  <2> QED
    BY <1>2, <1>4, <2>1
<1>6. PICK h \in Seq(Byte) : h = f \o b /\ Len(h) <= ByteBits + ByteBits
  <2>1. f \o b \in Seq(Byte) /\ Len(f \o b) = Len(f) + Len(b) /\ Len(f) \in Nat /\ Len(b) \in Nat
    BY Joined
  <2>2. PICK x \in Nat, y \in Nat : x = Len(f) /\ y = Len(b) /\ x <= ByteBits /\ y <= ByteBits
    BY <1>3, <1>5, <2>1
  <2>3. x + y <= ByteBits + ByteBits
    BY <2>2, BaseType
  <2> QED
    BY <2>1, <2>2, <2>3
<1>7. c = h \o DocType
  BY <1>2, <1>3, <1>4, <1>5, <1>6 DEF encode_bytes, encode_tag_header
<1>8. c \in Seq(Byte) /\ Len(c) \in Nat /\ Len(c) <= 2 * ByteBits + 4
  <2>1. h \o DocType \in Seq(Byte) /\ Len(h \o DocType) = Len(h) + 4 /\ Len(h) \in Nat
    BY <1>1, Joined
  <2>2. PICK x \in Nat : x = Len(h) /\ x <= ByteBits + ByteBits
    BY <1>6, <2>1
  <2>3. c \in Seq(Byte) /\ Len(c) = x + 4
    BY <1>7, <2>1, <2>2
  <2> QED
    BY <2>2, <2>3, BaseType
<1>9. 2 * ByteBits + 4 <= FOUR_MAX /\ FOUR_MAX \in Nat
  <2>1. PICK k \in Nat : k = 4 * ByteBits - 7 /\ ByteBits \in Nat /\ ByteBits >= 4
    BY BaseType
  <2>2. (ByteBits - 1) * 4 = ((k + 1) + 1) + 1
    BY <2>1
  <2>3. Pow2[((k + 1) + 1) + 1] = 8 * Pow2[k] /\ Pow2[k] \in Nat /\ Pow2[k] > k
    <3>1. k + 1 \in Nat /\ (k + 1) + 1 \in Nat
      OBVIOUS
    <3>2. Pow2[k + 1] = 2 * Pow2[k] /\ Pow2[(k + 1) + 1] = 2 * Pow2[k + 1]
          /\ Pow2[((k + 1) + 1) + 1] = 2 * Pow2[(k + 1) + 1]
      BY <3>1, PowStep
    <3> QED
      BY <3>2, PowExceeds
  <2>4. Flag(4) = 8 * Pow2[k]
    BY <2>2, <2>3 DEF Flag
  <2> QED
    BY <2>1, <2>3, <2>4 DEF FOUR_MAX
<1> QED
  BY <1>8, <1>9, BaseType

LengthOverwritten(out, a, u, b, c) ==
  Overwrite(((out \o a) \o u) \o c, Len(out \o a), b) = out \o ((a \o b) \o c)

LEMMA OverwriteLength ==
  ASSUME NEW out \in Seq(Byte), NEW a \in Seq(Byte), NEW u \in Seq(Byte),
         NEW b \in Seq(Byte), NEW c \in Seq(Byte), Len(u) = Len(b)
  PROVE  LengthOverwritten(out, a, u, b, c)
<1>1. PICK h \in Seq(Byte) : h = a \o b
  BY Joined
<1>2. PICK x \in Seq(Byte) : x = out \o a
  BY Joined
<1>3. Associates(out, a, b) /\ Associates(out, h, c)
  BY Associative
<1>4. Overwritten(x, u, b, c)
  BY OverwriteMiddle
<1> QED
  BY <1>1, <1>2, <1>3, <1>4 DEF Associates, Overwritten, LengthOverwritten

(* The length is patched where it was left open, and nowhere else.         *)
LEMMA WritesHead ==
  \E s : s # << >> /\ Appends(Plain("EbmlHead"), s) /\ Reads(s, Plain("EbmlHead"))
<1> DEFINE t == "EbmlHead"
<1>1. t \in Tags /\ t \in TagNames /\ t \in PlainTags /\ t \notin {"Segment", "Cluster"}
  BY DEF Tags, TagNames, PlainTags
<1>2. PICK a \in Seq(Byte) : a = encode_varint(Id[t]).bytes /\ Writes(a, Id[t])
  BY <1>1, IdType
<1>3. PICK c \in Seq(Byte) : c = encode_bytes(Id["DocType"], DocType, << >>)
                             /\ Len(c) \in 0..FOUR_MAX
  BY DocTypeFits
<1>4. PICK m \in 0..FOUR_MAX : m = Len(c) /\ m \in Nat /\ m \in Varints
  <2>1. Len(c) \in Varints
    BY <1>3, LargestVarint DEF Varints
  <2> QED
    BY <1>3, <2>1
<1>5. PICK b \in Seq(Byte) : b = encode_varint_4(m).bytes /\ Writes(b, m) /\ Len(b) = 4
  BY EncodesVarint4 DEF Writes
<1>6. PICK u \in Seq(Byte) : u = encode_varint_4(Unknown).bytes /\ Len(u) = 4
  BY EncodesVarint4 DEF Writes
<1>7. PICK h \in Seq(Byte) : h = a \o b
  BY Joined
<1>8. PICK s \in Seq(Byte) : s = h \o c
  BY Joined
<1>9. Holds(s, Id[t], c)
  <2>1. PICK id \in 0..EIGHT_MAX : id = Id[t] /\ Writes(a, id) /\ ~should_unwrap(id)
    BY <1>1, <1>2, Unwrapped, IdType
  <2>2. s = (a \o b) \o c
    BY <1>7, <1>8
  <2>3. Holds(s, id, c)
    BY <1>4, <1>5, <2>1, <2>2, PayloadReads
  <2> QED
    BY <2>1, <2>3
<1>10. Reads(s, Plain(t))
  BY <1>1, <1>9, DecodesPlain, FoundIs DEF Reads, Holds
<1>11. s # << >>
  <2>1. Len(a) \in Nat /\ Len(a) > 0 /\ Len(b) \in Nat /\ Len(c) \in Nat
    BY <1>2 DEF Writes
  <2>2. Len(h) = Len(a) + Len(b) /\ Len(s) = Len(h) + Len(c)
    BY <1>7, <1>8, Joined
  <2>3. Len(s) > 0
    BY <2>1, <2>2
  <2> QED
    BY <2>3
<1>12. ASSUME NEW out \in Seq(Byte)
       PROVE  encode_webm_element(Plain(t), out) = Written(out \o s)
  <2>1. PICK g \in Seq(Byte) : g = out \o a
    BY Joined
  <2>2. PICK opened \in Seq(Byte) : opened = g \o u /\ Len(opened) = Len(g) + 4
    <3>1. g \o u \in Seq(Byte) /\ Len(g \o u) = Len(g) + Len(u)
      BY Joined
    <3> QED
      BY <1>6, <3>1
  <2>3. PICK closed \in Seq(Byte) : closed = opened \o c /\ Len(closed) = Len(opened) + Len(c)
    BY Joined
  <2>4. encode_element(Id[t], out, c) =
          Overwrite(closed, LengthOffset(Len(opened)),
                    encode_varint_4(ContentLen(opened, closed)).bytes)
    BY <1>2, <1>6, <2>1, <2>2, <2>3 DEF encode_element
  <2>5. LengthOffset(Len(opened)) = Len(g) /\ ContentLen(opened, closed) = m
    BY <1>4, <2>2, <2>3 DEF LengthOffset, ContentLen
  <2>6. Overwrite(((out \o a) \o u) \o c, Len(out \o a), b) = out \o ((a \o b) \o c)
    <3>1. Len(u) = Len(b)
      BY <1>5, <1>6
    <3>2. LengthOverwritten(out, a, u, b, c)
      BY <3>1, OverwriteLength
    <3> QED
      BY <3>2 DEF LengthOverwritten
  <2>8. encode_element(Id[t], out, c) = out \o s
    BY <1>5, <1>7, <1>8, <2>1, <2>2, <2>3, <2>4, <2>5, <2>6
  <2> QED
    BY <1>3, <2>8 DEF encode_webm_element, Plain
<1> QED
  BY <1>10, <1>11, <1>12 DEF Appends

(* A signed number in two bytes.                                           *)
LEMMA SignedModulo ==
  ASSUME NEW h \in Nat, h > 0, NEW n \in Int, -h <= n, n < h
  PROVE  /\ n % (2 * h) \in Nat /\ n % (2 * h) < 2 * h /\ (2 * h) \div 2 = h
         /\ n = IF n % (2 * h) < h THEN n % (2 * h) ELSE (n % (2 * h)) - 2 * h
<1>1. CASE n >= 0
  BY <1>1
<1>2. CASE n < 0
  BY <1>2
<1> QED
  BY <1>1, <1>2

LEMMA HalfI16 == \E h \in Nat : h > 0 /\ I16 = 2 * h /\ I16 = Pow2[ByteBits * 2]
<1>1. PICK k \in Nat : 2 * ByteBits = k + 1 /\ ByteBits * 2 = 2 * ByteBits
  <2>1. 2 * ByteBits - 1 \in Nat /\ 2 * ByteBits = (2 * ByteBits - 1) + 1
        /\ ByteBits * 2 = 2 * ByteBits
    BY BaseType
  <2> QED
    BY <2>1
<1>2. Pow2[k + 1] = 2 * Pow2[k] /\ Pow2[k] \in Nat /\ Pow2[k] > 0
  BY PowStep, PowExceeds
<1> QED
  BY <1>1, <1>2 DEF I16

(* A time of a block is read as it was written.                            *)
LEMMA ReadPutI16 ==
  ASSUME NEW n \in i16
  PROVE  /\ PutI16(n) \in Seq(Byte) /\ Len(PutI16(n)) = 2
         /\ ReadI16(PutI16(n)) = n
<1>1. PICK h \in Nat : h > 0 /\ I16 = 2 * h /\ I16 = Pow2[ByteBits * 2]
  BY HalfI16
<1>2. (2 * h) \div 2 = h
  BY <1>1
<1>3. n \in Int /\ -h <= n /\ n < h
  BY <1>1, <1>2 DEF i16
<1>4. PICK m \in Nat : m = n % I16 /\ m < I16 /\ n = IF m < h THEN m ELSE m - I16
  <2>1. /\ n % (2 * h) \in Nat /\ n % (2 * h) < 2 * h
        /\ n = IF n % (2 * h) < h THEN n % (2 * h) ELSE (n % (2 * h)) - 2 * h
    BY <1>1, <1>3, SignedModulo
  <2> QED
    BY <1>1, <2>1
<1>5. PutUint(m, 2) \in Seq(Byte) /\ Len(PutUint(m, 2)) = 2
  BY PutUintType
<1>6. ReadUint(PutUint(m, 2)) = m
  BY <1>1, <1>4, ReadPut
<1>7. PutI16(n) = PutUint(m, 2)
  BY <1>4 DEF PutI16
<1>8. ReadI16(PutI16(n)) = IF m < h THEN m ELSE m - I16
  BY <1>1, <1>2, <1>6, <1>7 DEF ReadI16
<1> QED
  BY <1>4, <1>5, <1>7, <1>8

(* What is behind s changes nothing in it, nor in the varint it begins with. *)
Kept(s, t) ==
  /\ Len(s \o t) = Len(s) + Len(t)
  /\ \A m, n \in 1..Len(s) : SubSeq(s \o t, m, n) = SubSeq(s, m, n)
  /\ \A n \in 1..Len(s) : (s \o t)[n] = s[n]
  /\ SubSeq(s \o t, Len(s) + 1, Len(s \o t)) = t
  /\ decode_varint(s).status = "ok" => decode_varint(s \o t) = decode_varint(s)

LEMMA Keeps ==
  ASSUME NEW s \in Seq(Byte), NEW t \in Seq(Byte) PROVE Kept(s, t)
<1>1. Len(s \o t) = Len(s) + Len(t) /\ Len(s) \in Nat
  BY Joined
<1>2. ASSUME NEW m \in 1..Len(s), NEW n \in 1..Len(s)
      PROVE  SubSeq(s \o t, m, n) = SubSeq(s, m, n)
  <2>1. m \in Nat /\ m >= 1 /\ n \in Nat /\ n <= Len(s)
    BY <1>1
  <2> QED
    BY <2>1, PrefixOfConcat
<1>3. \A n \in 1..Len(s) : (s \o t)[n] = s[n]
  OBVIOUS
<1>4. SubSeq(s \o t, Len(s) + 1, Len(s \o t)) = t
  BY BehindFirst
<1>5. decode_varint(s).status = "ok" => decode_varint(s \o t) = decode_varint(s)
  BY VarintExtends
<1> QED
  BY <1>1, <1>2, <1>3, <1>4, <1>5 DEF Kept

(* The bytes p are a track, a time, flags and data.                        *)
BlockOf(p, v, i, g, d) ==
  decode_simple_block(p) = Decoded(SimpleBlock(v, ReadI16(i), g[1], d))

(* What a block's payload is made of is found in it.                       *)
LEMMA BlockReads ==
  ASSUME NEW a \in Seq(Byte), NEW v \in 0..EIGHT_MAX, Writes(a, v),
         NEW i \in Seq(Byte), Len(i) = 2, NEW g \in Seq(Byte), Len(g) = 1,
         NEW d \in Seq(Byte), NEW x \in Seq(Byte), x = a \o i,
         NEW y \in Seq(Byte), y = x \o g, NEW p \in Seq(Byte), p = y \o d
  PROVE  BlockOf(p, v, i, g, d)
<1>0. Kept(a, i) /\ Kept(x, g) /\ Kept(y, d)
  BY Keeps
<1>1. PICK n \in Nat, m \in Nat : n = Len(a) /\ m = Len(d)
  OBVIOUS
<1>2. Len(x) = n + 2 /\ Len(y) = n + 3 /\ Len(p) = n + 3 + m
  <2>1. Len(x) = Len(a) + Len(i) /\ Len(y) = Len(x) + Len(g) /\ Len(p) = Len(y) + Len(d)
    BY <1>0 DEF Kept
  <2> QED
    BY <1>1, <2>1
<1>3. decode_varint(a) = [status |-> "ok", size |-> n, varint |-> v]
  BY <1>1 DEF Writes
<1>4. decode_varint(p) = [status |-> "ok", size |-> n, varint |-> v]
  <2>1. decode_varint(x) = decode_varint(a)
    BY <1>0, <1>3 DEF Kept
  <2>2. decode_varint(y) = decode_varint(x)
    BY <1>0, <1>3, <2>1 DEF Kept
  <2>3. decode_varint(p) = decode_varint(y)
    BY <1>0, <1>3, <2>1, <2>2 DEF Kept
  <2> QED
    BY <1>3, <2>1, <2>2, <2>3
<1>5. SubSeq(p, n + 1, n + 2) = i
  <2>1. n + 1 \in 1..Len(x) /\ n + 2 \in 1..Len(x) /\ n + 1 \in 1..Len(y) /\ n + 2 \in 1..Len(y)
    BY <1>2
  <2>2. SubSeq(p, n + 1, n + 2) = SubSeq(y, n + 1, n + 2)
    BY <1>0, <2>1 DEF Kept
  <2>3. SubSeq(y, n + 1, n + 2) = SubSeq(x, n + 1, n + 2)
    BY <1>0, <2>1 DEF Kept
  <2>4. SubSeq(x, n + 1, n + 2) = i
    BY <1>0, <1>1, <1>2 DEF Kept
  <2> QED
    BY <2>2, <2>3, <2>4
<1>6. p[n + 3] = g[1]
  <2>1. p[n + 3] = y[n + 3]
    <3>1. n + 3 \in 1..Len(y)
      BY <1>2
    <3> QED
      BY <1>0, <3>1 DEF Kept
  <2>2. y[n + 3] = g[(n + 3) - (n + 2)]
    BY <1>2
  <2> QED
    BY <2>1, <2>2
<1>7. SubSeq(p, n + 4, Len(p)) = d
  <2>1. SubSeq(p, Len(y) + 1, Len(p)) = d
    BY <1>0 DEF Kept
  <2> QED
    BY <1>2, <2>1
<1>8. v # Unknown /\ Len(p) >= n + 2 + 1
  BY <1>2 DEF Unknown
<1> DEFINE track == [status |-> "ok", size |-> n, varint |-> v]
<1>9. track.status = "ok" /\ track.size = n /\ track.varint = v
  OBVIOUS
<1> HIDE DEF track
<1>10. decode_simple_block(p) = BlockAfter(track, p)
  BY <1>4 DEF decode_simple_block, track
<1> QED
  BY <1>5, <1>6, <1>7, <1>8, <1>9, <1>10 DEF BlockAfter, BlockOf

(* A block, whose track takes one byte.                                    *)
LEMMA WritesBlock ==
  ASSUME NEW e \in WebmElement, e.kind = "SimpleBlock", BlockLen(e) <= EIGHT_MAX,
         ~(e.track > MaxTrack)
  PROVE  \E s : s # << >> /\ Appends(e, s) /\ Reads(s, e)
<1>1. PICK v \in u64, n \in i16, f \in Byte, d \in Seq(Byte) : e = SimpleBlock(v, n, f, d)
  BY DEF WebmElement, SimpleBlock, Tags, TagNames
<1>2. /\ e.track = v /\ e.timecode = n /\ e.flags = f /\ e.data = d
  BY <1>1 DEF SimpleBlock
<1>3. v \in 0..EIGHT_MAX /\ v \in Varints /\ v # Unknown /\ v <= Flag(1) - 2 /\ 1 \in 1..ByteBits
  <2>1. v \in Nat /\ ~(v > MaxTrack)
    BY <1>2, NextPower, BaseType DEF u64
  <2>2. MaxTrack \in Nat /\ MaxTrack <= Flag(1) - 2 /\ Flag(1) \in Nat
    BY WebmAssumption, FlagType
  <2>3. 1 \in 1..ByteBits /\ Flag(1) - 2 <= EIGHT_MAX /\ EIGHT_MAX \in Nat
    BY BaseType, LargestVarint
  <2>4. v <= Flag(1) - 2 /\ v \in 0..EIGHT_MAX
    BY <2>1, <2>2, <2>3
  <2> QED
    BY <2>3, <2>4 DEF Varints, Unknown
<1>4. PICK a \in Seq(Byte) : a = encode_varint(v).bytes /\ Writes(a, v) /\ Len(a) = 1
  <2>1. Writes(encode_varint(v).bytes, v) /\ Len(encode_varint(v).bytes) <= 1
    BY <1>3, EncodesVarint
  <2>2. PICK w \in Seq(Byte) : w = encode_varint(v).bytes /\ Writes(w, v) /\ Len(w) <= 1
    BY <2>1 DEF Writes
  <2>3. Len(w) \in Nat /\ Len(w) > 0
    BY <2>2 DEF Writes
  <2>4. Len(w) = 1
    <3>1. PICK k \in Nat : k = Len(w)
      BY <2>3
    <3>2. k > 0 /\ k <= 1
      BY <2>2, <2>3, <3>1
    <3>3. k = 1
      BY <3>2
    <3> QED
      BY <3>1, <3>3
  <2> QED
    BY <2>2, <2>4
<1>5. PICK i \in Seq(Byte) : i = PutI16(n) /\ Len(i) = 2 /\ ReadI16(i) = n
  BY ReadPutI16
<1>6. PICK g \in Seq(Byte) : g = <<f>> /\ Len(g) = 1 /\ g[1] = f
  <2>1. <<f>> \in Seq(Byte) /\ Len(<<f>>) = 1 /\ <<f>>[1] = f
    OBVIOUS
  <2> QED
    BY <2>1
<1>7. PICK x \in Seq(Byte) : x = a \o i
  BY Joined
<1>8. PICK y \in Seq(Byte) : y = x \o g
  BY Joined
<1>9. PICK p \in Seq(Byte) : p = y \o d
  BY Joined
<1>10. Len(p) = BlockLen(e) /\ Len(p) <= EIGHT_MAX
  <2>1. Len(x) = Len(a) + Len(i) /\ Len(y) = Len(x) + Len(g) /\ Len(p) = Len(y) + Len(d)
        /\ Len(d) \in Nat
    BY <1>7, <1>8, <1>9, Joined
  <2>2. Len(p) = 4 + Len(d)
    BY <1>4, <1>5, <1>6, <2>1
  <2>3. BlockLen(e) = 4 + Len(d)
    BY <1>2, <2>1 DEF BlockLen
  <2> QED
    BY <2>2, <2>3
<1>11. decode_simple_block(p) = Decoded(e)
  <2>1. BlockOf(p, v, i, g, d)
    BY <1>3, <1>4, <1>5, <1>6, <1>7, <1>8, <1>9, BlockReads
  <2> QED
    BY <1>1, <1>5, <1>6, <2>1 DEF BlockOf
<1>12. "SimpleBlock" \in Tags /\ "SimpleBlock" \notin {"Segment", "Cluster"}
  BY DEF Tags, TagNames
<1>13. PICK s \in Seq(Byte) :
             /\ Holds(s, Id["SimpleBlock"], p)
             /\ s # << >>
             /\ \A out \in Seq(Byte) :
                  encode_tag_header(Id["SimpleBlock"], Len(p), out) \o p = out \o s
  BY <1>10, <1>12, PayloadAppends
<1>14. Reads(s, e)
  BY <1>11, <1>13, DecodesOther, FoundIs DEF Reads, Holds
<1>15. ASSUME NEW out \in Seq(Byte) PROVE encode_webm_element(e, out) = Written(out \o s)
  <2>1. PICK h \in Seq(Byte) : h = encode_tag_header(Id["SimpleBlock"], BlockLen(e), out)
    <3>1. PICK m \in Varints : m = BlockLen(e)
      <4>1. Len(p) \in 0..EIGHT_MAX
        BY <1>10, LargestVarint
      <4> QED
        BY <1>10, <4>1 DEF Varints
    <3>2. PICK id \in Varints : id = Id["SimpleBlock"]
      BY <1>12, IdType DEF Tags
    <3>3. encode_tag_header(id, m, out) =
            out \o (encode_varint(id).bytes \o encode_varint(m).bytes)
          /\ encode_varint(id).bytes \in Seq(Byte) /\ encode_varint(m).bytes \in Seq(Byte)
      BY HeaderAppends
    <3>4. encode_tag_header(id, m, out) \in Seq(Byte)
      BY <3>3, Joined
    <3> QED
      BY <3>1, <3>2, <3>4
  <2>2. Associates(h, a, i) /\ Associates(h, x, g) /\ Associates(h, y, d)
    BY Associative
  <2>3. (((h \o a) \o i) \o g) \o d = h \o p
    BY <1>7, <1>8, <1>9, <2>2 DEF Associates
  <2>4. h \o p = out \o s
    BY <1>10, <1>13, <2>1
  <2>5. encode_simple_block(e, out) = Written((((h \o a) \o i) \o g) \o d)
    BY <1>2, <1>4, <1>5, <1>6, <2>1 DEF encode_simple_block
  <2>6. encode_webm_element(e, out) = encode_simple_block(e, out)
    BY DEF encode_webm_element
  <2> QED
    BY <2>3, <2>4, <2>5, <2>6
<1> QED
  BY <1>13, <1>14, <1>15 DEF Appends

-----------------------------------------------------------------------------
(* All of them.                                                            *)

Writable(e) ==
  /\ e.kind \notin {"Void", "Info", "Unknown"}
  /\ e.kind = "SimpleBlock" => ~(e.track > MaxTrack)

LEMMA Kinds ==
  ASSUME NEW e \in WebmElement
  PROVE  \/ e.kind \in PlainTags /\ e = Plain(e.kind)
         \/ e.kind \in {"Tracks", "Timecode", "SimpleBlock", "Unknown"}
BY DEF WebmElement, PlainTags, Plain

(* What is written for an element, and what is read from that.             *)
LEMMA WritesElement ==
  ASSUME NEW e \in WebmElement, Fits(e), Writable(e)
  PROVE  /\ Skipped(e) => Appends(e, << >>)
         /\ ~Skipped(e) => \E s : s # << >> /\ Appends(e, s) /\ Reads(s, e)
<1>1. CASE Skipped(e)
  <2>1. e.kind \in {"SeekHead", "Cues"} /\ e = Plain(e.kind)
    BY <1>1, Kinds DEF Skipped
  <2>2. PICK t \in {"SeekHead", "Cues"} : e = Plain(t)
    BY <2>1
  <2>3. Appends(Plain(t), << >>)
    BY WritesNothing
  <2> QED
    BY <1>1, <2>2, <2>3
<1>2. CASE ~Skipped(e)
  <2>1. CASE e.kind \in PlainTags /\ e = Plain(e.kind)
    <3>1. e.kind \in {"EbmlHead", "Segment", "Cluster"}
      BY <1>2, <2>1 DEF PlainTags, Tags, TagNames, Writable, Skipped
    <3>2. CASE e.kind = "EbmlHead"
      <4>1. e = Plain("EbmlHead")
        BY <2>1, <3>2
      <4> QED
        BY <1>2, <4>1, WritesHead
    <3>3. CASE e.kind \in {"Segment", "Cluster"}
      <4>1. PICK t \in {"Segment", "Cluster"} : e = Plain(t)
        BY <2>1, <3>3
      <4>2. \E s : s # << >> /\ Appends(Plain(t), s) /\ Reads(s, Plain(t))
        BY WritesUnwrapped
      <4> QED
        BY <1>2, <4>1, <4>2
    <3> QED
      BY <3>1, <3>2, <3>3
  <2>2. CASE e.kind = "Tracks"
    BY <1>2, <2>2, WritesTracks DEF Fits
  <2>3. CASE e.kind = "Timecode"
    BY <1>2, <2>3, WritesTimecode
  <2>4. CASE e.kind = "SimpleBlock"
    BY <1>2, <2>4, WritesBlock DEF Fits, Writable
  <2>5. CASE e.kind = "Unknown"
    BY <2>5 DEF Writable
  <2> QED
    BY <2>1, <2>2, <2>3, <2>4, <2>5, Kinds
<1> QED
  BY <1>1, <1>2

(* What cannot be written is refused.                                      *)
LEMMA Unwritten ==
  ASSUME NEW e, ~Writable(e), NEW out
  PROVE  encode_webm_element(e, out).status # "ok"
<1>1. CASE e.kind \in {"Void", "Info", "Unknown"}
  <2>1. encode_webm_element(e, out) = Result("OutOfRange")
    BY <1>1 DEF encode_webm_element
  <2> QED
    BY <2>1 DEF Result
<1>2. CASE e.kind = "SimpleBlock" /\ e.track > MaxTrack
  <2>1. encode_webm_element(e, out) = Result("OutOfRange")
    BY <1>2 DEF encode_webm_element, encode_simple_block
  <2> QED
    BY <2>1 DEF Result
<1> QED
  BY <1>1, <1>2 DEF Writable

(* A length that is read is not too large to be written.                   *)
LEMMA PayloadRead ==
  ASSUME NEW s \in Seq(Byte), NEW info, info = check_space(s), info.status = "ok",
         NEW t, t = SubSeq(s, info.offset + 1, info.len)
  PROVE  t \in Seq(Byte) /\ Len(t) <= EIGHT_MAX
<1>1. /\ info.offset \in Nat /\ info.len \in Nat
      /\ info.offset <= info.len /\ info.len <= Len(s)
  BY SpaceRead
<1>2. t \in Seq(Byte) /\ Len(t) = info.len - info.offset
  BY <1>1
<1> DEFINE tag == decode_tag(s)
<1>3. tag.status = "ok"
  BY DEF check_space, SpaceFor
<1>4. tag.length \in Varints /\ tag.size \in Nat
  BY <1>3, TagRead
<1>5. EIGHT_MAX \in Nat
  BY LargestVarint
<1>6. info = SpaceFor(tag, Len(s))
  BY DEF check_space
<1> HIDE DEF tag
<1>7. CASE should_unwrap(tag.id)
  <2>1. info.len = tag.size /\ info.offset = tag.size
    BY <1>3, <1>6, <1>7 DEF SpaceFor, Layout
  <2> QED
    BY <1>2, <1>4, <1>5, <2>1
<1>8. CASE ~should_unwrap(tag.id)
  <2>1. tag.length # Unknown /\ info = Layout(tag, tag.size + tag.length)
    BY <1>3, <1>6, <1>8 DEF SpaceFor, Layout, Result, More
  <2>2. tag.length \in 0..EIGHT_MAX
    BY <1>4, <2>1 DEF Varints
  <2>3. info.len = tag.size + tag.length /\ info.offset = tag.size
    BY <2>1 DEF Layout
  <2> QED
    BY <1>2, <1>4, <1>5, <2>2, <2>3
<1> QED
  BY <1>7, <1>8

LEMMA VarintIsU64 == 0..EIGHT_MAX \subseteq u64
<1>1. PICK f \in Nat, p \in Nat : f = Flag(ByteBits) /\ p = Pow2[ByteBits * ByteBits] /\ f >= 8
                                  /\ 2 * f <= p
  <2>1. ByteBits \in Nat /\ ByteBits >= 1
    BY BaseType
  <2>2. /\ Flag(ByteBits) \in Nat /\ Flag(ByteBits) >= 8
        /\ 2 * Flag(ByteBits) <= Pow2[ByteBits * ByteBits]
    BY <2>1, FlagType
  <2>3. Pow2[ByteBits * ByteBits] \in Nat
    BY <2>1, NextPower
  <2> QED
    BY <2>2, <2>3
<1>2. f - 2 <= p - 1
  BY <1>1
<1> QED
  BY <1>1, <1>2 DEF EIGHT_MAX, u64

(* A block that is read can be written as far as its length goes.          *)
LEMMA BlockType ==
  ASSUME NEW t \in Seq(Byte), Len(t) <= EIGHT_MAX, decode_simple_block(t).status = "ok",
         NEW e, e = decode_simple_block(t).element
  PROVE  e \in WebmElement /\ Fits(e)
<1> DEFINE track == decode_varint(t)
<1>1. decode_simple_block(t) = BlockAfter(track, t)
  BY DEF decode_simple_block
<1>2. track.status = "ok" /\ track.varint # Unknown /\ Len(t) >= track.size + 2 + 1
  BY <1>1 DEF BlockAfter, Result
<1>3. /\ track.size \in Nat /\ track.size >= 1
      /\ track.varint \in 0..EIGHT_MAX
  BY <1>2, VarintRead, BaseType DEF More, Result, Varints
<1>4. PICK n \in Nat, m \in Nat : n = track.size /\ n >= 1 /\ m = Len(t) /\ m >= n + 3
  BY <1>2, <1>3
<1> DEFINE i == SubSeq(t, n + 1, n + 2)
           d == SubSeq(t, n + 4, m)
<1>5. i \in Seq(Byte) /\ Len(i) = 2
  BY <1>4
<1>6. d \in Seq(Byte) /\ Len(d) = m - n - 3
  BY <1>4
<1>7. t[n + 3] \in Byte
  BY <1>4
<1>8. e = SimpleBlock(track.varint, ReadI16(i), t[n + 3], d)
  BY <1>1, <1>2, <1>4 DEF BlockAfter, Decoded
<1> HIDE DEF i, d, track
<1>9. ReadI16(i) \in i16
  <2>1. PICK h \in Nat : h > 0 /\ I16 = 2 * h /\ I16 = Pow2[ByteBits * 2]
    BY HalfI16
  <2>2. (2 * h) \div 2 = h
    BY <2>1
  <2>3. PICK k \in Nat : k = ReadUint(i) /\ k < 2 * h
    BY <1>5, <2>1, ReadUintType
  <2>4. ReadI16(i) = IF k < h THEN k ELSE k - 2 * h
    BY <2>1, <2>2, <2>3 DEF ReadI16
  <2>5. i16 = -h..h - 1
    BY <2>1, <2>2 DEF i16
  <2> QED
    BY <2>1, <2>3, <2>4, <2>5
<1>10. track.varint \in u64
  BY <1>3, VarintIsU64
<1>11. e \in WebmElement
  BY <1>6, <1>7, <1>8, <1>9, <1>10 DEF WebmElement, SimpleBlock
<1>12. e.kind = "SimpleBlock" /\ e.data = d
  BY <1>8 DEF SimpleBlock
<1>13. BlockLen(e) <= EIGHT_MAX
  <2>1. BlockLen(e) = 4 + (m - n - 3)
    BY <1>4, <1>6, <1>12 DEF BlockLen
  <2>2. m <= EIGHT_MAX /\ EIGHT_MAX \in Nat
    BY <1>4, LargestVarint
  <2> QED
    BY <1>4, <2>1, <2>2
<1> QED
  BY <1>11, <1>12, <1>13 DEF Fits

(* What is read from a payload is an element that fits.                    *)
LEMMA PayloadType ==
  ASSUME NEW id \in 0..EIGHT_MAX, NEW t \in Seq(Byte), Len(t) <= EIGHT_MAX,
         decode(id, t).status = "ok", NEW e, e = decode(id, t).element
  PROVE  e \in WebmElement /\ Fits(e)
<1>1. CASE id = Id["Tracks"]
  <2>1. decode(id, t) = Decoded(Tracks(t))
    BY <1>1, DecodesOther
  <2>2. e = Tracks(t)
    BY <2>1 DEF Decoded
  <2> QED
    BY <2>2 DEF Tracks, WebmElement, Fits
<1>2. CASE id = Id["Timecode"]
  <2>1. decode(id, t) = TimecodeOf(decode_uint(t))
    BY <1>2, DecodesOther
  <2>2. decode_uint(t).status = "ok"
    BY <2>1 DEF TimecodeOf
  <2>3. Len(t) \in 1..ByteBits /\ decode_uint(t) = [status |-> "ok", number |-> ReadUint(t)]
    BY <2>2 DEF decode_uint, Result
  <2>4. PICK n \in Nat : n = ReadUint(t)
    BY ReadUintType
  <2>5. e = Timecode(n)
    BY <2>1, <2>3, <2>4 DEF TimecodeOf, Decoded
  <2>6. n \in u64
    <3>1. PICK k \in Nat : k = Len(t) /\ k <= ByteBits /\ ByteBits \in Nat
      BY <2>3, BaseType
    <3>2. ByteBits * k \in Nat /\ ByteBits * ByteBits \in Nat /\ ByteBits * k <= ByteBits * ByteBits
      BY <3>1, TimesMonotonic
    <3>3. Pow2[ByteBits * k] <= Pow2[ByteBits * ByteBits]
      BY <3>2, PowMonotonic
    <3>4. n < Pow2[ByteBits * k] /\ Pow2[ByteBits * k] \in Nat /\ Pow2[ByteBits * ByteBits] \in Nat
      BY <2>4, <3>1, ReadUintType, NextPower
    <3> QED
      BY <3>3, <3>4 DEF u64
  <2> QED
    BY <2>5, <2>6 DEF Timecode, WebmElement, Fits
<1>3. CASE id = Id["SimpleBlock"]
  <2>1. decode(id, t) = decode_simple_block(t)
    BY <1>3, DecodesOther
  <2> QED
    BY <2>1, BlockType
<1>4. CASE id \notin {Id["Tracks"], Id["Timecode"], Id["SimpleBlock"]}
  <2>1. e = IF \E u \in Tags : Id[u] = id
            THEN Plain(CHOOSE u \in Tags : Id[u] = id) ELSE UnknownElement(id)
    BY <1>4 DEF decode, Decoded
  <2>2. CASE \E u \in Tags : Id[u] = id
    <3>1. PICK u \in Tags : Id[u] = id /\ e = Plain(u)
      BY <2>1, <2>2
    <3>2. u \in Tags \ {"Tracks", "Timecode", "SimpleBlock"}
      BY <1>4, <3>1
    <3> QED
      BY <3>1, <3>2 DEF Plain, WebmElement, Fits
  <2>3. CASE ~ \E u \in Tags : Id[u] = id
    <3>1. e = UnknownElement(id) /\ id \in u64
      BY <2>1, <2>3, VarintIsU64
    <3> QED
      BY <3>1 DEF UnknownElement, WebmElement, Fits
  <2> QED
    BY <2>2, <2>3
<1> QED
  BY <1>1, <1>2, <1>3, <1>4

(* So is what is read from any bytes.                                      *)
LEMMA ElementType ==
  ASSUME NEW s \in Seq(Byte), decode_element(s).status = "ok",
         NEW e, e = decode_element(s).element
  PROVE  e \in WebmElement /\ Fits(e)
<1> DEFINE info == check_space(s)
           t == SubSeq(s, info.offset + 1, info.len)
           got == decode(info.id, t)
<1>1. decode_element(s) = ElementIn(info, s)
  BY DEF decode_element
<1>2. info.status = "ok"
  BY <1>1 DEF ElementIn
<1>3. decode_element(s) = ElementOf(got, info.len)
  BY <1>1, <1>2 DEF ElementIn
<1>4. t \in Seq(Byte) /\ Len(t) <= EIGHT_MAX /\ info.id \in 0..EIGHT_MAX
  BY <1>2, PayloadRead, SpaceRead
<1>5. got.status = "ok" /\ e = got.element
  BY <1>3 DEF ElementOf
<1> HIDE DEF t, info
<1> QED
  BY <1>4, <1>5, PayloadType

(* An element that was read and is written again is read as the same: the  *)
(* relay changes the form of what it passes on, never its meaning.         *)
THEOREM RewrittenTheSameAlways == ArrivalSpec => []RewrittenTheSame
<1>1. ASSUME bytes \in Seq(Byte) PROVE RewrittenTheSame
  <2> DEFINE e == decode_element(bytes).element
             w == encode_webm_element(e, << >>)
  <2>1. SUFFICES ASSUME IsElement, w.status = "ok", w.output # << >>
                 PROVE  decode_element(w.output) =
                          [status |-> "ok", element |-> e, len |-> Len(w.output)]
    BY DEF RewrittenTheSame
  <2>2. e \in WebmElement /\ Fits(e)
    BY <1>1, <2>1, ElementType DEF IsElement
  <2> HIDE DEF e
  <2>3. Writable(e)
    BY <2>1, Unwritten
  <2>4. << >> \in Seq(Byte) /\ \A s \in Seq(Byte) : << >> \o s = s
    BY ConcatEmptySeq
  <2>5. ASSUME NEW s, Appends(e, s) PROVE w.output = s
    <3>1. s \in Seq(Byte) /\ w = Written(<< >> \o s)
      BY <2>4, <2>5 DEF Appends
    <3> QED
      BY <2>4, <3>1 DEF Written
  <2>6. ~Skipped(e)
    BY <2>1, <2>2, <2>3, <2>5, WritesElement
  <2>7. PICK s : Appends(e, s) /\ Reads(s, e)
    BY <2>2, <2>3, <2>6, WritesElement
  <2>8. w.output = s
    BY <2>5, <2>7
  <2> QED
    BY <2>7, <2>8 DEF Reads
<1> QED
  BY <1>1, ArrivalType, PTL

-----------------------------------------------------------------------------
(* The wire.                                                               *)

(* Where the elements end in out: between two ends there is an element and *)
(* nothing else.                                                           *)
Ends(ends, out, elements) ==
  /\ ends \in [0..Len(elements) -> Nat]
  /\ ends[0] = 0 /\ ends[Len(elements)] = Len(out)
  /\ \A k \in 1..Len(elements) :
       /\ ends[k - 1] < ends[k] /\ ends[k] <= Len(out)
       /\ Reads(SubSeq(out, ends[k - 1] + 1, ends[k]), elements[k])

Splits(s, a, b, c) ==
  /\ SubSeq(s, a + 1, b) \in Seq(Byte) /\ Len(SubSeq(s, a + 1, b)) = b - a
  /\ SubSeq(s, b + 1, c) \in Seq(Byte) /\ Len(SubSeq(s, b + 1, c)) = c - b
  /\ SubSeq(s, a + 1, c) = SubSeq(s, a + 1, b) \o SubSeq(s, b + 1, c)

(* A piece of a sequence, cut in two.                                      *)
LEMMA SubSeqSplit ==
  ASSUME NEW s \in Seq(Byte), NEW a \in Nat, NEW b \in Nat, NEW c \in Nat,
         a <= b, b <= c, c <= Len(s)
  PROVE  Splits(s, a, b, c)
<1> DEFINE u == SubSeq(s, a + 1, b)
           v == SubSeq(s, b + 1, c)
           w == SubSeq(s, a + 1, c)
<1>1. u \in Seq(Byte) /\ Len(u) = b - a /\ \A i \in 1..(b - a) : u[i] = s[a + i]
  OBVIOUS
<1>2. v \in Seq(Byte) /\ Len(v) = c - b /\ \A i \in 1..(c - b) : v[i] = s[b + i]
  OBVIOUS
<1>3. w \in Seq(Byte) /\ Len(w) = c - a /\ \A i \in 1..(c - a) : w[i] = s[a + i]
  OBVIOUS
<1> HIDE DEF u, v, w
<1>4. u \o v \in Seq(Byte) /\ Len(u \o v) = c - a
  <2>1. u \o v \in Seq(Byte) /\ Len(u \o v) = Len(u) + Len(v)
    BY <1>1, <1>2, Joined
  <2>2. (b - a) + (c - b) = c - a
    OBVIOUS
  <2> QED
    BY <1>1, <1>2, <2>1, <2>2
<1>5. ASSUME NEW i \in 1..(c - a) PROVE (u \o v)[i] = w[i]
  <2>1. w[i] = s[a + i]
    BY <1>3
  <2>2. CASE i <= b - a
    <3>1. i \in 1..(b - a)
      BY <2>2
    <3> QED
      BY <1>1, <1>2, <2>1, <3>1
  <2>3. CASE ~(i <= b - a)
    <3>1. i - (b - a) \in 1..(c - b) /\ b + (i - (b - a)) = a + i
      BY <2>3
    <3>2. (u \o v)[i] = v[i - (b - a)]
      <4>1. \A k \in 1..Len(u) + Len(v) :
              (u \o v)[k] = IF k <= Len(u) THEN u[k] ELSE v[k - Len(u)]
        BY <1>1, <1>2, ConcatProperties
      <4>2. i \in 1..Len(u) + Len(v) /\ ~(i <= Len(u))
        BY <1>1, <1>2, <2>3
      <4> QED
        BY <1>1, <4>1, <4>2
    <3>3. v[i - (b - a)] = s[b + (i - (b - a))]
      BY <1>2, <3>1
    <3> QED
      BY <2>1, <3>1, <3>2, <3>3
  <2> QED
    BY <2>2, <2>3
<1>6. u \o v = w
  BY <1>3, <1>4, <1>5, SeqEqual
<1> QED
  BY <1>1, <1>2, <1>6 DEF u, v, w, Splits

(* Nothing is found in nothing.                                            *)
LEMMA NothingRead == decode_element(<< >>) = More
<1>1. decode_varint(<< >>) = More
  BY DEF decode_varint
<1>2. decode_tag(<< >>) = More
  BY <1>1 DEF decode_tag, TagAfter, More, Result
<1>3. check_space(<< >>) = More
  BY <1>2 DEF check_space, SpaceFor, More, Result
<1> QED
  BY <1>3 DEF decode_element, ElementIn, More, Result

(* An element is no longer than what it was found in.                      *)
LEMMA LengthRead ==
  ASSUME NEW s \in Seq(Byte), decode_element(s).status = "ok"
  PROVE  decode_element(s).len \in Nat /\ decode_element(s).len <= Len(s)
<1> DEFINE info == check_space(s)
<1>1. decode_element(s) = ElementIn(info, s)
  BY DEF decode_element
<1>2. info.status = "ok"
  BY <1>1 DEF ElementIn
<1>3. decode_element(s).len = info.len
  BY <1>1, <1>2 DEF ElementIn, ElementOf
<1> QED
  BY <1>2, <1>3, SpaceRead

(* What the decoder finds in bytes that begin with the element e, or are   *)
(* the first bytes of it.                                                  *)
Whole(b, e, len) == decode_element(b) = [status |-> "ok", element |-> e, len |-> len]

(* An element is found whatever follows it,                                *)
LEMMA ReadsLonger ==
  ASSUME NEW s \in Seq(Byte), NEW t \in Seq(Byte), NEW e, Reads(s, e)
  PROVE  Whole(s \o t, e, Len(s))
<1>1. decode_element(s) = [status |-> "ok", element |-> e, len |-> Len(s)]
  BY DEF Reads
<1>2. decode_element(s \o t) = decode_element(s)
  BY <1>1, ElementExtends
<1> QED
  BY <1>1, <1>2 DEF Whole

(* and not before all of it is there.                                      *)
LEMMA ReadsShorter ==
  ASSUME NEW s \in Seq(Byte), NEW t \in Seq(Byte), NEW e, Reads(s \o t, e), Len(t) > 0
  PROVE  decode_element(s).status = "more"
<1>1. SUFFICES ASSUME decode_element(s).status # "more" PROVE FALSE
  BY <1>1
<1>2. decode_element(s) = decode_element(s \o t)
  BY <1>1, ElementExtends
<1>3. Len(s \o t) = Len(s) + Len(t) /\ Len(s) \in Nat /\ Len(t) \in Nat
  BY Joined
<1>4. decode_element(s).status = "ok" /\ decode_element(s).len = Len(s) + Len(t)
  BY <1>2, <1>3 DEF Reads
<1>5. decode_element(s).len <= Len(s)
  BY <1>4, LengthRead
<1> QED
  BY <1>3, <1>4, <1>5

(* In bytes that begin where the k-th element ends.                        *)
LEMMA FoundNext ==
  ASSUME NEW out \in Seq(Byte), NEW elements \in Seq(WebmElement), NEW ends,
         Ends(ends, out, elements), NEW k \in 0..Len(elements),
         NEW a \in Nat, ends[k] <= a, a <= Len(out),
         NEW b, b = SubSeq(out, ends[k] + 1, a)
  PROVE  \/ /\ decode_element(b).status = "more"
            /\ k < Len(elements) => a < ends[k + 1]
         \/ /\ k < Len(elements) /\ ends[k + 1] <= a /\ ends[k] < ends[k + 1]
            /\ Whole(b, elements[k + 1], ends[k + 1] - ends[k])
<1>1. PICK n \in Nat : n = Len(elements)
  OBVIOUS
<1>2. k \in 0..n /\ ends \in [0..n -> Nat] /\ ends[n] = Len(out)
  BY <1>1 DEF Ends
<1>3. PICK x \in Nat : x = ends[k]
  BY <1>2
<1>4. CASE k = n
  <2>1. a = x /\ x <= Len(out)
    BY <1>2, <1>3, <1>4
  <2>2. b = << >>
    BY <1>3, <2>1
  <2> QED
    <3>1. decode_element(b).status = "more"
      <4>1. decode_element(b) = More
        BY <2>2, NothingRead
      <4>2. More.status = "more"
        BY DEF More, Result
      <4> QED
        BY <4>1, <4>2
    <3>2. ~(k < Len(elements))
      BY <1>1, <1>4
    <3> QED
      BY <3>1, <3>2
<1>5. CASE k # n
  <2>1. k + 1 \in 1..n /\ (k + 1) - 1 = k /\ k + 1 \in 0..n /\ k < n
    BY <1>2, <1>5
  <2>2. PICK y \in Nat : y = ends[k + 1]
    BY <1>2, <2>1
  <2>3. x < y /\ y <= Len(out) /\ Reads(SubSeq(out, x + 1, y), elements[k + 1])
    BY <1>1, <1>3, <2>1, <2>2 DEF Ends
  <2>4. PICK e : e = elements[k + 1]
    OBVIOUS
  <2>5. CASE y <= a
    <3>1. Splits(out, x, y, a)
      BY <2>3, <2>5, SubSeqSplit
    <3>2. PICK s \in Seq(Byte), t \in Seq(Byte) :
               s = SubSeq(out, x + 1, y) /\ Len(s) = y - x /\ t = SubSeq(out, y + 1, a)
      BY <3>1 DEF Splits
    <3>3. b = s \o t
      BY <1>3, <3>1, <3>2 DEF Splits
    <3>4. Whole(b, e, y - x)
      BY <2>3, <2>4, <3>2, <3>3, ReadsLonger
    <3> QED
      BY <1>1, <1>3, <2>1, <2>2, <2>3, <2>4, <2>5, <3>4
  <2>6. CASE a < y
    <3>1. Splits(out, x, a, y)
      BY <1>3, <2>3, <2>6, SubSeqSplit
    <3>2. PICK s \in Seq(Byte), t \in Seq(Byte) :
               s = b /\ t = SubSeq(out, a + 1, y) /\ Len(t) = y - a
      BY <1>3, <3>1 DEF Splits
    <3>3. SubSeq(out, x + 1, y) = s \o t
      BY <1>3, <3>1, <3>2 DEF Splits
    <3>4. Reads(s \o t, e)
      BY <2>3, <2>4, <3>3
    <3>5. Len(t) > 0
      BY <2>6, <3>2
    <3>6. decode_element(s).status = "more"
      BY <3>4, <3>5, ReadsShorter
    <3> QED
      BY <2>2, <2>6, <3>2, <3>6
  <2> QED
    BY <2>5, <2>6
<1> QED
  BY <1>4, <1>5

(* Another element behind the last one.                                    *)
LEMMA EndsNext ==
  ASSUME NEW out \in Seq(Byte), NEW elements \in Seq(WebmElement), NEW ends,
         Ends(ends, out, elements), NEW e \in WebmElement,
         NEW s \in Seq(Byte), s # << >>, Reads(s, e),
         NEW new, new = [k \in 0..Len(elements) + 1 |->
                           IF k <= Len(elements) THEN ends[k] ELSE Len(out) + Len(s)]
  PROVE  Ends(new, out \o s, Append(elements, e))
<1>1. PICK n \in Nat : n = Len(elements)
  OBVIOUS
<1>2. PICK x \in Nat, y \in Nat : x = Len(out) /\ y = Len(s) /\ y > 0
  OBVIOUS
<1>3. PICK o2 \in Seq(Byte) : o2 = out \o s /\ Len(o2) = x + y
  <2>1. out \o s \in Seq(Byte) /\ Len(out \o s) = Len(out) + Len(s)
    BY Joined
  <2> QED
    BY <1>2, <2>1
<1>4. PICK es \in Seq(WebmElement) :
             es = Append(elements, e) /\ Len(es) = n + 1 /\ es[n + 1] = e
             /\ \A k \in 1..n : es[k] = elements[k]
  <2>1. Append(elements, e) \in Seq(WebmElement) /\ Len(Append(elements, e)) = Len(elements) + 1
    BY AppendProperties
  <2>2. Append(elements, e)[Len(elements) + 1] = e
        /\ \A k \in 1..Len(elements) : Append(elements, e)[k] = elements[k]
    BY AppendProperties
  <2> QED
    BY <1>1, <2>1, <2>2
<1>5. ends \in [0..n -> Nat] /\ ends[0] = 0 /\ ends[n] = x
  BY <1>1, <1>2 DEF Ends
<1>6. new = [k \in 0..n + 1 |-> IF k <= n THEN ends[k] ELSE x + y]
  BY <1>1, <1>2
<1>7. new \in [0..n + 1 -> Nat] /\ new[0] = 0 /\ new[n] = x /\ new[n + 1] = x + y
      /\ \A k \in 0..n : new[k] = ends[k]
  BY <1>2, <1>5, <1>6
<1>8. Kept(out, s)
  BY Keeps
<1>9. ASSUME NEW k \in 1..n + 1
      PROVE  /\ new[k - 1] < new[k] /\ new[k] <= x + y
             /\ Reads(SubSeq(o2, new[k - 1] + 1, new[k]), es[k])
  <2>1. CASE k = n + 1
    <3>1. new[k] = x + y /\ new[k - 1] = x /\ x < x + y /\ es[k] = e
      BY <1>2, <1>4, <1>7, <2>1
    <3>2. SubSeq(o2, x + 1, x + y) = s
      BY <1>2, <1>3, <1>8 DEF Kept
    <3>3. Reads(SubSeq(o2, new[k - 1] + 1, new[k]), es[k])
      BY <3>1, <3>2
    <3>4. new[k - 1] < new[k] /\ new[k] <= x + y
      BY <1>2, <3>1
    <3> QED
      BY <3>3, <3>4
  <2>2. CASE k # n + 1
    <3>1. k \in 1..n /\ k \in 0..n /\ k - 1 \in 0..n
      BY <2>2
    <3>2. PICK i \in Nat, j \in Nat : i = ends[k - 1] /\ j = ends[k]
      BY <1>5, <3>1
    <3>3. i < j /\ j <= x /\ Reads(SubSeq(out, i + 1, j), elements[k])
      BY <1>1, <1>2, <3>1, <3>2 DEF Ends
    <3>4. new[k - 1] = i /\ new[k] = j /\ es[k] = elements[k]
      BY <1>4, <1>7, <3>1, <3>2
    <3>5. SubSeq(o2, i + 1, j) = SubSeq(out, i + 1, j)
      <4>1. i + 1 \in 1..Len(out) /\ j \in 1..Len(out)
        BY <1>2, <3>3
      <4> QED
        BY <1>3, <1>8, <4>1 DEF Kept
    <3>6. Reads(SubSeq(o2, new[k - 1] + 1, new[k]), es[k])
      BY <3>3, <3>4, <3>5
    <3>7. new[k - 1] < new[k] /\ new[k] <= x + y
      BY <1>2, <3>3, <3>4
    <3> QED
      BY <3>6, <3>7
  <2> QED
    BY <2>1, <2>2
<1>10. Ends(new, o2, es)
  BY <1>3, <1>4, <1>7, <1>9 DEF Ends
<1> QED
  BY <1>3, <1>4, <1>10

(* What is known all along: the elements follow each other in the output,  *)
(* and the decoder is always where one of them begins.                     *)
WireType ==
  /\ output \in Seq(Byte) /\ encoded \in Seq(WebmElement)
  /\ arrived \in Nat /\ consumed \in Nat /\ consumed <= arrived /\ arrived <= Len(output)

InStep ==
  /\ ~broken
  /\ Len(decoded) \in 0..Len(encoded)
  /\ decoded = SubSeq(encoded, 1, Len(decoded))
  /\ \E ends : Ends(ends, output, encoded) /\ consumed = ends[Len(decoded)]

WireInv == WireType /\ InStep

LEMMA LengthsType ==
  ASSUME WireInv
  PROVE  Len(decoded) \in Nat /\ Len(encoded) \in Nat /\ Len(decoded) <= Len(encoded)
<1>1. encoded \in Seq(WebmElement)
  BY DEF WireInv, WireType
<1>2. Len(decoded) \in 0..Len(encoded)
  BY DEF WireInv, InStep
<1> QED
  BY <1>1, <1>2

LEMMA WireStart == WireInit => WireInv
<1>1. SUFFICES ASSUME WireInit PROVE WireInv
  BY <1>1
<1>2. output = << >> /\ encoded = << >> /\ decoded = << >> /\ arrived = 0 /\ consumed = 0
      /\ broken = FALSE
  BY <1>1 DEF WireInit
<1>3. << >> \in Seq(Byte) /\ << >> \in Seq(WebmElement) /\ Len(<< >>) = 0
      /\ SubSeq(<< >>, 1, 0) = << >>
  OBVIOUS
<1> DEFINE ends == [k \in 0..0 |-> 0]
<1>4. ends \in [0..0 -> Nat] /\ ends[0] = 0
  OBVIOUS
<1> HIDE DEF ends
<1>5. Ends(ends, << >>, << >>)
  BY <1>3, <1>4 DEF Ends
<1>6. WireType
  BY <1>2, <1>3 DEF WireType
<1>7. InStep
  BY <1>2, <1>3, <1>4, <1>5 DEF InStep
<1> QED
  BY <1>6, <1>7 DEF WireInv

(* Writing an element puts it behind the last one.                         *)
LEMMA EncodeStep ==
  ASSUME WireInv, NEW e \in Elements, Encode(e) PROVE WireInv'
<1> DEFINE written == encode_webm_element(e, output)
<1>1. UNCHANGED <<arrived, consumed, decoded, broken>>
  BY DEF Encode
<1>2. CASE written.status # "ok"
  <2>1. UNCHANGED <<output, encoded>>
    BY <1>2 DEF Encode
  <2> QED
    BY <1>1, <2>1 DEF WireInv, WireType, InStep
<1>3. CASE written.status = "ok"
  <2>1. output' = written.output /\ encoded' = IF Skipped(e) THEN encoded ELSE Append(encoded, e)
    BY <1>3 DEF Encode
  <2>2. e \in WebmElement /\ Fits(e)
    BY WireAssumption
  <2>3. Writable(e)
    BY <1>3, Unwritten
  <2>4. output \in Seq(Byte)
    BY DEF WireInv, WireType
  <2>5. CASE Skipped(e)
    <3>1. Appends(e, << >>)
      BY <2>2, <2>3, <2>5, WritesElement
    <3>2. written = Written(output \o << >>)
      BY <2>4, <3>1 DEF Appends
    <3>3. output \o << >> = output
      BY <2>4, ConcatEmptySeq
    <3>4. output' = output /\ encoded' = encoded
      BY <2>1, <2>5, <3>2, <3>3 DEF Written
    <3> QED
      BY <1>1, <3>4 DEF WireInv, WireType, InStep
  <2>6. CASE ~Skipped(e)
    <3>1. PICK s : s # << >> /\ Appends(e, s) /\ Reads(s, e)
      BY <2>2, <2>3, <2>6, WritesElement
    <3>2. s \in Seq(Byte) /\ written = Written(output \o s)
      BY <2>4, <3>1 DEF Appends
    <3> HIDE DEF written
    <3>3. output' = output \o s /\ encoded' = Append(encoded, e)
      BY <2>1, <2>6, <3>2 DEF Written
    <3>4. /\ encoded \in Seq(WebmElement) /\ ~broken /\ Len(decoded) \in 0..Len(encoded)
          /\ decoded = SubSeq(encoded, 1, Len(decoded))
      BY DEF WireInv, WireType, InStep
    <3>5. PICK ends : Ends(ends, output, encoded) /\ consumed = ends[Len(decoded)]
      BY DEF WireInv, InStep
    <3>6. PICK n \in Nat, m \in Nat : n = Len(encoded) /\ m = Len(decoded) /\ m <= n
      BY LengthsType
    <3> DEFINE new == [k \in 0..Len(encoded) + 1 |->
                         IF k <= Len(encoded) THEN ends[k] ELSE Len(output) + Len(s)]
    <3>7. new[m] = ends[m]
      BY <3>6
    <3>8. Ends(new, output \o s, Append(encoded, e))
      BY <2>2, <2>4, <3>1, <3>2, <3>4, <3>5, EndsNext
    <3> HIDE DEF new
    <3>9. Ends(new, output', encoded') /\ consumed' = new[Len(decoded')]
      BY <1>1, <3>3, <3>5, <3>6, <3>7, <3>8
    <3>10. encoded' \in Seq(WebmElement) /\ Len(encoded') = n + 1
           /\ SubSeq(encoded', 1, m) = SubSeq(encoded, 1, m)
      <4>1. /\ Append(encoded, e) \in Seq(WebmElement)
            /\ Len(Append(encoded, e)) = Len(encoded) + 1
            /\ \A k \in 1..Len(encoded) : Append(encoded, e)[k] = encoded[k]
        BY <2>2, <3>4, AppendProperties
      <4>2. SubSeq(Append(encoded, e), 1, m) = SubSeq(encoded, 1, m)
        BY <3>4, <3>6, <4>1
      <4> QED
        BY <3>3, <3>6, <4>1, <4>2
    <3>11. output' \in Seq(Byte) /\ Len(output') = Len(output) + Len(s) /\ Len(s) \in Nat
           /\ Len(output) \in Nat
      BY <2>4, <3>2, <3>3, Joined
    <3>12. WireType'
      BY <1>1, <3>10, <3>11 DEF WireInv, WireType
    <3>13. InStep'
      BY <1>1, <3>4, <3>6, <3>9, <3>10 DEF InStep
    <3> QED
      BY <3>12, <3>13 DEF WireInv
  <2> QED
    BY <2>5, <2>6
<1> QED
  BY <1>2, <1>3

(* What the decoder finds in its buffer.                                   *)
LEMMA BufferReads ==
  ASSUME WireInv, NEW ends, Ends(ends, output, encoded), NEW m, m = Len(decoded),
         consumed = ends[m]
  PROVE  \/ /\ decode_element(Buffer).status = "more"
            /\ m < Len(encoded) => arrived < ends[m + 1]
         \/ /\ m < Len(encoded) /\ ends[m + 1] <= arrived /\ ends[m] < ends[m + 1]
            /\ Whole(Buffer, encoded[m + 1], ends[m + 1] - ends[m])
<1>1. /\ output \in Seq(Byte) /\ encoded \in Seq(WebmElement)
      /\ arrived \in Nat /\ consumed <= arrived /\ arrived <= Len(output)
      /\ m \in 0..Len(encoded)
  BY DEF WireInv, WireType, InStep
<1>2. Buffer = SubSeq(output, ends[m] + 1, arrived)
  BY DEF Buffer
<1> QED
  BY <1>1, <1>2, FoundNext

(* The decoder moves on by one element.                                    *)
LEMMA DecodeStep ==
  ASSUME WireInv, Decode PROVE WireInv'
<1> DEFINE found == decode_element(Buffer)
<1>1. UNCHANGED <<encoded, output, failed, arrived>> /\ found.status # "more"
  BY DEF Decode
<1>2. /\ output \in Seq(Byte) /\ encoded \in Seq(WebmElement)
      /\ arrived \in Nat /\ consumed \in Nat /\ consumed <= arrived /\ arrived <= Len(output)
      /\ ~broken /\ Len(decoded) \in 0..Len(encoded)
      /\ decoded = SubSeq(encoded, 1, Len(decoded))
  BY DEF WireInv, WireType, InStep
<1>3. PICK ends : Ends(ends, output, encoded) /\ consumed = ends[Len(decoded)]
  BY DEF WireInv, InStep
<1>4. PICK n \in Nat, m \in Nat : n = Len(encoded) /\ m = Len(decoded)
  BY LengthsType
<1>5. /\ m < n /\ ends[m + 1] <= arrived /\ ends[m] < ends[m + 1]
      /\ Whole(Buffer, encoded[m + 1], ends[m + 1] - ends[m])
  BY <1>1, <1>3, <1>4, BufferReads
<1>6. found = [status |-> "ok", element |-> encoded[m + 1], len |-> ends[m + 1] - ends[m]]
  BY <1>5 DEF Whole
<1>7. decoded' = Append(decoded, encoded[m + 1])
      /\ consumed' = consumed + (ends[m + 1] - ends[m]) /\ broken' = broken
  BY <1>6 DEF Decode
<1> HIDE DEF found
<1>8. PICK x \in Nat, y \in Nat : x = ends[m] /\ y = ends[m + 1] /\ x < y /\ y <= arrived
  <2>1. ends \in [0..n -> Nat] /\ m \in 0..n /\ m + 1 \in 0..n
    BY <1>3, <1>4, <1>5 DEF Ends
  <2> QED
    BY <1>5, <2>1
<1>9. consumed' = y
  BY <1>3, <1>4, <1>7, <1>8
<1>10. decoded' = SubSeq(encoded, 1, m + 1) /\ Len(decoded') = m + 1
  <2>1. m + 1 \in 1..n
    BY <1>4, <1>5
  <2>2. SubSeq(encoded, 1, m + 1) = Append(SubSeq(encoded, 1, m), encoded[m + 1])
    BY <1>2, <1>4, <2>1
  <2>3. Len(SubSeq(encoded, 1, m + 1)) = m + 1
    BY <1>2, <1>4, <2>1
  <2> QED
    BY <1>2, <1>4, <1>7, <2>2, <2>3
<1>11. WireType'
  BY <1>1, <1>2, <1>8, <1>9 DEF WireType
<1>12. Ends(ends, output', encoded') /\ consumed' = ends[Len(decoded')]
  BY <1>1, <1>3, <1>8, <1>9, <1>10
<1>13. Len(decoded') \in 0..Len(encoded')
  BY <1>1, <1>4, <1>5, <1>10
<1>14. InStep'
  BY <1>1, <1>2, <1>7, <1>10, <1>12, <1>13 DEF InStep
<1> QED
  BY <1>11, <1>14 DEF WireInv

LEMMA WireInvariant == WireSpec => []WireInv
<1>1. ASSUME WireInv, [WireNext]_wireVars PROVE WireInv'
  <2>1. CASE Transmit
    BY <1>1, <2>1 DEF Transmit, WireInv, WireType, InStep
  <2>2. CASE Decode
    BY <1>1, <2>2, DecodeStep
  <2>3. CASE \E e \in Elements : Encode(e)
    BY <1>1, <2>3, EncodeStep
  <2>4. CASE UNCHANGED wireVars
    BY <1>1, <2>4 DEF wireVars, WireInv, WireType, InStep
  <2> QED
    BY <1>1, <2>1, <2>2, <2>3, <2>4 DEF WireNext
<1> QED
  BY <1>1, WireStart, PTL DEF WireSpec

(* Whatever is written, and wherever it is cut off on its way: the decoder *)
(* finds the elements that were written, in order, and never an error.     *)
THEOREM ReadsBackAlways == WireSpec => []ReadsBack
<1>1. ASSUME WireInv PROVE ReadsBack
  <2>1. /\ ~broken /\ Len(decoded) \in 0..Len(encoded) /\ encoded \in Seq(WebmElement)
        /\ decoded = SubSeq(encoded, 1, Len(decoded))
    BY <1>1 DEF WireInv, WireType, InStep
  <2>2. PICK m \in Nat : m = Len(decoded) /\ m <= Len(encoded)
    BY <1>1, LengthsType
  <2>3. SubSeq(decoded, 1, m) = decoded
    <3>1. decoded \in Seq(WebmElement)
      BY <2>1, <2>2
    <3> QED
      BY <2>2, <3>1
  <2> QED
    BY <2>1, <2>2, <2>3 DEF ReadsBack, IsPrefix
<1> QED
  BY <1>1, WireInvariant, PTL

(* A decoder that waits for more, though all has arrived, has read all the *)
(* elements that were written.                                             *)
THEOREM NothingLeftOverAlways == WireSpec => []NothingLeftOver
<1>1. ASSUME WireInv PROVE NothingLeftOver
  <2>1. SUFFICES ASSUME arrived = Len(output), decode_element(Buffer) = More
                 PROVE  decoded = encoded
    BY DEF NothingLeftOver
  <2>2. /\ Len(decoded) \in 0..Len(encoded) /\ encoded \in Seq(WebmElement)
        /\ decoded = SubSeq(encoded, 1, Len(decoded)) /\ output \in Seq(Byte)
    BY <1>1 DEF WireInv, WireType, InStep
  <2>3. PICK ends : Ends(ends, output, encoded) /\ consumed = ends[Len(decoded)]
    BY <1>1 DEF WireInv, InStep
  <2>4. PICK n \in Nat, m \in Nat : n = Len(encoded) /\ m = Len(decoded) /\ m <= n
    BY <1>1, LengthsType
  <2>5. decode_element(Buffer).status = "more"
    BY <2>1 DEF More, Result
  <2>6. m < n => arrived < ends[m + 1]
    BY <1>1, <2>3, <2>4, <2>5, BufferReads DEF Whole
  <2>7. m < n => ends[m + 1] \in Nat /\ ends[m + 1] <= Len(output)
    BY <2>3, <2>4 DEF Ends
  <2>8. m = n
    <3>1. PICK x \in Nat : x = Len(output)
      BY <2>2
    <3>2. ~(m < n)
      BY <2>1, <2>6, <2>7, <3>1
    <3> QED
      BY <2>4, <3>2
  <2>9. SubSeq(encoded, 1, n) = encoded
    BY <2>2, <2>4
  <2> QED
    BY <2>2, <2>4, <2>8, <2>9
<1> QED
  BY <1>1, WireInvariant, PTL

-----------------------------------------------------------------------------
(* What the assumptions say of the next element of the stream.             *)
LEMMA NextElement ==
  ASSUME TypeOK, pos < Len(input)
  PROVE  /\ pos \in Nat /\ pos + 1 \in 1..Len(input)
         /\ input[pos + 1] \in ElementShape
         /\ input[pos + 1].header \in Nat \ {0}
         /\ ElementLen(input[pos + 1]) \in Nat
         /\ ElementLen(input[pos + 1]) >= input[pos + 1].header
         /\ input[pos + 1].corruptAt \in Nat
         /\ input[pos + 1].corruptAt <= input[pos + 1].header
         /\ input[pos + 1].start = IF pos = 0 THEN 0 ELSE EndOf(input[pos])
<1>1. input \in Inputs /\ input \in Seq(ElementShape) /\ pos \in Nat
  BY StreamParserAssumption DEF TypeOK
<1>2. Len(input) \in Nat /\ pos + 1 \in 1..Len(input)
  BY <1>1, LenProperties
<1>3. input[pos + 1] \in ElementShape
  BY <1>1, <1>2, ElementOfSeq
<1>4. /\ input[pos + 1].corruptAt <= input[pos + 1].header
      /\ input[pos + 1].start
           = IF pos + 1 = 1 THEN 0 ELSE EndOf(input[(pos + 1) - 1])
  BY <1>1, <1>2, StreamParserAssumption
<1>5. pos + 1 = 1 <=> pos = 0
  BY <1>1
<1>6. (pos + 1) - 1 = pos
  BY <1>1
<1>7. /\ input[pos + 1].header \in Nat \ {0}
      /\ input[pos + 1].body \in Nat
      /\ input[pos + 1].corruptAt \in Nat
  BY <1>3 DEF ElementShape
<1>8. /\ ElementLen(input[pos + 1]) \in Nat
      /\ ElementLen(input[pos + 1]) >= input[pos + 1].header
  BY <1>7 DEF ElementLen
<1> QED
  BY <1>1, <1>2, <1>3, <1>4, <1>5, <1>6, <1>7, <1>8

LEMMA Bounds == BufferLimit \in Nat \ {0} /\ MaxRefill \in Nat \ {0}
  BY StreamParserAssumption

LEMMA TypeStep == TypeOK /\ [Next]_vars => TypeOK'
<1> SUFFICES ASSUME TypeOK, [Next]_vars PROVE TypeOK'
  OBVIOUS
<1>1. CASE HeaderError
  BY <1>1 DEF HeaderError, TypeOK, Results
<1>2. CASE Event
  <2>1. pos < Len(input) /\ buffer >= ElementLen(input[pos + 1])
    BY <1>2 DEF Event, CompleteNext, HasNext, Complete
  <2>2. buffer' \in Nat
    BY <1>2, <2>1, NextElement DEF Event, TypeOK
  <2>3. pos' \in 0..Len(input)
    BY <1>2, <2>1, NextElement DEF Event
  <2>4. result' \in Results
    BY <1>2 DEF Event, Results
  <2> QED
    BY <1>2, <2>2, <2>3, <2>4 DEF Event, TypeOK
<1>3. CASE Exceeded
  BY <1>3 DEF Exceeded, TypeOK, Results
<1>4. CASE SourceEnds
  BY <1>4 DEF SourceEnds, TypeOK, Results
<1>5. ASSUME NEW n \in 1..MaxRefill, Refill(n) PROVE TypeOK'
  BY <1>5, Bounds DEF Refill, TypeOK
<1>6. CASE UNCHANGED vars
  BY <1>6 DEF vars, TypeOK
<1> QED
  BY <1>1, <1>2, <1>3, <1>4, <1>5, <1>6 DEF Next

(* The buffer is never split beyond its length (split_to would panic), and *)
(* the parser keeps to the stream.                                         *)
THEOREM TypeCorrect == Spec => []TypeOK
<1>1. Init => TypeOK
  <2>1. \A s \in Inputs : Len(s) \in Nat
    BY StreamParserAssumption, LenProperties
  <2> QED
    BY <2>1 DEF Init, TypeOK, Results
<1> QED
  BY <1>1, TypeStep, PTL DEF Spec

-----------------------------------------------------------------------------
(* The parser is never given more than there is of the stream. Together    *)
(* with BytesConserved: behind the last element the buffer is empty.       *)
Parsing ==
  /\ BytesConserved
  /\ sent <= Total
  /\ BufferBounded
  /\ ExceededOnlyByLongElement

LEMMA TotalType == ASSUME TypeOK PROVE Total \in Nat
<1>1. input \in Seq(ElementShape) /\ Len(input) \in Nat
  BY StreamParserAssumption, LenProperties DEF TypeOK
<1>2. CASE input = << >>
  BY <1>2 DEF Total
<1>3. CASE input # << >>
  <2>1. input[Len(input)] \in ElementShape
    BY <1>1, <1>3, EmptySeq, ElementOfSeq
  <2> QED
    BY <1>3, <2>1 DEF Total, EndOf, ElementLen, ElementShape
<1> QED
  BY <1>2, <1>3

LEMMA ParsingStep == TypeOK /\ Parsing /\ [Next]_vars => Parsing'
<1> SUFFICES ASSUME TypeOK, Parsing, [Next]_vars PROVE Parsing'
  OBVIOUS
<1>0. buffer \in Nat /\ sent \in Nat /\ pos \in Nat /\ Total \in Nat
  BY TotalType DEF TypeOK
<1>1. CASE HeaderError
  BY <1>1 DEF HeaderError, Parsing, BytesConserved, Total, BufferBounded,
              ExceededOnlyByLongElement
<1>2. CASE Event
  <2>1. /\ pos < Len(input) /\ buffer >= ElementLen(input[pos + 1])
        /\ buffer' = buffer - ElementLen(input[pos + 1])
        /\ pos' = pos + 1
        /\ UNCHANGED <<input, sent>>
        /\ result' # "ResourcesExceeded"
    BY <1>2 DEF Event, CompleteNext, HasNext, Complete
  <2> DEFINE e == input[pos + 1]
  <2>2. ElementLen(e) \in Nat /\ e.start = IF pos = 0 THEN 0 ELSE EndOf(input[pos])
    BY <2>1, NextElement
  <2>3. sent = buffer + e.start /\ e.start \in Nat
    BY <2>1, <2>2, NextElement DEF Parsing, BytesConserved, ElementShape
  <2>4. sent' = buffer' + EndOf(input'[pos']) /\ pos' # 0
    <3>1. EndOf(e) = e.start + ElementLen(e)
      BY DEF EndOf
    <3> HIDE DEF e
    <3>2. input'[pos'] = e
      BY <2>1 DEF e
    <3>3. buffer' = buffer - ElementLen(e)
      BY <2>1 DEF e
    <3> QED
      BY <1>0, <2>1, <2>2, <2>3, <3>1, <3>2, <3>3
  <2>5. BytesConserved'
    BY <2>4 DEF BytesConserved
  <2>6. sent' <= Total'
    BY <2>1 DEF Parsing, Total
  <2>7. BufferBounded'
    <3>1. buffer' <= buffer /\ buffer' \in Int
      BY <1>0, <2>1, <2>2
    <3>2. buffer < BufferLimit + MaxRefill => buffer' < BufferLimit + MaxRefill
      BY <1>0, <3>1, Bounds
    <3> QED
      BY <3>2 DEF Parsing, BufferBounded
  <2>8. ExceededOnlyByLongElement'
    BY <2>1 DEF ExceededOnlyByLongElement
  <2> QED
    BY <2>5, <2>6, <2>7, <2>8 DEF Parsing
<1>3. CASE Exceeded
  <2>1. UNCHANGED <<input, sent, buffer, pos>> /\ NeedsMore /\ BufferLimit <= buffer
    BY <1>3 DEF Exceeded, OverLimit
  <2>2. buffer > 0
    BY <1>0, <2>1, Bounds
  <2>3. pos < Len(input)
    <3> SUFFICES ASSUME pos = Len(input) PROVE FALSE
      BY DEF TypeOK
    <3>1. CASE pos = 0
      <4>1. input = << >>
        BY <3>1, StreamParserAssumption, EmptySeq DEF TypeOK
      <4>2. sent = buffer /\ Total = 0
        BY <1>0, <3>1, <4>1 DEF Parsing, BytesConserved, Total
      <4> QED
        BY <1>0, <2>2, <4>2 DEF Parsing
    <3>2. CASE pos # 0
      <4>1. input # << >>
        BY <3>2, EmptySeq
      <4>2. sent = buffer + Total
        BY <3>2, <4>1 DEF Parsing, BytesConserved, Total
      <4> QED
        BY <1>0, <2>2, <4>2 DEF Parsing
    <3> QED
      BY <3>1, <3>2
  <2> DEFINE e == input[pos + 1]
  <2>4. ~Corrupt(e, buffer) /\ ~Complete(e, buffer)
    BY <2>1, <2>3 DEF NeedsMore, CorruptNext, CompleteNext, HasNext
  <2>5. /\ ElementLen(e) \in Nat /\ e.header \in Nat /\ e.corruptAt \in Nat
        /\ ElementLen(e) >= e.header /\ e.corruptAt <= e.header
    BY <2>3, NextElement
  <2> HIDE DEF e
  <2>6. ElementLen(e) > BufferLimit
    BY <1>0, <2>1, <2>4, <2>5, Bounds DEF Corrupt, Complete
  <2>7. ExceededOnlyByLongElement'
    BY <2>1, <2>3, <2>6 DEF ExceededOnlyByLongElement, e
  <2> QED
    BY <2>1, <2>7 DEF Parsing, BytesConserved, Total, BufferBounded
<1>4. CASE SourceEnds
  BY <1>4 DEF SourceEnds, Parsing, BytesConserved, Total, BufferBounded,
              ExceededOnlyByLongElement
<1>5. ASSUME NEW n \in 1..MaxRefill, Refill(n) PROVE Parsing'
  <2>1. /\ UNCHANGED <<input, pos, result>>
        /\ sent' = sent + n /\ buffer' = buffer + n /\ sent + n <= Total
        /\ result = "running" /\ n \in Nat /\ n <= MaxRefill
    BY <1>5, Bounds DEF Refill
  <2>2. BytesConserved'
    <3>1. CASE pos = 0
      BY <1>0, <2>1, <3>1 DEF Parsing, BytesConserved
    <3>2. CASE pos # 0
      <4>1. EndOf(input[pos]) \in Nat
        <5>1. input \in Seq(ElementShape) /\ pos \in 1..Len(input)
          BY <1>0, <3>2, StreamParserAssumption DEF TypeOK
        <5>2. input[pos] \in ElementShape
          BY <5>1, ElementOfSeq
        <5> QED
          BY <5>2 DEF EndOf, ElementLen, ElementShape
      <4> QED
        BY <1>0, <2>1, <3>2, <4>1 DEF Parsing, BytesConserved
    <3> QED
      BY <3>1, <3>2
  <2>3. sent' <= Total'
    BY <2>1 DEF Total
  <2>4. BufferBounded'
    <3>1. ~(BufferLimit <= buffer) => buffer' < BufferLimit + MaxRefill
      BY <1>0, <2>1, Bounds
    <3>2. Limited => ~(BufferLimit <= buffer)
      BY <1>5 DEF Refill, OverLimit
    <3> QED
      BY <3>1, <3>2 DEF BufferBounded
  <2>5. ExceededOnlyByLongElement'
    BY <2>1 DEF ExceededOnlyByLongElement
  <2> QED
    BY <2>2, <2>3, <2>4, <2>5 DEF Parsing
<1>6. CASE UNCHANGED vars
  BY <1>6 DEF vars, Parsing, BytesConserved, Total, BufferBounded,
              ExceededOnlyByLongElement
<1> QED
  BY <1>1, <1>2, <1>3, <1>4, <1>5, <1>6 DEF Next

LEMMA ParsingAlways == Spec => []Parsing
<1>1. Init => Parsing
  <2> SUFFICES ASSUME Init PROVE Parsing
    OBVIOUS
  <2>1. Total \in Nat
    <3>1. TypeOK
      <4>1. Len(input) \in Nat
        BY StreamParserAssumption, LenProperties DEF Init
      <4> QED
        BY <4>1 DEF Init, TypeOK, Results
    <3> QED
      BY <3>1, TotalType
  <2>2. 0 < BufferLimit + MaxRefill
    BY Bounds
  <2>3. BytesConserved /\ sent <= Total
    BY <2>1 DEF Init, BytesConserved
  <2>4. BufferBounded /\ ExceededOnlyByLongElement
    BY <2>2 DEF Init, BufferBounded, ExceededOnlyByLongElement
  <2> QED
    BY <2>3, <2>4 DEF Parsing
<1> QED
  BY <1>1, TypeCorrect, ParsingStep, PTL DEF Spec

(* No byte is lost or read twice, however the stream is cut into pieces.   *)
THEOREM BytesConservedAlways == Spec => []BytesConserved
  BY ParsingAlways, PTL DEF Parsing

(* The buffer stays below the limit plus one piece of the source.          *)
THEOREM BufferBoundedAlways == Spec => []BufferBounded
  BY ParsingAlways, PTL DEF Parsing

(* ResourcesExceeded means a single element longer than the limit.         *)
THEOREM ExceededOnlyByLongElementAlways == Spec => []ExceededOnlyByLongElement
  BY ParsingAlways, PTL DEF Parsing

-----------------------------------------------------------------------------
(* A bounded set of numbers has a greatest.                                *)
LEMMA GreatestNumber ==
  ASSUME NEW b \in Nat, NEW T \in SUBSET (0..b), T # {}
  PROVE  /\ Max(T) \in T
         /\ \A n \in T : n <= Max(T)
<1> DEFINE U == {b - n : n \in T}
<1>1. U \in SUBSET Nat /\ U # {}
  <2>1. \A n \in T : b - n \in Nat
    OBVIOUS
  <2>2. PICK n \in T : TRUE
    OBVIOUS
  <2>3. b - n \in U
    BY <2>2
  <2> QED
    BY <2>1, <2>3
<1> HIDE DEF U
<1>2. PICK d \in U : \A u \in U : d <= u
  BY <1>1, LeastNumber
<1>3. PICK m \in T : d = b - m
  BY DEF U
<1>4. ASSUME NEW n \in T PROVE m >= n
  <2>1. b - n \in U
    BY DEF U
  <2>2. b - m <= b - n
    BY <1>2, <1>3, <2>1
  <2> QED
    BY <2>2
<1>5. Max(T) \in T /\ \A n \in T : Max(T) >= n
  BY <1>4 DEF Max
<1> QED
  BY <1>5

(* The greatest of them, when it is at hand.                               *)
LEMMA MaxIs ==
  ASSUME NEW b \in Nat, NEW T \in SUBSET (0..b), NEW m \in T, \A n \in T : n <= m
  PROVE  Max(T) = m
<1>1. Max(T) \in T /\ \A n \in T : n <= Max(T)
  BY GreatestNumber
<1>2. \A n \in T : n \in Nat
  OBVIOUS
<1>3. Max(T) \in Nat /\ m \in Nat /\ m <= Max(T) /\ Max(T) <= m
  BY <1>1, <1>2
<1> QED
  BY <1>3

-----------------------------------------------------------------------------
(* What has been split off is complete in what was delivered, and decodes, *)
(* but for the element that ended the stream; and the parser stopped where *)
(* it did because of what comes next.                                      *)
Reported ==
  /\ \A i \in 1..pos :
       /\ Complete(input[i], sent - input[i].start)
       /\ input[i].decodes \/ (i = pos /\ result = "EbmlError")
  /\ result = "EbmlError" => (pos > 0 /\ ~input[pos].decodes) \/ CorruptNext
  /\ result \in {"ended", "SourceError", "ResourcesExceeded"} => NeedsMore

LEMMA ElementTypes ==
  ASSUME TypeOK, NEW i \in 1..Len(input)
  PROVE  input[i].start \in Nat /\ ElementLen(input[i]) \in Nat
<1>1. input \in Seq(ElementShape)
  BY StreamParserAssumption DEF TypeOK
<1>2. input[i] \in ElementShape
  BY <1>1, ElementOfSeq
<1> QED
  BY <1>2 DEF ElementShape, ElementLen

(* The buffer holds what was delivered from the next element on.           *)
LEMMA BufferStartsNext ==
  ASSUME TypeOK, BytesConserved, pos < Len(input)
  PROVE  sent - input[pos + 1].start = buffer
<1>1. /\ pos + 1 \in 1..Len(input)
      /\ input[pos + 1].start = IF pos = 0 THEN 0 ELSE EndOf(input[pos])
  BY NextElement
<1>2. input[pos + 1].start \in Nat /\ sent \in Nat /\ buffer \in Nat
  BY <1>1, ElementTypes DEF TypeOK
<1>3. sent = buffer + input[pos + 1].start
  BY <1>1 DEF BytesConserved
<1> QED
  BY <1>2, <1>3

LEMMA ReportedStep == TypeOK /\ Parsing /\ Reported /\ [Next]_vars => Reported'
<1> SUFFICES ASSUME TypeOK, BytesConserved, Reported, [Next]_vars PROVE Reported'
  BY DEF Parsing
<1>0. pos \in Nat /\ sent \in Nat /\ Len(input) \in Nat /\ pos <= Len(input)
  <2>1. Len(input) \in Nat
    BY StreamParserAssumption, LenProperties DEF TypeOK
  <2> QED
    BY <2>1 DEF TypeOK
<1>1. CASE HeaderError
  BY <1>1 DEF HeaderError, Reported, CorruptNext, HasNext
<1>2. CASE Event
  <2> DEFINE e == input[pos + 1]
  <2>1. /\ result = "running" /\ pos < Len(input) /\ Complete(e, buffer)
        /\ pos' = pos + 1 /\ UNCHANGED <<input, sent>>
        /\ result' = IF e.decodes THEN "running" ELSE "EbmlError"
    BY <1>2 DEF Event, CompleteNext, HasNext
  <2>2. Complete(e, sent - e.start)
    BY <2>1, BufferStartsNext
  <2>3. ASSUME NEW i \in 1..pos'
        PROVE  /\ Complete(input[i], sent - input[i].start)
               /\ input[i].decodes \/ (i = pos' /\ result' = "EbmlError")
    <3>1. CASE i = pos + 1
      BY <2>1, <2>2, <3>1
    <3>2. CASE i \in 1..pos
      BY <2>1, <3>2 DEF Reported
    <3> QED
      BY <1>0, <2>1, <3>1, <3>2
  <2>4. result' = "EbmlError" => pos' > 0 /\ ~input'[pos'].decodes
    BY <1>0, <2>1
  <2> QED
    BY <2>1, <2>3, <2>4 DEF Reported, Complete
<1>3. CASE Exceeded \/ SourceEnds
  <2>1. /\ UNCHANGED <<input, sent, buffer, pos>> /\ NeedsMore /\ result = "running"
        /\ result' \in {"ended", "SourceError", "ResourcesExceeded"}
    BY <1>3 DEF Exceeded, SourceEnds
  <2> QED
    BY <2>1 DEF Reported, NeedsMore, CorruptNext, CompleteNext, HasNext
<1>4. ASSUME NEW n \in 1..MaxRefill, Refill(n) PROVE Reported'
  <2>1. UNCHANGED <<input, pos, result>> /\ sent' = sent + n /\ result = "running"
        /\ n \in Nat
    BY <1>4, Bounds DEF Refill
  <2>2. ASSUME NEW i \in 1..pos PROVE Complete(input[i], sent' - input[i].start)
    <3>1. Complete(input[i], sent - input[i].start) /\ i \in 1..Len(input)
      BY <1>0 DEF Reported
    <3>2. input[i].start \in Nat /\ ElementLen(input[i]) \in Nat
      BY <3>1, ElementTypes
    <3>3. sent - input[i].start >= ElementLen(input[i])
            => sent' - input[i].start >= ElementLen(input[i])
      BY <1>0, <2>1, <3>2
    <3> QED
      BY <3>1, <3>3 DEF Complete
  <2> QED
    BY <2>1, <2>2 DEF Reported, Complete
<1>5. CASE UNCHANGED vars
  BY <1>5 DEF vars, Reported, NeedsMore, CorruptNext, CompleteNext, HasNext
<1> QED
  BY <1>1, <1>2, <1>3, <1>4, <1>5 DEF Next

(* The streaming parser reports what the iterator over a complete slice    *)
(* would, for every stream and every way to cut it into pieces.            *)
THEOREM ParsesAsIteratorAlways == Spec => []ParsesAsIterator
<1>1. Init => Reported
  BY DEF Init, Reported
<1>2. TypeOK /\ Parsing /\ Reported => ParsesAsIterator
  <2> SUFFICES ASSUME TypeOK, BytesConserved, Reported PROVE ParsesAsIterator
    BY DEF Parsing
  <2> DEFINE b == Len(input)
             Yields(i) == Complete(input[i], sent - input[i].start) /\ input[i].decodes
             T == {k \in 0..b : \A i \in 1..k : Yields(i)}
  <2>0. b \in Nat /\ pos \in Nat /\ pos <= b
    <3>1. b \in Nat
      BY StreamParserAssumption, LenProperties DEF TypeOK
    <3> QED
      BY <3>1 DEF TypeOK
  <2>1. IteratorYields(sent) = Max(T) /\ T \in SUBSET (0..b)
    BY DEF IteratorYields
  <2>2. \A k \in T : \A i \in 1..k : Yields(i)
    OBVIOUS
  <2>3. \A k \in 0..b : (\A i \in 1..k : Yields(i)) => k \in T
    OBVIOUS
  <2>4. CASE pos > 0 /\ ~input[pos].decodes
    <3>1. result = "EbmlError" /\ pos \in 1..pos
      BY <2>0, <2>4 DEF Reported
    <3>2. pos - 1 \in T
      <4>1. \A i \in 1..(pos - 1) : Yields(i)
        BY <2>0, <2>4 DEF Reported
      <4> HIDE DEF T, Yields
      <4> QED
        BY <2>0, <2>3, <2>4, <4>1
    <3>3. ASSUME NEW k \in T PROVE k <= pos - 1
      <4>1. ~Yields(pos)
        BY <2>4
      <4> HIDE DEF Yields
      <4>2. k \in Nat /\ pos \notin 1..k
        BY <2>1, <2>2, <4>1
      <4> QED
        BY <2>0, <2>4, <4>2
    <3>4. Max(T) = pos - 1
      <4> HIDE DEF T
      <4> QED
        BY <2>0, <2>1, <3>2, <3>3, MaxIs
    <3> QED
      BY <2>1, <2>4, <3>1, <3>4 DEF ParsesAsIterator
  <2>5. CASE ~(pos > 0 /\ ~input[pos].decodes)
    <3>1. pos \in T
      <4>1. \A i \in 1..pos : Yields(i)
        BY <2>0, <2>5 DEF Reported
      <4> HIDE DEF T, Yields
      <4> QED
        BY <2>0, <2>3, <4>1
    <3>2. CASE result = "running"
      <4>1. pos <= Max(T)
        <5> HIDE DEF T
        <5> QED
          BY <2>0, <2>1, <3>1, GreatestNumber
      <4> QED
        BY <2>1, <3>2, <4>1 DEF ParsesAsIterator
    <3>3. CASE result # "running"
      <4>1. NeedsMore \/ CorruptNext
        BY <2>5, <3>3 DEF Reported, TypeOK, Results
      <4>2. ASSUME pos < b PROVE ~Yields(pos + 1)
        <5>1. input[pos + 1].corruptAt \in Nat
          BY <4>2, NextElement
        <5>2. ~Complete(input[pos + 1], buffer)
          BY <4>1, <4>2, <5>1 DEF NeedsMore, CorruptNext, CompleteNext, HasNext, Corrupt, Complete
        <5> QED
          BY <4>2, <5>2, BufferStartsNext
      <4>3. ASSUME NEW k \in T PROVE k <= pos
        <5> HIDE DEF Yields
        <5>1. k \in Nat /\ k <= b
          BY <2>0, <2>1
        <5>2. k > pos => pos + 1 \in 1..k /\ pos < b
          BY <2>0, <5>1
        <5> QED
          BY <2>0, <2>2, <4>2, <5>1, <5>2
      <4>4. Max(T) = pos
        <5> HIDE DEF T
        <5> QED
          BY <2>0, <2>1, <3>1, <4>3, MaxIs
      <4> QED
        BY <2>1, <2>5, <3>3, <4>4 DEF ParsesAsIterator
    <3> QED
      BY <3>2, <3>3
  <2> QED
    BY <2>4, <2>5
<1> QED
  BY <1>1, <1>2, TypeCorrect, ParsingAlways, ReportedStep, PTL DEF Spec

=============================================================================
