-------------------------- MODULE CalProtocolProofs --------------------------
(***************************************************************************)
(* Proofs about CalProtocol, for every session and every way in which TCP  *)
(* cuts the two streams: numbers are read back as they were written, a     *)
(* buffer has a package exactly when all its bytes have come, and the      *)
(* client prints the answer to what was typed.                             *)
(***************************************************************************)
EXTENDS CalProtocol, FiniteSets, FiniteSetTheorems, SequenceTheorems,
        WellFoundedInduction, TLAPS

-----------------------------------------------------------------------------
(* Induction, in a form that the provers can use: over a set of numbers.   *)

\* A set that holds each number whose smaller numbers it holds, holds them all.
LEMMA Induction ==
    ASSUME NEW S, \A n \in Nat : (\A m \in 0 .. (n - 1) : m \in S) => n \in S
    PROVE  \A n \in Nat : n \in S
<1> DEFINE T == Nat \ S  U == {0 .. k : k \in T}
           F == FiniteSubsetsOf(Nat)  R == StrictSubsetOrdering(Nat)
<1> SUFFICES ASSUME T # {}  PROVE FALSE
  OBVIOUS
<1>1. IsWellFoundedOn(R, F)
  BY FS_StrictSubsetOrderingWellFounded
<1>2. U \subseteq F /\ U # {}
  <2>1. \A k \in Nat : 0 .. k \in F
    BY FS_Interval DEF FiniteSubsetsOf
  <2> QED  BY <2>1
<1> HIDE DEF F, U
<1>3. PICK u \in U : \A v \in U : <<v, u>> \notin R
  BY <1>1, <1>2, WFMin
<1> USE DEF U
<1>4. PICK n \in T : u = 0 .. n
  OBVIOUS
<1>5. ASSUME NEW m \in 0 .. (n - 1)  PROVE m \in S
  <2>1. m \in Nat /\ n \in Nat /\ m < n
    OBVIOUS
  <2>2. 0 .. m \in SUBSET Nat /\ 0 .. n \in SUBSET Nat /\ 0 .. m \subseteq 0 .. n
    BY <2>1
  <2>3. n \in 0 .. n /\ n \notin 0 .. m
    BY <2>1
  <2>4. 0 .. m # 0 .. n
    BY <2>3
  <2>5. <<0 .. m, 0 .. n>> \in R
    BY <2>2, <2>4 DEF StrictSubsetOrdering
  <2>6. 0 .. m \notin U
    BY <2>5, <1>3, <1>4
  <2> QED  BY <2>1, <2>6
<1> QED  BY <1>5

\* A function of the numbers up to n that starts at a and steps by g.
Steps(f, g, a, n) == f[0] = a /\ \A k \in 1 .. n : f[k] = g[<<k, f[k - 1]>>]

\* Two that step alike are the same, as far as both go.
LEMMA OneWay ==
    ASSUME NEW f, NEW h, NEW g, NEW a, NEW n \in Nat, NEW m \in Nat, n <= m,
           Steps(f, g, a, n), Steps(h, g, a, m)
    PROVE  \A k \in 0 .. n : f[k] = h[k]
<1> DEFINE S == {k \in Nat : k <= n => f[k] = h[k]}
<1>1. ASSUME NEW k \in Nat, \A i \in 0 .. (k - 1) : i \in S  PROVE k \in S
  <2>1. CASE k = 0
    BY <2>1 DEF Steps
  <2>2. CASE k # 0 /\ k <= n
    <3>1. k - 1 \in S /\ k \in 1 .. n /\ k \in 1 .. m
      BY <1>1, <2>2
    <3>2. f[k - 1] = h[k - 1]
      BY <3>1
    <3> QED  BY <3>1, <3>2 DEF Steps
  <2> QED  BY <2>1, <2>2
<1>2. \A k \in Nat : k \in S
  <2> HIDE DEF S
  <2> QED  BY <1>1, Induction
<1> QED  BY <1>2

\* A step may be taken from anywhere: there is one as far as one wants.
LEMMA StepsExist ==
    ASSUME NEW X, NEW a \in X, NEW n \in Nat, NEW g,
           \A k \in 1 .. n, x \in X : g[<<k, x>>] \in X
    PROVE  \E f \in [0 .. n -> X] : Steps(f, g, a, n)
<1> DEFINE S == {m \in Nat : m <= n => \E f \in [0 .. m -> X] : Steps(f, g, a, m)}
<1>1. ASSUME NEW m \in Nat, \A i \in 0 .. (m - 1) : i \in S  PROVE m \in S
  <2>1. CASE m = 0
    <3>1. [k \in 0 .. 0 |-> a] \in [0 .. 0 -> X] /\ Steps([k \in 0 .. 0 |-> a], g, a, 0)
      BY DEF Steps
    <3> QED  BY <2>1, <3>1
  <2>2. CASE m # 0 /\ m <= n
    <3>1. m - 1 \in S /\ m - 1 \in Nat
      BY <1>1, <2>2
    <3>2. PICK f \in [0 .. (m - 1) -> X] : Steps(f, g, a, m - 1)
      BY <3>1, <2>2
    <3> DEFINE h == [k \in 0 .. m |-> IF k = m THEN g[<<m, f[m - 1]>>] ELSE f[k]]
    <3>3. f[m - 1] \in X /\ m \in 1 .. n
      BY <2>2
    <3>4. h \in [0 .. m -> X]
      BY <3>3
    <3>5. Steps(h, g, a, m)
      <4>1. h[0] = a
        BY <2>2, <3>2 DEF Steps
      <4>2. ASSUME NEW k \in 1 .. m  PROVE h[k] = g[<<k, h[k - 1]>>]
        <5>1. CASE k = m
          BY <5>1, <2>2
        <5>2. CASE k # m
          <6>1. k \in 1 .. (m - 1) /\ k \in 0 .. m /\ k - 1 \in 0 .. m /\ k - 1 # m
            BY <5>2
          <6> QED  BY <6>1, <5>2, <3>2 DEF Steps
        <5> QED  BY <5>1, <5>2
      <4> QED  BY <4>1, <4>2 DEF Steps
    <3> QED  BY <3>4, <3>5
  <2> QED  BY <2>1, <2>2
<1>2. \A m \in Nat : m \in S
  <2> HIDE DEF S
  <2> QED  BY <1>1, Induction
<1> QED  BY <1>2

-----------------------------------------------------------------------------
(* Numbers and the characters they are written with.                       *)

\* A step back stays among the numbers up to n.
LEMMA StepBack ==
    ASSUME NEW n \in Nat
    PROVE  /\ 0 \in 0 .. n /\ n \in 0 .. n
           /\ \A k \in 1 .. n : k \in 0 .. n /\ k # 0 /\ k - 1 \in 0 .. n
OBVIOUS

\* The function that Value computes for the digits d.
ValueBy(v, d) ==
    /\ v \in [0 .. Len(d) -> Int] /\ v[0] = 0
    /\ \A k \in 1 .. Len(d) : v[k] = 10 * v[k - 1] + (d[k] - 48)

\* Value's recursive function exists.
LEMMA ValueDefined ==
    ASSUME NEW d \in Seq(Int)
    PROVE  \E v : ValueBy(v, d) /\ Value(d) = v[Len(d)]
<1> DEFINE g == [p \in (1 .. Len(d)) \X Int |-> 10 * p[2] + (d[p[1]] - 48)]
           G(v) == [k \in 0 .. Len(d) |-> IF k = 0 THEN 0 ELSE 10 * v[k - 1] + (d[k] - 48)]
<1>1. Len(d) \in Nat /\ \A k \in 1 .. Len(d) : d[k] \in Int
  OBVIOUS
<1>2. \A k \in 1 .. Len(d), x \in Int : g[<<k, x>>] = 10 * x + (d[k] - 48) /\ g[<<k, x>>] \in Int
  BY <1>1
<1>3. PICK v \in [0 .. Len(d) -> Int] : Steps(v, g, 0, Len(d))
  <2> HIDE DEF g
  <2>1. \E f \in [0 .. Len(d) -> Int] : Steps(f, g, 0, Len(d))
    BY <1>1, <1>2, StepsExist, 0 \in Int
  <2> QED  BY <2>1
<1> HIDE DEF g
<1>4. v = G(v)
  <2>1. \A k \in 0 .. Len(d) : v[k] = G(v)[k]
    <3>1. \A k \in 1 .. Len(d) : v[k] = 10 * v[k - 1] + (d[k] - 48)
      BY <1>1, <1>2, <1>3, StepBack DEF Steps
    <3>2. v[0] = 0
      BY <1>3 DEF Steps
    <3> QED  BY <3>1, <3>2, <1>1
  <2> QED  BY <2>1
<1> DEFINE w == CHOOSE w : w = G(w)
<1>5. w = G(w)
  BY <1>4
<1>6. Value(d) = w[Len(d)]
  BY DEF Value
<1> HIDE DEF w
<1>7. w[0] = 0 /\ \A k \in 1 .. Len(d) : w[k] = 10 * w[k - 1] + (d[k] - 48)
  BY <1>1, <1>5, StepBack
<1> DEFINE S == {k \in Nat : k <= Len(d) => w[k] \in Int}
<1>8. ASSUME NEW k \in Nat, \A i \in 0 .. (k - 1) : i \in S  PROVE k \in S
  <2>1. CASE k = 0
    BY <2>1, <1>7
  <2>2. CASE k # 0 /\ k <= Len(d)
    <3>1. k - 1 \in S /\ k \in 1 .. Len(d)
      BY <1>8, <2>2
    <3>2. w[k - 1] \in Int
      BY <3>1, <2>2
    <3> QED  BY <3>1, <3>2, <1>1, <1>7
  <2> QED  BY <2>1, <2>2
<1>9. \A k \in Nat : k \in S
  <2> HIDE DEF S
  <2> QED  BY <1>8, Induction
<1>10. w \in [0 .. Len(d) -> Int]
  <2>1. \A k \in 0 .. Len(d) : w[k] \in Int
    BY <1>9, <1>1
  <2>2. w = [k \in 0 .. Len(d) |-> w[k]]
    BY <1>5
  <2> QED  BY <2>1, <2>2
<1> QED  BY <1>6, <1>7, <1>10 DEF ValueBy

\* One more digit: ten times the value, and the digit.
LEMMA ValueAppend ==
    ASSUME NEW d \in Seq(Int), NEW b \in Int
    PROVE  /\ Value(<<>>) = 0 /\ Value(d) \in Int
           /\ Value(Append(d, b)) = 10 * Value(d) + (b - 48)
<1> DEFINE e == Append(d, b)
<1>1. /\ Len(d) \in Nat /\ Len(e) = Len(d) + 1 /\ e \in Seq(Int)
      /\ \A k \in 1 .. Len(d) : e[k] = d[k] /\ d[k] \in Int
      /\ e[Len(d) + 1] = b
  OBVIOUS
<1>2. PICK v : ValueBy(v, d) /\ Value(d) = v[Len(d)]
  BY ValueDefined
<1>3. PICK w : ValueBy(w, e) /\ Value(e) = w[Len(e)]
  BY <1>1, ValueDefined
<1> HIDE DEF e
<1> DEFINE g == [p \in (1 .. Len(d)) \X Int |-> 10 * p[2] + (d[p[1]] - 48)]
<1>4. \A k \in 1 .. Len(d), x \in Int : g[<<k, x>>] = 10 * x + (d[k] - 48)
  OBVIOUS
<1> HIDE DEF g
<1>5. Steps(v, g, 0, Len(d))
  <2>1. \A k \in 1 .. Len(d) : v[k - 1] \in Int
    BY <1>1, <1>2, StepBack DEF ValueBy
  <2> QED  BY <2>1, <1>2, <1>4 DEF ValueBy, Steps
<1>6. Steps(w, g, 0, Len(d))
  <2>1. \A k \in 1 .. Len(d) : k \in 1 .. Len(e) /\ w[k - 1] \in Int
    <3>1. w \in [0 .. Len(e) -> Int]
      BY <1>3 DEF ValueBy
    <3>2. \A k \in 1 .. Len(d) : k \in 1 .. Len(e) /\ k - 1 \in 0 .. Len(e)
      BY <1>1
    <3> QED  BY <3>1, <3>2
  <2>2. \A k \in 1 .. Len(d) : w[k] = 10 * w[k - 1] + (d[k] - 48)
    BY <2>1, <1>1, <1>3 DEF ValueBy
  <2> QED  BY <2>1, <2>2, <1>3, <1>4 DEF ValueBy, Steps
<1>7. v[Len(d)] = w[Len(d)]
  <2>1. \A k \in 0 .. Len(d) : v[k] = w[k]
    BY <1>1, <1>5, <1>6, OneWay
  <2> QED  BY <2>1, <1>1
<1>8. Value(d) \in Int
  <2>1. v \in [0 .. Len(d) -> Int]
    BY <1>2 DEF ValueBy
  <2>2. Len(d) \in 0 .. Len(d)
    BY <1>1
  <2> QED  BY <2>1, <2>2, <1>2
<1>9. Value(e) = 10 * Value(d) + (b - 48)
  <2>1. Len(d) + 1 \in 1 .. Len(e)
    BY <1>1
  <2>2. w[Len(d) + 1] = 10 * w[Len(d) + 1 - 1] + (e[Len(d) + 1] - 48)
    BY <2>1, <1>3 DEF ValueBy
  <2> QED  BY <2>2, <1>1, <1>2, <1>3, <1>7
<1>10. Value(<<>>) = 0
  <2>1. PICK u : ValueBy(u, <<>>) /\ Value(<<>>) = u[Len(<<>>)]
    <3>1. <<>> \in Seq(Int)
      OBVIOUS
    <3> QED  BY <3>1, ValueDefined
  <2> QED  BY <2>1 DEF ValueBy
<1> QED  BY <1>8, <1>9, <1>10 DEF e

\* The characters 0 to 9.
Digits == 48 .. 57

\* Sequences of digits are sequences of numbers.
LEMMA DigitSeqs ==
    ASSUME NEW s \in Seq(Digits)
    PROVE  /\ s \in Seq(Int) /\ Len(s) \in Nat
           /\ \A i \in 1 .. Len(s) : s[i] \in Int /\ IsDigit(s[i])
<1>1. \A i \in 1 .. Len(s) : s[i] \in Digits
  OBVIOUS
<1>2. \A i \in 1 .. Len(s) : s[i] \in Int /\ IsDigit(s[i])
  BY <1>1 DEF Digits, IsDigit
<1>3. s \in [1 .. Len(s) -> Int]
  BY <1>2
<1> QED  BY <1>2, <1>3

\* What Decimal writes for k, from what f writes for smaller numbers.
Writing(f, k) == IF k < 10 THEN <<48 + k>> ELSE Append(f[k \div 10], 48 + (k % 10))

\* f writes the numbers up to n as Decimal does.
Writes(f, n) == \A k \in 0 .. n : f[k] = Writing(f, k)

\* Dividing by ten makes a number smaller.
LEMMA TenTimes ==
    ASSUME NEW n \in Nat
    PROVE  /\ n \div 10 \in Nat /\ n % 10 \in 0 .. 9 /\ n = 10 * (n \div 10) + (n % 10)
           /\ n >= 10 => n \div 10 \in 0 .. (n - 1)
OBVIOUS

\* What is written depends on smaller numbers only.
LEMMA WritingDepends ==
    ASSUME NEW k \in Nat, NEW f, NEW h, \A i \in 0 .. (k - 1) : f[i] = h[i]
    PROVE  Writing(f, k) = Writing(h, k)
<1>1. CASE k < 10
  BY <1>1 DEF Writing
<1>2. CASE k >= 10
  <2>1. f[k \div 10] = h[k \div 10]
    BY <1>2, TenTimes
  <2> QED  BY <1>2, <2>1 DEF Writing
<1> QED  BY <1>1, <1>2

\* It is a sequence of digits.
LEMMA WritingType ==
    ASSUME NEW k \in Nat, NEW f, \A i \in 0 .. (k - 1) : f[i] \in Seq(Digits)
    PROVE  Writing(f, k) \in Seq(Digits)
<1>1. CASE k < 10
  <2>1. 48 + k \in Digits
    BY <1>1 DEF Digits
  <2>2. Writing(f, k) = <<48 + k>>
    BY <1>1 DEF Writing
  <2> QED  BY <2>1, <2>2
<1>2. CASE k >= 10
  <2>1. k \div 10 \in 0 .. (k - 1) /\ 48 + (k % 10) \in Digits
    BY <1>2, TenTimes DEF Digits
  <2>2. f[k \div 10] \in Seq(Digits)
    BY <2>1
  <2>3. Writing(f, k) = Append(f[k \div 10], 48 + (k % 10))
    BY <1>2 DEF Writing
  <2> QED  BY <2>1, <2>2, <2>3
<1> QED  BY <1>1, <1>2

\* Two such functions write the same.
LEMMA WriteAlike ==
    ASSUME NEW f, NEW n \in Nat, Writes(f, n), NEW h, NEW m \in Nat, Writes(h, m), n <= m
    PROVE  \A k \in 0 .. n : f[k] = h[k]
<1> DEFINE S == {k \in Nat : k <= n => f[k] = h[k]}
<1>1. ASSUME NEW k \in Nat, \A i \in 0 .. (k - 1) : i \in S  PROVE k \in S
  <2> SUFFICES ASSUME k <= n  PROVE f[k] = h[k]
    OBVIOUS
  <2>1. k \in 0 .. n /\ k \in 0 .. m
    OBVIOUS
  <2>2. \A i \in 0 .. (k - 1) : f[i] = h[i]
    BY <1>1
  <2>3. Writing(f, k) = Writing(h, k)
    BY <2>2, WritingDepends
  <2> QED  BY <2>1, <2>3 DEF Writes
<1>2. \A k \in Nat : k \in S
  <2> HIDE DEF S
  <2> QED  BY <1>1, Induction
<1> QED  BY <1>2

\* As far as one wants, there is one.
LEMMA WritesExist ==
    ASSUME NEW n \in Nat
    PROVE  \E f \in [0 .. n -> Seq(Digits)] : Writes(f, n)
<1> DEFINE S == {m \in Nat : \E f \in [0 .. m -> Seq(Digits)] : Writes(f, m)}
<1>1. ASSUME NEW m \in Nat, \A i \in 0 .. (m - 1) : i \in S  PROVE m \in S
  <2>1. PICK f : m # 0 => f \in [0 .. (m - 1) -> Seq(Digits)] /\ Writes(f, m - 1)
    <3>1. CASE m # 0
      <4>1. m - 1 \in S
        BY <1>1, <3>1
      <4> QED  BY <4>1
    <3> QED  BY <3>1
  <2> DEFINE h == [k \in 0 .. m |-> IF k = m THEN Writing(f, m) ELSE f[k]]
  <2>2. \A k \in 0 .. m : k # m => k \in 0 .. (m - 1) /\ m # 0
    OBVIOUS
  <2>3. Writing(f, m) \in Seq(Digits)
    <3>1. \A i \in 0 .. (m - 1) : f[i] \in Seq(Digits)
      BY <2>1, <2>2
    <3> QED  BY <3>1, WritingType
  <2>4. h \in [0 .. m -> Seq(Digits)]
    BY <2>1, <2>2, <2>3
  <2>5. Writes(h, m)
    <3>1. ASSUME NEW k \in 0 .. m  PROVE h[k] = Writing(h, k)
      <4>1. \A i \in 0 .. (k - 1) : h[i] = f[i]
        OBVIOUS
      <4>2. Writing(h, k) = Writing(f, k)
        BY <4>1, WritingDepends
      <4>3. h[k] = Writing(f, k)
        BY <2>1, <2>2 DEF Writes
      <4> QED  BY <4>2, <4>3
    <3> QED  BY <3>1 DEF Writes
  <2> QED  BY <2>4, <2>5
<1>2. \A m \in Nat : m \in S
  <2> HIDE DEF S
  <2> QED  BY <1>1, Induction
<1> QED  BY <1>2

\* to_string's recursive function exists.
LEMMA DecimalDefined ==
    /\ Decimal \in [Nat -> Seq(Digits)]
    /\ \A n \in Nat : Decimal[n] = Writing(Decimal, n)
<1> DEFINE g(i) == CHOOSE f \in [0 .. i -> Seq(Digits)] : Writes(f, i)
           D == [n \in Nat |-> g(n)[n]]
           G(f) == [n \in Nat |-> Writing(f, n)]
<1>1. \A n \in Nat : g(n) \in [0 .. n -> Seq(Digits)] /\ Writes(g(n), n)
  BY WritesExist
<1> HIDE DEF g
<1>2. \A n \in Nat : g(n)[n] \in Seq(Digits)
  BY <1>1
<1>3. D \in [Nat -> Seq(Digits)]
  BY <1>2
<1>4. \A n \in Nat : \A k \in 0 .. n : g(n)[k] = D[k]
  <2> SUFFICES ASSUME NEW n \in Nat, NEW k \in 0 .. n  PROVE g(n)[k] = g(k)[k]
    OBVIOUS
  <2> QED  BY <1>1, WriteAlike
<1>5. \A n \in Nat : D[n] = Writing(D, n)
  <2> TAKE n \in Nat
  <2>1. D[n] = g(n)[n] /\ \A i \in 0 .. (n - 1) : g(n)[i] = D[i]
    BY <1>4
  <2> HIDE DEF D
  <2>2. Writing(g(n), n) = Writing(D, n)
    BY <2>1, WritingDepends
  <2> QED  BY <2>1, <2>2, <1>1 DEF Writes
<1>6. D = G(D)
  <2>1. G(D) = [n \in Nat |-> D[n]]
    BY <1>5
  <2>2. D = [n \in Nat |-> D[n]]
    BY <1>3
  <2> QED  BY <2>1, <2>2
<1> HIDE DEF D
<1>7. Decimal = G(Decimal)
  BY <1>6 DEF Decimal, Writing
<1>8. \A n \in Nat : Decimal[n] = Writing(Decimal, n)
  BY <1>7
<1>9. \A k \in Nat : Decimal[k] = D[k]
  <2> TAKE k \in Nat
  <2>1. Writes(Decimal, k) /\ Writes(D, k) /\ k \in 0 .. k
    BY <1>5, <1>8 DEF Writes
  <2> QED  BY <2>1, WriteAlike
<1>10. Decimal \in [Nat -> Seq(Digits)]
  BY <1>3, <1>7, <1>9
<1> QED  BY <1>8, <1>10

\* What Decimal writes has the value it was written from.
LEMMA DecimalExact ==
    ASSUME NEW n \in Nat
    PROVE  /\ Decimal[n] \in Seq(Digits) /\ Len(Decimal[n]) \in Nat \ {0}
           /\ Value(Decimal[n]) = n
<1> DEFINE S == {k \in Nat : Len(Decimal[k]) \in Nat \ {0} /\ Value(Decimal[k]) = k}
<1>1. ASSUME NEW k \in Nat, \A i \in 0 .. (k - 1) : i \in S  PROVE k \in S
  <2>1. CASE k < 10
    <3> DEFINE b == 48 + k
    <3>1. Decimal[k] = <<b>> /\ b \in Int /\ b - 48 = k
      <4>1. Decimal[k] = Writing(Decimal, k)
        BY DecimalDefined
      <4> QED  BY <4>1, <2>1 DEF Writing
    <3>2. <<>> \in Seq(Int) /\ Append(<<>>, b) = <<b>>
      OBVIOUS
    <3> HIDE DEF b
    <3>3. Value(Append(<<>>, b)) = 10 * Value(<<>>) + (b - 48) /\ Value(<<>>) = 0
      BY <3>1, <3>2, ValueAppend
    <3> QED  BY <3>1, <3>2, <3>3
  <2>2. CASE k >= 10
    <3> DEFINE q == k \div 10  r == k % 10
    <3>1. q \in Nat /\ r \in 0 .. 9 /\ k = 10 * q + r /\ q \in 0 .. (k - 1)
      BY <2>2, TenTimes
    <3> DEFINE b == 48 + r
    <3>7. b \in Int /\ b - 48 = r
      BY <3>1
    <3>2. Decimal[k] = Append(Decimal[q], b)
      <4>1. Decimal[k] = Writing(Decimal, k)
        BY DecimalDefined
      <4> QED  BY <4>1, <2>2 DEF Writing
    <3> HIDE DEF q, r, b
    <3>3. Decimal[q] \in Seq(Digits) /\ Decimal[q] \in Seq(Int)
      <4>1. Decimal[q] \in Seq(Digits)
        BY <3>1, DecimalDefined
      <4> QED  BY <4>1, DigitSeqs
    <3>4. Len(Decimal[q]) \in Nat \ {0} /\ Value(Decimal[q]) = q
      BY <3>1, <1>1
    <3>5. Value(Decimal[k]) = 10 * q + (b - 48)
      BY <3>2, <3>3, <3>4, <3>7, ValueAppend
    <3>6. Len(Decimal[k]) = Len(Decimal[q]) + 1
      BY <3>2, <3>3
    <3> QED  BY <3>1, <3>4, <3>5, <3>6, <3>7
  <2> QED  BY <2>1, <2>2
<1>2. \A k \in Nat : k \in S
  <2> HIDE DEF S
  <2> QED  BY <1>1, Induction
<1> QED  BY <1>2, DecimalDefined

-----------------------------------------------------------------------------
(* Texts: sequences of bytes.                                              *)

Text == Seq(Bytes)

\* Two texts one after the other, and what is found in them.
LEMMA Joined ==
    ASSUME NEW a \in Text, NEW b \in Text
    PROVE  /\ a \o b \in Text /\ Len(a) \in Nat /\ Len(b) \in Nat
           /\ Len(a \o b) = Len(a) + Len(b)
           /\ \A i \in 1 .. Len(a) : (a \o b)[i] = a[i]
           /\ \A i \in 1 .. Len(b) : (a \o b)[Len(a) + i] = b[i]
           /\ SubSeq(a \o b, 1, Len(a)) = a
           /\ SubSeq(a \o b, Len(a) + 1, Len(a) + Len(b)) = b
<1> USE DEF Text
<1>1. /\ a \o b \in Seq(Bytes) /\ Len(a) \in Nat /\ Len(b) \in Nat
      /\ Len(a \o b) = Len(a) + Len(b)
      /\ \A i \in 1 .. Len(a) + Len(b) :
            (a \o b)[i] = IF i <= Len(a) THEN a[i] ELSE b[i - Len(a)]
  BY ConcatProperties
<1>2. \A i \in 1 .. Len(a) : (a \o b)[i] = a[i]
  BY <1>1
<1>3. \A i \in 1 .. Len(b) : (a \o b)[Len(a) + i] = b[i]
  BY <1>1
<1>4. /\ \A i \in 1 .. Len(a) : a[i] \in Bytes
      /\ \A i \in 1 .. Len(b) : b[i] \in Bytes
      /\ \A i \in 1 .. Len(a) + Len(b) : (a \o b)[i] \in Bytes
  BY <1>1
<1> DEFINE s == a \o b  la == Len(a)  lb == Len(b)
<1> HIDE DEF s, la, lb
<1>5. SubSeq(s, 1, la) = a
  <2>1. /\ SubSeq(s, 1, la) \in Seq(Bytes)
        /\ Len(SubSeq(s, 1, la)) = IF 1 <= la THEN la - 1 + 1 ELSE 0
        /\ \A i \in 1 .. la - 1 + 1 : SubSeq(s, 1, la)[i] = s[1 + i - 1]
    <3>1. \A i \in 1 .. la : s[i] \in Bytes
      BY <1>1, <1>4 DEF s, la
    <3>2. la \in Int
      BY <1>1 DEF la
    <3> QED  BY <3>1, <3>2, SubSeqProperties
  <2>2. la \in Nat /\ \A i \in 1 .. la : s[i] = a[i]
    BY <1>1, <1>2 DEF s, la
  <2>3. Len(SubSeq(s, 1, la)) = la
    BY <2>1, <2>2
  <2>4. \A i \in 1 .. la : SubSeq(s, 1, la)[i] = a[i]
    BY <2>1, <2>2
  <2> QED  BY <2>1, <2>3, <2>4, SeqEqual DEF la
<1>6. SubSeq(s, la + 1, la + lb) = b
  <2> DEFINE m == la + 1  n == la + lb  t == SubSeq(s, m, n)
  <2>1. la \in Nat /\ lb \in Nat /\ \A i \in 1 .. lb : s[la + i] = b[i]
    BY <1>1, <1>3 DEF s, la, lb
  <2>2. /\ t \in Seq(Bytes) /\ Len(t) = IF m <= n THEN n - m + 1 ELSE 0
        /\ \A i \in 1 .. n - m + 1 : t[i] = s[m + i - 1]
    <3>1. \A i \in m .. n : s[i] \in Bytes
      BY <1>4, <2>1 DEF s, la, lb
    <3>2. m \in Int /\ n \in Int
      BY <2>1
    <3> HIDE DEF m, n
    <3> QED  BY <3>1, <3>2, SubSeqProperties
  <2> HIDE DEF t
  <2>3. Len(t) = lb
    BY <2>1, <2>2
  <2>4. \A i \in 1 .. lb : t[i] = b[i]
    <3> TAKE i \in 1 .. lb
    <3>1. i \in 1 .. n - m + 1 /\ m + i - 1 = la + i
      BY <2>1
    <3> QED  BY <2>1, <2>2, <3>1
  <2>5. t = b
    BY <2>2, <2>3, <2>4, SeqEqual DEF lb
  <2> QED  BY <2>5 DEF t
<1> QED  BY <1>1, <1>2, <1>3, <1>5, <1>6 DEF s, la, lb

\* One text after another is a text, as long as both.
LEMMA JoinedLength ==
    ASSUME NEW a \in Text, NEW b \in Text
    PROVE  /\ a \o b \in Text /\ Len(a) \in Nat /\ Len(b) \in Nat
           /\ Len(a \o b) = Len(a) + Len(b)
BY Joined

\* Three texts in a row.
LEMMA JoinedTwice ==
    ASSUME NEW a \in Text, NEW b \in Text, NEW c \in Text
    PROVE  (a \o b) \o c = a \o (b \o c)
BY ConcatAssociative DEF Text

\* Its parts, cut out again.
LEMMA JoinedParts ==
    ASSUME NEW a \in Text, NEW b \in Text
    PROVE  /\ SubSeq(a \o b, 1, Len(a)) = a
           /\ SubSeq(a \o b, Len(a) + 1, Len(a) + Len(b)) = b
BY Joined

\* Its bytes.
LEMMA JoinedBytes ==
    ASSUME NEW a \in Text, NEW b \in Text
    PROVE  /\ \A i \in 1 .. Len(a) : (a \o b)[i] = a[i]
           /\ \A i \in 1 .. Len(b) : (a \o b)[Len(a) + i] = b[i]
BY Joined

\* The greatest and the least of some numbers.
LEMMA MaxIs ==
    ASSUME NEW S \in SUBSET Int, NEW m \in S, \A x \in S : x <= m
    PROVE  Max(S) = m
<1> DEFINE x == Max(S)
<1>1. x \in S /\ \A y \in S : x >= y
  BY DEF Max
<1> HIDE DEF x
<1>2. x = m
  BY <1>1
<1> QED  BY <1>2 DEF x

LEMMA MinIs ==
    ASSUME NEW S \in SUBSET Int, NEW m \in S, \A x \in S : m <= x
    PROVE  Min(S) = m
<1> DEFINE x == Min(S)
<1>1. x \in S /\ \A y \in S : x <= y
  BY DEF Min
<1> HIDE DEF x
<1>2. x = m
  BY <1>1
<1> QED  BY <1>2 DEF x

\* The digits a text starts with end where another character follows.
LEMMA LeadingIs ==
    ASSUME NEW d \in Text, NEW r \in Text, \A i \in 1 .. Len(d) : IsDigit(d[i]),
           r # <<>> => ~IsDigit(r[1])
    PROVE  LeadingDigits(d \o r) = d
<1> DEFINE s == d \o r
           K == {k \in 0 .. Len(s) : \A i \in 1 .. k : IsDigit(s[i])}
<1>1. Len(d) \in Nat /\ Len(s) = Len(d) + Len(r) /\ Len(r) \in Nat
  BY Joined
<1>2. (\A i \in 1 .. Len(d) : s[i] = d[i]) /\ \A i \in 1 .. Len(r) : s[Len(d) + i] = r[i]
  BY Joined
<1>3. r = <<>> <=> Len(r) = 0
  BY EmptySeq DEF Text
<1> HIDE DEF s
<1>4. Len(d) \in K
  BY <1>1, <1>2
<1>5. ASSUME NEW k \in K  PROVE k <= Len(d)
  <2> SUFFICES ASSUME k > Len(d)  PROVE FALSE
    BY <1>1
  <2>1. k \in Int /\ k <= Len(s) /\ \A i \in 1 .. k : IsDigit(s[i])
    BY <1>1
  <2>2. Len(r) >= 1 /\ Len(d) + 1 \in 1 .. k
    BY <1>1, <2>1
  <2>3. s[Len(d) + 1] = r[1] /\ r # <<>>
    BY <1>2, <1>3, <2>2, <1>1
  <2> QED  BY <2>1, <2>2, <2>3
<1>6. Max(K) = Len(d)
  <2>1. K \in SUBSET Int
    BY <1>1
  <2> HIDE DEF K
  <2> QED  BY <1>4, <1>5, <2>1, MaxIs
<1>7. SubSeq(s, 1, Len(d)) = d
  BY Joined DEF s
<1> QED  BY <1>6, <1>7 DEF LeadingDigits, s

\* Digits are bytes, and none of them is a minus sign or a separator.
LEMMA DigitText ==
    ASSUME NEW d \in Seq(Digits)
    PROVE  /\ d \in Text /\ LeadingDigits(d) = d
           /\ \A i \in 1 .. Len(d) : d[i] \in Digits /\ IsDigit(d[i])
<1>1. d \in Text
  <2>1. Digits \subseteq Bytes
    BY DEF Digits, Bytes
  <2> QED  BY <2>1, SeqMonotonic DEF Text
<1>2. \A i \in 1 .. Len(d) : d[i] \in Digits /\ IsDigit(d[i])
  BY DigitSeqs, ElementOfSeq
<1>3. <<>> \in Text /\ d \o <<>> = d
  BY <1>1, EmptySeq, ConcatEmptySeq DEF Text
<1>4. LeadingDigits(d \o <<>>) = d
  BY <1>1, <1>2, <1>3, LeadingIs
<1> QED  BY <1>1, <1>2, <1>3, <1>4

\* A number is written with digits, after a minus sign if it is negative, and
\* read as the same number (std::to_string and std::stoi).
LEMMA NumberText ==
    ASSUME NEW n \in Int
    PROVE  /\ to_string(n) \in Text /\ Len(to_string(n)) \in Nat \ {0}
           /\ \A i \in 1 .. Len(to_string(n)) : to_string(n)[i] \in Digits \cup {Minus}
           /\ n >= 0 => to_string(n) \in Seq(Digits)
           /\ stoi(to_string(n)) = n
<1>1. CASE n >= 0
  <2> DEFINE s == to_string(n)
  <2>1. /\ s \in Seq(Digits) /\ Len(s) \in Nat \ {0} /\ Value(s) = n
    BY <1>1, DecimalExact DEF to_string
  <2> HIDE DEF s
  <2>2. /\ s \in Text /\ LeadingDigits(s) = s
        /\ \A i \in 1 .. Len(s) : s[i] \in Digits
    BY <2>1, DigitText
  <2>3. s[1] # Minus
    BY <2>1, <2>2 DEF Digits, Minus
  <2>4. stoi(s) = n
    BY <2>1, <2>2, <2>3 DEF stoi
  <2> QED  BY <2>1, <2>2, <2>4 DEF s
<1>2. CASE n < 0
  <2> DEFINE d == Decimal[-n]  m == <<Minus>>  s == m \o d
  <2>1. /\ d \in Seq(Digits) /\ Len(d) \in Nat \ {0} /\ Value(d) = -n
    BY <1>2, DecimalExact
  <2>2. m \in Text /\ Len(m) = 1 /\ m[1] = Minus
    <3>1. Minus \in Bytes
      BY DEF Bytes, Minus
    <3> QED  BY <3>1 DEF Text
  <2>3. to_string(n) = s
    BY <1>2 DEF to_string
  <2> HIDE DEF d, m
  <2>4. /\ d \in Text /\ LeadingDigits(d) = d
        /\ \A i \in 1 .. Len(d) : d[i] \in Digits
    BY <2>1, DigitText
  <2>5. /\ s \in Text /\ Len(s) = Len(m) + Len(d)
        /\ \A i \in 1 .. Len(m) : s[i] = m[i]
        /\ \A i \in 1 .. Len(d) : s[Len(m) + i] = d[i]
        /\ SubSeq(s, Len(m) + 1, Len(m) + Len(d)) = d
    BY <2>2, <2>4, Joined
  <2> HIDE DEF s
  <2>6. s # <<>> /\ s[1] = Minus
    <3>1. Len(s) # 0 /\ s[1] = Minus
      BY <2>1, <2>2, <2>5
    <3> QED  BY <3>1
  <2>7. Tail(s) = d
    <3>1. Tail(s) = SubSeq(s, 2, Len(s))
      BY <2>5, <2>6, TailIsSubSeq DEF Text
    <3> QED  BY <3>1, <2>2, <2>5
  <2>8. stoi(s) = n
    <3>1. stoi(s) = -Value(d)
      BY <2>4, <2>6, <2>7 DEF stoi
    <3> QED  BY <3>1, <2>1
  <2>9. \A i \in 1 .. Len(s) : s[i] \in Digits \cup {Minus}
    <3> SUFFICES ASSUME NEW i \in 1 .. Len(s), i # 1  PROVE s[i] \in Digits
      BY <2>6
    <3>1. i - 1 \in 1 .. Len(d) /\ Len(m) + (i - 1) = i
      BY <2>1, <2>2, <2>5
    <3> QED  BY <3>1, <2>4, <2>5
  <2> QED  BY <1>2, <2>1, <2>2, <2>3, <2>5, <2>8, <2>9
<1> QED  BY <1>1, <1>2

-----------------------------------------------------------------------------
(* The header, and a package in front of a text or cut short.              *)

\* The line separator.
LEMMA LineSep ==
    LINE_SEP \in Text /\ Len(LINE_SEP) = 2 /\ LINE_SEP[1] = 13 /\ LINE_SEP[2] = 10
<1>1. 13 \in Bytes /\ 10 \in Bytes
  BY DEF Bytes
<1> QED  BY <1>1 DEF LINE_SEP, Text

\* Where std::string::find sees a separator.
LEMMA Separators ==
    ASSUME NEW s \in Text
    PROVE  /\ Occurrences(s, SEP) = {i \in 1 .. Len(s) : s[i] = 32}
           /\ Occurrences(s, LINE_SEP) =
                 {i \in 1 .. Len(s) - 1 : s[i] = 13 /\ s[i + 1] = 10}
<1>1. Len(s) \in Nat /\ \A i \in 1 .. Len(s) : s[i] \in Bytes
  BY LenProperties, ElementOfSeq DEF Text
<1>2. Len(SEP) = 1 /\ Len(LINE_SEP) = 2 /\ LINE_SEP[1] = 13 /\ LINE_SEP[2] = 10
  BY DEF SEP, LINE_SEP
<1>3. ASSUME NEW i \in 1 .. Len(s)  PROVE SubSeq(s, i, i) = SEP <=> s[i] = 32
  <2> DEFINE t == SubSeq(s, i, i)
  <2>1. Len(t) = 1 /\ t[1] = s[i] /\ t \in Seq(Bytes)
    <3>1. \A j \in i .. i : s[j] \in Bytes
      BY <1>1
    <3>2. /\ t \in Seq(Bytes) /\ Len(t) = IF i <= i THEN i - i + 1 ELSE 0
          /\ \A j \in 1 .. i - i + 1 : t[j] = s[i + j - 1]
      BY <3>1, SubSeqProperties
    <3> QED  BY <3>2
  <2> HIDE DEF t
  <2>2. t = <<t[1]>>
    BY <2>1
  <2> QED  BY <2>1, <2>2 DEF t, SEP
<1>4. ASSUME NEW i \in 1 .. Len(s) - 1
      PROVE  SubSeq(s, i, i + 1) = LINE_SEP <=> s[i] = 13 /\ s[i + 1] = 10
  <2> DEFINE k == i + 1  t == SubSeq(s, i, k)
  <2>1. Len(t) = 2 /\ t[1] = s[i] /\ t[2] = s[k] /\ t \in Seq(Bytes)
    <3>1. (\A j \in i .. k : s[j] \in Bytes) /\ i \in Int /\ k \in Int
      BY <1>1
    <3>2. i <= k /\ k - i + 1 = 2 /\ i + 1 - 1 = i /\ i + 2 - 1 = k
      OBVIOUS
    <3> HIDE DEF k
    <3>3. /\ t \in Seq(Bytes) /\ Len(t) = IF i <= k THEN k - i + 1 ELSE 0
          /\ \A j \in 1 .. k - i + 1 : t[j] = s[i + j - 1]
      BY <3>1, SubSeqProperties
    <3> HIDE DEF t
    <3>4. 1 \in 1 .. k - i + 1 /\ 2 \in 1 .. k - i + 1
      BY <3>2
    <3>5. t[1] = s[i] /\ t[2] = s[k]
      BY <3>2, <3>3, <3>4
    <3> QED  BY <3>2, <3>3, <3>5
  <2> HIDE DEF t
  <2>2. t = <<t[1], t[2]>>
    BY <2>1
  <2> QED  BY <2>1, <2>2 DEF t, LINE_SEP
<1>5. Occurrences(s, SEP) = {i \in 1 .. Len(s) : s[i] = 32}
  <2>1. Occurrences(s, SEP) = {i \in 1 .. (Len(s) - 1 + 1) : SubSeq(s, i, i + 1 - 1) = SEP}
    BY <1>2 DEF Occurrences
  <2>2. \A i \in 1 .. Len(s) : i + 1 - 1 = i
    OBVIOUS
  <2> QED  BY <1>1, <1>3, <2>1, <2>2
<1>6. Occurrences(s, LINE_SEP) = {i \in 1 .. Len(s) - 1 : s[i] = 13 /\ s[i + 1] = 10}
  <2>1. Occurrences(s, LINE_SEP) =
            {i \in 1 .. (Len(s) - 2 + 1) : SubSeq(s, i, i + 2 - 1) = LINE_SEP}
    BY <1>2 DEF Occurrences
  <2>2. Len(s) - 2 + 1 = Len(s) - 1 /\ \A i \in 1 .. Len(s) - 1 : i + 2 - 1 = i + 1
    BY <1>1
  <2> QED  BY <1>4, <2>1, <2>2
<1> QED  BY <1>5, <1>6

\* The header of a text ends where its digits end.
LEMMA Header ==
    ASSUME NEW h \in Seq(Digits), NEW r \in Text, NEW s, s = h \o (LINE_SEP \o r)
    PROVE  /\ Occurrences(s, LINE_SEP) # {}
           /\ Min(Occurrences(s, LINE_SEP)) = Len(h) + 1
           /\ SubSeq(s, 1, Len(h)) = h
<1> DEFINE t == LINE_SEP \o r  ends == Occurrences(s, LINE_SEP)
<1>1. /\ LINE_SEP \in Text /\ Len(LINE_SEP) = 2 /\ LINE_SEP[1] = 13 /\ LINE_SEP[2] = 10
  BY LineSep
<1>2. h \in Text /\ Len(h) \in Nat /\ \A i \in 1 .. Len(h) : h[i] \in Digits
  BY DigitText, DigitSeqs
<1>3. /\ t \in Text /\ Len(t) = 2 + Len(r) /\ Len(r) \in Nat
      /\ t[1] = 13 /\ t[2] = 10
  <2>1. /\ t \in Text /\ Len(t) = Len(LINE_SEP) + Len(r) /\ Len(r) \in Nat
        /\ \A i \in 1 .. Len(LINE_SEP) : t[i] = LINE_SEP[i]
    BY <1>1, Joined
  <2> QED  BY <1>1, <2>1
<1> HIDE DEF t
<1>4. s = h \o t
  BY DEF t
<1>5. /\ s \in Text /\ Len(s) = Len(h) + Len(t)
      /\ \A i \in 1 .. Len(h) : s[i] = h[i]
      /\ \A i \in 1 .. Len(t) : s[Len(h) + i] = t[i]
      /\ SubSeq(s, 1, Len(h)) = h
  <2>1. h \in Text /\ t \in Text
    BY <1>2, <1>3
  <2>2. s \in Text /\ Len(s) = Len(h) + Len(t)
    BY <1>4, <2>1, JoinedLength
  <2>3. (\A i \in 1 .. Len(h) : s[i] = h[i]) /\ \A i \in 1 .. Len(t) : s[Len(h) + i] = t[i]
    BY <1>4, <2>1, JoinedBytes
  <2>4. SubSeq(s, 1, Len(h)) = h
    BY <1>4, <2>1, JoinedParts
  <2> QED  BY <2>2, <2>3, <2>4
<1>6. ends = {i \in 1 .. Len(s) - 1 : s[i] = 13 /\ s[i + 1] = 10}
  BY <1>5, Separators
<1> HIDE DEF ends
<1>7. Len(h) + 1 \in ends
  <2>1. s[Len(h) + 1] = 13 /\ s[Len(h) + 2] = 10
    BY <1>3, <1>5
  <2>2. Len(h) + 1 \in 1 .. Len(s) - 1 /\ Len(h) + 1 + 1 = Len(h) + 2
    BY <1>2, <1>3, <1>5
  <2> QED  BY <1>6, <2>1, <2>2
<1>8. ASSUME NEW i \in ends  PROVE Len(h) + 1 <= i
  <2> SUFFICES ASSUME i <= Len(h)  PROVE FALSE
    BY <1>2, <1>6
  <2>1. i \in 1 .. Len(h) /\ s[i] = 13
    BY <1>6
  <2> QED  BY <2>1, <1>2, <1>5 DEF Digits
<1>9. Min(ends) = Len(h) + 1
  <2>1. ends \in SUBSET Int
    BY <1>6
  <2> QED  BY <1>7, <1>8, <2>1, MinIs
<1> QED  BY <1>5, <1>7, <1>9 DEF ends

\* The parts of a package: digits, a separator, the content, a separator.
LEMMA PackageParts ==
    ASSUME NEW c \in Text
    PROVE  \E h \in Seq(Digits), t \in Text :
              /\ h = to_string(Len(c)) /\ t = c \o LINE_SEP
              /\ h \in Text /\ Len(h) \in Nat \ {0} /\ stoi(h) = Len(c) /\ Len(c) \in Nat
              /\ h \o LINE_SEP \in Text /\ Len(h \o LINE_SEP) = Len(h) + 2
              /\ Len(t) = Len(c) + 2
              /\ enLength(c) = (h \o LINE_SEP) \o t
              /\ enLength(c) = h \o (LINE_SEP \o t)
              /\ enLength(c) \in Text /\ Len(enLength(c)) = Len(h) + 4 + Len(c)
<1> DEFINE n == Len(c)  h == to_string(n)  t == c \o LINE_SEP  e == enLength(c)
           hs == h \o LINE_SEP
<1>1. LINE_SEP \in Text /\ Len(LINE_SEP) = 2
  BY LineSep
<1>2. n \in Int /\ n >= 0 /\ n \in Nat
  BY LenProperties DEF Text
<1>3. e = ((h \o LINE_SEP) \o c) \o LINE_SEP
  BY DEF enLength
<1>4. t \in Text /\ Len(t) = n + 2
  BY <1>1, JoinedLength
<1> HIDE DEF n
<1>5. h \in Seq(Digits) /\ h \in Text /\ Len(h) \in Nat \ {0} /\ stoi(h) = n
  BY <1>2, NumberText
<1> HIDE DEF h, e
<1>6. hs \in Text /\ Len(hs) = Len(h) + 2
  BY <1>1, <1>5, JoinedLength
<1>7. e = hs \o t
  <2> HIDE DEF hs
  <2>1. e = (hs \o c) \o LINE_SEP
    BY <1>3 DEF hs
  <2> QED  BY <1>1, <1>6, <2>1, JoinedTwice
<1> HIDE DEF t
<1>8. e = h \o (LINE_SEP \o t)
  BY <1>1, <1>4, <1>5, <1>7, JoinedTwice
<1> HIDE DEF hs
<1>9. e \in Text /\ Len(e) = Len(h) + 4 + n
  <2>1. e \in Text /\ Len(e) = Len(hs) + Len(t)
    BY <1>4, <1>6, <1>7, JoinedLength
  <2> QED  BY <1>2, <1>4, <1>5, <1>6, <2>1
<1> QED  BY <1>2, <1>4, <1>5, <1>6, <1>7, <1>8, <1>9 DEF n, h, t, e, hs

\* A package in front of a text is found, whole, and holds what was sent.
LEMMA Framed ==
    ASSUME NEW c \in Text, NEW r \in Text, NEW s, s = enLength(c) \o r
    PROVE  /\ enLength(c) \in Text /\ Len(enLength(c)) > 0
           /\ s \in Text /\ HasPackage(s) /\ Package(s) = enLength(c) /\ Rest(s) = r
           /\ deLength(Package(s)) = c
<1> DEFINE e == enLength(c)
<1>1. LINE_SEP \in Text /\ Len(LINE_SEP) = 2
  BY LineSep
<1>2. PICK h \in Seq(Digits), t \in Text :
              /\ h = to_string(Len(c)) /\ t = c \o LINE_SEP
              /\ h \in Text /\ Len(h) \in Nat \ {0} /\ stoi(h) = Len(c) /\ Len(c) \in Nat
              /\ h \o LINE_SEP \in Text /\ Len(h \o LINE_SEP) = Len(h) + 2
              /\ Len(t) = Len(c) + 2
              /\ e = (h \o LINE_SEP) \o t
              /\ e = h \o (LINE_SEP \o t)
              /\ e \in Text /\ Len(e) = Len(h) + 4 + Len(c)
  BY PackageParts
<1>3. Len(r) \in Nat /\ Len(e) \in Nat /\ Len(e) > 0 /\ e \in Text
  <2>1. Len(r) \in Nat
    BY LenProperties DEF Text
  <2> QED  BY <1>2, <2>1
<1> HIDE DEF e
<1>7. s = h \o (LINE_SEP \o (t \o r))
  <2> DEFINE u == LINE_SEP \o t
  <2>1. s = (h \o u) \o r
    BY <1>2 DEF e
  <2>2. u \in Text /\ h \in Text
    BY <1>1, <1>2, JoinedLength
  <2> HIDE DEF u
  <2>3. s = h \o (u \o r)
    BY <2>1, <2>2, JoinedTwice
  <2>4. (LINE_SEP \o t) \o r = LINE_SEP \o (t \o r)
    BY <1>1, <1>2, JoinedTwice
  <2> QED  BY <2>3, <2>4 DEF u
<1>8. /\ s \in Text /\ Len(s) = Len(e) + Len(r)
      /\ SubSeq(s, 1, Len(e)) = e /\ SubSeq(s, Len(e) + 1, Len(e) + Len(r)) = r
  <2>1. s = e \o r
    BY DEF e
  <2>2. s \in Text /\ Len(s) = Len(e) + Len(r)
    BY <2>1, <1>3, JoinedLength
  <2>3. SubSeq(s, 1, Len(e)) = e /\ SubSeq(s, Len(e) + 1, Len(e) + Len(r)) = r
    BY <2>1, <1>3, JoinedParts
  <2> QED  BY <2>2, <2>3
<1>9. /\ Occurrences(s, LINE_SEP) # {} /\ Min(Occurrences(s, LINE_SEP)) = Len(h) + 1
      /\ SubSeq(s, 1, Len(h)) = h
  <2> DEFINE u == t \o r
  <2>1. u \in Text /\ h \in Seq(Digits)
    BY <1>2, JoinedLength
  <2>2. s = h \o (LINE_SEP \o u)
    BY <1>7
  <2> HIDE DEF u
  <2> QED  BY <2>1, <2>2, Header
<1>10. TotalLen(s) = Len(e)
  <2>1. Min(Occurrences(s, LINE_SEP)) - 1 = Len(h)
    BY <1>2, <1>9
  <2>2. TotalLen(s) = Len(h) + 2 * Len(LINE_SEP) + stoi(h)
    BY <1>9, <2>1 DEF TotalLen
  <2> QED  BY <1>1, <1>2, <2>2
<1>11. HasPackage(s) /\ Package(s) = e /\ Rest(s) = r
  <2>1. TotalLen(s) \in 1 .. Len(s) /\ Len(s) = Len(e) + Len(r)
    BY <1>3, <1>8, <1>10
  <2> QED  BY <1>8, <1>10, <2>1 DEF HasPackage, Package, Rest
<1>12. deLength(e) = c
  <2>1. /\ Min(Occurrences(e, LINE_SEP)) = Len(h) + 1 /\ SubSeq(e, 1, Len(h)) = h
    BY <1>2, Header
  <2>2. deLength(e) = SubSeq(e, Len(h) + 3, Len(h) + 2 + Len(c))
    <3> DEFINE pos == Min(Occurrences(e, LINE_SEP))
    <3>1. pos - 1 = Len(h) /\ pos + Len(LINE_SEP) = Len(h) + 3
          /\ Len(h) + 3 + stoi(h) - 1 = Len(h) + 2 + Len(c)
      BY <1>1, <1>2, <2>1
    <3> QED  BY <3>1, <2>1 DEF deLength
  <2> DEFINE hs == h \o LINE_SEP
  <2>3. hs \in Text /\ Len(hs) = Len(h) + 2
    BY <1>1, <1>2, JoinedLength
  <2>4. hs \o c \in Text /\ Len(hs \o c) = Len(hs) + Len(c)
        /\ SubSeq(hs \o c, Len(hs) + 1, Len(hs) + Len(c)) = c
    BY <2>3, JoinedLength, JoinedParts
  <2>5. e = (hs \o c) \o LINE_SEP
    BY <1>2 DEF e, enLength
  <2>6. SubSeq((hs \o c) \o LINE_SEP, Len(hs) + 1, Len(hs) + Len(c))
          = SubSeq(hs \o c, Len(hs) + 1, Len(hs) + Len(c))
    <3> HIDE DEF hs
    <3>1. CASE Len(c) = 0
      <4>1. Len(hs) + Len(c) < Len(hs) + 1 /\ Len(hs) + 1 \in Int /\ Len(hs) + Len(c) \in Int
        BY <3>1, <2>3, <1>2
      <4> QED  BY <4>1, SubSeqEmpty
    <3>2. CASE Len(c) # 0
      <4>1. /\ Len(hs) + 1 \in 1 .. Len(hs \o c)
            /\ Len(hs) + Len(c) \in 1 .. Len(hs \o c)
        BY <3>2, <2>3, <2>4, <1>2
      <4> QED  BY <4>1, <2>4, <1>1, SubSeqOfConcat1 DEF Text
    <3> QED  BY <3>1, <3>2
  <2>7. Len(hs) + 1 = Len(h) + 3 /\ Len(hs) + Len(c) = Len(h) + 2 + Len(c)
    BY <2>3, <1>2
  <2> QED  BY <2>2, <2>4, <2>5, <2>6, <2>7
<1> QED  BY <1>3, <1>8, <1>11, <1>12 DEF e

\* Nothing is no package.
LEMMA NothingYet == ~HasPackage(<<>>)
<1>1. <<>> \in Text /\ Len(<<>>) = 0
  BY EmptySeq DEF Text
<1>2. Occurrences(<<>>, LINE_SEP) = {}
  BY <1>1, Separators
<1>3. TotalLen(<<>>) = 0
  BY <1>2 DEF TotalLen
<1> QED  BY <1>3 DEF HasPackage

\* Of two ways to cut a text in two, one cuts later.
CutAfter(a, b, f, g)  == \E r \in Text : a = f \o r /\ g = r \o b
CutBefore(a, b, f, g) == \E q \in Text : q # <<>> /\ f = a \o q /\ b = q \o g

LEMMA TwoCuts ==
    ASSUME NEW a \in Text, NEW b \in Text, NEW f \in Text, NEW g \in Text, a \o b = f \o g
    PROVE  CutAfter(a, b, f, g) \/ CutBefore(a, b, f, g)
<1> DEFINE s == a \o b
<1>1. /\ Len(a) \in Nat /\ Len(b) \in Nat /\ Len(f) \in Nat /\ Len(g) \in Nat
      /\ s \in Text /\ Len(s) = Len(a) + Len(b) /\ Len(s) = Len(f) + Len(g)
  BY JoinedLength
<1>2. /\ SubSeq(s, 1, Len(a)) = a /\ SubSeq(s, Len(a) + 1, Len(s)) = b
      /\ SubSeq(s, 1, Len(f)) = f /\ SubSeq(s, Len(f) + 1, Len(s)) = g
  <2>1. /\ SubSeq(a \o b, 1, Len(a)) = a /\ SubSeq(a \o b, Len(a) + 1, Len(a) + Len(b)) = b
    BY JoinedParts
  <2>2. /\ SubSeq(f \o g, 1, Len(f)) = f /\ SubSeq(f \o g, Len(f) + 1, Len(f) + Len(g)) = g
    BY JoinedParts
  <2> QED  BY <1>1, <2>1, <2>2
<1> HIDE DEF s
<1>3. \A i \in 1 .. Len(s) : s[i] \in Bytes
  BY <1>1, ElementOfSeq DEF Text
<1>4. \A m, n \in Nat : n <= Len(s) => SubSeq(s, m + 1, n) \in Text
  <2> SUFFICES ASSUME NEW m \in Nat, NEW n \in Nat, n <= Len(s)
               PROVE  SubSeq(s, m + 1, n) \in Text
    OBVIOUS
  <2> DEFINE k == m + 1
  <2>1. k \in Int /\ n \in Int /\ \A i \in k .. n : s[i] \in Bytes
    BY <1>1, <1>3
  <2> HIDE DEF k
  <2>2. SubSeq(s, k, n) \in Seq(Bytes)
    BY <2>1, SubSeqProperties
  <2> QED  BY <2>2 DEF Text, k
<1>5. ASSUME NEW m \in Nat, NEW n \in Nat, m <= n, n <= Len(s)
      PROVE  /\ SubSeq(s, 1, m) \o SubSeq(s, m + 1, n) = SubSeq(s, 1, n)
             /\ SubSeq(s, m + 1, n) \o SubSeq(s, n + 1, Len(s)) = SubSeq(s, m + 1, Len(s))
             /\ SubSeq(s, m + 1, n) \in Text
             /\ m < n => SubSeq(s, m + 1, n) # <<>>
  <2> DEFINE k == m + 1  l == n + 1  o == 1
  <2>1. /\ o \in 1 .. Len(s) + 1 /\ m \in o - 1 .. Len(s) /\ n \in m .. Len(s)
        /\ k \in 1 .. Len(s) + 1 /\ n \in k - 1 .. Len(s) /\ Len(s) \in n .. Len(s)
    BY <1>1, <1>5
  <2>2. s \in Seq(Bytes)
    BY <1>1 DEF Text
  <2>3. SubSeq(s, k, n) \o SubSeq(s, n + 1, Len(s)) = SubSeq(s, k, Len(s))
    <3> HIDE DEF k
    <3> QED  BY <2>1, <2>2, ConcatAdjacentSubSeq
  <2>4. SubSeq(s, o, m) \o SubSeq(s, m + 1, n) = SubSeq(s, o, n)
    <3> HIDE DEF o
    <3> QED  BY <2>1, <2>2, ConcatAdjacentSubSeq
  <2>5. m < n => SubSeq(s, k, n) # <<>>
    <3>1. k \in Int /\ n \in Int /\ (\A i \in k .. n : s[i] \in Bytes) /\ (m < n => k <= n)
      BY <1>1, <1>3, <1>5
    <3> HIDE DEF k
    <3>2. Len(SubSeq(s, k, n)) = IF k <= n THEN n - k + 1 ELSE 0
      BY <3>1, SubSeqProperties
    <3>3. m < n => Len(SubSeq(s, k, n)) # 0
      BY <3>1, <3>2
    <3> QED  BY <3>3
  <2> QED  BY <1>4, <1>5, <2>3, <2>4, <2>5
<1>6. CASE Len(f) <= Len(a)
  <2> DEFINE r == SubSeq(s, Len(f) + 1, Len(a))
  <2>1. f \o r = a /\ r \o b = g /\ r \in Text
    <3>1. Len(a) <= Len(s)
      BY <1>1
    <3> QED  BY <1>1, <1>2, <1>5, <1>6, <3>1
  <2> QED  BY <2>1 DEF CutAfter
<1>7. CASE Len(a) < Len(f)
  <2> DEFINE q == SubSeq(s, Len(a) + 1, Len(f))
  <2>1. a \o q = f /\ q \o g = b /\ q \in Text /\ q # <<>>
    <3> DEFINE m == Len(a)  n == Len(f)
    <3>1. m \in Nat /\ n \in Nat /\ n <= Len(s) /\ m < n /\ m <= n
      BY <1>1, <1>7
    <3>2. /\ SubSeq(s, 1, m) = a /\ SubSeq(s, m + 1, Len(s)) = b
          /\ SubSeq(s, 1, n) = f /\ SubSeq(s, n + 1, Len(s)) = g
      BY <1>2
    <3> HIDE DEF m, n
    <3>3. /\ SubSeq(s, 1, m) \o SubSeq(s, m + 1, n) = SubSeq(s, 1, n)
          /\ SubSeq(s, m + 1, n) \o SubSeq(s, n + 1, Len(s)) = SubSeq(s, m + 1, Len(s))
          /\ SubSeq(s, m + 1, n) \in Text /\ SubSeq(s, m + 1, n) # <<>>
      BY <1>5, <3>1
    <3> QED  BY <3>2, <3>3 DEF m, n
  <2> QED  BY <2>1 DEF CutBefore
<1> QED  BY <1>1, <1>6, <1>7

\* A package of which bytes are missing is not taken for a package, wherever
\* it is cut.
LEMMA CutShort ==
    ASSUME NEW c \in Text, NEW p \in Text, NEW q \in Text, q # <<>>, p \o q = enLength(c)
    PROVE  ~HasPackage(p)
<1> DEFINE e == enLength(c)
<1>1. LINE_SEP \in Text /\ Len(LINE_SEP) = 2 /\ LINE_SEP[1] = 13
  BY LineSep
<1>2. PICK h \in Seq(Digits), t \in Text :
              /\ h \in Text /\ Len(h) \in Nat \ {0} /\ stoi(h) = Len(c) /\ Len(c) \in Nat
              /\ h \o LINE_SEP \in Text /\ Len(h \o LINE_SEP) = Len(h) + 2
              /\ e = (h \o LINE_SEP) \o t
              /\ e \in Text /\ Len(e) = Len(h) + 4 + Len(c)
  BY PackageParts
<1> DEFINE hs == h \o LINE_SEP
<1>4. hs \in Text /\ Len(hs) = Len(h) + 2
  BY <1>2
<1>5. hs[Len(h) + 1] = 13 /\ \A i \in 1 .. Len(h) : hs[i] \in Digits
  <2>1. (\A i \in 1 .. Len(h) : hs[i] = h[i])
        /\ \A i \in 1 .. Len(LINE_SEP) : hs[Len(h) + i] = LINE_SEP[i]
    BY <1>1, <1>2, JoinedBytes
  <2>2. \A i \in 1 .. Len(h) : h[i] \in Digits
    BY <1>2, DigitText
  <2> HIDE DEF hs
  <2> QED  BY <1>1, <2>1, <2>2
<1>6. e = hs \o t
  BY <1>2
<1> HIDE DEF hs, e
<1>7. Len(e) = Len(p) + Len(q) /\ Len(p) \in Nat /\ Len(q) \in Nat \ {0}
  <2>2. Len(e) = Len(p) + Len(q) /\ Len(p) \in Nat /\ Len(q) \in Nat
    BY JoinedLength DEF e
  <2>3. Len(q) # 0
    BY EmptySeq DEF Text
  <2> QED  BY <2>2, <2>3
<1>8. p \o q = hs \o t
  BY <1>6 DEF e
<1>9. CASE CutAfter(p, q, hs, t)
  <2>1. PICK r \in Text : p = hs \o r
    BY <1>9 DEF CutAfter
  <2>2. p = h \o (LINE_SEP \o r)
    <3>1. p = (h \o LINE_SEP) \o r
      BY <2>1 DEF hs
    <3>2. h \in Text /\ LINE_SEP \in Text
      BY <1>1, <1>2
    <3>3. (h \o LINE_SEP) \o r = h \o (LINE_SEP \o r)
      BY <3>2, JoinedTwice
    <3> QED  BY <3>1, <3>3
  <2>3. /\ Occurrences(p, LINE_SEP) # {} /\ Min(Occurrences(p, LINE_SEP)) = Len(h) + 1
        /\ SubSeq(p, 1, Len(h)) = h
    BY <1>2, <2>2, Header
  <2>4. TotalLen(p) = Len(e)
    <3>1. Min(Occurrences(p, LINE_SEP)) - 1 = Len(h)
      BY <1>2, <2>3
    <3>2. TotalLen(p) = Len(h) + 2 * Len(LINE_SEP) + stoi(h)
      BY <2>3, <3>1 DEF TotalLen
    <3> QED  BY <1>1, <1>2, <1>7, <3>2
  <2> QED  BY <1>7, <2>4 DEF HasPackage
<1>10. CASE CutBefore(p, q, hs, t)
  <2>1. PICK r \in Text : r # <<>> /\ hs = p \o r
    BY <1>10 DEF CutBefore
  <2>2. Len(r) \in Nat \ {0} /\ Len(hs) = Len(p) + Len(r) /\ \A i \in 1 .. Len(p) : p[i] = hs[i]
    <3>1. Len(r) \in Nat \ {0}
      BY <2>1, EmptySeq DEF Text
    <3>2. Len(hs) = Len(p) + Len(r)
      BY <2>1, JoinedLength
    <3>3. \A i \in 1 .. Len(p) : p[i] = hs[i]
      BY <2>1, JoinedBytes
    <3> QED  BY <3>1, <3>2, <3>3
  <2>3. \A i \in 1 .. Len(p) - 1 : p[i] # 13
    <3> TAKE i \in 1 .. Len(p) - 1
    <3>1. i \in 1 .. Len(h) /\ i \in 1 .. Len(p)
      BY <1>2, <1>4, <1>7, <2>2
    <3>2. p[i] \in Digits
      BY <1>5, <2>2, <3>1
    <3> QED  BY <3>2 DEF Digits
  <2>4. Occurrences(p, LINE_SEP) = {}
    BY <2>3, Separators
  <2>5. TotalLen(p) = 0
    BY <2>4 DEF TotalLen
  <2> QED  BY <2>5 DEF HasPackage
<1>11. hs \in Text
  BY <1>4
<1>12. CutAfter(p, q, hs, t) \/ CutBefore(p, q, hs, t)
  BY <1>8, <1>11, TwoCuts
<1> QED  BY <1>9, <1>10, <1>12

-----------------------------------------------------------------------------
(* Requests and responses, read back as they were written.                 *)

\* A text of one byte.
LEMMA OneByte ==
    ASSUME NEW b \in Bytes
    PROVE  <<b>> \in Text /\ Len(<<b>>) = 1 /\ <<b>>[1] = b
BY DEF Text

\* The beginning of a text in three parts.
LEMMA FirstPart ==
    ASSUME NEW a \in Text, NEW b \in Text, NEW c \in Text
    PROVE  SubSeq((a \o b) \o c, 1, Len(a)) = a
<1>1. (a \o b) \o c = a \o (b \o c)
  BY JoinedTwice
<1>2. b \o c \in Text
  BY JoinedLength
<1> DEFINE u == b \o c
<1> HIDE DEF u
<1>3. SubSeq(a \o u, 1, Len(a)) = a
  BY <1>2, JoinedParts DEF u
<1> QED  BY <1>1, <1>3 DEF u

\* Numbers are written without separators.
LEMMA NumberSeparates ==
    ASSUME NEW n \in Int, NEW i \in 1 .. Len(to_string(n))
    PROVE  to_string(n)[i] # 32
<1>1. to_string(n)[i] \in Digits \cup {Minus}
  BY NumberText
<1> QED  BY <1>1 DEF Digits, Minus

\* What the parts of a request are.
LEMMA RequestParts ==
    ASSUME NEW req \in Requests
    PROVE  /\ req.x \in Int /\ req.x >= 0 /\ req.y \in Int /\ req.op \in Bytes /\ ~IsDigit(req.op)
           /\ req = [x |-> req.x, op |-> req.op, y |-> req.y]
<1> DEFINE X == 0 .. MaxInt  O == (1 .. 127) \ ({10} \cup 48 .. 57)
<1>1. req \in [x : X, op : O, y : Ints]
  BY DEF Requests
<1>2. \A b \in O : b \in Bytes /\ ~IsDigit(b)
  BY DEF Bytes, IsDigit
<1>3. \A n \in X : n \in Int /\ n >= 0
  OBVIOUS
<1>4. \A n \in Ints : n \in Int
  BY DEF Ints
<1> HIDE DEF X, O
<1> QED  BY <1>1, <1>2, <1>3, <1>4

\* deserialize reads from a Request what serialize wrote, and refuses none.
LEMMA RequestExact ==
    ASSUME NEW req \in Requests
    PROVE  /\ SerializeRequest(req) \in Text
           /\ ~Refused(SerializeRequest(req))
           /\ DeserializeRequest(SerializeRequest(req)) = req
<1> DEFINE x == to_string(req.x)  y == to_string(req.y)  o == <<req.op>>
           a == x \o SEP  b == a \o o  c == b \o SEP  in == c \o y  n == Len(x)
<1>1. /\ req.x \in Int /\ req.y \in Int /\ req.op \in Bytes
      /\ req = [x |-> req.x, op |-> req.op, y |-> req.y]
  BY RequestParts
<1>2. /\ x \in Text /\ n \in Nat \ {0} /\ stoi(x) = req.x
      /\ \A i \in 1 .. n : x[i] # 32
  BY <1>1, NumberText, NumberSeparates
<1>3. /\ y \in Text /\ Len(y) \in Nat \ {0} /\ stoi(y) = req.y
      /\ \A i \in 1 .. Len(y) : y[i] # 32
  BY <1>1, NumberText, NumberSeparates
<1>4. o \in Text /\ Len(o) = 1 /\ o[1] = req.op
  BY <1>1, OneByte
<1>5. SEP \in Text /\ Len(SEP) = 1 /\ SEP[1] = 32
  <2>1. 32 \in Bytes
    BY DEF Bytes
  <2> QED  BY <2>1, OneByte DEF SEP
<1>6. SerializeRequest(req) = in
  BY DEF SerializeRequest
<1> HIDE DEF x, y, o
<1>7. /\ a \in Text /\ Len(a) = n + 1
      /\ \A i \in 1 .. n : a[i] = x[i]
      /\ a[n + 1] = 32
  <2>1. a \in Text /\ Len(a) = Len(x) + Len(SEP)
    BY <1>2, <1>5, JoinedLength
  <2>2. (\A i \in 1 .. Len(x) : a[i] = x[i]) /\ \A i \in 1 .. Len(SEP) : a[Len(x) + i] = SEP[i]
    BY <1>2, <1>5, JoinedBytes
  <2> HIDE DEF a
  <2> QED  BY <1>5, <2>1, <2>2
<1> HIDE DEF a
<1>8. /\ b \in Text /\ Len(b) = n + 2
      /\ \A i \in 1 .. n + 1 : b[i] = a[i]
      /\ b[n + 2] = req.op
  <2>1. b \in Text /\ Len(b) = Len(a) + Len(o)
    BY <1>4, <1>7, JoinedLength
  <2>2. (\A i \in 1 .. Len(a) : b[i] = a[i]) /\ \A i \in 1 .. Len(o) : b[Len(a) + i] = o[i]
    BY <1>4, <1>7, JoinedBytes
  <2> HIDE DEF b
  <2>3. b[Len(a) + 1] = req.op /\ Len(a) + 1 = n + 2
    BY <1>2, <1>4, <1>7, <2>2
  <2> QED  BY <1>2, <1>4, <1>7, <2>1, <2>2, <2>3
<1> HIDE DEF b
<1>9. /\ c \in Text /\ Len(c) = n + 3
      /\ \A i \in 1 .. n + 2 : c[i] = b[i]
      /\ c[n + 3] = 32
  <2>1. c \in Text /\ Len(c) = Len(b) + Len(SEP)
    BY <1>5, <1>8, JoinedLength
  <2>2. (\A i \in 1 .. Len(b) : c[i] = b[i]) /\ \A i \in 1 .. Len(SEP) : c[Len(b) + i] = SEP[i]
    BY <1>5, <1>8, JoinedBytes
  <2> HIDE DEF c
  <2>3. c[Len(b) + 1] = 32 /\ Len(b) + 1 = n + 3
    BY <1>2, <1>5, <1>8, <2>2
  <2> QED  BY <1>2, <1>5, <1>8, <2>1, <2>2, <2>3
<1> HIDE DEF c
<1>10. /\ in \in Text /\ Len(in) = n + 3 + Len(y)
       /\ \A i \in 1 .. n + 3 : in[i] = c[i]
       /\ \A i \in 1 .. Len(y) : in[n + 3 + i] = y[i]
       /\ SubSeq(in, n + 4, Len(in)) = y
  <2>1. in \in Text /\ Len(in) = Len(c) + Len(y)
    BY <1>3, <1>9, JoinedLength
  <2>2. (\A i \in 1 .. Len(c) : in[i] = c[i]) /\ \A i \in 1 .. Len(y) : in[Len(c) + i] = y[i]
    BY <1>3, <1>9, JoinedBytes
  <2>3. SubSeq(in, Len(c) + 1, Len(c) + Len(y)) = y
    BY <1>3, <1>9, JoinedParts
  <2> HIDE DEF in
  <2>4. Len(c) + 1 = n + 4
    BY <1>2, <1>9
  <2> QED  BY <1>9, <2>1, <2>2, <2>3, <2>4
<1>11. SubSeq(in, 1, n) = x
  <2>1. o \o SEP \in Text /\ a \in Text /\ x \in Text
    BY <1>2, <1>4, <1>5, <1>7, JoinedLength
  <2> DEFINE u == o \o SEP  w == SEP \o (u \o y)
  <2>2. c = a \o u
    BY <1>4, <1>5, <1>7, JoinedTwice DEF c, b
  <2> HIDE DEF u
  <2>3. u \o y \in Text
    BY <1>3, <2>1, JoinedLength DEF u
  <2>4. in = a \o (u \o y)
    BY <1>3, <2>1, <2>2, JoinedTwice DEF u
  <2> DEFINE v == u \o y
  <2> HIDE DEF v
  <2>5. in = (x \o SEP) \o v
    BY <2>4 DEF a, v
  <2> QED  BY <1>2, <1>5, <2>3, <2>5, FirstPart DEF v
<1> HIDE DEF in
<1>12. /\ in[n + 1] = 32 /\ in[n + 2] = req.op /\ in[n + 3] = 32
       /\ \A i \in 1 .. n : in[i] # 32
       /\ \A i \in 1 .. Len(y) : in[n + 3 + i] # 32
  <2>1. in[n + 1] = c[n + 1] /\ c[n + 1] = b[n + 1] /\ b[n + 1] = a[n + 1]
    BY <1>2, <1>8, <1>9, <1>10
  <2>2. in[n + 2] = c[n + 2] /\ c[n + 2] = b[n + 2]
    BY <1>2, <1>9, <1>10
  <2>3. in[n + 3] = c[n + 3]
    BY <1>2, <1>10
  <2>4. \A i \in 1 .. n : in[i] = x[i]
    <3> TAKE i \in 1 .. n
    <3>1. i \in 1 .. n + 1 /\ i \in 1 .. n + 2 /\ i \in 1 .. n + 3
      BY <1>2
    <3> QED  BY <3>1, <1>7, <1>8, <1>9, <1>10
  <2>5. \A i \in 1 .. n : in[i] # 32
    BY <1>2, <2>4
  <2>6. \A i \in 1 .. Len(y) : in[n + 3 + i] # 32
    BY <1>3, <1>10
  <2>7. in[n + 1] = 32 /\ in[n + 2] = req.op /\ in[n + 3] = 32
    BY <1>7, <1>8, <1>9, <2>1, <2>2, <2>3
  <2> QED  BY <2>5, <2>6, <2>7
<1> DEFINE seps == Occurrences(in, SEP)
<1>13. seps = {i \in 1 .. Len(in) : in[i] = 32}
  BY <1>10, Separators
<1> HIDE DEF seps
<1>14. /\ n + 1 \in seps /\ n + 3 \in seps /\ seps \in SUBSET Int
       /\ \A i \in seps : n + 1 <= i /\ i <= n + 3
  <2>1. n + 1 \in seps /\ n + 3 \in seps /\ seps \in SUBSET Int
    BY <1>2, <1>3, <1>10, <1>12, <1>13
  <2>2. ASSUME NEW i \in seps  PROVE n + 1 <= i /\ i <= n + 3
    <3>1. i \in 1 .. Len(in) /\ in[i] = 32
      BY <1>13
    <3>2. i \notin 1 .. n
      BY <1>12, <3>1
    <3>3. ASSUME i > n + 3  PROVE FALSE
      <4>1. i - (n + 3) \in 1 .. Len(y) /\ n + 3 + (i - (n + 3)) = i
        BY <1>2, <1>3, <1>10, <3>1, <3>3
      <4> QED  BY <1>12, <3>1, <4>1
    <3> QED  BY <1>2, <3>1, <3>2, <3>3
  <2> QED  BY <2>1, <2>2
<1>15. Min(seps) = n + 1 /\ Max(seps) = n + 3
  BY <1>14, MinIs, MaxIs
<1>16. ~Refused(in)
  <2>1. seps # {}
    BY <1>14
  <2>2. n + 3 - (n + 1) = 2 /\ n + 1 # 1 /\ n + 3 # Len(in)
    BY <1>2, <1>3, <1>10
  <2> QED  BY <1>15, <2>1, <2>2 DEF Refused, seps
<1>17. DeserializeRequest(in) = req
  <2>1. n + 1 - 1 = n /\ n + 1 + 1 = n + 2 /\ n + 3 + 1 = n + 4
    BY <1>2
  <2>2. DeserializeRequest(in) =
          [x |-> stoi(SubSeq(in, 1, n)), op |-> in[n + 2], y |-> stoi(SubSeq(in, n + 4, Len(in)))]
    BY <1>15, <2>1 DEF DeserializeRequest, seps
  <2> QED  BY <1>1, <1>2, <1>3, <1>10, <1>11, <1>12, <2>2
<1> QED  BY <1>6, <1>10, <1>16, <1>17
\* ParaseLine reads from a line the request that was typed.
LEMMA LineExact ==
    ASSUME NEW req \in Requests
    PROVE  ParaseLine(Line(req)) = req
<1> DEFINE x == to_string(req.x)  y == to_string(req.y)  o == <<req.op>>
           u == o \o y  a == x \o o  line == a \o y  n == Len(x)
<1>1. /\ req.x \in Int /\ req.x >= 0 /\ req.y \in Int /\ req.op \in Bytes /\ ~IsDigit(req.op)
      /\ req = [x |-> req.x, op |-> req.op, y |-> req.y]
  BY RequestParts
<1>2. x \in Seq(Digits) /\ x \in Text /\ n \in Nat \ {0} /\ stoi(x) = req.x
  BY <1>1, NumberText
<1>3. y \in Text /\ Len(y) \in Nat \ {0} /\ stoi(y) = req.y
  BY <1>1, NumberText
<1>4. o \in Text /\ Len(o) = 1 /\ o[1] = req.op
  BY <1>1, OneByte
<1>5. Line(req) = line
  BY DEF Line
<1> HIDE DEF x, y, o
<1>6. u \in Text /\ u[1] = req.op
  <2>1. u \in Text
    BY <1>3, <1>4, JoinedLength
  <2>2. \A i \in 1 .. Len(o) : u[i] = o[i]
    BY <1>3, <1>4, JoinedBytes
  <2> HIDE DEF u
  <2> QED  BY <1>4, <2>1, <2>2
<1>7. line = x \o u
  BY <1>2, <1>3, <1>4, JoinedTwice
<1> HIDE DEF u
<1>8. LeadingDigits(line) = x
  <2>1. \A i \in 1 .. n : IsDigit(x[i])
    BY <1>2, DigitText
  <2>2. LeadingDigits(x \o u) = x
    <3> HIDE DEF line, a
    <3> QED  BY <1>1, <1>2, <1>6, <2>1, LeadingIs
  <2> QED  BY <1>7, <2>2
<1>9. a \in Text /\ Len(a) = n + 1 /\ a[n + 1] = req.op
  <2>1. a \in Text /\ Len(a) = Len(x) + Len(o)
    BY <1>2, <1>4, JoinedLength
  <2>2. \A i \in 1 .. Len(o) : a[Len(x) + i] = o[i]
    BY <1>2, <1>4, JoinedBytes
  <2> HIDE DEF a
  <2> QED  BY <1>4, <2>1, <2>2
<1> HIDE DEF a
<1>10. line[n + 1] = req.op /\ SubSeq(line, n + 2, Len(line)) = y
  <2>1. line \in Text /\ Len(line) = Len(a) + Len(y)
    BY <1>3, <1>9, JoinedLength
  <2>2. \A i \in 1 .. Len(a) : line[i] = a[i]
    BY <1>3, <1>9, JoinedBytes
  <2>3. SubSeq(line, Len(a) + 1, Len(a) + Len(y)) = y
    BY <1>3, <1>9, JoinedParts
  <2> HIDE DEF line
  <2>4. n + 1 \in 1 .. Len(a) /\ Len(a) + 1 = n + 2
    BY <1>2, <1>9
  <2> QED  BY <1>9, <2>1, <2>2, <2>3, <2>4
<1> HIDE DEF line
<1>11. ParaseLine(line) =
         [x |-> stoi(x), op |-> line[n + 1], y |-> stoi(SubSeq(line, n + 2, Len(line)))]
  BY <1>8 DEF ParaseLine
<1> QED  BY <1>1, <1>2, <1>3, <1>5, <1>10, <1>11

\* Responses.
Responses == [exitcode : OK .. OP_ERR, result : Int]

\* deserialize reads from a Response what serialize wrote.
LEMMA ResponseExact ==
    ASSUME NEW resp \in Responses
    PROVE  /\ SerializeResponse(resp) \in Text
           /\ DeserializeResponse(SerializeResponse(resp)) = resp
<1> DEFINE x == to_string(resp.exitcode)  y == to_string(resp.result)
           a == x \o SEP  in == a \o y  n == Len(x)
<1>1. /\ resp.exitcode \in Int /\ resp.result \in Int
      /\ resp = [exitcode |-> resp.exitcode, result |-> resp.result]
  BY DEF Responses, OK, OP_ERR
<1>2. /\ x \in Text /\ n \in Nat \ {0} /\ stoi(x) = resp.exitcode
      /\ \A i \in 1 .. n : x[i] # 32
  BY <1>1, NumberText, NumberSeparates
<1>3. y \in Text /\ Len(y) \in Nat \ {0} /\ stoi(y) = resp.result
  BY <1>1, NumberText
<1>4. SEP \in Text /\ Len(SEP) = 1 /\ SEP[1] = 32
  <2>1. 32 \in Bytes
    BY DEF Bytes
  <2> QED  BY <2>1, OneByte DEF SEP
<1>5. SerializeResponse(resp) = in
  BY DEF SerializeResponse
<1> HIDE DEF x, y
<1>6. SubSeq(in, 1, n) = x
  BY <1>2, <1>3, <1>4, FirstPart
<1>7. /\ a \in Text /\ Len(a) = n + 1 /\ a[n + 1] = 32
      /\ \A i \in 1 .. n : a[i] = x[i]
  <2>1. a \in Text /\ Len(a) = Len(x) + Len(SEP)
    BY <1>2, <1>4, JoinedLength
  <2>2. (\A i \in 1 .. Len(x) : a[i] = x[i]) /\ \A i \in 1 .. Len(SEP) : a[Len(x) + i] = SEP[i]
    BY <1>2, <1>4, JoinedBytes
  <2> HIDE DEF a
  <2> QED  BY <1>4, <2>1, <2>2
<1> HIDE DEF a
<1>8. /\ in \in Text /\ Len(in) = n + 1 + Len(y)
      /\ \A i \in 1 .. n + 1 : in[i] = a[i]
      /\ SubSeq(in, n + 2, Len(in)) = y
  <2>1. in \in Text /\ Len(in) = Len(a) + Len(y)
    BY <1>3, <1>7, JoinedLength
  <2>2. \A i \in 1 .. Len(a) : in[i] = a[i]
    BY <1>3, <1>7, JoinedBytes
  <2>3. SubSeq(in, Len(a) + 1, Len(a) + Len(y)) = y
    BY <1>3, <1>7, JoinedParts
  <2> HIDE DEF in
  <2>4. Len(a) + 1 = n + 2
    BY <1>2, <1>7
  <2> QED  BY <1>7, <2>1, <2>2, <2>3, <2>4
<1> HIDE DEF in
<1> DEFINE seps == Occurrences(in, SEP)
<1>9. seps = {i \in 1 .. Len(in) : in[i] = 32}
  BY <1>8, Separators
<1> HIDE DEF seps
<1>10. n + 1 \in seps /\ seps \in SUBSET Int /\ \A i \in seps : n + 1 <= i
  <2>1. in[n + 1] = 32
    BY <1>2, <1>7, <1>8
  <2>2. n + 1 \in seps /\ seps \in SUBSET Int
    BY <1>2, <1>3, <1>8, <1>9, <2>1
  <2>3. ASSUME NEW i \in seps, i <= n  PROVE FALSE
    <3>1. i \in 1 .. n /\ i \in 1 .. n + 1 /\ in[i] = 32
      BY <1>2, <1>9, <2>3
    <3> QED  BY <3>1, <1>2, <1>7, <1>8
  <2> QED  BY <1>2, <1>9, <2>2, <2>3
<1>11. Min(seps) = n + 1
  BY <1>10, MinIs
<1>12. DeserializeResponse(in) = resp
  <2>1. n + 1 - 1 = n /\ n + 1 + 1 = n + 2
    BY <1>2
  <2>2. DeserializeResponse(in) =
          [exitcode |-> stoi(SubSeq(in, 1, n)), result |-> stoi(SubSeq(in, n + 2, Len(in)))]
    BY <1>11, <2>1 DEF DeserializeResponse, seps
  <2> QED  BY <1>1, <1>2, <1>3, <1>6, <1>8, <2>2
<1> QED  BY <1>5, <1>8, <1>12

-----------------------------------------------------------------------------
(* What travels in one direction: the packages of C, one after another.    *)

\* W[k] is what the first k packages of C are on the wire.
Stream(W, C, n) ==
    /\ W \in [0 .. n -> Text] /\ W[0] = <<>>
    /\ \A k \in 1 .. n : W[k] = W[k - 1] \o enLength(C[k])

\* There is such a stream.
Wire(C, n) == CHOOSE W : Stream(W, C, n)

LEMMA WireExists ==
    ASSUME NEW n \in Nat, NEW C \in [1 .. n -> Text]
    PROVE  Stream(Wire(C, n), C, n)
<1> DEFINE g == [p \in (1 .. n) \X Text |-> p[2] \o enLength(C[p[1]])]
<1>1. <<>> \in Text
  BY EmptySeq DEF Text
<1>2. \A k \in 1 .. n, x \in Text :
         g[<<k, x>>] = x \o enLength(C[k]) /\ g[<<k, x>>] \in Text
  <2> SUFFICES ASSUME NEW k \in 1 .. n, NEW x \in Text
               PROVE  x \o enLength(C[k]) \in Text
    OBVIOUS
  <2>1. C[k] \in Text
    OBVIOUS
  <2>2. enLength(C[k]) \in Text
    BY <2>1, PackageParts
  <2> QED  BY <2>2, JoinedLength
<1> HIDE DEF g
<1>3. PICK W \in [0 .. n -> Text] : Steps(W, g, <<>>, n)
  <2>1. \E W \in [0 .. n -> Text] : Steps(W, g, <<>>, n)
    BY <1>1, <1>2, StepsExist
  <2> QED  BY <2>1
<1>4. Stream(W, C, n)
  <2>1. W[0] = <<>>
    BY <1>3 DEF Steps
  <2>2. ASSUME NEW k \in 1 .. n  PROVE W[k] = W[k - 1] \o enLength(C[k])
    <3>1. W[k - 1] \in Text
      BY StepBack
    <3> QED  BY <1>2, <1>3, <3>1 DEF Steps
  <2> QED  BY <2>1, <2>2 DEF Stream
<1> QED  BY <1>4 DEF Wire

\* A stream goes on where it was.
GoesOn(w, v) == \E t \in Text : v = w \o t

LEMMA StreamGoesOn ==
    ASSUME NEW n \in Nat, NEW C \in [1 .. n -> Text], NEW W, Stream(W, C, n),
           NEW i \in 0 .. n, NEW j \in 0 .. n, i <= j
    PROVE  GoesOn(W[i], W[j])
<1> DEFINE S == {k \in Nat : i <= k /\ k <= n => GoesOn(W[i], W[k])}
<1>1. ASSUME NEW k \in Nat, \A m \in 0 .. (k - 1) : m \in S  PROVE k \in S
  <2> SUFFICES ASSUME i <= k, k <= n  PROVE GoesOn(W[i], W[k])
    OBVIOUS
  <2>1. W[i] \in Text
    BY DEF Stream
  <2>2. CASE k = i
    <3>1. <<>> \in Text /\ W[i] \o <<>> = W[i]
      BY <2>1, EmptySeq, ConcatEmptySeq DEF Text
    <3> QED  BY <2>2, <3>1 DEF GoesOn
  <2>3. CASE k # i
    <3>1. k - 1 \in S /\ i <= k - 1 /\ k - 1 <= n /\ k \in 1 .. n
      BY <1>1, <2>3
    <3>2. PICK t \in Text : W[k - 1] = W[i] \o t
      BY <3>1 DEF GoesOn
    <3>3. C[k] \in Text
      BY <3>1
    <3>4. enLength(C[k]) \in Text
      BY <3>3, PackageParts
    <3>5. W[k] = (W[i] \o t) \o enLength(C[k])
      BY <3>1, <3>2 DEF Stream
    <3> DEFINE u == t \o enLength(C[k])
    <3>6. u \in Text /\ W[k] = W[i] \o u
      BY <2>1, <3>4, <3>5, JoinedLength, JoinedTwice
    <3> QED  BY <3>6 DEF GoesOn
  <2> QED  BY <2>2, <2>3
<1>2. \A k \in Nat : k \in S
  <2> HIDE DEF S
  <2> QED  BY <1>1, Induction
<1>3. j \in Nat /\ j <= n /\ i <= j
  OBVIOUS
<1> QED  BY <1>2, <1>3

\* Nothing follows the whole of a text.
LEMMA NothingLeft ==
    ASSUME NEW w \in Text, NEW a \in Text, NEW b \in Text, w = w \o (a \o b)
    PROVE  a = <<>> /\ b = <<>>
<1> DEFINE s == a \o b
<1>1. s \in Text
  BY JoinedLength
<1>2. s = <<>>
  <2> HIDE DEF s
  <2>1. w \o s = w
    BY DEF s
  <2> QED  BY <1>1, <2>1, ConcatEqualIffEmpty DEF Text
<1> QED  BY <1>2, ConcatEqualIffEmpty DEF Text

\* Between the wire's prefixes W[i] and W[j] lie exactly the bytes a, then b.
Between(W, i, j, a, b) == W[j] = W[i] \o (a \o b)

\* a starts with the package of C[i + 1], and W[i + 1] is what is before its rest.
StartsWith(W, C, i, j, a, b) ==
    /\ i < j /\ deLength(Package(a)) = C[i + 1] /\ Rest(a) \in Text
    /\ Between(W, i + 1, j, Rest(a), b)

\* What is left of a stream after its first i packages, partly read: the next
\* package, when it is all there, is found; when nothing more is on its way, it
\* is there.
LEMMA NextPackage ==
    ASSUME NEW n \in Nat, NEW C \in [1 .. n -> Text], NEW W, Stream(W, C, n),
           NEW i \in 0 .. n, NEW j \in 0 .. n, i <= j,
           NEW a \in Text, NEW b \in Text, Between(W, i, j, a, b)
    PROVE  /\ i = j => a = <<>> /\ b = <<>>
           /\ HasPackage(a) => StartsWith(W, C, i, j, a, b)
           /\ b = <<>> /\ ~HasPackage(a) => i = j
<1> DEFINE s == a \o b
<1>1. W[i] \in Text /\ W[j] \in Text /\ s \in Text /\ W[j] = W[i] \o s
  <2>1. s \in Text
    BY JoinedLength
  <2> QED  BY <2>1 DEF Stream, Between
<1>2. CASE i = j
  <2>1. a = <<>> /\ b = <<>>
    <3> DEFINE w == W[i]
    <3>1. w \in Text /\ w = w \o (a \o b)
      BY <1>1, <1>2
    <3> HIDE DEF w
    <3> QED  BY <3>1, NothingLeft
  <2> QED  BY <1>2, <2>1, NothingYet
<1>3. CASE i < j
  <2> DEFINE m == i + 1
  <2>1. m \in 1 .. n /\ m \in 0 .. n /\ m <= j /\ m - 1 = i
    BY <1>3
  <2> HIDE DEF m
  <2> DEFINE c == C[m]  f == enLength(c)  w == W[i]
  <2>2. c \in Text /\ f \in Text
    BY <2>1, PackageParts
  <2>3. W[m] = w \o f
    BY <2>1 DEF Stream
  <2>4. PICK t \in Text : W[j] = W[m] \o t
    <3>1. GoesOn(W[m], W[j])
      BY <2>1, StreamGoesOn
    <3> QED  BY <3>1 DEF GoesOn
  <2> HIDE DEF f, c, w
  <2>5. s = f \o t
    <3> DEFINE u == f \o t
    <3>1. w \in Text /\ W[j] = w \o s
      BY <1>1 DEF w
    <3>2. W[j] = w \o u
      <4>1. (w \o f) \o t = w \o (f \o t)
        BY <2>2, <3>1, JoinedTwice
      <4> QED  BY <2>3, <2>4, <4>1
    <3>3. u \in Text
      BY <2>2, JoinedLength
    <3> HIDE DEF u, s
    <3>4. w \o s = w \o u
      BY <3>1, <3>2
    <3> QED  BY <1>1, <3>1, <3>3, <3>4, ConcatSimplifications DEF Text, u
  <2>6. CASE CutAfter(a, b, f, t)
    <3>1. PICK r \in Text : a = f \o r /\ t = r \o b
      BY <2>6 DEF CutAfter
    <3>2. /\ HasPackage(a) /\ Rest(a) = r /\ deLength(Package(a)) = c
      BY <2>2, <3>1, Framed DEF f
    <3>3. Rest(a) \in Text /\ W[j] = W[m] \o (Rest(a) \o b)
      BY <2>4, <3>1, <3>2
    <3>4. i # j
      BY <1>3
    <3> QED  BY <1>3, <3>2, <3>3, <3>4 DEF c, m, StartsWith, Between
  <2>7. CASE CutBefore(a, b, f, t)
    <3>1. PICK q \in Text : q # <<>> /\ f = a \o q /\ b = q \o t
      BY <2>7 DEF CutBefore
    <3>2. ~HasPackage(a)
      BY <2>2, <3>1, CutShort DEF f
    <3>3. b # <<>>
      BY <3>1, ConcatEqualIffEmpty DEF Text
    <3>4. i # j
      BY <1>3
    <3> QED  BY <3>2, <3>3, <3>4
  <2>8. a \o b = f \o t
    BY <2>5
  <2>9. CutAfter(a, b, f, t) \/ CutBefore(a, b, f, t)
    BY <2>2, <2>8, TwoCuts
  <2> QED  BY <2>6, <2>7, <2>9
<1>4. i = j \/ i < j
  OBVIOUS
<1> QED  BY <1>2, <1>3, <1>4, Zenon

\* A buffer with a whole package in it has the next package of the stream.
LEMMA PackageFound ==
    ASSUME NEW n \in Nat, NEW C \in [1 .. n -> Text], NEW W, Stream(W, C, n),
           NEW i \in 0 .. n, NEW j \in 0 .. n, i <= j,
           NEW a \in Text, NEW b \in Text, Between(W, i, j, a, b),
           HasPackage(a)
    PROVE  StartsWith(W, C, i, j, a, b)
  BY NextPackage

\* Nothing on its way and no whole package in the buffer: all has been taken.
LEMMA AllTaken ==
    ASSUME NEW n \in Nat, NEW C \in [1 .. n -> Text], NEW W, Stream(W, C, n),
           NEW i \in 0 .. n, NEW j \in 0 .. n, i <= j,
           NEW a \in Text, Between(W, i, j, a, <<>>), ~HasPackage(a)
    PROVE  i = j
<1>1. <<>> \in Text
  BY DEF Text
<1> QED  BY <1>1, NextPackage

-----------------------------------------------------------------------------
(* The inductive invariant: where the packages asked and told are.         *)

\* What the client asks and is told, package by package, and on the wire.
Asked == [k \in 1 .. Len(session) |-> SerializeRequest(session[k])]
Told  == [k \in 1 .. Len(session) |-> SerializeResponse(Calculator(session[k]))]
Up    == Wire(Asked, Len(session))
Down  == Wire(Told, Len(session))

\* The server has answered h requests; what the client sent beyond them is on
\* its way or in the server's buffer, and what the client did not take of their
\* answers on its way or in the client's.
Handled(h) ==
    /\ h \in 0 .. nsent /\ Len(answers) <= h
    /\ Up[nsent] = Up[h] \o (sbuf \o up)
    /\ Down[h] = Down[Len(answers)] \o (cbuf \o down)

\* The types, as the proof needs them: no server closes the connection.
Types ==
    /\ server \in Servers /\ session \in Sessions /\ nsent \in 0 .. Len(session)
    /\ up \in Text /\ down \in Text /\ sbuf \in Text /\ cbuf \in Text
    /\ spc \in {"recv", "parse"} /\ cpc \in {"input", "recv", "parse"}
    /\ answers \in Seq(Responses)

\* Who waits has parsed all there was to parse, unless it is a calServer whose
\* client does not wait for its answers.
Waits ==
    /\ spc = "recv" /\ HasPackage(sbuf) => server = "calServer" /\ server \in Pipelining
    /\ cpc = "recv" => ~HasPackage(cbuf)
    /\ cpc = "input" => nsent = Len(answers)
    /\ server \notin Pipelining => nsent <= Len(answers) + 1

IInv ==
    /\ Types /\ Waits
    /\ \A i \in 1 .. Len(answers) : answers[i] = Calculator(session[i])
    /\ \E h \in Nat : Handled(h)

\* The calculator answers every request with a Response.
LEMMA CalculatorType ==
    ASSUME NEW req \in Requests
    PROVE  Calculator(req) \in Responses
<1> DEFINE x == req.x  y == req.y
<1>1. x \in Int /\ y \in Int
  BY RequestParts
<1>2. /\ OK \in OK .. OP_ERR /\ DIV_ZERO \in OK .. OP_ERR /\ MOD_ZERO \in OK .. OP_ERR
      /\ OP_ERR \in OK .. OP_ERR
  BY DEF OK, DIV_ZERO, MOD_ZERO, OP_ERR
<1> HIDE DEF x, y
<1>3. x + y \in Int /\ x - y \in Int /\ x * y \in Int
  BY <1>1
<1>4. y # 0 => Quotient(x, y) \in Int
  <2> SUFFICES ASSUME y # 0  PROVE Quotient(x, y) \in Int
    OBVIOUS
  <2> DEFINE a == Abs(x)  b == Abs(y)
  <2>1. a \in Nat /\ b \in Nat \ {0}
    BY <1>1 DEF Abs
  <2> HIDE DEF a, b
  <2>2. a \div b \in Int
    BY <2>1
  <2> QED  BY <2>2 DEF Quotient, a, b
<1>5. y # 0 => x - y * Quotient(x, y) \in Int
  <2> SUFFICES ASSUME y # 0  PROVE x - y * Quotient(x, y) \in Int
    OBVIOUS
  <2> DEFINE q == Quotient(x, y)
  <2>1. q \in Int
    BY <1>4
  <2> HIDE DEF q
  <2>2. y * q \in Int
    BY <1>1, <2>1
  <2> QED  BY <1>1, <2>2 DEF q
<1>6. \A r \in Int : [exitcode |-> OK, result |-> r] \in Responses
  BY <1>2 DEF Responses
<1>7. \A e \in OK .. OP_ERR : [exitcode |-> e, result |-> 0] \in Responses
  BY DEF Responses
<1>8. \/ Calculator(req) \in {[exitcode |-> OK, result |-> r] : r \in {x + y, x - y, x * y}}
      \/ y # 0 /\ Calculator(req) = [exitcode |-> OK, result |-> Quotient(x, y)]
      \/ y # 0 /\ Calculator(req) = [exitcode |-> OK, result |-> x - y * Quotient(x, y)]
      \/ \E e \in {DIV_ZERO, MOD_ZERO, OP_ERR} : Calculator(req) = [exitcode |-> e, result |-> 0]
  BY DEF Calculator, x, y
<1> QED  BY <1>2, <1>3, <1>4, <1>5, <1>6, <1>7, <1>8

\* What is asked and told are texts, read as they were meant.
LEMMA Contents ==
    ASSUME session \in Sessions
    PROVE  /\ Len(session) \in Nat
           /\ Asked \in [1 .. Len(session) -> Text] /\ Told \in [1 .. Len(session) -> Text]
           /\ Stream(Up, Asked, Len(session)) /\ Stream(Down, Told, Len(session))
           /\ \A k \in 1 .. Len(session) :
                /\ session[k] \in Requests
                /\ SerializeRequest(ParaseLine(Line(session[k]))) = Asked[k]
                /\ ~Refused(Asked[k]) /\ DeserializeRequest(Asked[k]) = session[k]
                /\ SerializeResponse(Calculator(session[k])) = Told[k]
                /\ DeserializeResponse(Told[k]) = Calculator(session[k])
<1>1. session \in Seq(Requests)
  BY CalProtocolAssumption
<1>2. Len(session) \in Nat /\ \A k \in 1 .. Len(session) : session[k] \in Requests
  BY <1>1, LenProperties, ElementOfSeq
<1>3. ASSUME NEW k \in 1 .. Len(session)
      PROVE  /\ session[k] \in Requests
             /\ SerializeRequest(ParaseLine(Line(session[k]))) = Asked[k]
             /\ ~Refused(Asked[k]) /\ DeserializeRequest(Asked[k]) = session[k]
             /\ SerializeResponse(Calculator(session[k])) = Told[k]
             /\ DeserializeResponse(Told[k]) = Calculator(session[k])
             /\ Asked[k] \in Text /\ Told[k] \in Text
  <2> DEFINE req == session[k]  resp == Calculator(req)
  <2>1. req \in Requests
    BY <1>2
  <2>2. Asked[k] = SerializeRequest(req) /\ Told[k] = SerializeResponse(resp)
    BY DEF Asked, Told
  <2> HIDE DEF req
  <2>3. resp \in Responses
    BY <2>1, CalculatorType
  <2>4. SerializeRequest(ParaseLine(Line(req))) = SerializeRequest(req)
    BY <2>1, LineExact
  <2>5. /\ SerializeRequest(req) \in Text /\ ~Refused(SerializeRequest(req))
        /\ DeserializeRequest(SerializeRequest(req)) = req
    BY <2>1, RequestExact
  <2> HIDE DEF resp
  <2>6. SerializeResponse(resp) \in Text /\ DeserializeResponse(SerializeResponse(resp)) = resp
    BY <2>3, ResponseExact
  <2> QED  BY <2>1, <2>2, <2>4, <2>5, <2>6 DEF req, resp
<1>4. Asked \in [1 .. Len(session) -> Text] /\ Told \in [1 .. Len(session) -> Text]
  BY <1>3 DEF Asked, Told
<1>5. Stream(Up, Asked, Len(session)) /\ Stream(Down, Told, Len(session))
  BY <1>2, <1>4, WireExists DEF Up, Down
<1> QED  BY <1>2, <1>3, <1>4, <1>5

-----------------------------------------------------------------------------
(* The first state and the steps keep the invariant.                       *)

\* recv takes the first bytes of those on their way.
LEMMA TakeBytes ==
    ASSUME NEW t \in Text, NEW n \in 1 .. Len(t)
    PROVE  /\ SubSeq(t, 1, n) \in Text /\ SubSeq(t, n + 1, Len(t)) \in Text
           /\ SubSeq(t, 1, n) \o SubSeq(t, n + 1, Len(t)) = t
<1>1. Len(t) \in Nat /\ \A i \in 1 .. Len(t) : t[i] \in Bytes
  BY LenProperties, ElementOfSeq DEF Text
<1> DEFINE o == 1  k == n + 1  z == Len(t)
<1>2. /\ o \in Int /\ n \in Int /\ k \in Int /\ z \in Int
      /\ (\A i \in o .. n : t[i] \in Bytes) /\ (\A i \in k .. z : t[i] \in Bytes)
      /\ o \in 1 .. Len(t) + 1 /\ n \in o - 1 .. Len(t) /\ z \in n .. Len(t)
  BY <1>1
<1>3. SubSeq(t, 1, Len(t)) = t
  BY SubSeqFull DEF Text
<1>4. SubSeq(t, o, n) \o SubSeq(t, n + 1, z) = SubSeq(t, o, z)
  <2> HIDE DEF o, z
  <2> QED  BY <1>2, ConcatAdjacentSubSeq DEF Text
<1>5. SubSeq(t, o, n) \in Text /\ SubSeq(t, k, z) \in Text
  <2> HIDE DEF o, k, z
  <2> QED  BY <1>2, SubSeqProperties DEF Text
<1> QED  BY <1>3, <1>4, <1>5

\* A C string made of a text is the text: no byte of it is a NUL.
LEMMA NothingCut ==
    ASSUME NEW t \in Text
    PROVE  CString(t) = t
<1> DEFINE K == {k \in 0 .. Len(t) : \A i \in 1 .. k : t[i] # NUL}
<1>1. Len(t) \in Nat /\ \A i \in 1 .. Len(t) : t[i] # NUL
  <2>1. Len(t) \in Nat /\ \A i \in 1 .. Len(t) : t[i] \in Bytes
    BY LenProperties, ElementOfSeq DEF Text
  <2>2. NUL \notin Bytes
    BY DEF NUL, Bytes
  <2> QED  BY <2>1, <2>2
<1>2. Len(t) \in K /\ K \in SUBSET Int /\ \A k \in K : k <= Len(t)
  BY <1>1
<1>3. Max(K) = Len(t)
  <2> HIDE DEF K
  <2> QED  BY <1>2, MaxIs
<1>4. SubSeq(t, 1, Len(t)) = t
  BY SubSeqFull DEF Text
<1> QED  BY <1>3, <1>4 DEF CString

\* The streams depend on the session only, which stays.
LEMMA StreamsStay ==
    ASSUME session' = session
    PROVE  Asked' = Asked /\ Told' = Told /\ Up' = Up /\ Down' = Down
BY DEF Asked, Told, Up, Down

LEMMA InitInv == Init => IInv
<1> SUFFICES ASSUME Init  PROVE IInv
  OBVIOUS
<1>1. /\ session \in Sessions /\ server \in Servers /\ nsent = 0 /\ up = <<>> /\ down = <<>>
      /\ sbuf = <<>> /\ cbuf = <<>> /\ spc = "recv" /\ cpc = "input" /\ answers = <<>>
  BY DEF Init
<1>2. <<>> \in Text /\ <<>> \in Seq(Responses) /\ Len(<<>>) = 0 /\ Len(session) \in Nat
  BY <1>1, EmptySeq, Contents DEF Text
<1>3. Types
  BY <1>1, <1>2 DEF Types
<1>4. Waits
  BY <1>1, <1>2, NothingYet DEF Waits
<1>5. Handled(0)
  <2>1. <<>> \o <<>> = <<>>
    BY <1>2, ConcatEmptySeq DEF Text
  <2>2. Up[0] = <<>> /\ Down[0] = <<>>
    BY <1>1, Contents DEF Stream
  <2> QED  BY <1>1, <1>2, <2>1, <2>2 DEF Handled
<1> QED  BY <1>1, <1>2, <1>3, <1>4, <1>5 DEF IInv

\* The client asks: one more package on the wire.
LEMMA SendStep == IInv /\ ClientSend => IInv'
<1> SUFFICES ASSUME IInv, ClientSend  PROVE IInv'
  OBVIOUS
<1>1. Types /\ Waits
  BY DEF IInv
<1>2. PICK h \in Nat : Handled(h)
  BY DEF IInv
<1> DEFINE n == nsent + 1  f == enLength(Asked[n])
<1>3. /\ nsent < Len(session) /\ nsent' = n /\ cpc' = "recv"
      /\ cpc = "input" \/ (cpc = "recv" /\ server \in Pipelining)
      /\ up' = up \o enLength(SerializeRequest(ParaseLine(Line(session[n]))))
      /\ UNCHANGED <<server, session, down, sbuf, spc, cbuf, answers>>
  BY DEF ClientSend
<1>4. Up' = Up /\ Down' = Down
  BY <1>3, StreamsStay
<1>5. n \in 1 .. Len(session) /\ n - 1 = nsent /\ nsent \in 0 .. Len(session)
      /\ Len(session) \in Nat /\ Len(answers) \in Nat /\ answers \in Seq(Responses)
  BY <1>1, <1>3, Contents, LenProperties DEF Types
<1> HIDE DEF n
<1>6. f \in Text /\ up' = up \o f /\ Up[n] = Up[nsent] \o f
  <2>1. Asked[n] \in Text
    BY <1>1, <1>5, Contents DEF Types
  <2>2. f \in Text
    BY <2>1, PackageParts
  <2>3. up' = up \o f
    BY <1>1, <1>3, <1>5, Contents DEF Types
  <2>4. Up[n] = Up[nsent] \o f
    BY <1>1, <1>5, Contents DEF Types, Stream
  <2> QED  BY <2>2, <2>3, <2>4
<1> HIDE DEF f
<1>7. Types'
  <2>1. up' \in Text
    BY <1>1, <1>6, JoinedLength DEF Types
  <2>2. nsent' \in 0 .. Len(session')
    BY <1>3, <1>5
  <2> QED  BY <1>1, <1>3, <2>1, <2>2 DEF Types
<1>8. Handled(h)'
  <2>1. Up[n] = Up[h] \o (sbuf \o up')
    <3> DEFINE u == Up[h]
    <3>1. u \in Text /\ sbuf \in Text /\ up \in Text
      <4>1. h \in 0 .. Len(session)
        BY <1>2, <1>5 DEF Handled
      <4> QED  BY <1>1, <4>1, Contents DEF Types, Stream
    <3>2. Up[n] = (u \o (sbuf \o up)) \o f
      BY <1>2, <1>6 DEF Handled
    <3> HIDE DEF u
    <3>3. (u \o (sbuf \o up)) \o f = u \o ((sbuf \o up) \o f)
      <4>1. sbuf \o up \in Text
        BY <3>1, JoinedLength
      <4> QED  BY <1>6, <3>1, <4>1, JoinedTwice
    <3>4. (sbuf \o up) \o f = sbuf \o (up \o f)
      BY <1>6, <3>1, JoinedTwice
    <3> QED  BY <1>6, <3>2, <3>3, <3>4 DEF u
  <2>2. h \in 0 .. n
    BY <1>2, <1>5 DEF Handled
  <2> QED  BY <1>2, <1>3, <1>4, <2>1, <2>2 DEF Handled
<1>9. Waits'
  <2>1. cpc = "input" => cbuf = <<>>
    <3> SUFFICES ASSUME cpc = "input"  PROVE cbuf = <<>>
      OBVIOUS
    <3>1. h = Len(answers) /\ h \in 0 .. Len(session)
      BY <1>1, <1>2, <1>5 DEF Waits, Handled
    <3>2. Down[h] = Down[h] \o (cbuf \o down) /\ cbuf \in Text /\ down \in Text
      BY <1>1, <1>2, <3>1 DEF Handled, Types
    <3> DEFINE w == Down[h]
    <3>3. w \in Text /\ w = w \o (cbuf \o down)
      BY <1>1, <3>1, <3>2, Contents DEF Types, Stream
    <3> HIDE DEF w
    <3> QED  BY <3>2, <3>3, NothingLeft
  <2>2. ~HasPackage(cbuf)
    BY <1>1, <1>3, <2>1, NothingYet DEF Waits
  <2>3. server \notin Pipelining => n <= Len(answers) + 1
    BY <1>1, <1>3, <1>5 DEF Waits
  <2> QED  BY <1>1, <1>3, <2>2, <2>3 DEF Waits
<1> QED  BY <1>3, <1>7, <1>8, <1>9 DEF IInv

\* Bytes arrive: nothing but where they are changes.
LEMMA RecvStep == IInv /\ (ServerRecv \/ ClientRecv) => IInv'
<1> SUFFICES ASSUME IInv, ServerRecv \/ ClientRecv  PROVE IInv'
  OBVIOUS
<1>1. Types /\ Waits
  BY DEF IInv
<1>2. PICK h \in Nat : Handled(h)
  BY DEF IInv
<1>3. /\ UNCHANGED <<server, session, nsent, answers>>
      /\ sbuf' \in Text /\ up' \in Text /\ sbuf' \o up' = sbuf \o up
      /\ cbuf' \in Text /\ down' \in Text /\ cbuf' \o down' = cbuf \o down
      /\ \/ spc' = "parse" /\ UNCHANGED <<cpc, cbuf>>
         \/ cpc' = "parse" /\ UNCHANGED <<spc, sbuf>>
  <2>1. sbuf \in Text /\ up \in Text /\ cbuf \in Text /\ down \in Text
    BY <1>1 DEF Types
  <2>2. ASSUME NEW t \in Text, NEW u \in Text, NEW n \in 1 .. Len(u)
        PROVE  /\ t \o CString(SubSeq(u, 1, n)) \in Text /\ SubSeq(u, n + 1, Len(u)) \in Text
               /\ (t \o CString(SubSeq(u, 1, n))) \o SubSeq(u, n + 1, Len(u)) = t \o u
    <3> DEFINE v == CString(SubSeq(u, 1, n))  w == SubSeq(u, n + 1, Len(u))
    <3>1. v \in Text /\ w \in Text /\ v \o w = u
      BY TakeBytes, NothingCut
    <3> HIDE DEF v, w
    <3>2. t \o v \in Text
      BY <3>1, JoinedLength
    <3>3. (t \o v) \o w = t \o (v \o w)
      BY <3>1, JoinedTwice
    <3> QED  BY <3>1, <3>2, <3>3 DEF v, w
  <2>3. CASE ServerRecv
    <3>1. PICK n \in 1 .. Len(up) : sbuf' = sbuf \o CString(SubSeq(up, 1, n))
                                    /\ up' = SubSeq(up, n + 1, Len(up))
      BY <2>3 DEF ServerRecv
    <3>2. sbuf' \in Text /\ up' \in Text /\ sbuf' \o up' = sbuf \o up
      BY <2>1, <2>2, <3>1
    <3> QED  BY <2>1, <2>3, <3>2 DEF ServerRecv
  <2>4. CASE ClientRecv
    <3>1. PICK n \in 1 .. Len(down) : cbuf' = cbuf \o CString(SubSeq(down, 1, n))
                                      /\ down' = SubSeq(down, n + 1, Len(down))
      BY <2>4 DEF ClientRecv
    <3>2. cbuf' \in Text /\ down' \in Text /\ cbuf' \o down' = cbuf \o down
      BY <2>1, <2>2, <3>1
    <3> QED  BY <2>1, <2>4, <3>2 DEF ClientRecv
  <2> QED  BY <2>3, <2>4
<1>4. Up' = Up /\ Down' = Down
  BY <1>3, StreamsStay
<1>5. Types'
  BY <1>1, <1>3 DEF Types
<1>6. Handled(h)'
  BY <1>2, <1>3, <1>4 DEF Handled
<1>7. Waits'
  BY <1>1, <1>3 DEF Waits
<1> QED  BY <1>3, <1>5, <1>6, <1>7 DEF IInv

\* Who finds no whole package waits for more.
LEMMA WaitStep == IInv /\ (ServerWaits \/ ClientWaits) => IInv'
<1> SUFFICES ASSUME IInv, ServerWaits \/ ClientWaits  PROVE IInv'
  OBVIOUS
<1>1. Types /\ Waits
  BY DEF IInv
<1>2. PICK h \in Nat : Handled(h)
  BY DEF IInv
<1>3. /\ UNCHANGED <<server, session, nsent, up, down, sbuf, cbuf, answers>>
      /\ \/ ~HasPackage(sbuf) /\ spc' = "recv" /\ cpc' = cpc
         \/ ~HasPackage(cbuf) /\ cpc' = "recv" /\ spc' = spc
  BY DEF ServerWaits, ClientWaits
<1>4. Up' = Up /\ Down' = Down
  BY <1>3, StreamsStay
<1>5. Types'
  BY <1>1, <1>3 DEF Types
<1>6. Handled(h)'
  BY <1>2, <1>3, <1>4 DEF Handled
<1>7. Waits'
  BY <1>1, <1>3 DEF Waits
<1> QED  BY <1>3, <1>5, <1>6, <1>7 DEF IInv

\* The server answers the request its buffer starts with.
LEMMA HandleStep == IInv /\ ServerHandle => IInv'
<1> SUFFICES ASSUME IInv, ServerHandle  PROVE IInv'
  OBVIOUS
<1>1. Types /\ Waits
  BY DEF IInv
<1>2. PICK h \in Nat : Handled(h)
  BY DEF IInv
<1> DEFINE g == h + 1  f == enLength(Told[g])  n == Len(session)  in == deLength(Package(sbuf))
<1>3. /\ HasPackage(sbuf) /\ sbuf' = Rest(sbuf) /\ spc = "parse"
      /\ UNCHANGED <<server, session, nsent, up, cbuf, cpc, answers>>
      /\ IF Refused(in)
         THEN spc' = IF server = "Reactor" THEN "recv" ELSE "closed"
         ELSE /\ spc' = IF server = "Reactor" THEN "parse" ELSE "recv"
              /\ down' = down \o
                    enLength(SerializeResponse(Calculator(DeserializeRequest(in))))
  BY DEF ServerHandle
<1>4. /\ n \in Nat /\ Asked \in [1 .. n -> Text] /\ Told \in [1 .. n -> Text]
      /\ Stream(Up, Asked, n) /\ Stream(Down, Told, n)
  BY <1>1, Contents DEF Types
<1>5. /\ h \in 0 .. n /\ nsent \in 0 .. n /\ h <= nsent /\ nsent \in Nat
      /\ Len(answers) \in Nat /\ Len(answers) <= h /\ Len(answers) \in 0 .. n
  <2>1. Len(answers) \in Nat
    BY <1>1, LenProperties DEF Types
  <2> QED  BY <1>1, <1>2, <1>4, <2>1 DEF Types, Handled
<1>6. sbuf \in Text /\ up \in Text /\ cbuf \in Text /\ down \in Text
  BY <1>1 DEF Types
<1>7. /\ h < nsent /\ in = Asked[g] /\ Rest(sbuf) \in Text
      /\ Up[nsent] = Up[g] \o (Rest(sbuf) \o up)
  <2> DEFINE W == Up
  <2>1. Stream(W, Asked, n) /\ Between(W, h, nsent, sbuf, up)
    BY <1>2, <1>4 DEF Handled, Between
  <2> HIDE DEF W, n
  <2>2. /\ h < nsent /\ deLength(Package(sbuf)) = Asked[h + 1] /\ Rest(sbuf) \in Text
        /\ W[nsent] = W[h + 1] \o (Rest(sbuf) \o up)
    <3>1. StartsWith(W, Asked, h, nsent, sbuf, up)
      BY <1>3, <1>4, <1>5, <1>6, <2>1, PackageFound
    <3> QED  BY <3>1 DEF StartsWith, Between
  <2> QED  BY <2>2 DEF W
<1>8. g \in 1 .. n /\ g \in 0 .. n /\ g - 1 = h /\ g <= nsent /\ g \in Nat /\ Len(answers) <= g
  BY <1>4, <1>5, <1>7
<1> HIDE DEF g
<1>9. /\ ~Refused(in) /\ down' = down \o f
      /\ spc' = IF server = "Reactor" THEN "parse" ELSE "recv"
  <2>1. ~Refused(Asked[g]) /\ DeserializeRequest(Asked[g]) = session[g]
        /\ SerializeResponse(Calculator(session[g])) = Told[g]
    BY <1>1, <1>8, Contents DEF Types
  <2> QED  BY <1>3, <1>7, <2>1
<1>10. f \in Text /\ Down[g] = Down[h] \o f
  <2>1. Told[g] \in Text
    BY <1>4, <1>8
  <2>2. f \in Text
    BY <2>1, PackageParts
  <2> QED  BY <1>4, <1>8, <2>2 DEF Stream
<1> HIDE DEF f
<1>11. Up' = Up /\ Down' = Down
  BY <1>3, StreamsStay
<1>12. Types'
  <2>1. down' \in Text
    BY <1>6, <1>9, <1>10, JoinedLength
  <2>2. spc' \in {"recv", "parse"}
    BY <1>9
  <2> QED  BY <1>1, <1>3, <1>7, <2>1, <2>2 DEF Types
<1>13. Handled(g)'
  <2>1. Down[g] = Down[Len(answers)] \o (cbuf \o down')
    <3> DEFINE w == Down[Len(answers)]
    <3>1. w \in Text
      BY <1>4, <1>5 DEF Stream
    <3>2. Down[g] = (w \o (cbuf \o down)) \o f
      BY <1>2, <1>10 DEF Handled
    <3> HIDE DEF w
    <3>3. (w \o (cbuf \o down)) \o f = w \o ((cbuf \o down) \o f)
      <4>1. cbuf \o down \in Text
        BY <1>6, JoinedLength
      <4> QED  BY <1>10, <3>1, <4>1, JoinedTwice
    <3>4. (cbuf \o down) \o f = cbuf \o (down \o f)
      BY <1>6, <1>10, JoinedTwice
    <3> QED  BY <1>9, <3>2, <3>3, <3>4 DEF w
  <2>2. g \in 0 .. nsent
    BY <1>5, <1>8
  <2> QED  BY <1>3, <1>7, <1>8, <1>11, <2>1, <2>2 DEF Handled
<1>14. Waits'
  <2>1. ASSUME spc' = "recv", HasPackage(sbuf')  PROVE server = "calServer" /\ server \in Pipelining
    <3>1. server = "calServer"
      BY <1>1, <1>9, <2>1, CalProtocolAssumption DEF Types
    <3>2. ASSUME server \notin Pipelining  PROVE FALSE
      <4>1. g = nsent
        BY <1>1, <1>5, <1>7, <1>8, <3>2 DEF Waits
      <4> DEFINE w == Up[g]
      <4>2. w \in Text /\ w = w \o (Rest(sbuf) \o up)
        BY <1>4, <1>7, <1>8, <4>1 DEF Stream
      <4> HIDE DEF w
      <4>3. Rest(sbuf) = <<>>
        BY <1>6, <1>7, <4>2, NothingLeft
      <4> QED  BY <1>3, <2>1, <4>3, NothingYet
    <3> QED  BY <3>1, <3>2
  <2> QED  BY <1>1, <1>3, <2>1 DEF Waits
<1> QED  BY <1>3, <1>8, <1>12, <1>13, <1>14 DEF IInv

\* The client takes the answer its buffer starts with.
LEMMA TakeStep == IInv /\ ClientTake => IInv'
<1> SUFFICES ASSUME IInv, ClientTake  PROVE IInv'
  OBVIOUS
<1>1. Types /\ Waits
  BY DEF IInv
<1>2. PICK h \in Nat : Handled(h)
  BY DEF IInv
<1> DEFINE a == Len(answers)  g == a + 1  n == Len(session)  in == deLength(Package(cbuf))
<1>3. /\ HasPackage(cbuf) /\ cbuf' = Rest(cbuf) /\ cpc = "parse"
      /\ answers' = Append(answers, DeserializeResponse(in))
      /\ cpc' = IF server \in Pipelining THEN "parse" ELSE "input"
      /\ UNCHANGED <<server, session, nsent, up, down, sbuf, spc>>
  BY DEF ClientTake
<1>4. /\ n \in Nat /\ Asked \in [1 .. n -> Text] /\ Told \in [1 .. n -> Text]
      /\ Stream(Up, Asked, n) /\ Stream(Down, Told, n)
  BY <1>1, Contents DEF Types
<1>5. /\ h \in 0 .. n /\ nsent \in 0 .. n /\ h <= nsent /\ nsent \in Nat
      /\ a \in Nat /\ a <= h /\ a \in 0 .. n
  <2>1. Len(answers) \in Nat
    BY <1>1, LenProperties DEF Types
  <2> QED  BY <1>1, <1>2, <1>4, <2>1 DEF Types, Handled
<1>6. sbuf \in Text /\ up \in Text /\ cbuf \in Text /\ down \in Text
  BY <1>1 DEF Types
<1>7. /\ a < h /\ in = Told[g] /\ Rest(cbuf) \in Text
      /\ Down[h] = Down[g] \o (Rest(cbuf) \o down)
  <2> DEFINE W == Down
  <2>1. Stream(W, Told, n) /\ Between(W, a, h, cbuf, down)
    BY <1>2, <1>4 DEF Handled, Between
  <2> HIDE DEF W, n, a
  <2>2. /\ a < h /\ deLength(Package(cbuf)) = Told[a + 1] /\ Rest(cbuf) \in Text
        /\ W[h] = W[a + 1] \o (Rest(cbuf) \o down)
    <3>1. StartsWith(W, Told, a, h, cbuf, down)
      BY <1>3, <1>4, <1>5, <1>6, <2>1, PackageFound
    <3> QED  BY <3>1 DEF StartsWith, Between
  <2> QED  BY <2>2 DEF W
<1>8. g \in 1 .. n /\ g <= h
  BY <1>4, <1>5, <1>7
<1>9. /\ DeserializeResponse(in) = Calculator(session[g])
      /\ DeserializeResponse(in) \in Responses
  <2>1. session[g] \in Requests /\ DeserializeResponse(Told[g]) = Calculator(session[g])
    BY <1>1, <1>8, Contents DEF Types
  <2> QED  BY <1>7, <2>1, CalculatorType
<1>10. /\ answers' \in Seq(Responses) /\ Len(answers') = g
       /\ \A i \in 1 .. a : answers'[i] = answers[i]
       /\ answers'[g] = Calculator(session[g])
  <2> DEFINE r == DeserializeResponse(in)
  <2>1. answers \in Seq(Responses) /\ r \in Responses /\ answers' = Append(answers, r)
    BY <1>1, <1>3, <1>9 DEF Types
  <2>2. r = Calculator(session[g])
    BY <1>9
  <2> HIDE DEF r
  <2> QED  BY <2>1, <2>2, AppendProperties
<1>11. Up' = Up /\ Down' = Down
  BY <1>3, StreamsStay
<1>12. Types'
  <2>1. cpc' \in {"input", "recv", "parse"}
    BY <1>3
  <2> QED  BY <1>1, <1>3, <1>7, <1>10, <2>1 DEF Types
<1>13. Handled(h)'
  BY <1>2, <1>3, <1>7, <1>8, <1>10, <1>11 DEF Handled
<1>14. Waits'
  <2>1. server \notin Pipelining => nsent = g
    BY <1>1, <1>5, <1>7 DEF Waits
  <2>2. server \notin Pipelining => nsent <= g + 1
    BY <1>5, <2>1
  <2> QED  BY <1>1, <1>3, <1>10, <2>1, <2>2 DEF Waits
<1>15. \A i \in 1 .. Len(answers') : answers'[i] = Calculator(session[i])
  <2> SUFFICES ASSUME NEW i \in 1 .. g  PROVE answers'[i] = Calculator(session[i])
    BY <1>10
  <2>1. CASE i = g
    BY <1>10, <2>1
  <2>2. CASE i # g
    <3>1. i \in 1 .. a
      BY <1>5, <2>2
    <3> QED  BY <1>10, <3>1 DEF IInv
  <2> QED  BY <2>1, <2>2
<1> QED  BY <1>3, <1>12, <1>13, <1>14, <1>15 DEF IInv

\* The invariant is inductive.
LEMMA NextInv == IInv /\ [Next]_vars => IInv'
<1> SUFFICES ASSUME IInv, [Next]_vars  PROVE IInv'
  OBVIOUS
<1>1. CASE ServerRecv
  BY <1>1, RecvStep
<1>2. CASE ServerHandle
  BY <1>2, HandleStep
<1>3. CASE ServerWaits
  BY <1>3, WaitStep
<1>4. CASE ClientSend
  BY <1>4, SendStep
<1>5. CASE ClientRecv
  BY <1>5, RecvStep
<1>6. CASE ClientTake
  BY <1>6, TakeStep
<1>7. CASE ClientWaits
  BY <1>7, WaitStep
<1>8. CASE UNCHANGED vars
  <2>1. Asked' = Asked /\ Told' = Told /\ Up' = Up /\ Down' = Down
    BY <1>8, StreamsStay DEF vars
  <2>2. Types' /\ Waits'
    BY <1>8 DEF IInv, Types, Waits, vars
  <2>3. \A h \in Nat : Handled(h) => Handled(h)'
    BY <1>8, <2>1 DEF Handled, vars
  <2> QED  BY <1>8, <2>2, <2>3 DEF IInv, vars
<1> QED  BY <1>1, <1>2, <1>3, <1>4, <1>5, <1>6, <1>7, <1>8 DEF Next, Server, Client

\* Whatever is asked, and wherever TCP cuts the streams, the packages of both
\* directions stay where the protocol needs them (protocol.hpp:23-44, 198-231).
THEOREM Invariance == Spec => []IInv
<1> QED  BY InitInv, NextInv, PTL DEF Spec

\* Every variable keeps its type, for any sessions; in particular no NUL, at
\* which a buffer would be cut, comes to either side (protocol.hpp:206-207).
THEOREM TypeCorrect == Spec => []TypeOK
<1>1. IInv => TypeOK
  <2> SUFFICES ASSUME IInv  PROVE TypeOK
    OBVIOUS
  <2>1. Types
    BY DEF IInv
  <2> QED  BY <2>1 DEF Types, TypeOK, Text, Responses
<1> QED  BY <1>1, Invariance, PTL

\* What the client prints is what the calculator answers to what was typed,
\* for every number and operator that can be typed (calClient.hpp:60-88).
THEOREM AnswersExact == Spec => []AnswersAreExact
<1>1. IInv => AnswersAreExact
  <2> SUFFICES ASSUME IInv, NEW i \in 1 .. Len(answers)
               PROVE  i <= nsent /\ answers[i] = Calculator(session[i])
    BY DEF AnswersAreExact
  <2>1. PICK h \in Nat : Handled(h)
    BY DEF IInv
  <2>2. Len(answers) \in Nat /\ nsent \in Nat
    <3>1. answers \in Seq(Responses) /\ nsent \in 0 .. Len(session) /\ Len(session) \in Nat
      BY Contents DEF IInv, Types
    <3> QED  BY <3>1, LenProperties
  <2>3. i <= nsent
    BY <2>1, <2>2 DEF Handled
  <2> QED  BY <2>3 DEF IInv
<1> QED  BY <1>1, Invariance, PTL

\* A server holds no whole request back when it waits, given that lesson37's
\* client waits for its answers, as calClient::start does (calClient.hpp:60-88).
THEOREM HoldsNothingBack ==
    ASSUME "calServer" \notin Pipelining
    PROVE  Spec => []NothingHeldBack
<1>1. IInv => NothingHeldBack
  BY DEF IInv, Waits, NothingHeldBack
<1> QED  BY <1>1, Invariance, PTL

\* Under the same condition, both sides wait only when all is answered
\* (calServer.hpp:41-73, calClient.hpp:60-88).
THEOREM NeverBothWaiting ==
    ASSUME "calServer" \notin Pipelining
    PROVE  Spec => []NotBothWaiting
<1>1. IInv => NotBothWaiting
  <2> SUFFICES ASSUME IInv, spc = "recv", cpc = "recv", up = <<>>, down = <<>>
               PROVE  Len(answers) = nsent
    BY DEF NotBothWaiting
  <2>1. PICK h \in Nat : Handled(h)
    BY DEF IInv
  <2>2. ~HasPackage(sbuf) /\ ~HasPackage(cbuf)
    BY DEF IInv, Waits
  <2> DEFINE a == Len(answers)  n == Len(session)  W == Up  V == Down
  <2>3. /\ sbuf \in Text /\ up \in Text /\ cbuf \in Text /\ down \in Text
        /\ n \in Nat /\ Asked \in [1 .. n -> Text] /\ Told \in [1 .. n -> Text]
        /\ Stream(W, Asked, n) /\ Stream(V, Told, n)
    BY Contents DEF IInv, Types
  <2>4. /\ h \in 0 .. n /\ nsent \in 0 .. n /\ h <= nsent
        /\ a \in 0 .. n /\ a <= h
    <3>1. a \in Nat
      BY LenProperties DEF IInv, Types
    <3> QED  BY <2>1, <2>3, <3>1 DEF Handled, IInv, Types
  <2>5. Between(W, h, nsent, sbuf, <<>>) /\ Between(V, a, h, cbuf, <<>>)
    BY <2>1 DEF Handled, Between
  <2> HIDE DEF a, n, W, V
  <2>6. h = nsent
    BY <2>2, <2>3, <2>4, <2>5, AllTaken
  <2>7. a = h
    BY <2>2, <2>3, <2>4, <2>5, AllTaken
  <2> QED  BY <2>6, <2>7 DEF a
<1> QED  BY <1>1, Invariance, PTL
=============================================================================
