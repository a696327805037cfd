---------------------------- MODULE PacketIOProofs ----------------------------
(***************************************************************************)
(* Packets and bytes, for packets of any length and number, any base and   *)
(* number of digits, and any way in which read() and write() cut them up.  *)
(***************************************************************************)
EXTENDS PacketIO, ListOrderProofs

-----------------------------------------------------------------------------
(* FlattenSeq, by its partial sums.                                        *)

PartialSums(s, f, n) == \A i \in 1 .. n : f[i] = IF i = 1 THEN s[i] ELSE f[i - 1] \o s[i]

LEMMA SumsExist ==
  ASSUME NEW S, NEW s \in Seq(Seq(S))
  PROVE  \E f \in [1 .. Len(s) -> Seq(S)] : PartialSums(s, f, Len(s))
<1> DEFINE A == {m \in Nat : m <= Len(s) => \E f \in [1 .. m -> Seq(S)] : PartialSums(s, f, m)}
<1>1. Len(s) \in Nat /\ \A i \in 1 .. Len(s) : s[i] \in Seq(S)
  OBVIOUS
<1>2. 0 \in A
  <2>1. [i \in 1 .. 0 |-> <<>>] \in [1 .. 0 -> Seq(S)]
    OBVIOUS
  <2>2. PartialSums(s, [i \in 1 .. 0 |-> <<>>], 0)
    BY DEF PartialSums
  <2> QED
    BY <2>1, <2>2
<1>3. ASSUME NEW m \in Nat, m \in A, m + 1 <= Len(s)
      PROVE  \E f \in [1 .. m + 1 -> Seq(S)] : PartialSums(s, f, m + 1)
  <2>1. PICK f \in [1 .. m -> Seq(S)] : PartialSums(s, f, m)
    BY <1>1, <1>3
  <2>2. PICK x \in Seq(S) : x = IF m = 0 THEN s[m + 1] ELSE f[m] \o s[m + 1]
    <3>1. CASE m = 0
      BY <1>1, <1>3, <3>1
    <3>2. CASE m # 0
      <4>1. f[m] \in Seq(S) /\ s[m + 1] \in Seq(S)
        BY <1>1, <1>3, <3>2
      <4>2. f[m] \o s[m + 1] \in Seq(S)
        BY <4>1
      <4> QED
        BY <3>2, <4>2, Zenon
    <3> QED
      BY <3>1, <3>2
  <2> DEFINE g == [i \in 1 .. m + 1 |-> IF i = m + 1 THEN x ELSE f[i]]
  <2>3. g \in [1 .. m + 1 -> Seq(S)]
    <3>1. \A i \in 1 .. m + 1 : i # m + 1 => i \in 1 .. m
      OBVIOUS
    <3> QED
      BY <3>1
  <2>4. ASSUME NEW i \in 1 .. m + 1
        PROVE  g[i] = IF i = 1 THEN s[i] ELSE g[i - 1] \o s[i]
    <3>1. CASE i = m + 1
      <4>1. CASE m = 0
        BY <2>2, <3>1, <4>1
      <4>2. CASE m # 0
        <5>1. g[i] = f[m] \o s[m + 1] /\ i # 1
          <6>1. g[i] = x
            BY <3>1
          <6>2. x = f[m] \o s[m + 1]
            BY <2>2, <4>2, Zenon
          <6>3. i # 1
            BY <3>1, <4>2
          <6> QED
            BY <6>1, <6>2, <6>3, Zenon
        <5>2. g[i - 1] = f[m]
          BY <3>1, <4>2
        <5> QED
          BY <3>1, <5>1, <5>2
      <4> QED
        BY <4>1, <4>2
    <3>2. CASE i # m + 1
      <4>1. i \in 1 .. m /\ g[i] = f[i] /\ (i # 1 => g[i - 1] = f[i - 1])
        BY <3>2
      <4> QED
        BY <2>1, <4>1 DEF PartialSums
    <3> QED
      BY <3>1, <3>2
  <2> HIDE DEF g
  <2> QED
    BY <2>3, <2>4 DEF PartialSums
<1>4. \A m \in Nat : m \in A => m + 1 \in A
  BY <1>3
<1> HIDE DEF A
<1>5. Nat \subseteq A
  BY <1>2, <1>4, SetInduction
<1> QED
  BY <1>1, <1>5 DEF A

LEMMA SumsUnique ==
  ASSUME NEW s, NEW f, NEW g, NEW n \in Nat, PartialSums(s, f, n), PartialSums(s, g, n)
  PROVE  \A i \in 1 .. n : f[i] = g[i]
<1> DEFINE A == {m \in Nat : m \in 1 .. n => f[m] = g[m]}
<1>1. 0 \in A
  OBVIOUS
<1>2. ASSUME NEW m \in Nat, m \in A, m + 1 \in 1 .. n
      PROVE  f[m + 1] = g[m + 1]
  <2>1. CASE m = 0
    BY <1>2, <2>1 DEF PartialSums
  <2>2. CASE m # 0
    <3>1. f[m] = g[m]
      BY <1>2, <2>2
    <3>2. m + 1 # 1 /\ (m + 1) - 1 = m
      BY <2>2
    <3> QED
      BY <1>2, <3>1, <3>2 DEF PartialSums
  <2> QED
    BY <2>1, <2>2
<1>3. \A m \in Nat : m \in A => m + 1 \in A
  BY <1>2
<1> HIDE DEF A
<1>4. Nat \subseteq A
  BY <1>1, <1>3, SetInduction
<1> QED
  BY <1>4 DEF A

LEMMA FlattenSums ==
  ASSUME NEW S, NEW s \in Seq(Seq(S)), s # <<>>,
         NEW f \in [1 .. Len(s) -> Seq(S)], PartialSums(s, f, Len(s))
  PROVE  FlattenSeq(s) = f[Len(s)]
<1> DEFINE Is(g) == g = [i \in 1 .. Len(s) |-> IF i = 1 THEN s[i] ELSE g[i - 1] \o s[i]]
<1>1. Len(s) \in Nat /\ Len(s) # 0 /\ Len(s) \in 1 .. Len(s)
  BY EmptySeq
<1>2. Is(f)
  BY DEF PartialSums
<1>3. Is(CHOOSE g : Is(g))
  BY <1>2, Zenon
<1>4. PICK h : h = CHOOSE g : Is(g)
  OBVIOUS
<1>5. FlattenSeq(s) = h[Len(s)]
  BY <1>1, <1>4, Zenon DEF FlattenSeq
<1>6. PartialSums(s, h, Len(s))
  <2>1. Is(h)
    BY <1>3, <1>4
  <2> QED
    BY <2>1 DEF PartialSums
<1> QED
  BY <1>1, <1>5, <1>6, SumsUnique

LEMMA FlattenEmpty == FlattenSeq(<<>>) = <<>>
BY DEF FlattenSeq

LEMMA FlattenAppend ==
  ASSUME NEW S, NEW s \in Seq(Seq(S)), NEW x \in Seq(S)
  PROVE  FlattenSeq(s) \in Seq(S) /\ FlattenSeq(Append(s, x)) = FlattenSeq(s) \o x
<1> DEFINE t == Append(s, x)
           n == Len(s)
<1>1. /\ n \in Nat /\ t \in Seq(Seq(S)) /\ t # <<>> /\ Len(t) = n + 1 /\ t[n + 1] = x
      /\ \A i \in 1 .. n : t[i] = s[i]
  BY AppendProperties
<1> HIDE DEF t
<1>2. PICK f \in [1 .. Len(t) -> Seq(S)] : PartialSums(t, f, Len(t))
  BY <1>1, SumsExist
<1>3. FlattenSeq(t) = f[n + 1]
  BY <1>1, <1>2, FlattenSums
<1>4. CASE s = <<>>
  <2>1. n = 0
    BY <1>4
  <2>2. f[n + 1] = x
    BY <1>1, <1>2, <2>1 DEF PartialSums
  <2>3. <<>> \in Seq(S) /\ <<>> \o x = x
    OBVIOUS
  <2> QED
    BY <1>3, <1>4, <2>2, <2>3, FlattenEmpty DEF t
<1>5. CASE s # <<>>
  <2>1. n > 0
    BY <1>1, <1>5, EmptySeq
  <2>2. PICK g \in [1 .. n -> Seq(S)] : g = [i \in 1 .. n |-> f[i]]
    <3>1. \A i \in 1 .. n : f[i] \in Seq(S)
      <4>1. \A i \in 1 .. n : i \in 1 .. Len(t)
        BY <1>1
      <4> QED
        BY <1>2, <4>1, Zenon
    <3>2. [i \in 1 .. n |-> f[i]] \in [1 .. n -> Seq(S)]
      BY <3>1, Zenon
    <3> QED
      BY <3>2, Zenon
  <2>3. PartialSums(s, g, n)
    <3> SUFFICES ASSUME NEW i \in 1 .. n
                 PROVE  g[i] = IF i = 1 THEN s[i] ELSE g[i - 1] \o s[i]
      BY DEF PartialSums
    <3>1. i \in 1 .. Len(t) /\ t[i] = s[i] /\ g[i] = f[i] /\ (i # 1 => g[i - 1] = f[i - 1])
      BY <1>1, <2>2
    <3> QED
      BY <1>2, <3>1 DEF PartialSums
  <2>4. FlattenSeq(s) = g[n] /\ g[n] \in Seq(S) /\ g[n] = f[n]
    <3>1. FlattenSeq(s) = g[n]
      BY <1>5, <2>3, FlattenSums
    <3>2. n \in 1 .. n
      BY <1>1, <2>1
    <3>3. g[n] \in Seq(S) /\ g[n] = f[n]
      BY <2>2, <3>2, Zenon
    <3> QED
      BY <3>1, <3>3
  <2>5. f[n + 1] = f[n] \o x
    <3>1. n + 1 \in 1 .. Len(t) /\ n + 1 # 1 /\ (n + 1) - 1 = n
      BY <1>1, <2>1
    <3> QED
      BY <1>1, <1>2, <3>1 DEF PartialSums
  <2> QED
    BY <1>3, <2>4, <2>5 DEF t
<1> QED
  BY <1>4, <1>5

-----------------------------------------------------------------------------
(* Functions defined by recursion over the naturals exist.                 *)

\* f[n] is given below b, and computed from an earlier value from b on.
Solves(f, D, b, base, prev, comb) ==
  \A n \in D : f[n] = IF n < b THEN base[n] ELSE comb[<<n, f[prev[n]]>>]

Descends(prev, b) == prev \in [Nat -> Nat] /\ \A n \in Nat : n >= b => prev[n] < n

LEMMA BelowIsBelow ==
  \A p, n, m \in Nat : p < n => (n <= m => p <= m) /\ ~ (n <= p)
OBVIOUS

LEMMA SolutionUnique ==
  ASSUME NEW b \in Nat, NEW base, NEW comb, NEW prev, Descends(prev, b),
         NEW f, NEW m \in Nat, Solves(f, 0 .. m, b, base, prev, comb),
         NEW g, NEW k \in Nat, Solves(g, 0 .. k, b, base, prev, comb)
  PROVE  \A n \in Nat : n <= m /\ n <= k => f[n] = g[n]
<1> DEFINE A == {n \in Nat : n <= m /\ n <= k /\ f[n] # g[n]}
<1> USE DEF Descends
<1> SUFFICES ASSUME A # {}
             PROVE  FALSE
  OBVIOUS
<1>1. PICK n \in A : \A j \in A : n <= j
  BY LeastElement
<1>2. n \in 0 .. m /\ n \in 0 .. k /\ n \in Nat
  BY <1>1
<1>3. CASE n < b
  BY <1>1, <1>2, <1>3 DEF Solves
<1>4. CASE ~ (n < b)
  <2>1. PICK p \in Nat : p = prev[n] /\ p < n
    BY <1>2, <1>4
  <2>2. p <= m /\ p <= k /\ ~ (n <= p)
    <3> HIDE DEF A
    <3>1. n <= m /\ n <= k
      BY <1>2
    <3> QED
      BY <1>2, <2>1, <3>1, BelowIsBelow, Zenon
  <2>3. f[prev[n]] = g[prev[n]]
    BY <1>1, <2>1, <2>2
  <2>4. f[n] = comb[<<n, f[prev[n]]>>] /\ g[n] = comb[<<n, g[prev[n]]>>]
    BY <1>2, <1>4 DEF Solves
  <2>5. f[n] # g[n]
    BY <1>1
  <2> HIDE DEF A
  <2> QED
    BY <2>3, <2>4, <2>5
<1> QED
  BY <1>3, <1>4

LEMMA SolutionUpTo ==
  ASSUME NEW V, NEW b \in Nat, b > 0, NEW base \in [Nat -> V], NEW comb \in [Nat \X V -> V],
         NEW prev, Descends(prev, b), NEW m \in Nat
  PROVE  \E f \in [0 .. m -> V] : Solves(f, 0 .. m, b, base, prev, comb)
<1> DEFINE A == {i \in Nat : \E f \in [0 .. i -> V] : Solves(f, 0 .. i, b, base, prev, comb)}
<1> USE DEF Descends
<1>1. 0 \in A
  <2> DEFINE f == [n \in 0 .. 0 |-> base[n]]
  <2>1. f \in [0 .. 0 -> V]
    OBVIOUS
  <2>2. Solves(f, 0 .. 0, b, base, prev, comb)
    BY DEF Solves
  <2> QED
    BY <2>1, <2>2
<1>2. ASSUME NEW i \in Nat, i \in A
      PROVE  i + 1 \in A
  <2>1. PICK f \in [0 .. i -> V] : Solves(f, 0 .. i, b, base, prev, comb)
    BY <1>2
  <2>2. PICK x \in V : x = IF i + 1 < b THEN base[i + 1] ELSE comb[<<i + 1, f[prev[i + 1]]>>]
    <3>1. base[i + 1] \in V
      OBVIOUS
    <3>2. i + 1 >= b => comb[<<i + 1, f[prev[i + 1]]>>] \in V
      <4>1. i + 1 >= b => prev[i + 1] \in 0 .. i
        OBVIOUS
      <4>2. i + 1 >= b => f[prev[i + 1]] \in V
        BY <4>1
      <4>3. ASSUME NEW v \in V, NEW j \in Nat
            PROVE  comb[<<j, v>>] \in V
        <5>1. <<j, v>> \in Nat \X V
          OBVIOUS
        <5> QED
          BY <5>1, Zenon
      <4>4. i + 1 \in Nat
        OBVIOUS
      <4> QED
        BY <4>2, <4>3, <4>4, Zenon
    <3>3. ~ (i + 1 < b) => i + 1 >= b
      OBVIOUS
    <3> QED
      BY <3>1, <3>2, <3>3, Zenon
  <2> DEFINE g == [n \in 0 .. i + 1 |-> IF n = i + 1 THEN x ELSE f[n]]
  <2>3. \A n \in 0 .. i + 1 : n # i + 1 => n \in 0 .. i
    OBVIOUS
  <2>4. g \in [0 .. i + 1 -> V] /\ \A n \in 0 .. i : g[n] = f[n]
    BY <2>3
  <2>5. ASSUME NEW n \in 0 .. i + 1
        PROVE  g[n] = IF n < b THEN base[n] ELSE comb[<<n, g[prev[n]]>>]
    <3>1. n >= b => prev[n] \in 0 .. i
      OBVIOUS
    <3>2. n >= b => g[prev[n]] = f[prev[n]]
      BY <2>4, <3>1
    <3>3. ~ (n < b) => n >= b
      OBVIOUS
    <3>4. CASE n = i + 1
      <4>1. g[n] = x
        BY <3>4
      <4> HIDE DEF g
      <4> QED
        BY <2>2, <3>2, <3>3, <3>4, <4>1, Zenon
    <3>5. CASE n # i + 1
      <4>1. n \in 0 .. i /\ g[n] = f[n]
        BY <2>3, <2>4, <3>5
      <4>2. f[n] = IF n < b THEN base[n] ELSE comb[<<n, f[prev[n]]>>]
        BY <2>1, <4>1 DEF Solves
      <4> HIDE DEF g
      <4> QED
        BY <3>2, <3>3, <4>1, <4>2, Zenon
    <3> QED
      BY <3>4, <3>5
  <2> HIDE DEF g
  <2>6. Solves(g, 0 .. i + 1, b, base, prev, comb)
    BY <2>5 DEF Solves
  <2> QED
    BY <2>4, <2>6
<1> HIDE DEF A
<1>3. Nat \subseteq A
  BY <1>1, <1>2, SetInduction
<1> QED
  BY <1>3 DEF A

LEMMA SolutionExists ==
  ASSUME NEW V, NEW b \in Nat, b > 0, NEW base \in [Nat -> V], NEW comb \in [Nat \X V -> V],
         NEW prev, Descends(prev, b)
  PROVE  \E f \in [Nat -> V] : Solves(f, Nat, b, base, prev, comb)
<1> DEFINE UpTo(f, m) == f \in [0 .. m -> V] /\ Solves(f, 0 .. m, b, base, prev, comb)
           part(m) == CHOOSE f : UpTo(f, m)
           h == [n \in Nat |-> part(n)[n]]
<1>1. ASSUME NEW m \in Nat
      PROVE  UpTo(part(m), m)
  <2>1. \E f : UpTo(f, m)
    BY SolutionUpTo
  <2> QED
    BY <2>1, Zenon
<1> HIDE DEF part
<1>2. h \in [Nat -> V]
  <2> SUFFICES ASSUME NEW n \in Nat
               PROVE  part(n)[n] \in V
    OBVIOUS
  <2>1. part(n) \in [0 .. n -> V] /\ n \in 0 .. n
    BY <1>1
  <2> QED
    BY <2>1
<1>3. ASSUME NEW n \in Nat
      PROVE  h[n] = IF n < b THEN base[n] ELSE comb[<<n, h[prev[n]]>>]
  <2>1. h[n] = part(n)[n] /\ n \in 0 .. n
    OBVIOUS
  <2>2. part(n)[n] = IF n < b THEN base[n] ELSE comb[<<n, part(n)[prev[n]]>>]
    BY <1>1, <2>1 DEF Solves
  <2>3. CASE n < b
    BY <2>1, <2>2, <2>3
  <2>4. CASE ~ (n < b)
    <3>1. PICK k \in Nat : k = prev[n] /\ k < n
      BY <2>4 DEF Descends
    <3>2. h[k] = part(k)[k]
      OBVIOUS
    <3>3. /\ Solves(part(k), 0 .. k, b, base, prev, comb)
          /\ Solves(part(n), 0 .. n, b, base, prev, comb)
      BY <1>1
    <3>4. part(k)[k] = part(n)[k]
      <4>1. PICK f1, f2 : f1 = part(k) /\ f2 = part(n)
        OBVIOUS
      <4>2. \A i \in Nat : i <= k /\ i <= n => f1[i] = f2[i]
        <5>1. /\ Solves(f1, 0 .. k, b, base, prev, comb)
              /\ Solves(f2, 0 .. n, b, base, prev, comb)
          BY <3>3, <4>1, Zenon
        <5> HIDE DEF h
        <5> QED
          BY <5>1, SolutionUnique
      <4>3. k <= k /\ k <= n
        BY <3>1
      <4> QED
        BY <4>1, <4>2, <4>3
    <3> HIDE DEF h
    <3> QED
      BY <2>1, <2>2, <2>4, <3>1, <3>2, <3>4
  <2> QED
    BY <2>3, <2>4
<1> HIDE DEF h
<1>4. Solves(h, Nat, b, base, prev, comb)
  BY <1>3 DEF Solves
<1> QED
  BY <1>2, <1>4

-----------------------------------------------------------------------------
(* The remaining length.                                                   *)

LEMMA DivMod ==
  ASSUME NEW n \in Nat
  PROVE  /\ n \div Base \in Nat /\ n % Base \in 0 .. Base - 1
         /\ n = (Base * (n \div Base)) + (n % Base)
         /\ n >= Base => n \div Base < n /\ n \div Base > 0
<1>1. Base \in Nat /\ Base >= 2
  BY PacketIOAssumption
<1>2. PICK b \in Nat : b = Base /\ b >= 2
  BY <1>1
<1>3. n \div b \in Nat /\ n % b \in 0 .. b - 1 /\ n = (b * (n \div b)) + (n % b)
  BY <1>2
<1>4. ASSUME NEW q \in Nat, NEW r \in 0 .. b - 1, n = (b * q) + r, n >= b
      PROVE  q < n /\ q > 0
  <2>1. q > 0
    <3>1. q = 0 => b * q = 0
      OBVIOUS
    <3> QED
      BY <1>2, <1>4, <3>1
  <2>2. b * q >= 2 * q
    BY <1>2
  <2> QED
    BY <1>4, <2>1, <2>2
<1> QED
  BY <1>2, <1>3, <1>4

LEMMA ByteDigit ==
  ASSUME NEW n \in Nat
  PROVE  Base + (n % Base) \in Byte
<1>1. Base \in Nat /\ Base > 0
  BY PacketIOAssumption
<1> QED
  BY <1>1, DivMod DEF Byte

LEMMA DigitsDefined ==
  /\ Digits \in [Nat -> Seq(Byte)]
  /\ \A n \in Nat :
       Digits[n] = IF n < Base THEN <<n>> ELSE <<Base + (n % Base)>> \o Digits[n \div Base]
<1> DEFINE V == Seq(Byte)
           base == [n \in Nat |-> IF n < Base THEN <<n>> ELSE <<>>]
           comb == [x \in Nat \X V |-> <<Base + (x[1] % Base)>> \o x[2]]
           prev == [n \in Nat |-> n \div Base]
           Is(g) == g = [n \in Nat |-> IF n < Base THEN <<n>>
                                       ELSE <<Base + (n % Base)>> \o g[n \div Base]]
<1>1. Base \in Nat /\ Base > 0
  BY PacketIOAssumption
<1>2. base \in [Nat -> V]
  <2>1. ASSUME NEW n \in Nat
        PROVE  (IF n < Base THEN <<n>> ELSE <<>>) \in Seq(Byte)
    <3>1. n < Base => n \in Byte
      BY <1>1 DEF Byte
    <3>2. <<>> \in Seq(Byte) /\ (n \in Byte => <<n>> \in Seq(Byte))
      OBVIOUS
    <3> QED
      BY <3>1, <3>2
  <2> QED
    BY <2>1
<1>3. ASSUME NEW n \in Nat, NEW v \in V
      PROVE  <<Base + (n % Base)>> \o v \in V
  <2>1. Base + (n % Base) \in Byte
    BY ByteDigit
  <2>2. <<Base + (n % Base)>> \in Seq(Byte)
    BY <2>1
  <2> QED
    BY <2>2
<1>4. comb \in [Nat \X V -> V]
  <2> SUFFICES ASSUME NEW x \in Nat \X V
               PROVE  <<Base + (x[1] % Base)>> \o x[2] \in V
    BY Zenon
  <2>1. x[1] \in Nat /\ x[2] \in V
    OBVIOUS
  <2> QED
    BY <1>3, <2>1, Zenon
<1>5. Descends(prev, Base)
  <2>1. \A n \in Nat : n \div Base \in Nat /\ (n >= Base => n \div Base < n)
    BY DivMod
  <2> QED
    BY <2>1 DEF Descends
<1>6. ASSUME NEW n \in Nat, NEW v \in V
      PROVE  comb[<<n, v>>] = <<Base + (n % Base)>> \o v
  <2>1. <<n, v>> \in Nat \X V /\ <<n, v>>[1] = n /\ <<n, v>>[2] = v
    OBVIOUS
  <2> QED
    BY <2>1, Zenon
<1> HIDE DEF V, comb
<1>7. PICK f \in [Nat -> V] : Solves(f, Nat, Base, base, prev, comb)
  <2> HIDE DEF base, prev
  <2> QED
    BY <1>1, <1>2, <1>4, <1>5, SolutionExists
<1>8. ASSUME NEW n \in Nat
      PROVE  f[n] = IF n < Base THEN <<n>> ELSE <<Base + (n % Base)>> \o f[n \div Base]
  <2>1. n \div Base \in Nat
    BY DivMod
  <2>2. f[n] = IF n < Base THEN base[n] ELSE comb[<<n, f[prev[n]]>>]
    BY <1>7, Zenon DEF Solves
  <2>3. n < Base => base[n] = <<n>>
    BY Zenon
  <2>4. prev[n] = n \div Base
    BY Zenon
  <2>5. comb[<<n, f[n \div Base]>>] = <<Base + (n % Base)>> \o f[n \div Base]
    BY <1>6, <1>7, <2>1, Zenon
  <2> HIDE DEF base, prev
  <2> QED
    BY <2>2, <2>3, <2>4, <2>5, Zenon
<1>9. Is(f)
  BY <1>7, <1>8, Zenon
<1>10. Is(CHOOSE g : Is(g))
  BY <1>9, Zenon
<1>11. Is(Digits)
  BY <1>10, Zenon DEF Digits
<1>12. \A n \in Nat :
       Digits[n] = IF n < Base THEN <<n>> ELSE <<Base + (n % Base)>> \o Digits[n \div Base]
  BY <1>11, Zenon
<1>13. ASSUME NEW n \in Nat, Digits[n] # f[n]
       PROVE  FALSE
  <2> DEFINE A == {i \in Nat : Digits[i] # f[i]}
  <2>1. PICK m \in A : \A j \in A : m <= j
    <3>1. A # {}
      BY <1>13
    <3> HIDE DEF A
    <3>2. A \subseteq Nat
      BY DEF A
    <3> QED
      BY <3>1, <3>2, LeastElement
  <2>2. m \in Nat /\ Digits[m] # f[m]
    BY <2>1
  <2>3. ~ (m < Base)
    BY <1>8, <1>12, <2>2, Zenon
  <2>4. PICK p \in Nat : p = m \div Base /\ p < m
    BY <1>1, <2>2, <2>3, DivMod
  <2>5. ~ (m <= p)
    BY <2>2, <2>4
  <2>6. Digits[p] = f[p]
    BY <2>1, <2>4, <2>5, Zenon
  <2> QED
    BY <1>8, <1>12, <2>2, <2>4, <2>6, Zenon
<1>14. Digits = f
  <2>1. Digits = [n \in Nat |-> Digits[n]]
    BY <1>11, Zenon
  <2>2. \A n \in Nat : Digits[n] = f[n]
    BY <1>13, Zenon
  <2> HIDE DEF Is
  <2> QED
    BY <2>1, <2>2, Zenon
<1> QED
  BY <1>12, <1>14, Zenon DEF V

LEMMA PowerDefined ==
  /\ Power \in [Nat -> Nat]
  /\ \A n \in Nat : Power[n] = IF n = 0 THEN 1 ELSE Base * Power[n - 1]
<1> DEFINE base == [n \in Nat |-> 1]
           comb == [x \in Nat \X Nat |-> Base * x[2]]
           prev == [n \in Nat |-> IF n = 0 THEN 0 ELSE n - 1]
           Is(g) == g = [n \in Nat |-> IF n = 0 THEN 1 ELSE Base * g[n - 1]]
<1>1. Base \in Nat
  BY PacketIOAssumption
<1>2. base \in [Nat -> Nat] /\ comb \in [Nat \X Nat -> Nat]
  <2>1. \A x \in Nat \X Nat : Base * x[2] \in Nat
    BY <1>1
  <2> QED
    BY <2>1
<1>3. Descends(prev, 1)
  BY DEF Descends
<1>4. ASSUME NEW n \in Nat, NEW v \in Nat
      PROVE  comb[<<n, v>>] = Base * v
  <2>1. <<n, v>> \in Nat \X Nat /\ <<n, v>>[2] = v
    OBVIOUS
  <2> QED
    BY <2>1, Zenon
<1> HIDE DEF comb
<1>5. PICK f \in [Nat -> Nat] : Solves(f, Nat, 1, base, prev, comb)
  <2>1. PICK V : V = Nat
    OBVIOUS
  <2>2. base \in [Nat -> V] /\ comb \in [Nat \X V -> V]
    BY <1>2, <2>1, Zenon
  <2>3. PICK b \in Nat : b = 1 /\ b > 0
    OBVIOUS
  <2>4. Descends(prev, b)
    BY <1>3, <2>3, Zenon
  <2> HIDE DEF base, prev
  <2>5. \E f \in [Nat -> V] : Solves(f, Nat, b, base, prev, comb)
    BY <2>2, <2>3, <2>4, SolutionExists
  <2> QED
    BY <2>1, <2>3, <2>5, Zenon
<1>6. ASSUME NEW n \in Nat
      PROVE  f[n] = IF n = 0 THEN 1 ELSE Base * f[n - 1]
  <2>1. f[n] = IF n < 1 THEN base[n] ELSE comb[<<n, f[prev[n]]>>]
    BY <1>5, Zenon DEF Solves
  <2>2. CASE n = 0
    BY <2>1, <2>2
  <2>3. CASE n # 0
    <3>1. PICK p \in Nat : p = n - 1 /\ p = prev[n]
      BY <2>3
    <3>2. f[n] = comb[<<n, f[p]>>] /\ f[p] \in Nat
      <4> HIDE DEF base, prev
      <4>1. ~ (n < 1)
        BY <2>3
      <4>2. f[p] \in Nat
        BY <1>5
      <4> QED
        BY <2>1, <3>1, <4>1, <4>2, Zenon
    <3>3. f[n] = Base * f[p]
      BY <1>4, <3>2, Zenon
    <3> QED
      BY <2>3, <3>1, <3>3, Zenon
  <2> QED
    BY <2>2, <2>3
<1>7. Is(f)
  BY <1>5, <1>6, Zenon
<1>8. Is(CHOOSE g : Is(g))
  BY <1>7, Zenon
<1>9. Is(Power)
  BY <1>8, Zenon DEF Power
<1>10. \A n \in Nat : Power[n] = IF n = 0 THEN 1 ELSE Base * Power[n - 1]
  BY <1>9, Zenon
<1>11. ASSUME NEW n \in Nat, Power[n] # f[n]
       PROVE  FALSE
  <2> DEFINE A == {i \in Nat : Power[i] # f[i]}
  <2>1. PICK m \in A : \A j \in A : m <= j
    <3>1. A # {}
      BY <1>11
    <3> HIDE DEF A
    <3>2. A \subseteq Nat
      BY DEF A
    <3> QED
      BY <3>1, <3>2, LeastElement
  <2>2. m \in Nat /\ Power[m] # f[m]
    BY <2>1
  <2>3. m # 0
    BY <1>6, <1>10, <2>2, Zenon
  <2>4. PICK p \in Nat : p = m - 1 /\ ~ (m <= p)
    BY <2>2, <2>3
  <2>5. Power[p] = f[p]
    BY <2>1, <2>4, Zenon
  <2> QED
    BY <1>6, <1>10, <2>2, <2>3, <2>4, <2>5, Zenon
<1>12. Power = f
  <2>1. Power = [n \in Nat |-> Power[n]]
    BY <1>9, Zenon
  <2>2. \A n \in Nat : Power[n] = f[n]
    BY <1>11, Zenon
  <2> HIDE DEF Is
  <2> QED
    BY <2>1, <2>2, Zenon
<1> QED
  BY <1>10, <1>12, Zenon

LEMMA PowerFacts ==
  ASSUME NEW n \in Nat
  PROVE  Power[n] \in Nat /\ Power[n] > 0 /\ Power[n + 1] = Base * Power[n] /\ Power[0] = 1
<1> DEFINE A == {i \in Nat : Power[i] > 0}
<1>1. Base \in Nat /\ Base > 0
  BY PacketIOAssumption
<1>2. ASSUME NEW i \in Nat
      PROVE  Power[i] \in Nat /\ Power[i + 1] = Base * Power[i]
  <2>1. i + 1 \in Nat /\ i + 1 # 0 /\ (i + 1) - 1 = i
    OBVIOUS
  <2>2. Power[i + 1] = Base * Power[(i + 1) - 1]
    BY <2>1, PowerDefined, Zenon
  <2> QED
    BY <2>1, <2>2, PowerDefined
<1>3. Power[0] = 1
  BY PowerDefined
<1>4. ASSUME NEW i \in Nat, i \in A
      PROVE  i + 1 \in A
  <2>1. PICK v \in Nat : v = Power[i] /\ v > 0
    BY <1>2, <1>4
  <2>2. Base * v > 0
    BY <1>1, <2>1
  <2> QED
    BY <1>2, <2>1, <2>2
<1>5. 0 \in A
  BY <1>3
<1> HIDE DEF A
<1>6. Nat \subseteq A
  BY <1>4, <1>5, SetInduction
<1> QED
  BY <1>2, <1>3, <1>6 DEF A

LEMMA DigitsFacts ==
  ASSUME NEW n \in Nat
  PROVE  /\ Digits[n] \in Seq(Byte) /\ Digits[n] # <<>>
         /\ n < Base => Digits[n] = <<n>>
         /\ n >= Base => Digits[n] = <<Base + (n % Base)>> \o Digits[n \div Base]
<1>1. Base \in Nat /\ n \div Base \in Nat
  BY PacketIOAssumption, DivMod
<1>2. Digits[n] \in Seq(Byte) /\ Digits[n \div Base] \in Seq(Byte)
  BY <1>1, DigitsDefined, Zenon
<1>3. n < Base => Digits[n] = <<n>>
  BY <1>1, DigitsDefined, Zenon
<1>4. n >= Base => Digits[n] = <<Base + (n % Base)>> \o Digits[n \div Base]
  <2>1. n >= Base => ~ (n < Base)
    BY <1>1
  <2> QED
    BY <1>1, <2>1, DigitsDefined, Zenon
<1>5. n < Base \/ n >= Base
  BY <1>1
<1>6. <<n>> # <<>>
  OBVIOUS
<1>7. <<Base + (n % Base)>> \o Digits[n \div Base] # <<>>
  <2>1. PICK d \in Seq(Byte) : d = Digits[n \div Base]
    BY <1>2
  <2>2. PICK h \in Byte : h = Base + (n % Base)
    <3>1. Base + (n % Base) \in Byte
      BY ByteDigit
    <3> QED
      BY <3>1, Zenon
  <2>3. <<h>> \o d # <<>>
    OBVIOUS
  <2> QED
    BY <2>1, <2>2, <2>3
<1> QED
  BY <1>2, <1>3, <1>4, <1>5, <1>6, <1>7, Zenon

\* A length of at most d digits is below Base to the power of d.
LEMMA LengthBounded ==
  ASSUME NEW d \in Nat, NEW n \in Nat, Len(Digits[n]) <= d
  PROVE  n < Power[d]
<1> DEFINE A == {i \in Nat : \A m \in Nat : Len(Digits[m]) <= i => m < Power[i]}
<1>1. Base \in Nat /\ Base > 1
  BY PacketIOAssumption
<1>2. 0 \in A
  <2> SUFFICES ASSUME NEW m \in Nat
               PROVE  ~ (Len(Digits[m]) <= 0)
    OBVIOUS
  <2>1. PICK s \in Seq(Byte) : s = Digits[m] /\ s # <<>>
    BY DigitsFacts
  <2>2. Len(s) \in Nat /\ Len(s) # 0
    BY <2>1, EmptySeq
  <2> QED
    BY <2>1, <2>2
<1>3. ASSUME NEW i \in Nat, i \in A, NEW m \in Nat, Len(Digits[m]) <= i + 1
      PROVE  m < Power[i + 1]
  <2>1. PICK w \in Nat : w = Power[i] /\ w > 0 /\ Power[i + 1] = Base * w
    BY PowerFacts
  <2>2. CASE m < Base
    <3>1. Base * w >= Base
      BY <1>1, <2>1
    <3> QED
      BY <1>1, <2>1, <2>2, <3>1
  <2>3. CASE ~ (m < Base)
    <3>1. PICK q \in Nat : q = m \div Base
      BY DivMod
    <3>2. PICK r \in 0 .. Base - 1 : r = m % Base /\ m = (Base * q) + r
      <4>1. m % Base \in 0 .. Base - 1 /\ m = (Base * q) + (m % Base)
        BY <3>1, DivMod
      <4> QED
        BY <4>1, Zenon
    <3>3. PICK h \in Byte : h = Base + (m % Base)
      BY ByteDigit, Zenon
    <3>4. PICK s \in Seq(Byte) : s = Digits[q] /\ Digits[m] = <<h>> \o s
      <4>1. m >= Base
        BY <1>1, <2>3
      <4>2. Digits[q] \in Seq(Byte)
        BY DigitsFacts
      <4>3. Digits[m] = <<Base + (m % Base)>> \o Digits[m \div Base]
        BY <4>1, DigitsFacts
      <4> QED
        BY <3>1, <3>3, <4>2, <4>3, Zenon
    <3>5. Len(s) \in Nat /\ Len(<<h>> \o s) = Len(s) + 1
      OBVIOUS
    <3>6. Len(Digits[q]) <= i
      BY <1>3, <3>4, <3>5
    <3>7. q < w
      BY <1>3, <2>1, <3>6
    <3>8. Base * q + Base <= Base * w
      BY <1>1, <3>7
    <3> QED
      BY <1>1, <2>1, <3>2, <3>8
  <2> QED
    BY <2>2, <2>3
<1>4. \A i \in Nat : i \in A => i + 1 \in A
  BY <1>3
<1> HIDE DEF A
<1>5. Nat \subseteq A
  BY <1>2, <1>4, SetInduction
<1> QED
  BY <1>5 DEF A

-----------------------------------------------------------------------------
(* Packets as bytes.                                                       *)

LEMMA EncodeBytes ==
  ASSUME NEW p \in Packet
  PROVE  /\ p.command \in Byte /\ p.payload \in Seq(Byte) /\ Len(p.payload) \in Nat
         /\ Digits[Len(p.payload)] \in Seq(Byte)
         /\ Encode(p) \in Seq(Byte) /\ Len(Encode(p)) \in Nat \ {0}
<1>1. p.command \in Byte /\ p.payload \in Seq(Byte)
  BY DEF Packet
<1>2. PICK d \in Seq(Byte) : d = Digits[Len(p.payload)]
  <2>1. PICK s \in Seq(Byte) : s = p.payload
    BY <1>1
  <2>2. Len(s) \in Nat
    OBVIOUS
  <2>3. Digits[Len(s)] \in Seq(Byte)
    BY <2>2, DigitsFacts
  <2> QED
    BY <2>1, <2>3
<1>3. PICK c \in Byte, y \in Seq(Byte) : c = p.command /\ y = p.payload
  BY <1>1
<1>4. PICK e \in Seq(Byte) : e = <<c>> \o d \o y
  <2>1. <<c>> \o d \o y \in Seq(Byte)
    OBVIOUS
  <2> QED
    BY <2>1, Zenon
<1>5. Len(e) # 0 /\ Len(e) \in Nat
  BY <1>4
<1>6. Encode(p) = e
  BY <1>2, <1>3, <1>4, Zenon DEF Encode
<1>7. Len(y) \in Nat
  OBVIOUS
<1> QED
  BY <1>1, <1>2, <1>3, <1>4, <1>5, <1>6, <1>7

LEMMA EncodeAllEmpty == EncodeAll(<<>>) = <<>>
<1>1. [i \in DOMAIN <<>> |-> Encode(<<>>[i])] = <<>>
  OBVIOUS
<1> QED
  BY <1>1, FlattenEmpty DEF EncodeAll

LEMMA EncodeAllAppend ==
  ASSUME NEW s \in Seq(Packet), NEW p \in Packet
  PROVE  /\ EncodeAll(s) \in Seq(Byte)
         /\ EncodeAll(Append(s, p)) = EncodeAll(s) \o Encode(p)
<1> DEFINE B(q) == [i \in DOMAIN q |-> Encode(q[i])]
<1>1. ASSUME NEW q \in Seq(Packet)
      PROVE  B(q) \in Seq(Seq(Byte)) /\ Len(B(q)) = Len(q) /\ Len(q) \in Nat
  <2>1. Len(q) \in Nat /\ DOMAIN q = 1 .. Len(q) /\ \A i \in 1 .. Len(q) : q[i] \in Packet
    OBVIOUS
  <2>2. \A i \in 1 .. Len(q) : Encode(q[i]) \in Seq(Byte)
    BY <2>1, EncodeBytes
  <2>3. B(q) = [i \in 1 .. Len(q) |-> Encode(q[i])]
    BY <2>1
  <2> QED
    BY <2>1, <2>2, <2>3
<1>2. /\ Append(s, p) \in Seq(Packet) /\ Len(Append(s, p)) = Len(s) + 1
      /\ Append(s, p)[Len(s) + 1] = p
      /\ \A i \in 1 .. Len(s) : Append(s, p)[i] = s[i]
  BY AppendProperties
<1>3. PICK b \in Seq(Seq(Byte)), e \in Seq(Byte) : b = B(s) /\ e = Encode(p)
  <2>1. B(s) \in Seq(Seq(Byte)) /\ Encode(p) \in Seq(Byte)
    BY <1>1, EncodeBytes
  <2> QED
    BY <2>1, Zenon
<1>4. B(Append(s, p)) = Append(b, e)
  <2>1. PICK a \in Seq(Seq(Byte)), t \in Seq(Packet) : a = B(t) /\ t = Append(s, p)
    <3>1. B(Append(s, p)) \in Seq(Seq(Byte))
      BY <1>1, <1>2
    <3> QED
      BY <1>2, <3>1, Zenon
  <2>2. /\ Append(b, e) \in Seq(Seq(Byte)) /\ Len(Append(b, e)) = Len(b) + 1
        /\ Append(b, e)[Len(b) + 1] = e /\ Len(b) \in Nat
        /\ \A i \in 1 .. Len(b) : Append(b, e)[i] = b[i]
    BY AppendProperties
  <2>3. Len(a) = Len(s) + 1 /\ Len(b) = Len(s)
    BY <1>1, <1>2, <1>3, <2>1
  <2>4. ASSUME NEW i \in 1 .. Len(s) + 1
        PROVE  a[i] = Append(b, e)[i]
    <3>1. Len(s) \in Nat
      OBVIOUS
    <3>2. a[i] = Encode(t[i])
      <4>1. i \in DOMAIN t
        BY <1>2, <2>1, <3>1
      <4> QED
        BY <2>1, <4>1
    <3>3. CASE i = Len(s) + 1
      <4>1. t[i] = p
        BY <1>2, <2>1, <3>3
      <4>2. Append(b, e)[i] = e
        BY <2>2, <2>3, <3>3
      <4> QED
        BY <1>3, <3>2, <4>1, <4>2
    <3>4. CASE i # Len(s) + 1
      <4>1. i \in 1 .. Len(s) /\ i \in DOMAIN s
        BY <3>1, <3>4
      <4>2. t[i] = s[i]
        BY <1>2, <2>1, <4>1
      <4>3. b[i] = Encode(s[i])
        BY <1>3, <4>1
      <4>4. Append(b, e)[i] = b[i]
        BY <2>2, <2>3, <4>1
      <4> QED
        BY <3>2, <4>2, <4>3, <4>4
    <3> QED
      BY <3>3, <3>4
  <2>5. PICK c \in Seq(Seq(Byte)) : c = Append(b, e)
    BY <2>2
  <2>6. a = c
    BY <2>2, <2>3, <2>4, <2>5, SeqEqual
  <2> QED
    BY <2>1, <2>5, <2>6
<1>5. FlattenSeq(b) \in Seq(Byte) /\ FlattenSeq(Append(b, e)) = FlattenSeq(b) \o e
  BY FlattenAppend
<1>6. EncodeAll(s) = FlattenSeq(b) /\ EncodeAll(Append(s, p)) = FlattenSeq(Append(b, e))
  BY <1>3, <1>4, Zenon DEF EncodeAll
<1> QED
  BY <1>3, <1>5, <1>6

LEMMA BytesAssociative ==
  \A s, t, u \in Seq(Byte) : (s \o t) \o u = s \o (t \o u)
<1> SUFFICES ASSUME NEW s \in Seq(Byte), NEW t \in Seq(Byte), NEW u \in Seq(Byte)
             PROVE  (s \o t) \o u = s \o (t \o u)
  BY Zenon
<1> QED
  BY ConcatAssociative

FourParts(s, t, u, v) == s \o ((t \o u) \o v) = (s \o t) \o (u \o v)

LEMMA FourPartsJoin ==
  ASSUME NEW s \in Seq(Byte), NEW t \in Seq(Byte), NEW u \in Seq(Byte), NEW v \in Seq(Byte)
  PROVE  FourParts(s, t, u, v)
<1>1. u \o v \in Seq(Byte)
  BY ConcatProperties
<1>2. (t \o u) \o v = t \o (u \o v)
  BY BytesAssociative
<1>3. (s \o t) \o (u \o v) = s \o (t \o (u \o v))
  BY <1>1, BytesAssociative
<1> QED
  BY <1>2, <1>3, Zenon DEF FourParts

LastPart(s, t, u, v) == (s \o (t \o u)) \o v = s \o (t \o (u \o v))

LEMMA LastPartJoins ==
  ASSUME NEW s \in Seq(Byte), NEW t \in Seq(Byte), NEW u \in Seq(Byte), NEW v \in Seq(Byte)
  PROVE  LastPart(s, t, u, v)
<1>1. t \o u \in Seq(Byte)
  BY ConcatProperties
<1>2. (t \o u) \o v = t \o (u \o v)
  BY BytesAssociative
<1>3. (s \o (t \o u)) \o v = s \o ((t \o u) \o v)
  BY <1>1, BytesAssociative
<1> QED
  BY <1>2, <1>3, Zenon DEF LastPart

LastElement(s, t, x) == Append(s \o t, x) = s \o Append(t, x)

LEMMA LastElementJoins ==
  ASSUME NEW S, NEW s \in Seq(S), NEW t \in Seq(S), NEW x \in S
  PROVE  LastElement(s, t, x)
<1>1. PICK st \in Seq(S), one \in Seq(S) : st = s \o t /\ one = <<x>>
  <2>1. s \o t \in Seq(S) /\ <<x>> \in Seq(S)
    BY ConcatProperties
  <2> QED
    BY <2>1, Zenon
<1>2. Append(st, x) = st \o one /\ Append(t, x) = t \o one
  BY <1>1, AppendIsConcat
<1>3. (s \o t) \o one = s \o (t \o one)
  BY ConcatAssociative
<1> QED
  BY <1>1, <1>2, <1>3, Zenon DEF LastElement

LEMMA EncodeAllOne ==
  ASSUME NEW p \in Packet
  PROVE  EncodeAll(<<p>>) = Encode(p)
<1>1. <<>> \in Seq(Packet) /\ Append(<<>>, p) = <<p>>
  OBVIOUS
<1>2. EncodeAll(<<p>>) = <<>> \o Encode(p)
  BY <1>1, EncodeAllAppend, EncodeAllEmpty
<1>3. Encode(p) \in Seq(Byte)
  BY EncodeBytes
<1> QED
  BY <1>2, <1>3, ConcatEmptySeq

LEMMA EncodeAllConcat ==
  ASSUME NEW s \in Seq(Packet), NEW t \in Seq(Packet)
  PROVE  /\ EncodeAll(s) \in Seq(Byte) /\ EncodeAll(t) \in Seq(Byte)
         /\ EncodeAll(s \o t) = EncodeAll(s) \o EncodeAll(t)
<1> DEFINE Splits(u) == EncodeAll(s \o u) = EncodeAll(s) \o EncodeAll(u)
           A == {n \in Nat : \A u \in Seq(Packet) : Len(u) = n => Splits(u)}
<1>1. ASSUME NEW u \in Seq(Packet)
      PROVE  EncodeAll(u) \in Seq(Byte)
  <2>1. CASE u = <<>>
    BY <2>1, EncodeAllEmpty, EmptySeq
  <2>2. CASE u # <<>>
    <3>1. PICK v \in Seq(Packet), p \in Packet : u = Append(v, p)
      BY <2>2, SequenceEmptyOrAppend
    <3>2. EncodeAll(u) = EncodeAll(v) \o Encode(p) /\ EncodeAll(v) \in Seq(Byte)
      BY <3>1, EncodeAllAppend
    <3>3. Encode(p) \in Seq(Byte)
      BY EncodeBytes
    <3> QED
      BY <3>2, <3>3, ConcatProperties
  <2> QED
    BY <2>1, <2>2
<1>2. 0 \in A
  <2> SUFFICES ASSUME NEW u \in Seq(Packet), Len(u) = 0
               PROVE  Splits(u)
    OBVIOUS
  <2>1. u = <<>>
    BY EmptySeq
  <2>2. s \o u = s
    BY <2>1, ConcatEmptySeq
  <2>3. EncodeAll(s) \o <<>> = EncodeAll(s)
    BY <1>1, ConcatEmptySeq
  <2> QED
    BY <2>1, <2>2, <2>3, EncodeAllEmpty
<1>3. ASSUME NEW n \in Nat, n \in A, NEW u \in Seq(Packet), Len(u) = n + 1
      PROVE  Splits(u)
  <2>1. u # <<>>
    BY <1>3, EmptySeq
  <2>2. PICK v \in Seq(Packet), p \in Packet : u = Append(v, p)
    BY <2>1, SequenceEmptyOrAppend
  <2>3. Len(v) = n /\ Len(v) \in Nat
    BY <1>3, <2>2, AppendProperties, LenProperties
  <2>4. Splits(v)
    BY <1>3, <2>3
  <2>5. s \o u = Append(s \o v, p) /\ s \o v \in Seq(Packet)
    BY <2>2
  <2>6. PICK es \in Seq(Byte), ev \in Seq(Byte), e \in Seq(Byte) :
          es = EncodeAll(s) /\ ev = EncodeAll(v) /\ e = Encode(p)
    <3>1. EncodeAll(s) \in Seq(Byte) /\ EncodeAll(v) \in Seq(Byte) /\ Encode(p) \in Seq(Byte)
      BY <1>1, EncodeBytes
    <3> QED
      BY <3>1, Zenon
  <2>7. EncodeAll(s \o u) = EncodeAll(s \o v) \o Encode(p)
    BY <2>5, EncodeAllAppend
  <2>8. EncodeAll(u) = EncodeAll(v) \o Encode(p)
    BY <2>2, EncodeAllAppend
  <2>9. (es \o ev) \o e = es \o (ev \o e)
    BY BytesAssociative, Zenon
  <2> QED
    BY <2>4, <2>6, <2>7, <2>8, <2>9, Zenon
<1>4. \A n \in Nat : n \in A => n + 1 \in A
  BY <1>3
<1> HIDE DEF A
<1>5. Nat \subseteq A
  BY <1>2, <1>4, SetInduction
<1>6. Splits(t)
  <2>1. Len(t) \in Nat
    BY LenProperties
  <2> QED
    BY <1>5, <2>1 DEF A
<1> QED
  BY <1>1, <1>6

LEMMA PrefixConcat ==
  ASSUME NEW S, NEW s \in Seq(S), NEW t \in Seq(S)
  PROVE  IsPrefix(s, s \o t) /\ SubSeq(s \o t, 1, Len(s)) = s
<1>1. Len(s) \in Nat /\ Len(t) \in Nat /\ Len(s \o t) = Len(s) + Len(t) /\ s \o t \in Seq(S)
  BY LenProperties, ConcatProperties
<1>2. SubSeq(s, 1, Len(s)) = s
  BY SubSeqFull
<1>3. SubSeq(s \o t, 1, Len(s)) = SubSeq(s, 1, Len(s))
  <2>1. CASE Len(s) = 0
    <3>1. 0 < 1 /\ 1 \in Int /\ 0 \in Int
      OBVIOUS
    <3> QED
      BY <2>1, <3>1, SubSeqEmpty
  <2>2. CASE Len(s) # 0
    <3>1. 1 \in 1 .. Len(s) /\ Len(s) \in 1 .. Len(s)
      BY <1>1, <2>2
    <3> QED
      BY <3>1, SubSeqOfConcat1
  <2> QED
    BY <2>1, <2>2
<1>4. Len(s) <= Len(s \o t)
  BY <1>1
<1> QED
  BY <1>2, <1>3, <1>4, Zenon DEF IsPrefix

LEMMA SuffixConcat ==
  ASSUME NEW S, NEW s \in Seq(S), NEW t \in Seq(S)
  PROVE  SubSeq(s \o t, Len(s) + 1, Len(s \o t)) = t
<1>1. Len(s) \in Nat /\ Len(t) \in Nat /\ Len(s \o t) = Len(s) + Len(t) /\ s \o t \in Seq(S)
  BY LenProperties, ConcatProperties
<1>2. CASE Len(t) = 0
  <2>1. t = <<>>
    BY <1>2, EmptySeq
  <2>2. Len(s \o t) < Len(s) + 1 /\ Len(s \o t) \in Int /\ Len(s) + 1 \in Int
    BY <1>1, <1>2
  <2> QED
    BY <2>1, <2>2, SubSeqEmpty
<1>3. CASE Len(t) # 0
  <2>1. PICK m \in Len(s) + 1 .. Len(s) + Len(t), n \in Len(s) + 1 .. Len(s) + Len(t) :
          m = Len(s) + 1 /\ n = Len(s) + Len(t) /\ m - Len(s) = 1 /\ n - Len(s) = Len(t)
    BY <1>1, <1>3
  <2>2. SubSeq(s \o t, m, n) = SubSeq(t, m - Len(s), n - Len(s))
    BY SubSeqOfConcat2
  <2>3. SubSeq(t, 1, Len(t)) = t
    BY SubSeqFull
  <2> QED
    BY <1>1, <2>1, <2>2, <2>3
<1> QED
  BY <1>2, <1>3

LEMMA SubSeqSplit ==
  ASSUME NEW S, NEW s \in Seq(S), NEW j \in 0 .. Len(s), NEW l \in j .. Len(s)
  PROVE  /\ SubSeq(s, 1, j) \in Seq(S) /\ SubSeq(s, j + 1, l) \in Seq(S)
         /\ SubSeq(s, 1, j) \o SubSeq(s, j + 1, l) = SubSeq(s, 1, l)
<1>1. Len(s) \in Nat /\ \A i \in 1 .. Len(s) : s[i] \in S
  OBVIOUS
<1>2. PICK m \in 1 .. Len(s) + 1 : m = 1 /\ j \in m - 1 .. Len(s) /\ m \in Int /\ l \in Int
  BY <1>1
<1>3. SubSeq(s, m, j) \in Seq(S)
  <2>1. \A i \in m .. j : s[i] \in S
    BY <1>1, <1>2
  <2>2. m \in Int /\ j \in Int
    BY <1>2
  <2> QED
    BY <2>1, <2>2, SubSeqProperties
<1>4. SubSeq(s, j + 1, l) \in Seq(S)
  <2>1. \A i \in j + 1 .. l : s[i] \in S
    BY <1>1, <1>2
  <2>2. j + 1 \in Int
    OBVIOUS
  <2> QED
    BY <1>2, <2>1, <2>2, SubSeqProperties
<1>5. SubSeq(s, m, j) \o SubSeq(s, j + 1, l) = SubSeq(s, m, l)
  BY <1>2, ConcatAdjacentSubSeq
<1> QED
  BY <1>2, <1>3, <1>4, <1>5

LEMMA PrefixOfParts ==
  ASSUME NEW a \in Seq(Byte), NEW b \in Seq(Byte), NEW d \in Seq(Byte), NEW o \in Seq(Byte)
  PROVE  IsPrefix(a, a \o b) /\ IsPrefix(a \o b, a \o ((b \o d) \o o))
<1>1. a \o ((b \o d) \o o) = (a \o b) \o (d \o o)
  <2>1. FourParts(a, b, d, o)
    BY FourPartsJoin
  <2> QED
    BY <2>1 DEF FourParts
<1>2. PICK ab \in Seq(Byte), s \in Seq(Byte) : ab = a \o b /\ s = d \o o
  <2>1. a \o b \in Seq(Byte) /\ d \o o \in Seq(Byte)
    BY ConcatProperties
  <2> QED
    BY <2>1, Zenon
<1>3. IsPrefix(ab, ab \o s) /\ IsPrefix(a, a \o b)
  BY PrefixConcat
<1> QED
  BY <1>1, <1>2, <1>3, Zenon

LEMMA PrefixParts ==
  ASSUME NEW a \in Seq(Byte), NEW e \in Seq(Byte), NEW o \in Seq(Byte), NEW i \in 0 .. Len(e)
  PROVE  /\ IsPrefix(a, a \o SubSeq(e, 1, i))
         /\ IsPrefix(a \o SubSeq(e, 1, i), a \o (e \o o))
<1>1. PICK b \in Seq(Byte), d \in Seq(Byte) : b = SubSeq(e, 1, i) /\ e = b \o d
  <2>1. Len(e) \in i .. Len(e)
    BY LenProperties
  <2>2. /\ SubSeq(e, 1, i) \o SubSeq(e, i + 1, Len(e)) = SubSeq(e, 1, Len(e))
        /\ SubSeq(e, 1, i) \in Seq(Byte) /\ SubSeq(e, i + 1, Len(e)) \in Seq(Byte)
    BY <2>1, SubSeqSplit
  <2>3. SubSeq(e, 1, Len(e)) = e
    BY SubSeqFull
  <2> QED
    BY <2>2, <2>3, Zenon
<1>2. IsPrefix(a, a \o b) /\ IsPrefix(a \o b, a \o ((b \o d) \o o))
  BY PrefixOfParts
<1> QED
  BY <1>1, <1>2, Zenon

LEMMA PowerGrows ==
  ASSUME NEW j \in Nat, NEW k \in Nat, j <= k
  PROVE  Power[j] <= Power[k]
<1> DEFINE A == {i \in Nat : Power[j] <= Power[j + i]}
<1>1. Base \in Nat /\ Base > 0
  BY PacketIOAssumption
<1>2. 0 \in A
  BY PowerFacts
<1>3. ASSUME NEW i \in Nat, i \in A
      PROVE  i + 1 \in A
  <2>1. PICK v \in Nat : v = Power[j + i] /\ Power[(j + i) + 1] = Base * v
    BY PowerFacts
  <2>2. Base * v >= v
    BY <1>1
  <2>3. (j + i) + 1 = j + (i + 1)
    OBVIOUS
  <2>4. PICK w \in Nat : w = Power[j]
    BY PowerFacts
  <2>5. w <= Base * v
    BY <1>1, <1>3, <2>1, <2>2, <2>4
  <2> QED
    BY <2>1, <2>3, <2>4, <2>5
<1> HIDE DEF A
<1>4. Nat \subseteq A
  BY <1>2, <1>3, SetInduction
<1>5. k - j \in A /\ j + (k - j) = k
  BY <1>4
<1> QED
  BY <1>5 DEF A

LEMMA DigitAdded ==
  ASSUME NEW c \in Nat, NEW l \in Nat, NEW m \in Nat, m = Power[c], l < m, NEW byte \in Byte
  PROVE  /\ m * Base = Power[c + 1]
         /\ l + ((byte % Base) * m) \in Nat /\ l + ((byte % Base) * m) < m * Base
<1>1. PICK b \in Nat : b = Base /\ b > 0
  BY PacketIOAssumption
<1>2. byte \in Nat
  BY <1>1 DEF Byte
<1>3. PICK d \in Nat : d = byte % Base /\ d < b
  BY <1>1, <1>2, DivMod
<1>4. d * m + m <= m * b
  BY <1>3
<1>5. d * m \in Nat
  OBVIOUS
<1>6. l + (d * m) \in Nat /\ l + (d * m) < m * b
  BY <1>4, <1>5
<1>7. Power[c + 1] = Base * m
  BY PowerFacts
<1>8. b * m = m * b
  OBVIOUS
<1> QED
  BY <1>1, <1>3, <1>6, <1>7, <1>8

-----------------------------------------------------------------------------
(* The packets queued for a connection are those written, the one under    *)
(* way and those waiting; the bytes written are those of the first and the *)
(* beginning of the second.                                                *)

Framed(q, c, o, n, u, i) ==
  \E w \in Seq(Packet) :
    /\ q = w \o (c \o o)
    /\ n = Len(w)
    /\ \/ c = <<>> /\ u = EncodeAll(w)
       \/ \E p \in Packet :
            /\ c = <<p>>
            /\ i \in 0 .. Len(Encode(p)) - 1
            /\ u = EncodeAll(w) \o SubSeq(Encode(p), 1, i)

LEMMA PacketsAssociative ==
  \A s, t, u \in Seq(Packet) : (s \o t) \o u = s \o (t \o u)
<1> SUFFICES ASSUME NEW s \in Seq(Packet), NEW t \in Seq(Packet), NEW u \in Seq(Packet)
             PROVE  (s \o t) \o u = s \o (t \o u)
  BY Zenon
<1> QED
  BY ConcatAssociative

LEMMA FramedEnqueue ==
  ASSUME NEW q, NEW c \in Seq(Packet), NEW o \in Seq(Packet), NEW n, NEW u, NEW i,
         Framed(q, c, o, n, u, i), NEW x \in Seq(Packet)
  PROVE  Framed(q \o x, c, o \o x, n, u, i)
<1>1. PICK w \in Seq(Packet) :
        /\ q = w \o (c \o o)
        /\ n = Len(w)
        /\ \/ c = <<>> /\ u = EncodeAll(w)
           \/ \E p \in Packet :
                /\ c = <<p>>
                /\ i \in 0 .. Len(Encode(p)) - 1
                /\ u = EncodeAll(w) \o SubSeq(Encode(p), 1, i)
  BY Zenon DEF Framed
<1>2. c \o o \in Seq(Packet)
  BY ConcatProperties
<1>3. (w \o (c \o o)) \o x = w \o ((c \o o) \o x) /\ (c \o o) \o x = c \o (o \o x)
  BY <1>2, PacketsAssociative, Zenon
<1>4. q \o x = w \o (c \o (o \o x))
  BY <1>1, <1>3, Zenon
<1> QED
  BY <1>1, <1>4, Zenon DEF Framed

LEMMA SubSeqNone ==
  ASSUME NEW s
  PROVE  SubSeq(s, 1, 0) = <<>>
<1>1. 0 < 1 /\ 1 \in Int /\ 0 \in Int
  OBVIOUS
<1> QED
  BY <1>1, SubSeqEmpty

LEMMA FirstAndRest ==
  ASSUME NEW o \in Seq(Packet)
  PROVE  /\ First(o) \in Seq(Packet) /\ Rest(o) \in Seq(Packet) /\ Len(First(o)) <= 1
         /\ First(o) \o Rest(o) = o
         /\ First(o) = <<>> \/ \E p \in Packet : First(o) = <<p>>
<1>1. CASE o = <<>>
  BY <1>1 DEF First, Rest
<1>2. CASE o # <<>>
  <2>1. PICK h \in Packet, t \in Seq(Packet) : h = Head(o) /\ t = Tail(o)
    BY <1>2, HeadTailProperties
  <2>2. First(o) = <<h>> /\ Rest(o) = t
    BY <1>2, <2>1 DEF First, Rest
  <2>3. <<h>> \in Seq(Packet) /\ Len(<<h>>) = 1
    OBVIOUS
  <2>4. <<h>> \o t = o
    BY <1>2, <2>1
  <2> QED
    BY <2>2, <2>3, <2>4
<1> QED
  BY <1>1, <1>2

\* After the packets w, the next one is taken.
LEMMA FramedTake ==
  ASSUME NEW w \in Seq(Packet), NEW o \in Seq(Packet)
  PROVE  Framed(w \o o, First(o), Rest(o), Len(w), EncodeAll(w), 0)
<1>1. /\ First(o) \o Rest(o) = o
      /\ First(o) = <<>> \/ \E p \in Packet : First(o) = <<p>>
  BY FirstAndRest, Zenon
<1>2. ASSUME NEW p \in Packet
      PROVE  0 \in 0 .. Len(Encode(p)) - 1 /\ EncodeAll(w) = EncodeAll(w) \o SubSeq(Encode(p), 1, 0)
  <2>1. Len(Encode(p)) \in Nat \ {0}
    BY EncodeBytes
  <2>2. EncodeAll(w) \in Seq(Byte)
    BY EncodeAllConcat
  <2>3. EncodeAll(w) \o <<>> = EncodeAll(w)
    BY <2>2, ConcatEmptySeq
  <2>4. 0 \in 0 .. Len(Encode(p)) - 1
    BY <2>1
  <2>5. SubSeq(Encode(p), 1, 0) = <<>>
    BY SubSeqNone, Zenon
  <2> QED
    BY <2>3, <2>4, <2>5, Zenon
<1> QED
  BY <1>1, <1>2, Zenon DEF Framed

LEMMA FramedWrite ==
  ASSUME NEW q, NEW c, NEW o \in Seq(Packet), NEW n, NEW u, NEW i,
         Framed(q, c, o, n, u, i), c # <<>>,
         NEW k \in 1 .. Len(Encode(Head(c))) - i
  PROVE  LET e == Encode(Head(c))
             v == u \o SubSeq(e, i + 1, i + k)
         IN /\ i + k < Len(e) => Framed(q, c, o, n, v, i + k)
            /\ ~ (i + k < Len(e)) => Framed(q, First(o), Rest(o), n + 1, v, 0)
<1>1. PICK w \in Seq(Packet), p \in Packet :
        /\ q = w \o (c \o o)
        /\ n = Len(w)
        /\ c = <<p>>
        /\ i \in 0 .. Len(Encode(p)) - 1
        /\ u = EncodeAll(w) \o SubSeq(Encode(p), 1, i)
  BY Zenon DEF Framed
<1>2. PICK e \in Seq(Byte) : e = Encode(p) /\ e = Encode(Head(c)) /\ Len(e) \in Nat \ {0}
  <2>1. Head(c) = p
    BY <1>1
  <2>2. Encode(p) \in Seq(Byte) /\ Len(Encode(p)) \in Nat \ {0}
    BY EncodeBytes
  <2> QED
    BY <2>1, <2>2, Zenon
<1>3. PICK j \in 0 .. Len(e) - 1 : j = i
  BY <1>1, <1>2
<1>4. k \in 1 .. Len(e) - j
  BY <1>2, <1>3
<1>5. j + k \in 1 .. Len(e) /\ j + k \in Nat /\ j \in 0 .. Len(e) /\ j + k \in j .. Len(e)
  BY <1>2, <1>3, <1>4
<1>6. SubSeq(e, 1, j) \o SubSeq(e, j + 1, j + k) = SubSeq(e, 1, j + k)
  BY <1>5, SubSeqSplit
<1>7. PICK a \in Seq(Byte), b \in Seq(Byte), d \in Seq(Byte) :
        a = EncodeAll(w) /\ b = SubSeq(e, 1, j) /\ d = SubSeq(e, j + 1, j + k)
  <2>1. EncodeAll(w) \in Seq(Byte)
    BY EncodeAllConcat
  <2>2. SubSeq(e, 1, j) \in Seq(Byte) /\ SubSeq(e, j + 1, j + k) \in Seq(Byte)
    BY <1>5, SubSeqSplit
  <2> QED
    BY <2>1, <2>2, Zenon
<1>8. (a \o b) \o d = a \o (b \o d)
  BY BytesAssociative, Zenon
<1>9. u \o SubSeq(e, i + 1, i + k) = EncodeAll(w) \o SubSeq(e, 1, j + k)
  BY <1>1, <1>2, <1>3, <1>6, <1>7, <1>8, Zenon
<1>10. CASE j + k < Len(e)
  <2>1. j + k \in 0 .. Len(Encode(p)) - 1
    BY <1>2, <1>5, <1>10
  <2>2. Framed(q, c, o, n, EncodeAll(w) \o SubSeq(e, 1, j + k), j + k)
    BY <1>1, <1>2, <2>1, Zenon DEF Framed
  <2> QED
    BY <1>2, <1>3, <1>9, <1>10, <2>2, Zenon
<1>11. CASE ~ (j + k < Len(e))
  <2>1. j + k = Len(e) /\ SubSeq(e, 1, Len(e)) = e
    BY <1>2, <1>5, <1>11, SubSeqFull
  <2>2. PICK x \in Seq(Packet) : x = Append(w, p) /\ x = w \o <<p>> /\ Len(x) = Len(w) + 1
    <3>1. Append(w, p) \in Seq(Packet) /\ Len(Append(w, p)) = Len(w) + 1
      BY AppendProperties
    <3>2. Append(w, p) = w \o <<p>>
      BY AppendIsConcat
    <3> QED
      BY <3>1, <3>2, Zenon
  <2>3. EncodeAll(x) = EncodeAll(w) \o Encode(p)
    BY <2>2, EncodeAllAppend
  <2>4. q = x \o o
    <3>1. <<p>> \in Seq(Packet)
      OBVIOUS
    <3>2. (w \o <<p>>) \o o = w \o (<<p>> \o o)
      BY <3>1, PacketsAssociative, Zenon
    <3> QED
      BY <1>1, <2>2, <3>2, Zenon
  <2>5. Framed(x \o o, First(o), Rest(o), Len(x), EncodeAll(x), 0)
    BY FramedTake
  <2>6. u \o SubSeq(e, i + 1, i + k) = EncodeAll(x)
    BY <1>2, <1>9, <2>1, <2>3, Zenon
  <2> QED
    BY <1>1, <1>2, <1>3, <1>11, <2>2, <2>4, <2>5, <2>6, Zenon
<1> QED
  BY <1>10, <1>11

LEMMA FramedStream ==
  ASSUME NEW q, NEW c \in Seq(Packet), NEW o \in Seq(Packet), NEW n, NEW u, NEW i,
         Framed(q, c, o, n, u, i)
  PROVE  IsPrefix(u, EncodeAll(q)) /\ IsPrefix(EncodeAll(SubSeq(q, 1, n)), u)
<1>1. PICK w \in Seq(Packet) :
        /\ q = w \o (c \o o)
        /\ n = Len(w)
        /\ \/ c = <<>> /\ u = EncodeAll(w)
           \/ \E p \in Packet :
                /\ c = <<p>>
                /\ i \in 0 .. Len(Encode(p)) - 1
                /\ u = EncodeAll(w) \o SubSeq(Encode(p), 1, i)
  BY Zenon DEF Framed
<1>2. PICK y \in Seq(Packet) : y = c \o o
  <2>1. c \o o \in Seq(Packet)
    BY ConcatProperties
  <2> QED
    BY <2>1, Zenon
<1>3. SubSeq(q, 1, n) = w
  BY <1>1, <1>2, PrefixConcat
<1>4. PICK a \in Seq(Byte), z \in Seq(Byte), ec \in Seq(Byte), eo \in Seq(Byte) :
        /\ a = EncodeAll(w) /\ z = EncodeAll(y) /\ ec = EncodeAll(c) /\ eo = EncodeAll(o)
        /\ EncodeAll(q) = a \o z /\ z = ec \o eo
  <2>1. /\ EncodeAll(w) \in Seq(Byte) /\ EncodeAll(y) \in Seq(Byte)
        /\ EncodeAll(w \o y) = EncodeAll(w) \o EncodeAll(y)
    BY EncodeAllConcat
  <2>2. /\ EncodeAll(c) \in Seq(Byte) /\ EncodeAll(o) \in Seq(Byte)
        /\ EncodeAll(c \o o) = EncodeAll(c) \o EncodeAll(o)
    BY EncodeAllConcat
  <2> QED
    BY <1>1, <1>2, <2>1, <2>2, Zenon
<1>5. CASE c = <<>> /\ u = EncodeAll(w)
  <2>1. IsPrefix(a, a \o z)
    BY PrefixConcat
  <2>2. <<>> \in Seq(Byte) /\ a \o <<>> = a
    BY ConcatEmptySeq, EmptySeq
  <2>3. IsPrefix(a, a \o <<>>)
    BY <2>2, PrefixConcat
  <2> QED
    BY <1>3, <1>4, <1>5, <2>1, <2>2, <2>3, Zenon
<1>6. CASE \E p \in Packet :
             /\ c = <<p>>
             /\ i \in 0 .. Len(Encode(p)) - 1
             /\ u = EncodeAll(w) \o SubSeq(Encode(p), 1, i)
  <2>1. PICK p \in Packet :
          /\ c = <<p>>
          /\ i \in 0 .. Len(Encode(p)) - 1
          /\ u = EncodeAll(w) \o SubSeq(Encode(p), 1, i)
    BY <1>6
  <2>2. PICK e \in Seq(Byte) : e = Encode(p) /\ Len(e) \in Nat
    BY EncodeBytes
  <2>3. i \in 0 .. Len(e)
    BY <2>1, <2>2
  <2>4. ec = e
    BY <1>4, <2>1, <2>2, EncodeAllOne
  <2>5. /\ IsPrefix(a, a \o SubSeq(e, 1, i))
        /\ IsPrefix(a \o SubSeq(e, 1, i), a \o (e \o eo))
    BY <2>3, PrefixParts
  <2> QED
    BY <1>3, <1>4, <2>1, <2>2, <2>4, <2>5, Zenon
<1> QED
  BY <1>1, <1>5, <1>6, Zenon

-----------------------------------------------------------------------------
(* The reader: the packets of the broker are those handled, the one under  *)
(* way and the rest; its bytes that are not read yet are what is missing   *)
(* of the second, and those of the rest.                                   *)

InPacket ==
  [command : Byte, remaining_count : Int, remaining_mult : Nat, remaining_length : Nat,
   to_process : Nat, payload : Seq(Byte)]

\* Of the length of p, m remains to be read, and then the payload.
LengthUnderWay(in, d, p, t) ==
  /\ in.remaining_count \in - MaxDigits .. 0
  /\ in.payload = <<>>
  /\ \E m \in Nat : /\ Len(p.payload) = in.remaining_length + (in.remaining_mult * m)
                    /\ d = Digits[m] \o (p.payload \o t)

PayloadUnderWay(in, d, p, t) ==
  /\ in.remaining_count > 0
  /\ \E y \in Seq(Byte) : /\ y # <<>>
                          /\ p.payload = in.payload \o y
                          /\ in.to_process = Len(y)
                          /\ d = y \o t

Between(in, d, sent, got, rest) ==
  in = NoPacket /\ sent = got \o rest /\ d = EncodeAll(rest)

Within(in, d, sent, got, rest, p) ==
  /\ sent = got \o (<<p>> \o rest)
  /\ in.command = p.command
  /\ LengthUnderWay(in, d, p, EncodeAll(rest)) \/ PayloadUnderWay(in, d, p, EncodeAll(rest))

Reads(in, d, sent, got) ==
  /\ got \in Seq(Incoming)
  /\ \E rest \in Seq(Incoming) :
       \/ Between(in, d, sent, got, rest)
       \/ \E p \in Incoming : Within(in, d, sent, got, rest, p)

LEMMA IncomingPackets ==
  /\ Incoming \subseteq Packet
  /\ Seq(Incoming) \subseteq Seq(Packet)
<1>1. Incoming \subseteq Packet
  BY PacketIOAssumption
<1> QED
  BY <1>1

LEMMA ReadsSend ==
  ASSUME NEW in, NEW d, NEW sent, NEW got, Reads(in, d, sent, got), NEW q \in Incoming
  PROVE  Reads(in, d \o Encode(q), Append(sent, q), got)
<1>1. PICK rest \in Seq(Incoming) :
        \/ Between(in, d, sent, got, rest)
        \/ \E p \in Incoming : Within(in, d, sent, got, rest, p)
  BY Zenon DEF Reads
<1>2. got \in Seq(Incoming)
  BY DEF Reads
<1>3. PICK more \in Seq(Incoming) : more = Append(rest, q)
  <2>1. Append(rest, q) \in Seq(Incoming)
    BY AppendProperties
  <2> QED
    BY <2>1, Zenon
<1>4. q \in Packet /\ rest \in Seq(Packet)
  BY IncomingPackets
<1>5. PICK e \in Seq(Byte), t \in Seq(Byte) :
        e = Encode(q) /\ t = EncodeAll(rest) /\ EncodeAll(more) = t \o e /\ t \o e \in Seq(Byte)
  <2>1. Encode(q) \in Seq(Byte) /\ EncodeAll(rest) \in Seq(Byte)
    BY <1>4, EncodeBytes, EncodeAllAppend
  <2>2. EncodeAll(more) = EncodeAll(rest) \o Encode(q)
    BY <1>3, <1>4, EncodeAllAppend
  <2>3. EncodeAll(rest) \o Encode(q) \in Seq(Byte)
    BY <2>1, ConcatProperties
  <2> QED
    BY <2>1, <2>2, <2>3, Zenon
<1>6. CASE Between(in, d, sent, got, rest)
  <2>1. sent = got \o rest
    BY <1>6 DEF Between
  <2>2. Append(got \o rest, q) = got \o Append(rest, q)
    <3>1. LastElement(got, rest, q)
      BY <1>2, LastElementJoins
    <3> QED
      BY <3>1, Zenon DEF LastElement
  <2>3. Between(in, d \o e, Append(sent, q), got, more)
    BY <1>3, <1>5, <1>6, <2>1, <2>2, Zenon DEF Between
  <2> QED
    BY <1>2, <1>5, <2>3, Zenon DEF Reads
<1>7. CASE \E p \in Incoming : Within(in, d, sent, got, rest, p)
  <2>1. PICK p \in Incoming : Within(in, d, sent, got, rest, p)
    BY <1>7
  <2>2. p \in Packet
    BY IncomingPackets
  <2>3. Append(sent, q) = got \o (<<p>> \o more)
    <3>1. sent = got \o (<<p>> \o rest)
      BY <2>1 DEF Within
    <3>2. PICK one \in Seq(Incoming) : one = <<p>>
      BY OneElement
    <3>3. PICK x \in Seq(Incoming) : x = one \o rest
      BY ConcatProperties
    <3>4. LastElement(one, rest, q) /\ LastElement(got, x, q)
      BY <1>2, LastElementJoins
    <3> QED
      BY <1>3, <3>1, <3>2, <3>3, <3>4, Zenon DEF LastElement
  <2>4. CASE LengthUnderWay(in, d, p, t)
    <3>1. PICK m \in Nat : /\ Len(p.payload) = in.remaining_length + (in.remaining_mult * m)
                           /\ d = Digits[m] \o (p.payload \o t)
      BY <2>4 DEF LengthUnderWay
    <3>2. PICK g \in Seq(Byte), y \in Seq(Byte) : g = Digits[m] /\ y = p.payload
      BY <2>2, DigitsFacts, EncodeBytes
    <3>3. (g \o (y \o t)) \o e = g \o (y \o (t \o e))
      <4>1. LastPart(g, y, t, e)
        BY LastPartJoins
      <4> QED
        BY <4>1, Zenon DEF LastPart
    <3>4. d \o e = Digits[m] \o (p.payload \o (t \o e))
      BY <3>1, <3>2, <3>3, Zenon
    <3>5. LengthUnderWay(in, d \o e, p, t \o e)
      BY <2>4, <3>1, <3>4, Zenon DEF LengthUnderWay
    <3> QED
      BY <1>2, <1>5, <2>1, <2>3, <3>5, Zenon DEF Reads, Within
  <2>5. CASE PayloadUnderWay(in, d, p, t)
    <3>1. PICK y \in Seq(Byte) : /\ y # <<>>
                                 /\ p.payload = in.payload \o y
                                 /\ in.to_process = Len(y)
                                 /\ d = y \o t
      BY <2>5 DEF PayloadUnderWay
    <3>2. (y \o t) \o e = y \o (t \o e)
      BY BytesAssociative, Zenon
    <3>3. d \o e = y \o (t \o e)
      BY <3>1, <3>2, Zenon
    <3>4. PayloadUnderWay(in, d \o e, p, t \o e)
      BY <2>5, <3>1, <3>3, Zenon DEF PayloadUnderWay
    <3> QED
      BY <1>2, <1>5, <2>1, <2>3, <3>4, Zenon DEF Reads, Within
  <2> QED
    BY <1>5, <2>1, <2>4, <2>5, Zenon DEF Within
<1> QED
  BY <1>1, <1>6, <1>7

LEMMA ConsBytes ==
  ASSUME NEW c \in Byte, NEW s \in Seq(Byte)
  PROVE  Head(<<c>> \o s) = c /\ Tail(<<c>> \o s) = s
<1>1. PICK one \in Seq(Byte) : one = <<c>> /\ Len(one) = 1 /\ one[1] = c
  <2>1. <<c>> \in Seq(Byte) /\ Len(<<c>>) = 1 /\ <<c>>[1] = c
    OBVIOUS
  <2> QED
    BY <2>1, Zenon
<1>2. /\ one \o s \in Seq(Byte) /\ Len(one \o s) = 1 + Len(s) /\ Len(s) \in Nat
      /\ \A i \in 1 .. 1 + Len(s) : (one \o s)[i] = IF i <= 1 THEN one[i] ELSE s[i - 1]
  BY <1>1, ConcatProperties, LenProperties
<1>3. PICK u \in Seq(Byte) : u = one \o s /\ u # <<>>
  <2>1. PICK u \in Seq(Byte) : u = one \o s
    BY <1>2, Zenon
  <2>2. Len(u) # 0
    BY <1>2, <2>1
  <2> QED
    BY <2>1, <2>2, EmptySeq
<1>4. Head(u) = u[1] /\ Tail(u) \in Seq(Byte) /\ Len(Tail(u)) = Len(u) - 1
      /\ \A i \in 1 .. Len(Tail(u)) : Tail(u)[i] = u[i + 1]
  BY <1>3, HeadTailProperties
<1>5. Head(u) = c
  BY <1>1, <1>2, <1>3, <1>4
<1>6. Tail(u) = s
  <2>1. Len(Tail(u)) = Len(s)
    BY <1>2, <1>3, <1>4
  <2>2. ASSUME NEW i \in 1 .. Len(s)
        PROVE  Tail(u)[i] = s[i]
    <3>1. i + 1 \in 1 .. 1 + Len(s) /\ ~ (i + 1 <= 1) /\ (i + 1) - 1 = i
      BY <1>2
    <3>2. u[i + 1] = s[(i + 1) - 1]
      BY <1>2, <1>3, <3>1
    <3> QED
      BY <1>4, <2>1, <3>1, <3>2
  <2>3. PICK v \in Seq(Byte) : v = Tail(u)
    BY <1>4
  <2> QED
    BY <2>1, <2>2, <2>3, SeqEqual
<1> QED
  BY <1>1, <1>3, <1>5, <1>6

FirstPart(c, s, t, u) ==
  /\ Head((c \o s \o t) \o u) = Head(c)
  /\ Tail((c \o s \o t) \o u) = s \o (t \o u)

LEMMA FirstPartTaken ==
  ASSUME NEW c \in Byte, NEW s \in Seq(Byte), NEW t \in Seq(Byte), NEW u \in Seq(Byte)
  PROVE  FirstPart(<<c>>, s, t, u)
<1>1. PICK one \in Seq(Byte) : one = <<c>> /\ Head(one) = c
  <2>1. <<c>> \in Seq(Byte) /\ Head(<<c>>) = c
    OBVIOUS
  <2> QED
    BY <2>1, Zenon
<1>2. one \o s \in Seq(Byte) /\ t \o u \in Seq(Byte) /\ s \o (t \o u) \in Seq(Byte)
  BY ConcatProperties
<1>3. PICK os \in Seq(Byte) : os = one \o s
  BY <1>2
<1>4. (os \o t) \o u = os \o (t \o u)
  BY BytesAssociative
<1>5. (one \o s) \o (t \o u) = one \o (s \o (t \o u))
  BY <1>2, BytesAssociative
<1>6. (one \o s \o t) \o u = one \o (s \o (t \o u))
  BY <1>3, <1>4, <1>5, Zenon
<1>7. Head(<<c>> \o (s \o (t \o u))) = c /\ Tail(<<c>> \o (s \o (t \o u))) = s \o (t \o u)
  BY <1>2, ConsBytes
<1> QED
  BY <1>1, <1>6, <1>7, Zenon DEF FirstPart

LEMMA ReadsCommand ==
  ASSUME NEW in \in InPacket, NEW d, d # <<>>, NEW sent, NEW got,
         Reads(in, d, sent, got), in.command = 0
  PROVE  Reads([in EXCEPT !.command = Head(d)], Tail(d), sent, got)
<1>1. PICK rest \in Seq(Incoming) :
        \/ Between(in, d, sent, got, rest)
        \/ \E p \in Incoming : Within(in, d, sent, got, rest, p)
  BY Zenon DEF Reads
<1>2. got \in Seq(Incoming)
  BY DEF Reads
<1>3. Between(in, d, sent, got, rest)
  <2>1. ASSUME NEW p \in Incoming, Within(in, d, sent, got, rest, p)
        PROVE  FALSE
    <3>1. p.command # 0
      BY IncomingPackets DEF Packet
    <3> QED
      BY <2>1, <3>1 DEF Within
  <2> QED
    BY <1>1, <2>1
<1>4. in = NoPacket /\ sent = got \o rest /\ d = EncodeAll(rest)
  BY <1>3 DEF Between
<1>5. rest # <<>>
  BY <1>4, EncodeAllEmpty
<1>6. PICK p \in Incoming, r \in Seq(Incoming), one \in Seq(Incoming) : one = <<p>> /\ rest = one \o r
  <2>1. PICK p \in Incoming, r \in Seq(Incoming) : p = Head(rest) /\ r = Tail(rest)
    BY <1>5, HeadTailProperties
  <2>2. <<p>> \in Seq(Incoming) /\ rest = <<p>> \o r
    BY <1>5, <2>1
  <2> QED
    BY <2>2, Zenon
<1>7. p \in Packet /\ r \in Seq(Packet) /\ one \in Seq(Packet)
  BY IncomingPackets
<1>8. PICK c \in Byte, g \in Seq(Byte), y \in Seq(Byte), t \in Seq(Byte) :
        c = p.command /\ g = Digits[Len(p.payload)] /\ y = p.payload /\ t = EncodeAll(r)
  <2>1. p.command \in Byte /\ Digits[Len(p.payload)] \in Seq(Byte) /\ p.payload \in Seq(Byte)
    BY <1>7, EncodeBytes
  <2>2. EncodeAll(r) \in Seq(Byte)
    BY <1>7, EncodeAllConcat
  <2> QED
    BY <2>1, <2>2, Zenon
<1>9. d = (<<c>> \o g \o y) \o t
  <2>1. EncodeAll(rest) = EncodeAll(one) \o EncodeAll(r)
    BY <1>6, <1>7, EncodeAllConcat
  <2>2. EncodeAll(one) = Encode(p)
    BY <1>6, <1>7, EncodeAllOne
  <2>3. Encode(p) = <<c>> \o g \o y
    BY <1>8, Zenon DEF Encode
  <2> QED
    BY <1>4, <1>8, <2>1, <2>2, <2>3, Zenon
<1>10. Head(d) = c /\ Tail(d) = g \o (y \o t)
  <2>1. FirstPart(<<c>>, g, y, t)
    BY FirstPartTaken
  <2>2. Head(<<c>>) = c
    OBVIOUS
  <2> QED
    BY <1>9, <2>1, <2>2, Zenon DEF FirstPart
<1>11. PICK n : n = [in EXCEPT !.command = Head(d)]
  OBVIOUS
<1>12. /\ n.command = p.command /\ n.remaining_count = 0 /\ n.payload = <<>>
       /\ n.remaining_length = 0 /\ n.remaining_mult = 1
  BY <1>4, <1>8, <1>10, <1>11 DEF NoPacket
<1>13. LengthUnderWay(n, Tail(d), p, t)
  <2>1. PICK m \in Nat : m = Len(p.payload)
    BY <1>7, EncodeBytes
  <2>2. Len(p.payload) = n.remaining_length + (n.remaining_mult * m)
    BY <1>12, <2>1
  <2>3. Tail(d) = Digits[m] \o (p.payload \o t)
    BY <1>8, <1>10, <2>1, Zenon
  <2>4. 0 \in - MaxDigits .. 0
    BY PacketIOAssumption
  <2> QED
    BY <1>12, <2>2, <2>3, <2>4, Zenon DEF LengthUnderWay
<1>14. Within(n, Tail(d), sent, got, r, p)
  BY <1>4, <1>6, <1>8, <1>12, <1>13, Zenon DEF Within
<1> QED
  BY <1>2, <1>11, <1>14, Zenon DEF Reads

\* While the length is read, the packet under way is known.
LEMMA ReadsLength ==
  ASSUME NEW in \in InPacket, NEW d, NEW sent, NEW got, Reads(in, d, sent, got),
         in.command # 0, in.remaining_count <= 0
  PROVE  \E rest \in Seq(Incoming), p \in Incoming :
           /\ Within(in, d, sent, got, rest, p)
           /\ LengthUnderWay(in, d, p, EncodeAll(rest))
<1>1. PICK rest \in Seq(Incoming) :
        \/ Between(in, d, sent, got, rest)
        \/ \E p \in Incoming : Within(in, d, sent, got, rest, p)
  BY Zenon DEF Reads
<1>2. ~ Between(in, d, sent, got, rest)
  BY DEF Between, NoPacket
<1>3. PICK p \in Incoming : Within(in, d, sent, got, rest, p)
  BY <1>1, <1>2, Zenon
<1>4. ~ PayloadUnderWay(in, d, p, EncodeAll(rest))
  <2> SUFFICES ASSUME in.remaining_count > 0
               PROVE  FALSE
    BY DEF PayloadUnderWay
  <2> QED
    BY DEF InPacket
<1> QED
  BY <1>3, <1>4, Zenon DEF Within

DigitRead(in, byte) ==
  [in EXCEPT !.remaining_count = @ - 1,
             !.remaining_length = @ + (byte % Base) * in.remaining_mult,
             !.remaining_mult = @ * Base]

LEMMA DigitReadFields ==
  ASSUME NEW in \in InPacket, NEW byte \in Byte
  PROVE  LET n == DigitRead(in, byte)
         IN /\ n \in InPacket
            /\ n.command = in.command /\ n.payload = in.payload
            /\ n.to_process = in.to_process
            /\ n.remaining_count = in.remaining_count - 1
            /\ n.remaining_length = in.remaining_length + ((byte % Base) * in.remaining_mult)
            /\ n.remaining_mult = in.remaining_mult * Base
<1>1. Base \in Nat /\ byte \in Nat
  BY PacketIOAssumption DEF Byte
<1>2. byte % Base \in Nat
  BY <1>1, DivMod
<1>3. PICK n : n = DigitRead(in, byte)
  OBVIOUS
<1>4. /\ n.command = in.command /\ n.payload = in.payload
      /\ n.to_process = in.to_process
      /\ n.remaining_count = in.remaining_count - 1
      /\ n.remaining_length = in.remaining_length + ((byte % Base) * in.remaining_mult)
      /\ n.remaining_mult = in.remaining_mult * Base
  BY <1>3 DEF DigitRead, InPacket
<1>5. in.remaining_length \in Nat /\ in.remaining_mult \in Nat /\ in.remaining_count \in Int
  BY DEF InPacket
<1>6. /\ in.remaining_length + ((byte % Base) * in.remaining_mult) \in Nat
      /\ in.remaining_mult * Base \in Nat /\ in.remaining_count - 1 \in Int
  BY <1>1, <1>2, <1>5
<1>7. n \in InPacket
  BY <1>3, <1>6 DEF DigitRead, InPacket
<1> QED
  BY <1>3, <1>4, <1>7, Zenon

LEMMA DigitArithmetic ==
  ASSUME NEW l \in Nat, NEW k \in Nat, NEW b \in Nat, NEW q \in Nat, NEW r \in Nat
  PROVE  l + (k * ((b * q) + r)) = (l + (r * k)) + ((k * b) * q)
OBVIOUS

LEMMA DigitValue ==
  ASSUME NEW r \in 0 .. Base - 1
  PROVE  r % Base = r /\ (Base + r) % Base = r
<1>1. PICK b \in Nat : b = Base /\ b > 0
  BY PacketIOAssumption
<1>2. r \in 0 .. b - 1
  BY <1>1
<1>3. r % b = r
  BY <1>1, <1>2
<1>4. (b + r) % b = r
  BY <1>1, <1>2
<1> QED
  BY <1>1, <1>3, <1>4

\* The first byte of what is left of a length
DigitOf(d, m, s) ==
  /\ Head(d) \in Byte
  /\ Head(d) < Base => Head(d) = m /\ m < Base /\ Tail(d) = s
  /\ ~ (Head(d) < Base) =>
       /\ Head(d) % Base = m % Base
       /\ Tail(d) = Digits[m \div Base] \o s

LEMMA FirstDigit ==
  ASSUME NEW m \in Nat, NEW s \in Seq(Byte), NEW d, d = Digits[m] \o s
  PROVE  DigitOf(d, m, s)
<1> USE DEF DigitOf
<1>1. PICK b \in Nat : b = Base /\ b > 1
  BY PacketIOAssumption
<1>2. CASE m < Base
  <2>1. m \in Byte
    BY <1>1, <1>2 DEF Byte
  <2>2. d = <<m>> \o s
    BY <1>2, DigitsFacts
  <2>3. Head(d) = m /\ Tail(d) = s
    BY <2>1, <2>2, ConsBytes
  <2> QED
    BY <1>2, <2>1, <2>3, Zenon
<1>3. CASE ~ (m < Base)
  <2>1. PICK r \in 0 .. Base - 1 : r = m % Base
    BY DivMod
  <2>2. PICK h \in Byte : h = Base + (m % Base)
    BY ByteDigit, Zenon
  <2>3. h % Base = r /\ ~ (h < Base)
    <3>1. h % Base = r
      BY <2>1, <2>2, DigitValue
    <3>2. ~ (Base + r < Base)
      BY <1>1, <2>1
    <3> QED
      BY <2>1, <2>2, <3>1, <3>2, Zenon
  <2>4. PICK g \in Seq(Byte) : g = Digits[m \div Base]
    <3>1. m \div Base \in Nat
      BY DivMod
    <3> QED
      BY <3>1, DigitsFacts
  <2>5. Digits[m] = <<h>> \o g
    <3>1. m >= Base
      BY <1>1, <1>3
    <3> QED
      BY <2>2, <2>4, <3>1, DigitsFacts
  <2>6. PICK one \in Seq(Byte) : one = <<h>>
    BY OneElement
  <2>7. (one \o g) \o s = one \o (g \o s)
    BY BytesAssociative
  <2>8. g \o s \in Seq(Byte)
    BY ConcatProperties
  <2>9. d = <<h>> \o (g \o s)
    BY <2>5, <2>6, <2>7, Zenon
  <2>10. Head(d) = h /\ Tail(d) = g \o s
    BY <2>8, <2>9, ConsBytes
  <2> QED
    BY <2>1, <2>3, <2>4, <2>10, Zenon
<1> QED
  BY <1>2, <1>3

LEMMA PacketUnderWay ==
  ASSUME NEW rest \in Seq(Incoming), NEW p \in Incoming
  PROVE  /\ p \in Packet /\ p.payload \in Seq(Byte) /\ Len(p.payload) \in Nat
         /\ EncodeAll(rest) \in Seq(Byte) /\ p.payload \o EncodeAll(rest) \in Seq(Byte)
<1>1. p \in Packet /\ rest \in Seq(Packet)
  BY IncomingPackets
<1>2. p.payload \in Seq(Byte) /\ Len(p.payload) \in Nat
  BY <1>1, EncodeBytes
<1>3. EncodeAll(rest) \in Seq(Byte)
  BY <1>1, EncodeAllConcat
<1>4. p.payload \o EncodeAll(rest) \in Seq(Byte)
  BY <1>2, <1>3, ConcatProperties
<1> QED
  BY <1>1, <1>2, <1>3, <1>4

LEMMA ReadsDigit ==
  ASSUME NEW in \in InPacket, NEW d, NEW sent, NEW got,
         Reads(in, d, sent, got), in.command # 0, in.remaining_count <= 0,
         in.remaining_count - 1 >= - MaxDigits, ~ (Head(d) < Base)
  PROVE  Reads(DigitRead(in, Head(d)), Tail(d), sent, got)
<1>1. PICK rest \in Seq(Incoming), p \in Incoming :
        Within(in, d, sent, got, rest, p) /\ LengthUnderWay(in, d, p, EncodeAll(rest))
  BY ReadsLength
<1>2. PICK m \in Nat : /\ Len(p.payload) = in.remaining_length + (in.remaining_mult * m)
                       /\ d = Digits[m] \o (p.payload \o EncodeAll(rest))
  BY <1>1 DEF LengthUnderWay
<1>3. PICK s \in Seq(Byte) : s = p.payload \o EncodeAll(rest)
  BY PacketUnderWay
<1>4. /\ Head(d) \in Byte
      /\ Head(d) % Base = m % Base
      /\ Tail(d) = Digits[m \div Base] \o s
  <2>1. d = Digits[m] \o s
    BY <1>2, <1>3, Zenon
  <2>2. DigitOf(d, m, s)
    BY <2>1, FirstDigit
  <2> QED
    BY <2>2, Zenon DEF DigitOf
<1>5. PICK byte \in Byte : byte = Head(d)
  BY <1>4
<1>6. PICK n : n = DigitRead(in, byte)
  OBVIOUS
<1>7. /\ n.command = in.command /\ n.payload = in.payload
      /\ n.remaining_count = in.remaining_count - 1
      /\ n.remaining_length = in.remaining_length + ((byte % Base) * in.remaining_mult)
      /\ n.remaining_mult = in.remaining_mult * Base
  BY <1>6, DigitReadFields
<1>8. PICK b \in Nat, q \in Nat, r \in Nat :
        b = Base /\ q = m \div Base /\ r = m % Base /\ m = (b * q) + r
  <2>1. /\ Base \in Nat /\ m \div Base \in Nat /\ m % Base \in Nat
        /\ m = (Base * (m \div Base)) + (m % Base)
    <3>1. /\ m \div Base \in Nat /\ m % Base \in 0 .. Base - 1
          /\ m = (Base * (m \div Base)) + (m % Base)
      BY DivMod
    <3>2. Base \in Nat /\ \A i \in 0 .. Base - 1 : i \in Nat
      BY PacketIOAssumption
    <3> QED
      BY <3>1, <3>2, Zenon
  <2> QED
    BY <2>1, Zenon
<1>9. Len(p.payload) = n.remaining_length + (n.remaining_mult * q)
  <2>1. PICK l \in Nat, k \in Nat : l = in.remaining_length /\ k = in.remaining_mult
    BY DEF InPacket
  <2>2. l + (k * ((b * q) + r)) = (l + (r * k)) + ((k * b) * q)
    BY DigitArithmetic
  <2> QED
    BY <1>2, <1>4, <1>5, <1>7, <1>8, <2>1, <2>2, Zenon
<1>10. LengthUnderWay(n, Tail(d), p, EncodeAll(rest))
  <2>1. n.remaining_count \in - MaxDigits .. 0
    <3>1. PICK k \in Int : k = in.remaining_count
      BY DEF InPacket
    <3>2. PICK x \in Nat : x = MaxDigits
      BY PacketIOAssumption
    <3> QED
      BY <1>7, <3>1, <3>2
  <2>2. n.payload = <<>>
    BY <1>1, <1>7 DEF LengthUnderWay
  <2>3. Tail(d) = Digits[q] \o (p.payload \o EncodeAll(rest))
    BY <1>3, <1>4, <1>8, Zenon
  <2> QED
    BY <1>9, <2>1, <2>2, <2>3, Zenon DEF LengthUnderWay
<1>11. Within(n, Tail(d), sent, got, rest, p)
  BY <1>1, <1>7, <1>10, Zenon DEF Within
<1> QED
  BY <1>5, <1>6, <1>11, Zenon DEF Reads

\* The packet is complete.
LEMMA ReadsComplete ==
  ASSUME NEW in, NEW d, NEW sent, NEW got \in Seq(Incoming), NEW rest \in Seq(Incoming),
         NEW p \in Incoming, Within(in, d, sent, got, rest, p)
  PROVE  Reads(NoPacket, EncodeAll(rest), sent, Append(got, p))
<1>1. PICK one \in Seq(Incoming) : one = <<p>>
  BY OneElement
<1>2. Append(got, p) = got \o one /\ Append(got, p) \in Seq(Incoming)
  BY <1>1, AppendIsConcat, AppendProperties
<1>3. (got \o one) \o rest = got \o (one \o rest)
  BY ConcatAssociative
<1>4. sent = Append(got, p) \o rest
  BY <1>1, <1>2, <1>3, Zenon DEF Within
<1> QED
  BY <1>2, <1>4, Zenon DEF Reads, Between

LEMMA ReadsLast ==
  ASSUME NEW in \in InPacket, NEW d, NEW sent, NEW got,
         Reads(in, d, sent, got), in.command # 0, in.remaining_count <= 0,
         Head(d) < Base
  PROVE  LET n == DigitRead(in, Head(d))
         IN /\ n.remaining_length = 0 =>
                 /\ [command |-> n.command, payload |-> <<>>] \in Incoming
                 /\ Reads(NoPacket, Tail(d), sent,
                          Append(got, [command |-> n.command, payload |-> <<>>]))
            /\ n.remaining_length # 0 =>
                 Reads([n EXCEPT !.remaining_count = - @, !.to_process = n.remaining_length],
                       Tail(d), sent, got)
<1>1. PICK rest \in Seq(Incoming), p \in Incoming :
        Within(in, d, sent, got, rest, p) /\ LengthUnderWay(in, d, p, EncodeAll(rest))
  BY ReadsLength
<1>2. PICK m \in Nat : /\ Len(p.payload) = in.remaining_length + (in.remaining_mult * m)
                       /\ d = Digits[m] \o (p.payload \o EncodeAll(rest))
  BY <1>1 DEF LengthUnderWay
<1>3. PICK s \in Seq(Byte), y \in Seq(Byte), t \in Seq(Byte) :
        s = p.payload \o EncodeAll(rest) /\ y = p.payload /\ t = EncodeAll(rest)
  <2>1. /\ p.payload \o EncodeAll(rest) \in Seq(Byte)
        /\ p.payload \in Seq(Byte) /\ EncodeAll(rest) \in Seq(Byte)
    BY PacketUnderWay
  <2> QED
    BY <2>1, Zenon
<1>4. Head(d) \in Byte /\ Head(d) = m /\ m < Base /\ Tail(d) = s
  <2>1. d = Digits[m] \o s
    BY <1>2, <1>3, Zenon
  <2>2. DigitOf(d, m, s)
    BY <2>1, FirstDigit
  <2> QED
    BY <2>2, Zenon DEF DigitOf
<1>5. PICK byte \in Byte : byte = Head(d)
  BY <1>4
<1>6. PICK n : n = DigitRead(in, byte)
  OBVIOUS
<1>7. /\ n \in InPacket
      /\ n.command = in.command /\ n.payload = in.payload
      /\ n.remaining_count = in.remaining_count - 1
      /\ n.remaining_length = in.remaining_length + ((byte % Base) * in.remaining_mult)
  BY <1>6, DigitReadFields
<1>8. n.remaining_length = Len(y)
  <2>1. PICK l \in Nat, k \in Nat : l = in.remaining_length /\ k = in.remaining_mult
    BY DEF InPacket
  <2>2. byte % Base = m
    <3>1. m \in 0 .. Base - 1
      BY <1>4, PacketIOAssumption
    <3> QED
      BY <1>4, <1>5, <3>1, DigitValue
  <2>3. l + (k * m) = l + (m * k)
    OBVIOUS
  <2> QED
    BY <1>2, <1>3, <1>7, <2>1, <2>2, <2>3, Zenon
<1>9. got \in Seq(Incoming) /\ n.command = p.command /\ n.payload = <<>>
  BY <1>1, <1>7 DEF Reads, Within, LengthUnderWay
<1>10. CASE n.remaining_length = 0
  <2>1. y = <<>>
    BY <1>8, <1>10, EmptySeq
  <2>2. Tail(d) = EncodeAll(rest)
    <3>1. <<>> \o t = t
      BY ConcatEmptySeq
    <3> QED
      BY <1>3, <1>4, <2>1, <3>1, Zenon
  <2>3. p = [command |-> n.command, payload |-> <<>>]
    BY <1>3, <1>9, <2>1, PacketUnderWay DEF Packet
  <2>4. Reads(NoPacket, EncodeAll(rest), sent, Append(got, p))
    BY <1>1, <1>9, ReadsComplete
  <2> QED
    BY <1>5, <1>6, <1>10, <2>2, <2>3, <2>4, Zenon
<1>11. CASE n.remaining_length # 0
  <2>1. PICK r : r = [n EXCEPT !.remaining_count = - @, !.to_process = n.remaining_length]
    OBVIOUS
  <2>2. /\ r.command = n.command /\ r.payload = n.payload
        /\ r.remaining_count = - n.remaining_count
        /\ r.to_process = n.remaining_length
    BY <1>7, <2>1 DEF InPacket
  <2>3. r.remaining_count > 0
    <3>1. PICK k \in Int : k = in.remaining_count
      BY DEF InPacket
    <3> QED
      BY <1>7, <2>2, <3>1
  <2>4. y # <<>> /\ p.payload = r.payload \o y
    <3>1. y # <<>>
      BY <1>8, <1>11, EmptySeq
    <3>2. <<>> \o y = y
      BY ConcatEmptySeq
    <3> QED
      BY <1>3, <1>9, <2>2, <3>1, <3>2, Zenon
  <2>5. PayloadUnderWay(r, Tail(d), p, t)
    BY <1>3, <1>4, <1>8, <2>2, <2>3, <2>4, Zenon DEF PayloadUnderWay
  <2>6. Within(r, Tail(d), sent, got, rest, p)
    BY <1>1, <1>3, <1>9, <2>2, <2>5, Zenon DEF Within
  <2>7. Reads(r, Tail(d), sent, got)
    BY <1>9, <2>6, Zenon DEF Reads
  <2> QED
    BY <1>5, <1>6, <1>11, <2>1, <2>7, Zenon
<1> QED
  BY <1>10, <1>11

\* A piece of k bytes of y, before t
PieceOf(y, t, k, a, b) ==
  /\ y = a \o b /\ Len(a) = k /\ Len(b) = Len(y) - k
  /\ SubSeq(y \o t, 1, k) = a
  /\ SubSeq(y \o t, k + 1, Len(y \o t)) = b \o t

LEMMA Piece ==
  ASSUME NEW y \in Seq(Byte), NEW t \in Seq(Byte), NEW k \in 1 .. Len(y)
  PROVE  \E a, b \in Seq(Byte) : PieceOf(y, t, k, a, b)
<1>1. Len(y) \in Nat /\ k \in 0 .. Len(y) /\ Len(y) \in k .. Len(y)
  BY LenProperties
<1>2. PICK a \in Seq(Byte), b \in Seq(Byte) : a = SubSeq(y, 1, k) /\ y = a \o b
  <2>1. /\ SubSeq(y, 1, k) \o SubSeq(y, k + 1, Len(y)) = SubSeq(y, 1, Len(y))
        /\ SubSeq(y, 1, k) \in Seq(Byte) /\ SubSeq(y, k + 1, Len(y)) \in Seq(Byte)
    BY <1>1, SubSeqSplit
  <2>2. SubSeq(y, 1, Len(y)) = y
    BY SubSeqFull
  <2> QED
    BY <2>1, <2>2, Zenon
<1>3. Len(a) = k
  <2>1. \A i \in 1 .. k : y[i] \in Byte
    BY <1>1
  <2>2. 1 \in Int /\ k \in Int /\ 1 <= k /\ k - 1 + 1 = k
    BY <1>1
  <2> QED
    BY <1>2, <2>1, <2>2, SubSeqProperties
<1>4. Len(y) = Len(a) + Len(b) /\ Len(a) \in Nat /\ Len(b) \in Nat
  BY <1>2, ConcatProperties, LenProperties
<1>5. PICK bt \in Seq(Byte) : bt = b \o t
  BY ConcatProperties
<1>6. y \o t = a \o bt
  <2>1. (a \o b) \o t = a \o (b \o t)
    BY BytesAssociative
  <2> QED
    BY <1>2, <1>5, <2>1, Zenon
<1>7. SubSeq(a \o bt, 1, Len(a)) = a
  BY PrefixConcat
<1>8. SubSeq(a \o bt, Len(a) + 1, Len(a \o bt)) = bt
  BY SuffixConcat
<1>9. Len(b) = Len(y) - k
  BY <1>3, <1>4
<1>10. PieceOf(y, t, k, a, b)
  BY <1>2, <1>3, <1>5, <1>6, <1>7, <1>8, <1>9, Zenon DEF PieceOf
<1> QED
  BY <1>10, Zenon

LEMMA ReadsPayload ==
  ASSUME NEW in \in InPacket, NEW d, NEW sent, NEW got,
         Reads(in, d, sent, got), in.remaining_count > 0, NEW k \in 1 .. in.to_process
  PROVE  LET payload == in.payload \o SubSeq(d, 1, k)
             left == SubSeq(d, k + 1, Len(d))
         IN /\ k = in.to_process =>
                 /\ [command |-> in.command, payload |-> payload] \in Incoming
                 /\ Reads(NoPacket, left, sent,
                          Append(got, [command |-> in.command, payload |-> payload]))
            /\ k # in.to_process =>
                 Reads([in EXCEPT !.payload = payload, !.to_process = @ - k], left, sent, got)
<1>1. PICK rest \in Seq(Incoming) :
        \/ Between(in, d, sent, got, rest)
        \/ \E p \in Incoming : Within(in, d, sent, got, rest, p)
  BY Zenon DEF Reads
<1>2. ~ Between(in, d, sent, got, rest)
  BY DEF Between, NoPacket
<1>3. PICK p \in Incoming : Within(in, d, sent, got, rest, p)
  BY <1>1, <1>2, Zenon
<1>4. ~ LengthUnderWay(in, d, p, EncodeAll(rest))
  <2> SUFFICES ASSUME in.remaining_count \in - MaxDigits .. 0
               PROVE  FALSE
    BY DEF LengthUnderWay
  <2> QED
    BY PacketIOAssumption DEF InPacket
<1>5. PayloadUnderWay(in, d, p, EncodeAll(rest)) /\ in.command = p.command
  BY <1>3, <1>4, Zenon DEF Within
<1>6. PICK y \in Seq(Byte) : /\ y # <<>>
                             /\ p.payload = in.payload \o y
                             /\ in.to_process = Len(y)
                             /\ d = y \o EncodeAll(rest)
  BY <1>5 DEF PayloadUnderWay
<1>7. PICK t \in Seq(Byte) : t = EncodeAll(rest)
  BY PacketUnderWay
<1>8. k \in 1 .. Len(y)
  BY <1>6
<1>9. PICK a \in Seq(Byte), b \in Seq(Byte) : PieceOf(y, t, k, a, b)
  BY <1>8, Piece
<1>10. /\ y = a \o b /\ Len(a) = k /\ Len(b) = Len(y) - k
       /\ SubSeq(d, 1, k) = a /\ SubSeq(d, k + 1, Len(d)) = b \o t
  BY <1>6, <1>7, <1>9, Zenon DEF PieceOf
<1>11. got \in Seq(Incoming)
  BY DEF Reads
<1>12. PICK x \in Seq(Byte) : x = in.payload
  BY DEF InPacket
<1>13. p.payload = (x \o a) \o b
  <2>1. (x \o a) \o b = x \o (a \o b)
    BY BytesAssociative
  <2> QED
    BY <1>6, <1>10, <1>12, <2>1, Zenon
<1>14. PICK xa \in Seq(Byte) : xa = x \o a
  BY ConcatProperties
<1>15. Len(y) \in Nat /\ Len(b) \in Nat /\ k \in Nat
  BY <1>8, LenProperties
<1>16. CASE k = in.to_process
  <2>1. b = <<>>
    <3>1. Len(b) = 0
      BY <1>6, <1>10, <1>15, <1>16
    <3> QED
      BY <3>1, EmptySeq
  <2>2. xa \o <<>> = xa /\ <<>> \o t = t
    BY ConcatEmptySeq
  <2>3. p.payload = xa
    BY <1>13, <1>14, <2>1, <2>2, Zenon
  <2>4. p = [command |-> in.command, payload |-> xa]
    BY <1>5, <2>3, PacketUnderWay DEF Packet
  <2>5. Reads(NoPacket, EncodeAll(rest), sent, Append(got, p))
    BY <1>3, <1>11, ReadsComplete
  <2> QED
    BY <1>7, <1>10, <1>12, <1>14, <1>16, <2>1, <2>2, <2>4, <2>5, Zenon
<1>17. CASE k # in.to_process
  <2>1. PICK r : r = [in EXCEPT !.payload = xa, !.to_process = @ - k]
    OBVIOUS
  <2>2. /\ r.command = in.command /\ r.payload = xa
        /\ r.remaining_count = in.remaining_count
        /\ r.to_process = in.to_process - k
    BY <2>1 DEF InPacket
  <2>3. b # <<>>
    <3>1. Len(b) # 0
      BY <1>6, <1>10, <1>15, <1>17
    <3> QED
      BY <3>1, EmptySeq
  <2>4. PayloadUnderWay(r, b \o t, p, t)
    BY <1>6, <1>10, <1>13, <1>14, <2>2, <2>3, Zenon DEF PayloadUnderWay
  <2>5. Within(r, b \o t, sent, got, rest, p)
    BY <1>3, <1>5, <1>7, <2>2, <2>4, Zenon DEF Within
  <2>6. Reads(r, b \o t, sent, got)
    BY <1>11, <2>5, Zenon DEF Reads
  <2> QED
    BY <1>10, <1>12, <1>14, <1>17, <2>1, <2>6, Zenon
<1> QED
  BY <1>16, <1>17

-----------------------------------------------------------------------------
(* Lengths keep within their bounds.                                       *)

LengthOK(in) ==
  /\ in.remaining_count \in - MaxDigits - 1 .. MaxDigits
  /\ in.remaining_length <= LengthMax
  /\ in.to_process <= LengthMax
  /\ in.remaining_count \in - MaxDigits .. 0 =>
       /\ in.remaining_mult = Power[- in.remaining_count]
       /\ in.remaining_length < in.remaining_mult

LEMMA LengthMaxNat == LengthMax \in Nat /\ MaxDigits \in Nat \ {0} /\ LengthMax = Power[MaxDigits] - 1
<1>1. MaxDigits \in Nat \ {0}
  BY PacketIOAssumption
<1>2. Power[MaxDigits] \in Nat /\ Power[MaxDigits] > 0
  BY <1>1, PowerFacts
<1> QED
  BY <1>1, <1>2 DEF LengthMax

LEMMA LengthNoPacket ==
  NoPacket \in InPacket /\ LengthOK(NoPacket) /\ NoPacket.remaining_count >= - MaxDigits
<1>1. Power[0] = 1
  BY PowerFacts
<1>2. 0 \in Byte
  BY PacketIOAssumption DEF Byte
<1>3. NoPacket \in InPacket
  BY <1>2 DEF NoPacket, InPacket
<1>4. /\ NoPacket.remaining_count = 0 /\ NoPacket.remaining_length = 0
      /\ NoPacket.to_process = 0 /\ NoPacket.remaining_mult = 1
  BY DEF NoPacket
<1>5. PICK n \in Nat, l \in Nat : n = MaxDigits /\ l = LengthMax
  BY LengthMaxNat
<1>6. 0 \in - n - 1 .. n /\ 0 <= l /\ 0 >= - n /\ 0 < 1
  <2>1. - n - 1 <= 0 /\ - n - 1 \in Int
    OBVIOUS
  <2> QED
    BY <2>1
<1>7. PICK z \in Int : z = NoPacket.remaining_count /\ z >= 0 /\ z <= 0
  BY <1>4
<1>8. - z = 0
  <2>1. \A x \in Int : x >= 0 /\ x <= 0 => - x = 0
    OBVIOUS
  <2> QED
    BY <1>7, <2>1, Zenon
<1>9. LengthOK(NoPacket)
  <2>1. - NoPacket.remaining_count = 0
    BY <1>7, <1>8, Zenon
  <2> QED
    BY <1>1, <1>4, <1>5, <1>6, <2>1, Zenon DEF LengthOK
<1> QED
  BY <1>3, <1>4, <1>5, <1>6, <1>9, Zenon

LEMMA LengthCommand ==
  ASSUME NEW in \in InPacket, LengthOK(in), NEW byte \in Byte
  PROVE  LET n == [in EXCEPT !.command = byte]
         IN n \in InPacket /\ LengthOK(n) /\ n.remaining_count = in.remaining_count
<1>1. PICK n : n = [in EXCEPT !.command = byte]
  OBVIOUS
<1>2. /\ n \in InPacket
      /\ n.remaining_count = in.remaining_count /\ n.remaining_length = in.remaining_length
      /\ n.to_process = in.to_process /\ n.remaining_mult = in.remaining_mult
  BY <1>1 DEF InPacket
<1>3. LengthOK(n)
  BY <1>2, Zenon DEF LengthOK
<1> QED
  BY <1>1, <1>2, <1>3, Zenon

LEMMA LengthDigit ==
  ASSUME NEW in \in InPacket, LengthOK(in), NEW byte \in Byte,
         in.remaining_count <= 0, in.remaining_count - 1 >= - MaxDigits
  PROVE  LET n == DigitRead(in, byte)
             r == [n EXCEPT !.remaining_count = - @, !.to_process = n.remaining_length]
         IN /\ n \in InPacket /\ LengthOK(n) /\ n.remaining_count >= - MaxDigits
            /\ r \in InPacket /\ LengthOK(r) /\ r.remaining_count >= - MaxDigits
<1>1. PICK n : n = DigitRead(in, byte)
  OBVIOUS
<1>2. /\ n \in InPacket
      /\ n.to_process = in.to_process
      /\ n.remaining_count = in.remaining_count - 1
      /\ n.remaining_length = in.remaining_length + ((byte % Base) * in.remaining_mult)
      /\ n.remaining_mult = in.remaining_mult * Base
  BY <1>1, DigitReadFields
<1>3. PICK max \in Nat, lmax \in Nat :
        max = MaxDigits /\ lmax = LengthMax /\ lmax = Power[max] - 1 /\ max > 0
  BY LengthMaxNat
<1>4. PICK c \in Nat : c = - in.remaining_count /\ in.remaining_count \in - max .. 0
  <2>1. PICK k \in Int : k = in.remaining_count
    BY DEF InPacket
  <2> QED
    BY <1>3, <2>1
<1>5. c + 1 <= max /\ n.remaining_count = - (c + 1) /\ in.remaining_count = - c
  <2>1. PICK k \in Int : k = in.remaining_count
    BY DEF InPacket
  <2> QED
    BY <1>2, <1>3, <1>4, <2>1
<1>6. PICK l \in Nat, m \in Nat :
        l = in.remaining_length /\ m = in.remaining_mult /\ m = Power[c] /\ l < m
  BY <1>3, <1>4 DEF InPacket, LengthOK
<1>7. PICK l1 \in Nat, m1 \in Nat :
        l1 = n.remaining_length /\ m1 = n.remaining_mult /\ m1 = Power[c + 1] /\ l1 < m1
  <2>1. /\ m * Base = Power[c + 1]
        /\ l + ((byte % Base) * m) \in Nat /\ l + ((byte % Base) * m) < m * Base
    BY <1>6, DigitAdded
  <2>2. m * Base \in Nat
    BY PacketIOAssumption
  <2> QED
    BY <1>2, <1>6, <2>1, <2>2, Zenon
<1>8. l1 <= lmax
  <2>1. Power[c + 1] <= Power[max]
    BY <1>5, PowerGrows
  <2>2. PICK w \in Nat : w = Power[max]
    BY PowerFacts
  <2> QED
    BY <1>3, <1>7, <2>1, <2>2
<1>9. PICK x \in Nat : x = in.to_process /\ x <= lmax
  BY <1>3 DEF InPacket, LengthOK
<1>10. LengthOK(n)
  <2>1. n.remaining_count \in - MaxDigits - 1 .. MaxDigits
    BY <1>3, <1>5
  <2>2. - n.remaining_count = c + 1
    BY <1>5
  <2> QED
    BY <1>2, <1>3, <1>7, <1>8, <1>9, <2>1, <2>2, Zenon DEF LengthOK
<1>11. PICK r : r = [n EXCEPT !.remaining_count = - @, !.to_process = n.remaining_length]
  OBVIOUS
<1>12. /\ r.remaining_count = - n.remaining_count /\ r.to_process = n.remaining_length
       /\ r.remaining_length = n.remaining_length
  BY <1>2, <1>11 DEF InPacket
<1>13. r \in InPacket
  <2>1. - n.remaining_count \in Int /\ n.remaining_length \in Nat
    BY <1>2 DEF InPacket
  <2> QED
    BY <1>2, <1>11, <2>1 DEF InPacket
<1>14. r.remaining_count = c + 1
  BY <1>5, <1>12
<1>15. LengthOK(r)
  <2>1. c + 1 \in - max - 1 .. max /\ ~ (c + 1 \in - max .. 0)
    BY <1>3, <1>5
  <2> QED
    BY <1>3, <1>7, <1>8, <1>12, <1>14, <2>1, Zenon DEF LengthOK
<1>16. c + 1 >= - max /\ - (c + 1) >= - max
  BY <1>3, <1>5
<1> QED
  BY <1>1, <1>2, <1>3, <1>5, <1>10, <1>11, <1>13, <1>14, <1>15, <1>16, Zenon

LEMMA LengthPayload ==
  ASSUME NEW in \in InPacket, LengthOK(in), NEW s \in Seq(Byte), NEW k \in 1 .. in.to_process
  PROVE  LET n == [in EXCEPT !.payload = s, !.to_process = @ - k]
         IN n \in InPacket /\ LengthOK(n) /\ n.remaining_count = in.remaining_count
<1>1. PICK n : n = [in EXCEPT !.payload = s, !.to_process = @ - k]
  OBVIOUS
<1>2. PICK x \in Nat, l \in Nat : x = in.to_process /\ l = LengthMax /\ x <= l
  BY LengthMaxNat DEF InPacket, LengthOK
<1>3. x - k \in Nat /\ x - k <= l
  BY <1>2
<1>4. /\ n.remaining_count = in.remaining_count /\ n.remaining_length = in.remaining_length
      /\ n.to_process = x - k /\ n.remaining_mult = in.remaining_mult
  BY <1>1, <1>2 DEF InPacket
<1>5. n \in InPacket
  BY <1>1, <1>2, <1>3 DEF InPacket
<1>6. LengthOK(n)
  BY <1>2, <1>3, <1>4, Zenon DEF LengthOK
<1> QED
  BY <1>1, <1>4, <1>5, <1>6, Zenon

LEMMA LengthFails ==
  ASSUME NEW in \in InPacket, LengthOK(in), in.remaining_count >= - MaxDigits,
         in.remaining_count - 1 < - MaxDigits
  PROVE  LET n == [in EXCEPT !.remaining_count = @ - 1]
         IN n \in InPacket /\ LengthOK(n)
<1>1. PICK n : n = [in EXCEPT !.remaining_count = @ - 1]
  OBVIOUS
<1>2. PICK k \in Int, max \in Nat : k = in.remaining_count /\ max = MaxDigits
  BY LengthMaxNat DEF InPacket
<1>3. k - 1 = - max - 1 /\ k - 1 \in Int
  BY <1>2
<1>4. /\ n.remaining_count = k - 1 /\ n.remaining_length = in.remaining_length
      /\ n.to_process = in.to_process
  BY <1>1, <1>2 DEF InPacket
<1>5. n \in InPacket
  BY <1>1, <1>2, <1>3 DEF InPacket
<1>6. - max - 1 \in - max - 1 .. max /\ ~ (- max - 1 \in - max .. 0)
  OBVIOUS
<1>7. LengthOK(n)
  BY <1>2, <1>3, <1>4, <1>6, Zenon DEF LengthOK
<1> QED
  BY <1>1, <1>5, <1>7, Zenon

-----------------------------------------------------------------------------
(* The packets that go out.                                                *)

Sendable == {p \in Packet : Fits(p)}

OutOK(q, c, o, n, u, i) ==
  /\ q \in Seq(Sendable)
  /\ c \in Seq(Packet) /\ Len(c) <= 1
  /\ o \in Seq(Packet)
  /\ i \in Nat
  /\ Framed(q, c, o, n, u, i)

WorkerOK(w) == w \in [step : {"idle", "checked", "queued"}, packet : Sendable]

OutInv ==
  /\ OutOK(queued, current_out_packet, out_packet, written, up, pos)
  /\ WorkerOK(worker)

LEMMA OutEmpty == OutOK(<<>>, <<>>, <<>>, 0, <<>>, 0)
<1>1. <<>> \in Seq(Sendable) /\ <<>> \in Seq(Packet) /\ Len(<<>>) = 0 /\ <<>> \o <<>> = <<>>
  OBVIOUS
<1>2. First(<<>>) = <<>> /\ Rest(<<>>) = <<>>
  BY DEF First, Rest
<1>3. PICK e \in Seq(Packet) : e = <<>>
  BY <1>1
<1>4. Framed(e \o e, First(e), Rest(e), Len(e), EncodeAll(e), 0)
  BY FramedTake
<1>5. Framed(<<>>, <<>>, <<>>, 0, <<>>, 0)
  BY <1>1, <1>2, <1>3, <1>4, EncodeAllEmpty, Zenon
<1>6. 0 <= 1 /\ 0 \in Nat
  OBVIOUS
<1> QED
  BY <1>1, <1>5, <1>6, Zenon DEF OutOK

LEMMA OutEnqueue ==
  ASSUME NEW q, NEW c, NEW o, NEW n, NEW u, NEW i, OutOK(q, c, o, n, u, i), NEW p \in Sendable
  PROVE  OutOK(q \o <<p>>, c, o \o <<p>>, n, u, i)
<1>1. <<p>> \in Seq(Sendable) /\ <<p>> \in Seq(Packet)
  BY DEF Sendable
<1>2. q \in Seq(Sendable) /\ c \in Seq(Packet) /\ o \in Seq(Packet) /\ Framed(q, c, o, n, u, i)
  BY DEF OutOK
<1>3. q \o <<p>> \in Seq(Sendable) /\ o \o <<p>> \in Seq(Packet)
  BY <1>1, <1>2, ConcatProperties
<1>4. Framed(q \o <<p>>, c, o \o <<p>>, n, u, i)
  BY <1>1, <1>2, FramedEnqueue
<1> QED
  BY <1>3, <1>4, Zenon DEF OutOK

LEMMA OutTake ==
  ASSUME NEW q, NEW o, NEW n, NEW u, NEW i, OutOK(q, <<>>, o, n, u, i)
  PROVE  OutOK(q, First(o), Rest(o), n, u, 0)
<1>1. q \in Seq(Sendable) /\ o \in Seq(Packet) /\ Framed(q, <<>>, o, n, u, i)
  BY DEF OutOK
<1>2. \A p : <<>> # <<p>>
  OBVIOUS
<1>3. PICK w \in Seq(Packet) : q = w \o (<<>> \o o) /\ n = Len(w) /\ u = EncodeAll(w)
  BY <1>1, <1>2, Zenon DEF Framed
<1>4. <<>> \o o = o
  BY <1>1, ConcatEmptySeq
<1>5. Framed(w \o o, First(o), Rest(o), Len(w), EncodeAll(w), 0)
  BY <1>1, FramedTake
<1>6. First(o) \in Seq(Packet) /\ Rest(o) \in Seq(Packet) /\ Len(First(o)) <= 1
  BY <1>1, FirstAndRest
<1>7. 0 \in Nat
  OBVIOUS
<1> QED
  BY <1>1, <1>3, <1>4, <1>5, <1>6, <1>7, Zenon DEF OutOK

LEMMA OutWrite ==
  ASSUME NEW q, NEW c, NEW o, NEW n, NEW u, NEW i, OutOK(q, c, o, n, u, i), c # <<>>,
         NEW k \in 1 .. Len(Encode(Head(c))) - i
  PROVE  LET e == Encode(Head(c))
             v == u \o SubSeq(e, i + 1, i + k)
         IN /\ i + k < Len(e) => OutOK(q, c, o, n, v, i + k)
            /\ ~ (i + k < Len(e)) => OutOK(q, First(o), Rest(o), n + 1, v, 0)
<1>1. /\ q \in Seq(Sendable) /\ c \in Seq(Packet) /\ Len(c) <= 1 /\ o \in Seq(Packet)
      /\ i \in Nat /\ Framed(q, c, o, n, u, i)
  BY DEF OutOK
<1>2. PICK e, v : e = Encode(Head(c)) /\ v = u \o SubSeq(e, i + 1, i + k)
  OBVIOUS
<1>3. /\ i + k < Len(e) => Framed(q, c, o, n, v, i + k)
      /\ ~ (i + k < Len(e)) => Framed(q, First(o), Rest(o), n + 1, v, 0)
  BY <1>1, <1>2, FramedWrite
<1>4. First(o) \in Seq(Packet) /\ Rest(o) \in Seq(Packet) /\ Len(First(o)) <= 1
  BY <1>1, FirstAndRest
<1>5. i + k \in Nat /\ 0 \in Nat
  <2>1. Head(c) \in Packet
    BY <1>1, HeadTailProperties
  <2>2. PICK l \in Nat : l = Len(Encode(Head(c)))
    BY <2>1, EncodeBytes
  <2>3. k \in 1 .. l - i
    BY <2>2
  <2> QED
    BY <1>1, <2>3
<1> QED
  BY <1>1, <1>2, <1>3, <1>4, <1>5, Zenon DEF OutOK

LEMMA OutStep ==
  ASSUME OutInv, [Next]_vars
  PROVE  OutInv'
<1>1. /\ OutOK(queued, current_out_packet, out_packet, written, up, pos)
      /\ WorkerOK(worker)
  BY DEF OutInv
<1>2. Connect \in Sendable /\ Reply \in Sendable
  BY PacketIOAssumption, FitsAssumption DEF Sendable
<1>3. ASSUME UNCHANGED outgoing, UNCHANGED worker
      PROVE  OutInv'
  BY <1>1, <1>3 DEF OutInv, outgoing
<1>4. ASSUME NEW p \in Sendable, Enqueue(<<p>>), WorkerOK(worker')
      PROVE  OutInv'
  <2>1. OutOK(queued \o <<p>>, current_out_packet, out_packet \o <<p>>, written, up, pos)
    BY <1>1, OutEnqueue
  <2> QED
    BY <1>4, <2>1, Zenon DEF OutInv, Enqueue
<1>5. ASSUME NEW command, NEW payload, PacketHandle(command, payload), UNCHANGED worker
      PROVE  OutInv'
  <2>1. CASE command \in Answered
    <3>1. Enqueue(<<Reply>>)
      BY <1>5, <2>1, Zenon DEF PacketHandle
    <3> QED
      BY <1>1, <1>2, <1>4, <1>5, <3>1, Zenon
  <2>2. CASE command \notin Answered
    <3>1. UNCHANGED outgoing
      BY <1>5, <2>2 DEF PacketHandle, outgoing
    <3> QED
      BY <1>3, <1>5, <3>1
  <2> QED
    BY <2>1, <2>2
<1>6. CASE WorkerChecks
  <2>1. PICK p \in Requests \cup {Disconnect} : Fits(p) /\ worker' = [step |-> "checked", packet |-> p]
    BY <1>6, Zenon DEF WorkerChecks
  <2>2. p \in Sendable
    BY <2>1, PacketIOAssumption DEF Sendable
  <2>3. WorkerOK(worker')
    BY <2>1, <2>2 DEF WorkerOK
  <2> QED
    BY <1>1, <1>6, <2>3 DEF OutInv, WorkerChecks, outgoing
<1>7. CASE WorkerQueues
  <2>1. WorkerOK(worker')
    <3>1. worker' = [worker EXCEPT !.step = "queued"] \/ worker' = Idle
      BY <1>7, Zenon DEF WorkerQueues
    <3>2. WorkerOK([worker EXCEPT !.step = "queued"]) /\ WorkerOK(Idle)
      BY <1>1, <1>2 DEF WorkerOK, Idle
    <3> QED
      BY <3>1, <3>2, Zenon
  <2>2. CASE Enqueue(<<worker.packet>>)
    <3>1. PICK p \in Sendable : p = worker.packet
      BY <1>1 DEF WorkerOK
    <3> QED
      BY <1>4, <2>1, <2>2, <3>1, Zenon
  <2>3. CASE UNCHANGED outgoing
    BY <1>1, <2>1, <2>3 DEF OutInv, outgoing
  <2> QED
    BY <1>7, <2>2, <2>3, Zenon DEF WorkerQueues
<1>8. CASE WriteBegins
  <2>1. UNCHANGED worker /\ UNCHANGED <<queued, written, up>>
    BY <1>8 DEF WriteBegins, ThreadGoes
  <2>2. CASE current_out_packet = <<>>
    <3>1. OutOK(queued, First(out_packet), Rest(out_packet), written, up, 0)
      <4>1. OutOK(queued, <<>>, out_packet, written, up, pos)
        BY <1>1, <2>2, Zenon
      <4> QED
        BY <4>1, OutTake
    <3>2. current_out_packet' = First(out_packet) /\ out_packet' = Rest(out_packet) /\ pos' = 0
      BY <1>8, <2>2, Zenon DEF WriteBegins
    <3> QED
      BY <1>1, <2>1, <3>1, <3>2 DEF OutInv
  <2>3. CASE current_out_packet # <<>>
    <3>1. UNCHANGED <<current_out_packet, out_packet, pos>>
      BY <1>8, <2>3, Zenon DEF WriteBegins
    <3> QED
      BY <1>3, <2>1, <3>1 DEF outgoing
  <2> QED
    BY <2>2, <2>3
<1>9. CASE WriteSome
  <2>1. PICK e : e = Encode(Head(current_out_packet))
    OBVIOUS
  <2>2. current_out_packet # <<>> /\ UNCHANGED <<queued, worker>>
    BY <1>9, Zenon DEF WriteSome
  <2>3. PICK k \in 1 .. Len(e) - pos :
          /\ up' = up \o SubSeq(e, pos + 1, pos + k)
          /\ IF pos + k < Len(e)
             THEN /\ pos' = pos + k
                  /\ UNCHANGED <<current_out_packet, out_packet, written>>
             ELSE /\ written' = written + 1
                  /\ current_out_packet' = First(out_packet)
                  /\ out_packet' = Rest(out_packet)
                  /\ pos' = 0
    BY <1>9, <2>1, Zenon DEF WriteSome
  <2>4. PICK v : v = up \o SubSeq(e, pos + 1, pos + k)
    OBVIOUS
  <2>5. /\ pos + k < Len(e) =>
             OutOK(queued, current_out_packet, out_packet, written, v, pos + k)
        /\ ~ (pos + k < Len(e)) =>
             OutOK(queued, First(out_packet), Rest(out_packet), written + 1, v, 0)
    BY <1>1, <2>1, <2>2, <2>3, <2>4, OutWrite
  <2>6. CASE pos + k < Len(e)
    BY <1>1, <2>2, <2>3, <2>4, <2>5, <2>6, Zenon DEF OutInv
  <2>7. CASE ~ (pos + k < Len(e))
    BY <1>1, <2>2, <2>3, <2>4, <2>5, <2>7, Zenon DEF OutInv
  <2> QED
    BY <2>6, <2>7
<1>10. CASE Purge
  BY <1>1, <1>10, OutEmpty, Zenon DEF Purge, ThreadGoes, OutInv
<1>11. CASE SendConnect
  <2>1. Enqueue(<<Connect>>) /\ UNCHANGED worker
    BY <1>11 DEF SendConnect, ThreadGoes
  <2> QED
    BY <1>1, <1>2, <1>4, <2>1, Zenon
<1>12. CASE ReadSome
  <2>1. CASE ReadCommand \/ ReadLengthGoesOn \/ ReadLengthFails
    BY <1>3, <2>1, Zenon DEF ReadCommand, ReadLengthGoesOn, ReadLengthFails, Reading, ReadingLength,
                             KeepReading, ThreadGoes
  <2>2. CASE ReadLengthEnds
    <3>1. UNCHANGED worker
      BY <2>2 DEF ReadLengthEnds, ReadingLength, Reading
    <3>2. CASE WithDigit(Head(down)).remaining_length = 0
      BY <1>5, <2>2, <3>1, <3>2, Zenon DEF ReadLengthEnds
    <3>3. CASE WithDigit(Head(down)).remaining_length # 0
      <4>1. UNCHANGED outgoing
        BY <2>2, <3>3, Zenon DEF ReadLengthEnds, KeepReading
      <4> QED
        BY <1>3, <3>1, <4>1
    <3> QED
      BY <3>2, <3>3
  <2>3. CASE ReadPayload
    <3>1. UNCHANGED worker
      BY <2>3 DEF ReadPayload, Reading
    <3>2. (\E payload : PacketHandle(in_packet.command, payload)) \/ UNCHANGED outgoing
      BY <2>3, Zenon DEF ReadPayload, KeepReading
    <3> QED
      BY <1>3, <1>5, <3>1, <3>2, Zenon
  <2> QED
    BY <1>12, <2>1, <2>2, <2>3 DEF ReadSome
<1>13. CASE \/ LoopBegins \/ SelectWrites \/ ReadAgain \/ PairRead \/ WriteSkipped \/ WriteEnds
            \/ SocketConnect \/ SelectReads \/ SelectTimeout \/ ConnLost \/ BrokerSends \/ Ended
            \/ UNCHANGED vars
  <2>1. UNCHANGED outgoing /\ UNCHANGED worker
    BY <1>13, Zenon DEF LoopBegins, SelectWrites, ReadAgain, PairRead, WriteSkipped, WriteEnds,
       SocketConnect, SelectReads, SelectTimeout, ConnLost, BrokerSends, Ended, ThreadGoes, vars
  <2> QED
    BY <1>3, <2>1
<1> QED
  BY <1>6, <1>7, <1>8, <1>9, <1>10, <1>11, <1>12, <1>13, Zenon DEF Next, Loop

-----------------------------------------------------------------------------
(* The packets that come in.                                               *)

\* Where the thread stands only while there is a socket
Connected == {"select", "read", "pair", "write", "writing"}

ReaderOK(sk, th, in, d, sent, got) ==
  /\ in \in InPacket /\ LengthOK(in)
  /\ d \in Seq(Byte)
  /\ th \in Connected => sk
  /\ th = "purged" => in = NoPacket
  /\ th = "closed" => ~ sk
  /\ sk => in.remaining_count >= - MaxDigits /\ Reads(in, d, sent, got)

ReadInv == ReaderOK(sock, thread, in_packet, down, delivered, handled)

LEMMA ReaderMoves ==
  ASSUME NEW sk, NEW th, NEW in, NEW d, NEW sent, NEW got, ReaderOK(sk, th, in, d, sent, got),
         NEW sk2, NEW th2, sk2 => sk, th2 \in Connected => sk2, th2 # "purged",
         th2 = "closed" => ~ sk2
  PROVE  ReaderOK(sk2, th2, in, d, sent, got)
BY Zenon DEF ReaderOK

LEMMA MinOfTwo ==
  ASSUME NEW x \in Nat, NEW y \in Nat
  PROVE  Min({x, y}) \in Nat /\ Min({x, y}) <= x /\ Min({x, y}) <= y
<1> DEFINE Least(z) == z \in {x, y} /\ \A w \in {x, y} : z <= w
<1>1. \E z : Least(z)
  <2>1. x <= y => Least(x)
    OBVIOUS
  <2>2. ~ (x <= y) => Least(y)
    OBVIOUS
  <2> QED
    BY <2>1, <2>2
<1>2. Least(CHOOSE z : Least(z))
  BY <1>1, Zenon
<1>3. Least(Min({x, y}))
  BY <1>2, Zenon DEF Min
<1> QED
  BY <1>3

LEMMA ReadsStart == Reads(NoPacket, <<>>, <<>>, <<>>)
<1>1. <<>> \in Seq(Incoming) /\ <<>> \o <<>> = <<>>
  OBVIOUS
<1> QED
  BY <1>1, EncodeAllEmpty, Zenon DEF Reads, Between

LEMMA TailBytes ==
  ASSUME NEW d \in Seq(Byte), d # <<>>
  PROVE  Head(d) \in Byte /\ Tail(d) \in Seq(Byte)
BY HeadTailProperties

LEMMA ReadStep ==
  ASSUME ReadInv, [Next]_vars
  PROVE  ReadInv'
<1>1. /\ ReaderOK(sock, thread, in_packet, down, delivered, handled)
      /\ in_packet \in InPacket /\ LengthOK(in_packet) /\ down \in Seq(Byte)
      /\ thread \in Connected => sock
      /\ thread = "purged" => in_packet = NoPacket
      /\ thread = "closed" => ~ sock
      /\ sock => /\ in_packet.remaining_count >= - MaxDigits
                 /\ Reads(in_packet, down, delivered, handled)
  BY Zenon DEF ReadInv, ReaderOK
<1>2. ASSUME UNCHANGED incoming, sock' => sock, thread' \in Connected => sock', thread' # "purged",
             thread' = "closed" => ~ sock'
      PROVE  ReadInv'
  <2>1. ReaderOK(sock', thread', in_packet, down, delivered, handled)
    BY <1>1, <1>2, ReaderMoves
  <2> QED
    BY <1>2, <2>1 DEF ReadInv, incoming
<1>3. ASSUME NEW n, in_packet' = n, n \in InPacket, LengthOK(n), down' \in Seq(Byte),
             sock', thread' # "purged", thread' # "closed", n.remaining_count >= - MaxDigits,
             Reads(n, down', delivered', handled')
      PROVE  ReadInv'
  BY <1>3, Zenon DEF ReadInv, ReaderOK
<1>4. "read" \in Connected
  BY DEF Connected
<1>5. ASSUME Reading
      PROVE  /\ sock /\ sock' /\ down # <<>> /\ delivered' = delivered /\ thread = "read"
             /\ Head(down) \in Byte /\ Tail(down) \in Seq(Byte)
             /\ in_packet.remaining_count >= - MaxDigits
             /\ Reads(in_packet, down, delivered, handled)
  <2>1. thread = "read" /\ down # <<>> /\ sock' = sock /\ delivered' = delivered
    BY <1>5 DEF Reading
  <2>2. sock
    BY <1>1, <1>4, <2>1, Zenon
  <2>3. Head(down) \in Byte /\ Tail(down) \in Seq(Byte)
    BY <1>1, <2>1, TailBytes
  <2> QED
    BY <1>1, <2>1, <2>2, <2>3, Zenon
<1>6. ASSUME Reading, NEW n, KeepReading(n), n \in InPacket, LengthOK(n),
             n.remaining_count >= - MaxDigits, down' \in Seq(Byte),
             Reads(n, down', delivered, handled)
      PROVE  ReadInv'
  <2>1. in_packet' = n /\ thread' = thread /\ handled' = handled
    BY <1>6 DEF KeepReading
  <2>2. sock' /\ delivered' = delivered /\ thread = "read"
    BY <1>5, <1>6
  <2>3. thread' # "purged" /\ thread' # "closed"
    BY <2>1, <2>2
  <2> QED
    BY <1>3, <1>6, <2>1, <2>2, <2>3, Zenon
<1>7. ASSUME Reading, NEW command, NEW payload, PacketHandle(command, payload),
             down' \in Seq(Byte),
             Reads(NoPacket, down', delivered,
                   Append(handled, [command |-> command, payload |-> payload]))
      PROVE  ReadInv'
  <2>1. /\ in_packet' = NoPacket /\ thread' \in {"read", "pair"}
        /\ handled' = Append(handled, [command |-> command, payload |-> payload])
    BY <1>7, Zenon DEF PacketHandle
  <2>2. sock' /\ delivered' = delivered
    BY <1>5, <1>7
  <2>3. thread' # "purged" /\ thread' # "closed"
    BY <2>1
  <2> QED
    BY <1>3, <1>7, <2>1, <2>2, <2>3, LengthNoPacket, Zenon
<1>8. CASE ReadCommand
  <2>1. /\ Reading /\ in_packet.command = 0 /\ down' = Tail(down)
        /\ KeepReading([in_packet EXCEPT !.command = Head(down)])
    BY <1>8 DEF ReadCommand
  <2>2. PICK n : n = [in_packet EXCEPT !.command = Head(down)]
    OBVIOUS
  <2>3. Reads(n, Tail(down), delivered, handled)
    BY <1>1, <1>5, <2>1, <2>2, ReadsCommand
  <2>4. /\ n \in InPacket /\ LengthOK(n) /\ n.remaining_count = in_packet.remaining_count
    BY <1>1, <1>5, <2>1, <2>2, LengthCommand
  <2> QED
    BY <1>5, <1>6, <2>1, <2>2, <2>3, <2>4, Zenon
<1>9. ASSUME ReadingLength, ~ TooLong
      PROVE  /\ Reading /\ in_packet.command # 0 /\ in_packet.remaining_count <= 0
             /\ in_packet.remaining_count - 1 >= - MaxDigits
  <2>1. Reading /\ in_packet.command # 0 /\ in_packet.remaining_count <= 0
    BY <1>9 DEF ReadingLength
  <2>2. PICK k \in Int, max \in Nat : k = in_packet.remaining_count /\ max = MaxDigits
    BY <1>1, LengthMaxNat DEF InPacket
  <2>3. ~ (k - 1 < - max)
    BY <1>9, <2>2 DEF TooLong
  <2>4. k - 1 >= - max
    BY <2>3
  <2> QED
    BY <2>1, <2>2, <2>4, Zenon
<1>10. WithDigit(Head(down)) = DigitRead(in_packet, Head(down))
  BY DEF WithDigit, DigitRead
<1>11. CASE ReadLengthGoesOn
  <2>1. /\ ReadingLength /\ ~ TooLong /\ Head(down) >= Base /\ down' = Tail(down)
        /\ KeepReading(WithDigit(Head(down)))
    BY <1>11 DEF ReadLengthGoesOn
  <2>2. PICK n : n = DigitRead(in_packet, Head(down))
    OBVIOUS
  <2>3. ~ (Head(down) < Base)
    <3>1. PICK x \in Nat, b \in Nat : x = Head(down) /\ b = Base
      BY <1>5, <1>9, <2>1, PacketIOAssumption DEF Byte
    <3> QED
      BY <2>1, <3>1
  <2>4. Reads(n, Tail(down), delivered, handled)
    BY <1>1, <1>5, <1>9, <2>1, <2>2, <2>3, ReadsDigit
  <2>5. n \in InPacket /\ LengthOK(n) /\ n.remaining_count >= - MaxDigits
    BY <1>1, <1>5, <1>9, <2>1, <2>2, LengthDigit
  <2> QED
    BY <1>5, <1>6, <1>9, <1>10, <2>1, <2>2, <2>4, <2>5, Zenon
<1>12. CASE ReadLengthEnds
  <2>1. PICK n, r : /\ n = DigitRead(in_packet, Head(down))
                    /\ r = [n EXCEPT !.remaining_count = - @, !.to_process = n.remaining_length]
    OBVIOUS
  <2>2. /\ ReadingLength /\ ~ TooLong /\ Head(down) < Base /\ down' = Tail(down)
        /\ n.remaining_length = 0 => PacketHandle(n.command, <<>>)
        /\ n.remaining_length # 0 => KeepReading(r)
    BY <1>10, <1>12, <2>1, Zenon DEF ReadLengthEnds
  <2>3. /\ n.remaining_length = 0 =>
             Reads(NoPacket, Tail(down), delivered,
                   Append(handled, [command |-> n.command, payload |-> <<>>]))
        /\ n.remaining_length # 0 => Reads(r, Tail(down), delivered, handled)
    BY <1>1, <1>5, <1>9, <2>1, <2>2, ReadsLast
  <2>4. r \in InPacket /\ LengthOK(r) /\ r.remaining_count >= - MaxDigits
    BY <1>1, <1>5, <1>9, <2>1, <2>2, LengthDigit
  <2>5. Reading /\ down' \in Seq(Byte)
    BY <1>5, <1>9, <2>2
  <2>6. CASE n.remaining_length = 0
    BY <1>7, <2>2, <2>3, <2>5, <2>6, Zenon
  <2>7. CASE n.remaining_length # 0
    BY <1>6, <2>2, <2>3, <2>4, <2>5, <2>7, Zenon
  <2> QED
    BY <2>6, <2>7
<1>13. CASE ReadLengthFails
  <2>1. /\ thread = "read" /\ down # <<>> /\ TooLong
        /\ in_packet' = [in_packet EXCEPT !.remaining_count = @ - 1]
        /\ down' = Tail(down) /\ sock' = FALSE
        /\ thread' = IF disconnecting THEN "loop" ELSE "ended"
    BY <1>13 DEF ReadLengthFails, ThreadGoes
  <2>2. in_packet.remaining_count >= - MaxDigits
    BY <1>1, <1>4, <2>1, Zenon
  <2>3. PICK n : n = [in_packet EXCEPT !.remaining_count = @ - 1]
    OBVIOUS
  <2>4. n \in InPacket /\ LengthOK(n)
    BY <1>1, <2>1, <2>2, <2>3, LengthFails DEF TooLong
  <2>5. down' \in Seq(Byte)
    BY <1>1, <2>1, TailBytes
  <2>6. thread' \notin Connected /\ thread' # "purged" /\ ~ sock'
    BY <2>1 DEF Connected
  <2> QED
    BY <2>1, <2>3, <2>4, <2>5, <2>6, Zenon DEF ReadInv, ReaderOK
<1>14. CASE ReadPayload
  <2>1. Reading /\ in_packet.remaining_count > 0
    BY <1>14 DEF ReadPayload
  <2>2. PICK k \in 1 .. Min({in_packet.to_process, Len(down)}) :
          LET payload == in_packet.payload \o SubSeq(down, 1, k)
          IN /\ down' = SubSeq(down, k + 1, Len(down))
             /\ IF k = in_packet.to_process
                THEN PacketHandle(in_packet.command, payload)
                ELSE KeepReading([in_packet EXCEPT !.payload = payload, !.to_process = @ - k])
    BY <1>14, Zenon DEF ReadPayload
  <2>3. /\ k \in 1 .. in_packet.to_process /\ k \in 1 .. Len(down)
        /\ k \in 0 .. Len(down) /\ Len(down) \in k .. Len(down)
    <3>1. PICK x \in Nat, y \in Nat : x = in_packet.to_process /\ y = Len(down)
      BY <1>1, LenProperties DEF InPacket
    <3>2. PICK m \in Nat : m = Min({x, y}) /\ m <= x /\ m <= y
      BY MinOfTwo
    <3>3. k \in 1 .. m
      BY <2>2, <3>1, <3>2
    <3> QED
      BY <3>1, <3>2, <3>3
  <2>4. SubSeq(down, 1, k) \in Seq(Byte) /\ SubSeq(down, k + 1, Len(down)) \in Seq(Byte)
    BY <1>1, <2>3, SubSeqSplit
  <2>5. PICK payload \in Seq(Byte) : payload = in_packet.payload \o SubSeq(down, 1, k)
    <3>1. in_packet.payload \in Seq(Byte)
      BY <1>1 DEF InPacket
    <3>2. in_packet.payload \o SubSeq(down, 1, k) \in Seq(Byte)
      BY <2>4, <3>1, ConcatProperties
    <3> QED
      BY <3>2, Zenon
  <2>6. PICK n : n = [in_packet EXCEPT !.payload = payload, !.to_process = @ - k]
    OBVIOUS
  <2>7. /\ k = in_packet.to_process =>
             Reads(NoPacket, down', delivered,
                   Append(handled, [command |-> in_packet.command, payload |-> payload]))
        /\ k # in_packet.to_process => Reads(n, down', delivered, handled)
    <3>1. PICK left : left = SubSeq(down, k + 1, Len(down))
      OBVIOUS
    <3>2. down' = left
      BY <2>2, <3>1, Zenon
    <3>3. /\ k = in_packet.to_process =>
               Reads(NoPacket, left, delivered,
                     Append(handled, [command |-> in_packet.command, payload |-> payload]))
          /\ k # in_packet.to_process => Reads(n, left, delivered, handled)
      BY <1>1, <1>5, <2>1, <2>3, <2>5, <2>6, <3>1, ReadsPayload
    <3> QED
      BY <3>2, <3>3, Zenon
  <2>8. n \in InPacket /\ LengthOK(n) /\ n.remaining_count = in_packet.remaining_count
    BY <1>1, <2>3, <2>6, LengthPayload
  <2>9. n.remaining_count >= - MaxDigits
    BY <1>5, <2>1, <2>8, Zenon
  <2>10. down' \in Seq(Byte)
    BY <2>2, <2>4, Zenon
  <2>11. CASE k = in_packet.to_process
    <3>1. PacketHandle(in_packet.command, payload)
      BY <2>2, <2>5, <2>11, Zenon
    <3> QED
      BY <1>7, <2>1, <2>7, <2>10, <2>11, <3>1, Zenon
  <2>12. CASE k # in_packet.to_process
    <3>1. KeepReading(n)
      BY <2>2, <2>5, <2>6, <2>12, Zenon
    <3> QED
      BY <1>6, <2>1, <2>7, <2>8, <2>9, <2>10, <2>12, <3>1, Zenon
  <2> QED
    BY <2>11, <2>12
<1>15. CASE Purge
  <2>1. /\ thread = "closed" /\ thread' = "purged" /\ in_packet' = NoPacket
        /\ sock' = sock /\ down' = down
    BY <1>15 DEF Purge, ThreadGoes
  <2>2. "purged" \notin Connected /\ "purged" # "closed"
    BY DEF Connected
  <2>3. ~ sock
    BY <1>1, <2>1
  <2> QED
    BY <1>1, <2>1, <2>2, <2>3, LengthNoPacket, Zenon DEF ReadInv, ReaderOK
<1>16. CASE SocketConnect
  <2>1. /\ thread = "purged" /\ thread' = "opened" /\ sock' = TRUE /\ in_packet' = in_packet
        /\ down' = <<>> /\ delivered' = <<>> /\ handled' = <<>>
    BY <1>16 DEF SocketConnect, ThreadGoes
  <2>2. in_packet = NoPacket
    BY <1>1, <2>1
  <2>3. <<>> \in Seq(Byte) /\ "opened" # "purged" /\ "opened" # "closed"
    OBVIOUS
  <2> QED
    BY <1>3, <2>1, <2>2, <2>3, LengthNoPacket, ReadsStart, Zenon
<1>17. CASE BrokerSends
  <2>1. PICK p \in Incoming : down' = down \o Encode(p) /\ delivered' = Append(delivered, p)
    BY <1>17 DEF BrokerSends
  <2>2. sock /\ sock' = sock /\ thread' = thread /\ in_packet' = in_packet /\ handled' = handled
    BY <1>17 DEF BrokerSends
  <2>3. Reads(in_packet, down \o Encode(p), Append(delivered, p), handled)
    BY <1>1, <2>2, ReadsSend
  <2>4. down \o Encode(p) \in Seq(Byte)
    <3>1. Encode(p) \in Seq(Byte)
      BY IncomingPackets, EncodeBytes
    <3> QED
      BY <1>1, <3>1, ConcatProperties
  <2> QED
    BY <1>1, <2>1, <2>2, <2>3, <2>4, Zenon DEF ReadInv, ReaderOK
<1>18. CASE WriteSome
  <2>1. thread = "writing" /\ UNCHANGED incoming
    BY <1>18 DEF WriteSome
  <2>2. sock
    BY <1>1, <2>1 DEF Connected
  <2>3. \/ UNCHANGED <<sock, thread>>
        \/ /\ sock' = (Head(current_out_packet) # Disconnect)
           /\ thread' = IF Head(current_out_packet) = Disconnect THEN "loop" ELSE thread
    BY <1>18, Zenon DEF WriteSome
  <2>4. /\ thread' \in Connected => sock'
        /\ thread' # "purged" /\ thread' # "closed"
    BY <2>1, <2>2, <2>3 DEF Connected
  <2> QED
    BY <1>2, <2>1, <2>2, <2>4, Zenon
<1>19. CASE ConnLost
  <2>1. UNCHANGED incoming /\ sock' = FALSE /\ thread' \in {"loop", "closed"}
    BY <1>19 DEF ConnLost, ThreadGoes
  <2>2. thread' \notin Connected /\ thread' # "purged"
    BY <2>1 DEF Connected
  <2> QED
    BY <1>2, <2>1, <2>2, Zenon
<1>20. CASE LoopBegins
  <2>1. /\ UNCHANGED incoming /\ sock' = sock
        /\ thread' = IF sock THEN "select" ELSE IF disconnecting THEN "ended" ELSE "closed"
    BY <1>20 DEF LoopBegins, ThreadGoes
  <2>2. CASE sock
    <3>1. thread' # "purged" /\ thread' # "closed"
      BY <2>1, <2>2
    <3> QED
      BY <1>2, <2>1, <2>2, <3>1, Zenon
  <2>3. CASE ~ sock
    <3>1. thread' # "purged" /\ thread' \notin Connected
      BY <2>1, <2>3 DEF Connected
    <3> QED
      BY <1>2, <2>1, <2>3, <3>1, Zenon
  <2> QED
    BY <2>2, <2>3
<1>21. CASE \/ SelectWrites \/ ReadAgain \/ PairRead \/ WriteSkipped \/ WriteBegins \/ WriteEnds
            \/ SelectReads \/ SelectTimeout \/ SendConnect
  <2>1. UNCHANGED incoming /\ sock' = sock
    BY <1>21, Zenon DEF SelectWrites, ReadAgain, PairRead, WriteSkipped, WriteBegins, WriteEnds,
       SelectReads, SelectTimeout, SendConnect
  <2>2. \/ thread \in Connected /\ thread' \in Connected
        \/ thread' = "loop"
    BY <1>21 DEF SelectWrites, ReadAgain, PairRead, WriteSkipped, WriteBegins, WriteEnds,
       SelectReads, SelectTimeout, SendConnect, ThreadGoes, Connected
  <2>3. thread' # "purged" /\ thread' # "closed" /\ (thread' \in Connected => thread \in Connected)
    BY <2>2 DEF Connected
  <2> QED
    BY <1>1, <1>2, <2>1, <2>3, Zenon
<1>22. CASE WorkerChecks \/ WorkerQueues \/ Ended \/ UNCHANGED vars
  <2>1. UNCHANGED incoming /\ sock' = sock /\ thread' = thread
    BY <1>22, Zenon DEF WorkerChecks, WorkerQueues, Ended, vars
  <2> QED
    BY <1>1, <2>1 DEF ReadInv, incoming
<1> QED
  BY <1>8, <1>11, <1>12, <1>13, <1>14, <1>15, <1>16, <1>17, <1>18, <1>19, <1>20, <1>21, <1>22, Zenon
     DEF Next, Loop, ReadSome

-----------------------------------------------------------------------------
(* The rest of the state.                                                  *)

FlagInv ==
  /\ sock \in BOOLEAN /\ disconnecting \in BOOLEAN
  /\ sockpair \in 0 .. PairCap
  /\ thread \in {"loop", "select", "read", "pair", "write", "writing", "closed",
                 "purged", "opened", "ended"}
  /\ writefds \in BOOLEAN /\ readfds \in BOOLEAN
  /\ requests \in 0 .. MaxRequests
  /\ losses \in 0 .. MaxLoss
  /\ thread \in {"read", "pair"} /\ readfds => sockpair > 0

LEMMA WakeBounded ==
  ASSUME sockpair \in 0 .. PairCap, Wake \/ UNCHANGED sockpair
  PROVE  sockpair' \in 0 .. PairCap /\ (sockpair > 0 => sockpair' > 0)
<1>1. PairCap \in Nat \ {0}
  BY PacketIOAssumption
<1> QED
  BY <1>1 DEF Wake

LEMMA FlagStep ==
  ASSUME FlagInv, [Next]_vars
  PROVE  FlagInv'
<1>1. PairCap \in Nat \ {0} /\ MaxRequests \in Nat /\ MaxLoss \in Nat
  BY PacketIOAssumption
<1> USE DEF FlagInv, ThreadGoes, fds, incoming, outgoing
<1>2. ASSUME Wake \/ UNCHANGED sockpair
      PROVE  sockpair' \in 0 .. PairCap /\ (sockpair > 0 => sockpair' > 0)
  BY <1>2, WakeBounded
<1>3. CASE WorkerChecks
  <2>1. disconnecting' \in BOOLEAN
    BY <1>3 DEF WorkerChecks
  <2>2. requests' \in 0 .. MaxRequests
    BY <1>1, <1>3 DEF WorkerChecks
  <2> QED
    BY <1>3, <2>1, <2>2 DEF WorkerChecks
<1>4. CASE WorkerQueues
  <2>1. Wake \/ UNCHANGED sockpair
    BY <1>4 DEF WorkerQueues
  <2> QED
    BY <1>2, <1>4, <2>1 DEF WorkerQueues
<1>5. CASE LoopBegins
  BY <1>5 DEF LoopBegins
<1>6. CASE SelectReads \/ SelectWrites
  <2>1. /\ readfds' = (sockpair > 0) /\ sockpair' = sockpair /\ thread' \in {"read", "pair"}
        /\ UNCHANGED <<sock, disconnecting, writefds, requests, losses>>
    BY <1>6, Zenon DEF SelectReads, SelectWrites
  <2>2. readfds' \in BOOLEAN /\ (readfds' => sockpair' > 0)
    <3>1. (sockpair > 0) \in BOOLEAN
      OBVIOUS
    <3> HIDE DEF FlagInv
    <3> QED
      BY <2>1, <3>1
  <2>3. thread' \in {"loop", "select", "read", "pair", "write", "writing", "closed",
                    "purged", "opened", "ended"}
    BY <2>1
  <2> QED
    BY <2>1, <2>2, <2>3, Zenon
<1>7. CASE PairRead
  <2>1. sockpair' \in 0 .. PairCap
    BY <1>1, <1>7 DEF PairRead
  <2>2. writefds' \in BOOLEAN
    BY <1>7 DEF PairRead
  <2> QED
    BY <1>7, <2>1, <2>2 DEF PairRead
<1>8. CASE SelectTimeout \/ ReadAgain \/ WriteSkipped \/ WriteBegins \/ WriteEnds
  BY <1>8 DEF SelectTimeout, ReadAgain, WriteSkipped, WriteBegins, WriteEnds
<1>9. CASE Purge \/ SocketConnect
  BY <1>9 DEF Purge, SocketConnect
<1>10. CASE SendConnect
  BY <1>2, <1>10 DEF SendConnect
<1>11. CASE ReadCommand \/ ReadLengthGoesOn
  BY <1>11 DEF ReadCommand, ReadLengthGoesOn, ReadingLength, Reading, KeepReading
<1>12. ASSUME Reading, NEW command, NEW payload, PacketHandle(command, payload)
       PROVE  FlagInv'
  <2>1. Wake \/ UNCHANGED sockpair
    BY <1>12, Zenon DEF PacketHandle
  <2>2. thread' \in {"read", "pair"} /\ thread = "read"
        /\ UNCHANGED <<sock, disconnecting, writefds, readfds, requests, losses>>
    BY <1>12 DEF PacketHandle, Reading
  <2> QED
    BY <1>2, <2>1, <2>2
<1>13. ASSUME Reading, NEW n, KeepReading(n)
       PROVE  FlagInv'
  BY <1>13 DEF Reading, KeepReading
<1>14. CASE ReadLengthEnds
  <2>1. Reading /\ ((\E command, payload : PacketHandle(command, payload)) \/ \E n : KeepReading(n))
    BY <1>14, Zenon DEF ReadLengthEnds, ReadingLength
  <2> HIDE DEF FlagInv
  <2> QED
    BY <1>12, <1>13, <2>1, Zenon
<1>15. CASE ReadPayload
  <2>1. Reading /\ ((\E command, payload : PacketHandle(command, payload)) \/ \E n : KeepReading(n))
    BY <1>15, Zenon DEF ReadPayload
  <2> HIDE DEF FlagInv
  <2> QED
    BY <1>12, <1>13, <2>1, Zenon
<1>16. CASE ReadLengthFails
  BY <1>16 DEF ReadLengthFails
<1>17. CASE WriteSome
  <2>1. /\ thread = "writing"
        /\ \/ UNCHANGED <<sock, thread>>
           \/ /\ sock' = (Head(current_out_packet) # Disconnect)
              /\ thread' = IF Head(current_out_packet) = Disconnect THEN "loop" ELSE thread
        /\ UNCHANGED <<disconnecting, sockpair, writefds, readfds, requests, losses>>
    BY <1>17, Zenon DEF WriteSome
  <2>2. sock' \in BOOLEAN
    BY <2>1
  <2> QED
    BY <2>1, <2>2
<1>18. CASE ConnLost
  <2>1. losses' \in 0 .. MaxLoss
    BY <1>1, <1>18 DEF ConnLost
  <2> QED
    BY <1>18, <2>1 DEF ConnLost
<1>19. CASE BrokerSends \/ Ended \/ UNCHANGED vars
  BY <1>19 DEF BrokerSends, Ended, vars
<1> HIDE DEF FlagInv
<1> QED
  BY <1>3, <1>4, <1>5, <1>6, <1>7, <1>8, <1>9, <1>10, <1>11, <1>14, <1>15, <1>16, <1>17, <1>18,
     <1>19, Zenon DEF Next, Loop, ReadSome

-----------------------------------------------------------------------------
IInv == OutInv /\ ReadInv /\ FlagInv

LEMMA InitIInv == Init => IInv
<1> SUFFICES ASSUME Init
             PROVE  IInv
  OBVIOUS
<1>1. OutInv
  <2>1. WorkerOK(Idle)
    BY PacketIOAssumption, FitsAssumption DEF WorkerOK, Idle, Sendable
  <2> QED
    BY <2>1, OutEmpty, Zenon DEF Init, OutInv
<1>2. ReadInv
  <2>1. "opened" \notin Connected /\ "opened" # "purged" /\ "opened" # "closed"
    BY DEF Connected
  <2>2. <<>> \in Seq(Byte)
    OBVIOUS
  <2> QED
    BY <2>1, <2>2, LengthNoPacket, ReadsStart, Zenon DEF Init, ReadInv, ReaderOK
<1>3. FlagInv
  <2>1. 0 \in 0 .. PairCap /\ 0 \in 0 .. MaxRequests /\ 0 \in 0 .. MaxLoss
    BY PacketIOAssumption
  <2>2. "opened" \notin {"read", "pair"}
    OBVIOUS
  <2> QED
    BY <2>1, <2>2, Zenon DEF Init, FlagInv
<1> QED
  BY <1>1, <1>2, <1>3 DEF IInv

LEMMA NextIInv == IInv /\ [Next]_vars => IInv'
BY OutStep, ReadStep, FlagStep DEF IInv

LEMMA Invariant == Spec => []IInv
BY InitIInv, NextIInv, PTL DEF Spec

\* Every variable keeps its type: the socket pair never holds more than it can, a
\* byte is read from it only if there is one, and no remaining length or count of bytes
\* exceeds what MaxDigits digits can say, whatever the broker sends.
THEOREM TypeCorrect == Spec => []TypeOK
<1>1. IInv => TypeOK
  <2> SUFFICES ASSUME IInv
               PROVE  TypeOK
    OBVIOUS
  <2>1. /\ out_packet \in Seq(Packet)
        /\ current_out_packet \in Seq(Packet) /\ Len(current_out_packet) <= 1
        /\ pos \in Nat
    BY DEF IInv, OutInv, OutOK
  <2>2. worker.step \in {"idle", "checked", "queued"} /\ worker.packet \in Packet
    BY DEF IInv, OutInv, WorkerOK, Sendable
  <2>3. in_packet \in InPacket /\ LengthOK(in_packet) /\ down \in Seq(Byte)
    BY DEF IInv, ReadInv, ReaderOK
  <2>4. /\ in_packet.command \in Byte
        /\ in_packet.remaining_count \in - MaxDigits - 1 .. MaxDigits
    BY <2>3 DEF InPacket, LengthOK
  <2>5. {in_packet.remaining_length, in_packet.to_process} \subseteq 0 .. LengthMax
    <3>1. PICK l \in Nat, x \in Nat, max \in Nat :
            /\ l = in_packet.remaining_length /\ x = in_packet.to_process /\ max = LengthMax
            /\ l <= max /\ x <= max
      BY <2>3, LengthMaxNat DEF InPacket, LengthOK
    <3> QED
      BY <3>1
  <2>6. FlagInv
    BY DEF IInv
  <2> QED
    BY <2>1, <2>2, <2>3, <2>4, <2>5, <2>6, Zenon DEF TypeOK, FlagInv
<1> QED
  BY <1>1, Invariant, PTL

\* StreamFramed for packets of any length, written in pieces of any size, over any
\* number of connections: the bytes on a connection are whole packets, in order, and at
\* most the beginning of one more.
THEOREM StreamFramedCorrect == Spec => []StreamFramed
<1>1. IInv => StreamFramed
  <2> SUFFICES ASSUME IInv
               PROVE  StreamFramed
    OBVIOUS
  <2>1. /\ current_out_packet \in Seq(Packet) /\ out_packet \in Seq(Packet)
        /\ queued \in Seq(Sendable)
        /\ Framed(queued, current_out_packet, out_packet, written, up, pos)
    BY DEF IInv, OutInv, OutOK
  <2>2. IsPrefix(up, EncodeAll(queued)) /\ IsPrefix(EncodeAll(SubSeq(queued, 1, written)), up)
    BY <2>1, FramedStream
  <2>3. ASSUME NEW i \in DOMAIN queued
        PROVE  Len(queued[i].payload) <= LengthMax
    <3>1. PICK p \in Packet : p = queued[i] /\ Fits(p)
      <4>1. queued[i] \in Sendable
        BY <2>1
      <4> QED
        BY <4>1 DEF Sendable
    <3>2. PICK n \in Nat : n = Len(p.payload) /\ Len(Digits[n]) <= MaxDigits
      BY <3>1, EncodeBytes DEF Fits
    <3>3. PICK max \in Nat : max = MaxDigits
      BY LengthMaxNat
    <3>4. n < Power[max]
      BY <3>2, <3>3, LengthBounded
    <3>5. PICK w \in Nat : w = Power[max]
      BY PowerFacts
    <3> QED
      BY <3>1, <3>2, <3>3, <3>4, <3>5, LengthMaxNat
  <2> QED
    BY <2>2, <2>3, Zenon DEF StreamFramed
<1> QED
  BY <1>1, Invariant, PTL

-----------------------------------------------------------------------------
(* The reader implements a channel of packets.                             *)

Travelling(sent, got) == SubSeq(sent, Len(got) + 1, Len(sent))

LEMMA ReadsSplit ==
  ASSUME NEW in, NEW d, NEW sent, NEW got, Reads(in, d, sent, got)
  PROVE  /\ got \in Seq(Incoming)
         /\ \E x \in Seq(Incoming) : sent = got \o x /\ Travelling(sent, got) = x
<1>1. PICK rest \in Seq(Incoming) :
        \/ Between(in, d, sent, got, rest)
        \/ \E p \in Incoming : Within(in, d, sent, got, rest, p)
  BY Zenon DEF Reads
<1>2. got \in Seq(Incoming)
  BY DEF Reads
<1>3. PICK x \in Seq(Incoming) : sent = got \o x
  <2>1. CASE Between(in, d, sent, got, rest)
    BY <2>1, Zenon DEF Between
  <2>2. CASE \E p \in Incoming : Within(in, d, sent, got, rest, p)
    <3>1. PICK p \in Incoming : sent = got \o (<<p>> \o rest)
      BY <2>2, Zenon DEF Within
    <3>2. <<p>> \in Seq(Incoming)
      OBVIOUS
    <3>3. <<p>> \o rest \in Seq(Incoming)
      BY <3>2, ConcatProperties
    <3> QED
      BY <3>1, <3>3, Zenon
  <2> QED
    BY <1>1, <2>1, <2>2
<1>4. Travelling(sent, got) = x
  <2>1. SubSeq(got \o x, Len(got) + 1, Len(got \o x)) = x
    BY <1>2, SuffixConcat
  <2> QED
    BY <1>3, <2>1, Zenon DEF Travelling
<1> QED
  BY <1>2, <1>3, <1>4, Zenon

LEMMA SendStep ==
  ASSUME NEW in, NEW d, NEW sent, NEW got, Reads(in, d, sent, got), NEW p \in Incoming
  PROVE  Travelling(Append(sent, p), got) = Append(Travelling(sent, got), p)
<1>1. PICK x \in Seq(Incoming) :
        got \in Seq(Incoming) /\ sent = got \o x /\ Travelling(sent, got) = x
  BY ReadsSplit
<1>2. LastElement(got, x, p)
  BY <1>1, LastElementJoins
<1>3. PICK y \in Seq(Incoming) : y = Append(x, p)
  BY AppendProperties
<1>4. SubSeq(got \o y, Len(got) + 1, Len(got \o y)) = y
  BY <1>1, SuffixConcat
<1> QED
  BY <1>1, <1>2, <1>3, <1>4, Zenon DEF LastElement, Travelling

\* The next packet to be handled
IsFirst(p, sent, got) ==
  /\ Travelling(sent, got) # <<>>
  /\ Head(Travelling(sent, got)) = p
  /\ Tail(Travelling(sent, got)) = Travelling(sent, Append(got, p))

LEMMA ReceiveStep ==
  ASSUME NEW in, NEW d, NEW sent, NEW got \in Seq(Incoming), NEW p \in Incoming,
         Reads(in, d, sent, Append(got, p))
  PROVE  IsFirst(p, sent, got)
<1>1. PICK x \in Seq(Incoming) :
        sent = Append(got, p) \o x /\ Travelling(sent, Append(got, p)) = x
  <2>1. PICK g : g = Append(got, p)
    OBVIOUS
  <2>2. Reads(in, d, sent, g)
    BY <2>1, Zenon
  <2>3. \E x \in Seq(Incoming) : sent = g \o x /\ Travelling(sent, g) = x
    BY <2>2, ReadsSplit
  <2> QED
    BY <2>1, <2>3, Zenon
<1>2. PICK one \in Seq(Incoming) : one = <<p>>
  BY OneElement
<1>3. PICK y \in Seq(Incoming) : y = one \o x
  BY ConcatProperties
<1>4. sent = got \o y
  <2>1. Append(got, p) = got \o one
    BY <1>2, AppendIsConcat
  <2>2. (got \o one) \o x = got \o (one \o x)
    BY ConcatAssociative
  <2> QED
    BY <1>1, <1>3, <2>1, <2>2, Zenon
<1>5. Travelling(sent, got) = y
  <2>1. SubSeq(got \o y, Len(got) + 1, Len(got \o y)) = y
    BY SuffixConcat
  <2> QED
    BY <1>4, <2>1, Zenon DEF Travelling
<1>6. y # <<>> /\ Head(y) = p /\ Tail(y) = x
  BY <1>2, <1>3
<1> QED
  BY <1>1, <1>5, <1>6, Zenon DEF IsFirst

LEMMA InitChannel == Init => Channel!Init
<1>1. SubSeq(<<>>, 1, 0) = <<>> /\ Len(<<>>) = 0 /\ 0 + 1 = 1
  OBVIOUS
<1> QED
  BY <1>1 DEF Init, Channel!Init

LEMMA NextChannel ==
  ASSUME ReadInv, ReadInv', [Next]_vars
  PROVE  [Channel!Next]_(Channel!vars)
<1> DEFINE t == Travelling(delivered, handled)
<1>1. ASSUME UNCHANGED <<delivered, handled>>
      PROVE  UNCHANGED Channel!vars
  BY <1>1 DEF Channel!vars
<1>2. ASSUME Reading, NEW command, NEW payload, PacketHandle(command, payload)
      PROVE  Channel!Receive
  <2>1. PICK p : p = [command |-> command, payload |-> payload]
    OBVIOUS
  <2>2. handled' = Append(handled, p) /\ delivered' = delivered
    BY <1>2, <2>1 DEF PacketHandle, Reading
  <2>3. sock /\ sock'
    BY <1>2, Zenon DEF Reading, ReadInv, ReaderOK, Connected
  <2>4. handled \in Seq(Incoming)
    BY <2>3, Zenon DEF ReadInv, ReaderOK, Reads
  <2>5. Reads(in_packet', down', delivered, Append(handled, p))
    BY <2>2, <2>3, Zenon DEF ReadInv, ReaderOK
  <2>6. p \in Incoming
    <3>1. Append(handled, p) \in Seq(Incoming)
      BY <2>5, Zenon DEF Reads
    <3>2. PICK S : S = Incoming \cup {p}
      OBVIOUS
    <3>3. handled \in Seq(S) /\ p \in S /\ Len(handled) \in Nat
      BY <2>4, <3>2
    <3>4. /\ Append(handled, p)[Len(handled) + 1] = p
          /\ Len(Append(handled, p)) = Len(handled) + 1
      BY <3>3, AppendProperties
    <3>5. Len(handled) + 1 \in 1 .. Len(Append(handled, p))
      BY <3>3, <3>4
    <3>6. Append(handled, p)[Len(handled) + 1] \in Incoming
      BY <3>1, <3>5, ElementOfSeq
    <3> QED
      BY <3>4, <3>6
  <2>7. PICK in, d : in = in_packet' /\ d = down'
    OBVIOUS
  <2>8. Reads(in, d, delivered, Append(handled, p))
    BY <2>5, <2>7, Zenon
  <2>9. /\ t # <<>> /\ Head(t) = p
        /\ Tail(t) = Travelling(delivered, Append(handled, p))
    <3>1. IsFirst(p, delivered, handled)
      BY <2>4, <2>6, <2>8, ReceiveStep
    <3> QED
      BY <3>1, Zenon DEF IsFirst
  <2> QED
    BY <2>2, <2>9, Zenon DEF Channel!Receive, Travelling
<1>3. CASE BrokerSends
  <2>1. PICK p \in Incoming : delivered' = Append(delivered, p)
    BY <1>3 DEF BrokerSends
  <2>2. sock /\ handled' = handled
    BY <1>3 DEF BrokerSends
  <2>3. Reads(in_packet, down, delivered, handled)
    BY <2>2, Zenon DEF ReadInv, ReaderOK
  <2>4. Travelling(Append(delivered, p), handled) = Append(t, p)
    BY <2>3, SendStep
  <2>5. Channel!Send(p)
    BY <2>1, <2>2, <2>4, Zenon DEF Channel!Send, Travelling
  <2> QED
    BY <2>5 DEF Channel!Next
<1>4. CASE SocketConnect
  <2>1. delivered' = <<>> /\ handled' = <<>>
    BY <1>4 DEF SocketConnect
  <2>2. SubSeq(<<>>, Len(<<>>) + 1, Len(<<>>)) = <<>>
    <3>1. Len(<<>>) < Len(<<>>) + 1 /\ Len(<<>>) \in Int /\ Len(<<>>) + 1 \in Int
      OBVIOUS
    <3> QED
      BY <3>1, SubSeqEmpty
  <2>3. Channel!Renew
    BY <2>1, <2>2, Zenon DEF Channel!Renew
  <2> QED
    BY <2>3 DEF Channel!Next
<1>5. CASE ReadSome
  <2>1. CASE ReadCommand \/ ReadLengthGoesOn \/ ReadLengthFails
    BY <1>1, <2>1, Zenon DEF ReadCommand, ReadLengthGoesOn, ReadLengthFails, Reading, ReadingLength,
                             KeepReading
  <2>2. CASE ReadLengthEnds \/ ReadPayload
    <3>1. /\ Reading
          /\ (\E command, payload : PacketHandle(command, payload)) \/ \E n : KeepReading(n)
      BY <2>2, Zenon DEF ReadLengthEnds, ReadingLength, ReadPayload
    <3>2. CASE \E command, payload : PacketHandle(command, payload)
      BY <1>2, <3>1, <3>2, Zenon DEF Channel!Next
    <3>3. CASE \E n : KeepReading(n)
      BY <1>1, <3>1, <3>3 DEF Reading, KeepReading
    <3> QED
      BY <3>1, <3>2, <3>3
  <2> QED
    BY <1>5, <2>1, <2>2, Zenon DEF ReadSome
<1>6. CASE \/ WorkerChecks \/ WorkerQueues \/ LoopBegins \/ SelectWrites \/ ReadAgain \/ PairRead
           \/ WriteSkipped \/ WriteBegins \/ WriteEnds \/ Purge \/ SendConnect
           \/ SelectReads \/ SelectTimeout \/ WriteSome \/ ConnLost \/ Ended
           \/ UNCHANGED vars
  <2>1. UNCHANGED <<delivered, handled>>
    BY <1>6, Zenon DEF WorkerChecks, WorkerQueues, LoopBegins, SelectWrites, ReadAgain, PairRead,
       WriteSkipped, WriteBegins, WriteEnds, Purge, SendConnect, SelectReads, SelectTimeout,
       WriteSome, ConnLost, Ended, incoming, vars
  <2> QED
    BY <1>1, <2>1
<1> QED
  BY <1>3, <1>4, <1>5, <1>6, Zenon DEF Next, Loop

\* PacketIO implements PacketChannel: whatever the packets, and however read() cuts up
\* their bytes, the handlers of a connection see the packets the broker has sent on it,
\* whole, once and in order.
THEOREM ImplementsChannelCorrect == Spec => ImplementsChannel
<1>1. ReadInv /\ ReadInv' /\ [Next]_vars => [Channel!Next]_(Channel!vars)
  BY NextChannel
<1>2. IInv => ReadInv
  BY DEF IInv
<1> QED
  BY <1>1, <1>2, InitChannel, Invariant, PTL DEF Spec, ImplementsChannel, Channel!Spec
=============================================================================
