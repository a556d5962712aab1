---------------------------- MODULE ILayoutProofs ---------------------------
(***************************************************************************)
(* Instruction layouts, and the instructions of RV32I as they are made of  *)
(* them: for each family of instructions, the word that its arguments      *)
(* make, through the transforms.                                           *)
(*                                                                         *)
(* A word is a set of bits, which the fields of its format share.          *)
(***************************************************************************)
EXTENDS RV32IInsns, SequenceTheorems, WellFoundedInduction, TLAPS

\* Induction, as a fact about sets of numbers.
LEMMA SetInduction ==
  ASSUME NEW Ns \in SUBSET Nat, 0 \in Ns, \A n \in Ns : n + 1 \in Ns
  PROVE  Ns = Nat
<1> SUFFICES ASSUME Ns # Nat PROVE FALSE
  OBVIOUS
<1> DEFINE T == Nat \ Ns
           less == OpToRel(<, Nat)
<1>1. T \subseteq Nat /\ T # {}
  OBVIOUS
<1>2. IsWellFoundedOn(less, Nat)
  BY NatLessThanWellFounded
<1>3. PICK m \in T : \A y \in T : ~(<<y, m>> \in less)
  <2> HIDE DEF less, T
  <2> QED BY <1>1, <1>2, WFMin
<1>4. m # 0 /\ m \in Nat /\ m - 1 \in Nat
  OBVIOUS
<1>5. m - 1 \in T
  BY <1>4
<1>6. <<m - 1, m>> \in less
  BY <1>4 DEF OpToRel
<1> QED BY <1>3, <1>5, <1>6
-----------------------------------------------------------------------------
\* The powers of two that the fields of a word come to, and twice a power.
LEMMA Powers ==
  /\ 2^0 = 1 /\ 2^1 = 2 /\ 2^2 = 4 /\ 2^3 = 8 /\ 2^4 = 16 /\ 2^5 = 32 /\ 2^6 = 64
  /\ 2^7 = 128 /\ 2^8 = 256 /\ 2^9 = 512 /\ 2^10 = 1024 /\ 2^11 = 2048 /\ 2^12 = 4096
  /\ 2^13 = 8192 /\ 2^14 = 16384 /\ 2^15 = 32768 /\ 2^16 = 65536 /\ 2^17 = 131072
  /\ 2^18 = 262144 /\ 2^19 = 524288 /\ 2^20 = 1048576 /\ 2^21 = 2097152
OBVIOUS

LEMMA TwoPowers == ASSUME NEW k \in 0 .. 20 PROVE 2^k \in Nat \ {0} /\ 2^(k + 1) = 2 * 2^k
<1>0. CASE k = 0
  <2>1. 2^k = 1 /\ 2^(k + 1) = 2
    BY <1>0
  <2> QED BY <2>1
<1>1. CASE k = 1
  <2>1. 2^k = 2 /\ 2^(k + 1) = 4
    BY <1>1
  <2> QED BY <2>1
<1>2. CASE k = 2
  <2>1. 2^k = 4 /\ 2^(k + 1) = 8
    BY <1>2
  <2> QED BY <2>1
<1>3. CASE k = 3
  <2>1. 2^k = 8 /\ 2^(k + 1) = 16
    BY <1>3
  <2> QED BY <2>1
<1>4. CASE k = 4
  <2>1. 2^k = 16 /\ 2^(k + 1) = 32
    BY <1>4
  <2> QED BY <2>1
<1>5. CASE k = 5
  <2>1. 2^k = 32 /\ 2^(k + 1) = 64
    BY <1>5
  <2> QED BY <2>1
<1>6. CASE k = 6
  <2>1. 2^k = 64 /\ 2^(k + 1) = 128
    BY <1>6
  <2> QED BY <2>1
<1>7. CASE k = 7
  <2>1. 2^k = 128 /\ 2^(k + 1) = 256
    BY <1>7
  <2> QED BY <2>1
<1>8. CASE k = 8
  <2>1. 2^k = 256 /\ 2^(k + 1) = 512
    BY <1>8
  <2> QED BY <2>1
<1>9. CASE k = 9
  <2>1. 2^k = 512 /\ 2^(k + 1) = 1024
    BY <1>9
  <2> QED BY <2>1
<1>10. CASE k = 10
  <2>1. 2^k = 1024 /\ 2^(k + 1) = 2048
    BY <1>10
  <2> QED BY <2>1
<1>11. CASE k = 11
  <2>1. 2^k = 2048 /\ 2^(k + 1) = 4096
    BY <1>11
  <2> QED BY <2>1
<1>12. CASE k = 12
  <2>1. 2^k = 4096 /\ 2^(k + 1) = 8192
    BY <1>12
  <2> QED BY <2>1
<1>13. CASE k = 13
  <2>1. 2^k = 8192 /\ 2^(k + 1) = 16384
    BY <1>13
  <2> QED BY <2>1
<1>14. CASE k = 14
  <2>1. 2^k = 16384 /\ 2^(k + 1) = 32768
    BY <1>14
  <2> QED BY <2>1
<1>15. CASE k = 15
  <2>1. 2^k = 32768 /\ 2^(k + 1) = 65536
    BY <1>15
  <2> QED BY <2>1
<1>16. CASE k = 16
  <2>1. 2^k = 65536 /\ 2^(k + 1) = 131072
    BY <1>16
  <2> QED BY <2>1
<1>17. CASE k = 17
  <2>1. 2^k = 131072 /\ 2^(k + 1) = 262144
    BY <1>17
  <2> QED BY <2>1
<1>18. CASE k = 18
  <2>1. 2^k = 262144 /\ 2^(k + 1) = 524288
    BY <1>18
  <2> QED BY <2>1
<1>19. CASE k = 19
  <2>1. 2^k = 524288 /\ 2^(k + 1) = 1048576
    BY <1>19
  <2> QED BY <2>1
<1>20. CASE k = 20
  <2>1. 2^k = 1048576 /\ 2^(k + 1) = 2097152
    BY <1>20
  <2> QED BY <2>1
<1> QED BY <1>0, <1>1, <1>2, <1>3, <1>4, <1>5, <1>6, <1>7, <1>8, <1>9, <1>10, <1>11, <1>12,
      <1>13, <1>14, <1>15, <1>16, <1>17, <1>18, <1>19, <1>20

\* The powers of two, under a name.
Power(k) == 2^k

LEMMA PowerStep == \A k \in 0 .. 20 : Power(k) \in Nat \ {0} /\ Power(k + 1) = 2 * Power(k)
<1> SUFFICES ASSUME NEW k \in 0 .. 20 PROVE Power(k) \in Nat \ {0} /\ Power(k + 1) = 2 * Power(k)
  OBVIOUS
<1>1. 2^k \in Nat \ {0} /\ 2^(k + 1) = 2 * 2^k
  BY TwoPowers
<1> QED BY <1>1 DEF Power

\* The number of the n lowest bits of word from a on, of that of one bit fewer.
OneBit(word, a, n, before) == before + (IF a + n - 1 \in word THEN Power(n - 1) ELSE 0)

\* Extract's recursive function, which adds the bits of a range from the lowest, exists:
\* by induction there is one on every initial segment of its domain.
LEMMA LowExists ==
  ASSUME NEW word, NEW a \in Nat
  PROVE  \E f : f = [n \in 0 .. 32 |-> IF n = 0 THEN 0 ELSE OneBit(word, a, n, f[n - 1])]
<1> DEFINE T == {m \in Nat : \E f :
                   f = [n \in 0 .. m |-> IF n = 0 THEN 0 ELSE OneBit(word, a, n, f[n - 1])]}
<1>1. 0 \in T
  <2> DEFINE f0 == [n \in 0 .. 0 |-> 0]
  <2>1. f0 = [n \in 0 .. 0 |-> IF n = 0 THEN 0 ELSE OneBit(word, a, n, f0[n - 1])]
    OBVIOUS
  <2> QED BY <2>1
<1>2. ASSUME NEW m \in T PROVE m + 1 \in T
  <2>1. PICK f : f = [n \in 0 .. m |-> IF n = 0 THEN 0 ELSE OneBit(word, a, n, f[n - 1])]
    OBVIOUS
  <2>2. m \in Nat
    OBVIOUS
  <2> DEFINE g == [n \in 0 .. m + 1 |-> IF n <= m THEN f[n] ELSE OneBit(word, a, m + 1, f[m])]
  <2>3. \A n \in 0 .. m + 1 : g[n] = IF n = 0 THEN 0 ELSE OneBit(word, a, n, g[n - 1])
    <3> SUFFICES ASSUME NEW n \in 0 .. m + 1
                 PROVE  g[n] = IF n = 0 THEN 0 ELSE OneBit(word, a, n, g[n - 1])
      OBVIOUS
    <3>1. CASE n = 0
      BY <2>1, <2>2, <3>1
    <3>2. CASE n # 0 /\ n <= m
      <4>1. g[n] = f[n] /\ g[n - 1] = f[n - 1]
        BY <2>2, <3>2
      <4>2. f[n] = IF n = 0 THEN 0 ELSE OneBit(word, a, n, f[n - 1])
        <5>1. n \in 0 .. m
          BY <3>2, <2>2
        <5> QED BY <2>1, <5>1
      <4> HIDE DEF g
      <4> QED BY <4>1, <4>2, <3>2
    <3>3. CASE n = m + 1
      <4>1. g[n] = OneBit(word, a, n, f[m]) /\ g[n - 1] = f[m] /\ n # 0
        BY <2>2, <3>3
      <4> HIDE DEF g
      <4> QED BY <4>1
    <3> QED BY <2>2, <3>1, <3>2, <3>3
  <2>4. g = [n \in 0 .. m + 1 |-> IF n = 0 THEN 0 ELSE OneBit(word, a, n, g[n - 1])]
    <3>1. DOMAIN g = 0 .. m + 1 /\ g = [n \in 0 .. m + 1 |-> g[n]]
      OBVIOUS
    <3> HIDE DEF g
    <3> QED BY <2>3, <3>1
  <2>5. \E h : h = [n \in 0 .. m + 1 |-> IF n = 0 THEN 0 ELSE OneBit(word, a, n, h[n - 1])]
    <3> HIDE DEF g
    <3> QED BY <2>4
  <2> QED BY <2>2, <2>5
<1>3. T = Nat
  <2>1. T \in SUBSET Nat
    OBVIOUS
  <2> HIDE DEF T
  <2> QED BY <1>1, <1>2, <2>1, SetInduction
<1> QED BY <1>3

\* The numbers that the bits of word from a on make.
IsLow(low, word, a) ==
  /\ low[0] = 0
  /\ \A n \in 0 .. 19 : low[n + 1] = low[n] + (IF a + n \in word THEN Power(n) ELSE 0)
  /\ \A w \in 0 .. 20 : Extract(word, <<a, a + w>>) = low[w]

LEMMA ExtractFn == ASSUME NEW word, NEW a \in Nat PROVE \E low : IsLow(low, word, a)
<1> DEFINE low[n \in 0 .. WordLen] ==
        IF n = 0 THEN 0
        ELSE low[n - 1] + (IF a + n - 1 \in word THEN 2^(n - 1) ELSE 0)
<1>1. \E f : f = [n \in 0 .. 32 |-> IF n = 0 THEN 0 ELSE OneBit(word, a, n, f[n - 1])]
  BY LowExists
<1>2. \E f : f = [n \in 0 .. WordLen |-> IF n = 0 THEN 0
              ELSE f[n - 1] + (IF a + n - 1 \in word THEN 2^(n - 1) ELSE 0)]
  BY <1>1 DEF WordLen, OneBit, Power
<1>3. low = [n \in 0 .. WordLen |-> IF n = 0 THEN 0
        ELSE low[n - 1] + (IF a + n - 1 \in word THEN 2^(n - 1) ELSE 0)]
  BY <1>2
<1>4. \A b : Extract(word, <<a, b>>) = low[b - a]
  BY DEF Extract
<1> HIDE DEF low
<1>5. low = [n \in 0 .. 32 |-> IF n = 0 THEN 0 ELSE OneBit(word, a, n, low[n - 1])]
  BY <1>3 DEF WordLen, OneBit, Power
<1>6. low[0] = 0
  BY <1>5
<1>7. ASSUME NEW n \in 0 .. 19
      PROVE  low[n + 1] = low[n] + (IF a + n \in word THEN Power(n) ELSE 0)
  <2>1. n + 1 \in 0 .. 32 /\ n + 1 - 1 = n /\ a + (n + 1) - 1 = a + n /\ n + 1 # 0
    OBVIOUS
  <2>2. low[n + 1] = OneBit(word, a, n + 1, low[n])
    BY <1>5, <2>1
  <2> QED BY <2>1, <2>2 DEF OneBit
<1>8. ASSUME NEW w \in 0 .. 20 PROVE Extract(word, <<a, a + w>>) = low[w]
  <2>1. a + w - a = w
    OBVIOUS
  <2> QED BY <1>4, <2>1
<1>9. IsLow(low, word, a)
  BY <1>6, <1>7, <1>8 DEF IsLow
<1> QED BY <1>9

\* Quotient and remainder are what makes n * q + r.
LEMMA DivMod ==
  ASSUME NEW n \in Nat \ {0}, NEW q \in Int, NEW r \in 0 .. n - 1, NEW x \in Int, x = n * q + r
  PROVE  x % n = r /\ x \div n = q
<1> DEFINE d == x \div n
           m == x % n
<1>1. d \in Int /\ m \in 0 .. n - 1 /\ x = n * d + m
  OBVIOUS
<1> HIDE DEF d, m
<1>2. n * (q - d) = m - r
  BY <1>1
<1>3. ASSUME q - d >= 1 PROVE FALSE
  <2>1. n * (q - d) >= n
    BY <1>1, <1>3
  <2> QED BY <1>1, <1>2, <2>1
<1>4. ASSUME d - q >= 1 PROVE FALSE
  <2>1. n * (d - q) >= n
    BY <1>1, <1>4
  <2>2. n * (d - q) = r - m
    BY <1>1
  <2> QED BY <1>1, <2>1, <2>2
<1>5. q = d
  BY <1>1, <1>3, <1>4
<1>6. m = r
  BY <1>1, <1>2, <1>5
<1> QED BY <1>5, <1>6 DEF d, m

\* One more bit of a remainder.
LEMMA OneMoreBit ==
  ASSUME NEW v \in Int, NEW m \in Nat \ {0}, NEW b, b = (v \div m) % 2
  PROVE  b \in 0 .. 1 /\ (v % (2 * m)) = (v % m) + m * b /\ (v % m) \in 0 .. m - 1
<1>1. PICK d \in Int, r \in 0 .. m - 1 : v \div m = d /\ v % m = r /\ v = m * d + r
  OBVIOUS
<1>2. PICK q \in Int : d = 2 * q + b /\ b \in 0 .. 1
  <2>1. d = 2 * (d \div 2) + (d % 2) /\ d \div 2 \in Int /\ d % 2 \in 0 .. 1
    OBVIOUS
  <2> QED BY <1>1, <2>1
<1>3. m * b \in {0, m}
  BY <1>2
<1>4. v = (2 * m) * q + (r + m * b)
  <2>1. m * d = 2 * (m * q) + m * b
    BY <1>2
  <2> QED BY <1>1, <1>3, <2>1
<1>5. PICK n \in Nat \ {0}, s \in Nat : n = 2 * m /\ s = r + m * b /\ s \in 0 .. n - 1
  BY <1>1, <1>3
<1>6. v % n = s
  <2>1. v = n * q + s
    BY <1>4, <1>5
  <2>2. \A z \in Int : z = n * q + s => z % n = s
    BY <1>2, <1>5, DivMod
  <2> QED BY <2>1, <2>2
<1> QED BY <1>1, <1>2, <1>5, <1>6

\* A bit is 0 or 1.
LEMMA BitType == ASSUME NEW v \in Int, NEW k \in 0 .. 20 PROVE Bit(v, k) \in 0 .. 1
BY PowerStep DEF Bit, Power

\* The remainder of a number by twice a power.
LEMMA NextBit ==
  ASSUME NEW v \in Int, NEW k \in 0 .. 19
  PROVE  /\ Bit(v, k) \in 0 .. 1 /\ (v % Power(k)) \in 0 .. Power(k) - 1
         /\ (v % Power(k + 1)) = (v % Power(k)) + Power(k) * Bit(v, k)
<1>1. Power(k) \in Nat \ {0} /\ Power(k + 1) = 2 * Power(k)
  BY PowerStep
<1>2. PICK m \in Nat \ {0} : m = Power(k)
  BY <1>1
<1>3. Bit(v, k) = (v \div m) % 2
  BY <1>2 DEF Bit, Power
<1>4. /\ Bit(v, k) \in 0 .. 1 /\ (v % (2 * m)) = (v % m) + m * Bit(v, k)
      /\ (v % m) \in 0 .. m - 1
  BY <1>3, OneMoreBit
<1> QED BY <1>1, <1>2, <1>4

\* What is placed in a range of bits is read there, but for what is too wide.
LEMMA ExtractPlaced ==
  ASSUME NEW v \in Int, NEW a \in Nat, NEW w \in 0 .. 20, NEW word,
         \A k \in 0 .. w - 1 : a + k \in word <=> Bit(v, k) = 1
  PROVE  Extract(word, <<a, a + w>>) = v % Power(w)
<1>0. PICK low : IsLow(low, word, a)
  BY ExtractFn
<1>1. /\ low[0] = 0
      /\ \A n \in 0 .. 19 : low[n + 1] = low[n] + (IF a + n \in word THEN Power(n) ELSE 0)
      /\ \A u \in 0 .. 20 : Extract(word, <<a, a + u>>) = low[u]
  BY <1>0 DEF IsLow
<1> DEFINE T == {n \in Nat : n <= w => low[n] = v % Power(n)}
<1>2. 0 \in T
  <2>1. low[0] = 0
    BY <1>1
  <2>2. v % Power(0) = 0
    BY Powers DEF Power
  <2> QED BY <2>1, <2>2
<1>3. ASSUME NEW n \in T PROVE n + 1 \in T
  <2>1. CASE n + 1 <= w
    <3>1. n \in 0 .. 19
      BY <2>1
    <3>2. low[n + 1] = low[n] + (IF a + n \in word THEN Power(n) ELSE 0)
      BY <1>1, <3>1
    <3>3. low[n] = v % Power(n)
      BY <2>1
    <3>4. a + n \in word <=> Bit(v, n) = 1
      BY <2>1
    <3>5. Power(n) \in Nat
      BY <3>1, PowerStep
    <3>6. (v % Power(n + 1)) = (v % Power(n)) + Power(n) * Bit(v, n) /\ Bit(v, n) \in 0 .. 1
      BY <3>1, NextBit
    <3>7. low[n + 1] = v % Power(n + 1)
      BY <3>2, <3>3, <3>4, <3>5, <3>6
    <3> QED BY <3>7
  <2>2. CASE ~(n + 1 <= w)
    BY <2>2
  <2> QED BY <2>1, <2>2
<1>4. T = Nat
  <2>1. T \in SUBSET Nat
    OBVIOUS
  <2> HIDE DEF T
  <2> QED BY <1>2, <1>3, <2>1, SetInduction
<1>5. low[w] = v % Power(w)
  BY <1>4
<1> QED BY <1>1, <1>5

\* What is read in a range of bits has no more than those bits.
LEMMA ExtractRange ==
  ASSUME NEW a \in Nat, NEW w \in 0 .. 20, NEW word
  PROVE  /\ Extract(word, <<a, a + w>>) \in 0 .. Power(w) - 1
         /\ \A k \in 0 .. w - 1 : a + k \in word <=> Bit(Extract(word, <<a, a + w>>), k) = 1
<1>0. PICK low : IsLow(low, word, a)
  BY ExtractFn
<1>1. /\ low[0] = 0
      /\ \A n \in 0 .. 19 : low[n + 1] = low[n] + (IF a + n \in word THEN Power(n) ELSE 0)
      /\ \A u \in 0 .. 20 : Extract(word, <<a, a + u>>) = low[u]
  BY <1>0 DEF IsLow
<1>2. ASSUME NEW n \in 0 .. 19
      PROVE  low[n + 1] = low[n] + (IF a + n \in word THEN Power(n) ELSE 0)
  BY <1>1
<1> DEFINE T == {n \in Nat : n <= 20 => low[n] \in 0 .. Power(n) - 1}
<1>3. T = Nat
  <2>1. 0 \in T
    BY <1>1, Powers DEF Power
  <2>2. ASSUME NEW n \in T PROVE n + 1 \in T
    <3>1. CASE n + 1 <= 20
      <4>1. n \in 0 .. 19 /\ Power(n) \in Nat /\ Power(n + 1) = 2 * Power(n) /\
              low[n] \in 0 .. Power(n) - 1
        BY <3>1, PowerStep
      <4>2. low[n + 1] = low[n] + (IF a + n \in word THEN Power(n) ELSE 0)
        BY <1>2, <4>1
      <4>3. low[n + 1] \in 0 .. Power(n + 1) - 1
        BY <4>1, <4>2
      <4> QED BY <4>3
    <3>2. CASE ~(n + 1 <= 20)
      BY <3>2
    <3> QED BY <3>1, <3>2
  <2>3. T \in SUBSET Nat
    OBVIOUS
  <2> HIDE DEF T
  <2> QED BY <2>1, <2>2, <2>3, SetInduction
<1>4. \A n \in 0 .. 20 : low[n] \in 0 .. Power(n) - 1
  BY <1>3
<1> DEFINE x == low[w]
<1>5. x \in Int
  BY <1>4, PowerStep
<1> HIDE DEF x
<1>6. ASSUME NEW n \in 0 .. 19, x % Power(n + 1) = low[n + 1]
      PROVE  x % Power(n) = low[n] /\ (a + n \in word <=> Bit(x, n) = 1)
  <2>1. PICK m \in Nat \ {0} : m = Power(n)
    BY PowerStep
  <2>2. PICK b \in 0 .. 1 : b = Bit(x, n)
    BY <1>5, NextBit
  <2>3. PICK r \in 0 .. m - 1 : r = x % Power(n) /\ x % Power(n + 1) = r + m * b
    BY <1>5, <2>1, <2>2, NextBit
  <2>4. PICK s \in 0 .. m - 1 : s = low[n]
    BY <1>4, <2>1
  <2>5. r + m * b = s + (IF a + n \in word THEN m ELSE 0)
    BY <1>2, <1>6, <2>1, <2>3, <2>4
  <2>6. r = s /\ (a + n \in word <=> b = 1)
    BY <2>5
  <2> QED BY <2>2, <2>3, <2>4, <2>6
<1> DEFINE Counted == {k \in Nat : k <= w => x % Power(w - k) = low[w - k]}
<1>7. Counted = Nat
  <2>1. 0 \in Counted
    <3>1. PICK m \in Nat \ {0} : m = Power(w)
      <4>1. CASE w = 20
        BY <4>1, Powers DEF Power
      <4>2. CASE w # 20
        BY <4>2, PowerStep
      <4> QED BY <4>1, <4>2
    <3>2. x \in 0 .. m - 1
      BY <1>4, <3>1 DEF x
    <3>3. x % m = x
      BY <3>2
    <3>4. w - 0 = w
      OBVIOUS
    <3> QED BY <3>1, <3>3, <3>4 DEF x
  <2>2. ASSUME NEW k \in Counted PROVE k + 1 \in Counted
    <3>1. CASE k + 1 <= w
      <4>1. w - (k + 1) \in 0 .. 19 /\ w - (k + 1) + 1 = w - k
        BY <3>1
      <4>2. x % Power(w - k) = low[w - k]
        BY <3>1
      <4>3. x % Power(w - (k + 1)) = low[w - (k + 1)]
        BY <1>6, <4>1, <4>2
      <4> QED BY <4>3
    <3>2. CASE ~(k + 1 <= w)
      BY <3>2
    <3> QED BY <3>1, <3>2
  <2>3. Counted \in SUBSET Nat
    OBVIOUS
  <2> HIDE DEF Counted
  <2> QED BY <2>1, <2>2, <2>3, SetInduction
<1>8. ASSUME NEW k \in 0 .. w - 1 PROVE a + k \in word <=> Bit(x, k) = 1
  <2>1. k \in 0 .. 19 /\ w - (k + 1) \in Nat /\ w - (w - (k + 1)) = k + 1 /\ w - (k + 1) <= w
    OBVIOUS
  <2>2. x % Power(k + 1) = low[k + 1]
    BY <1>7, <2>1
  <2> QED BY <1>6, <2>1, <2>2
<1>9. Extract(word, <<a, a + w>>) = x
  BY <1>1 DEF x
<1> QED BY <1>4, <1>8, <1>9 DEF x

\* A number that is, but for what is too wide, the one that is read in a range of bits
\* puts the bits there that there are.
LEMMA PlaceRead ==
  ASSUME NEW v \in Int, NEW a \in Nat, NEW w \in 0 .. 20, NEW word,
         v % Power(w) = Extract(word, <<a, a + w>>)
  PROVE  \A i \in a .. a + w - 1 : i \in word <=> Bit(v, i - a) = 1
<1> DEFINE placed == Place(v, <<a, a + w>>)
<1>1. \A k \in 0 .. w - 1 : a + k \in placed <=> Bit(v, k) = 1
  <2> SUFFICES ASSUME NEW k \in 0 .. w - 1 PROVE a + k \in placed <=> Bit(v, k) = 1
    OBVIOUS
  <2>1. a + k \in a .. a + w - 1 /\ a + k - a = k
    OBVIOUS
  <2> QED BY <2>1 DEF Place
<1> HIDE DEF placed
<1>2. Extract(placed, <<a, a + w>>) = v % Power(w)
  BY <1>1, ExtractPlaced
<1>3. \A k \in 0 .. w - 1 : a + k \in placed <=> a + k \in word
  <2>1. \A k \in 0 .. w - 1 : a + k \in word <=> Bit(Extract(word, <<a, a + w>>), k) = 1
    BY ExtractRange
  <2>2. \A k \in 0 .. w - 1 : a + k \in placed <=> Bit(Extract(placed, <<a, a + w>>), k) = 1
    BY ExtractRange
  <2> QED BY <1>2, <2>1, <2>2
<1> SUFFICES ASSUME NEW i \in a .. a + w - 1 PROVE i \in word <=> Bit(v, i - a) = 1
  OBVIOUS
<1>4. i - a \in 0 .. w - 1 /\ a + (i - a) = i
  OBVIOUS
<1> QED BY <1>1, <1>3, <1>4
-----------------------------------------------------------------------------
(* Layouts. *)

\* The ends of a layout's fields are those numbers that grow by the fields' widths.
LEMMA EndsAre ==
  ASSUME NEW layout, NEW e, Len(layout) \in Nat,
         e = [i \in 0 .. Len(layout) |-> e[i]], e[0] = 0,
         \A i \in 1 .. Len(layout) : e[i] = e[i - 1] + Width(layout[i], WordLen - e[i - 1])
  PROVE  Ends(layout) = e
<1>0. PICK n \in Nat : n = Len(layout)
  OBVIOUS
<1> DEFINE end[i \in 0 .. Len(layout)] ==
        IF i = 0 THEN 0 ELSE end[i - 1] + Width(layout[i], WordLen - end[i - 1])
<1>1. e = [i \in 0 .. Len(layout) |->
             IF i = 0 THEN 0 ELSE e[i - 1] + Width(layout[i], WordLen - e[i - 1])]
  <2>1. \A i \in 0 .. n :
          e[i] = IF i = 0 THEN 0 ELSE e[i - 1] + Width(layout[i], WordLen - e[i - 1])
    <3> SUFFICES ASSUME NEW i \in 0 .. n
                 PROVE  e[i] = IF i = 0 THEN 0 ELSE e[i - 1] +
                   Width(layout[i], WordLen - e[i - 1])
      OBVIOUS
    <3>1. i # 0 => i \in 1 .. n
      BY <1>0
    <3> QED BY <1>0, <3>1
  <2> QED BY <1>0, <2>1
<1>2. \E f : f = [i \in 0 .. Len(layout) |->
             IF i = 0 THEN 0 ELSE f[i - 1] + Width(layout[i], WordLen - f[i - 1])]
  BY <1>1
<1>3. end = [i \in 0 .. Len(layout) |->
             IF i = 0 THEN 0 ELSE end[i - 1] + Width(layout[i], WordLen - end[i - 1])]
  BY <1>2
<1>4. Ends(layout) = end
  BY DEF Ends
<1> HIDE DEF end
<1> DEFINE T == {i \in Nat : i <= n => end[i] = e[i]}
<1>5. T = Nat
  <2>1. 0 \in T
    BY <1>0, <1>3
  <2>2. ASSUME NEW i \in T PROVE i + 1 \in T
    <3>1. CASE i + 1 <= n
      <4>1. i + 1 \in 1 .. n /\ i + 1 \in 0 .. n /\ i + 1 - 1 = i /\ i \in 0 .. n
        BY <3>1
      <4>2. end[i + 1] = end[i] + Width(layout[i + 1], WordLen - end[i])
        BY <1>0, <1>3, <4>1
      <4>3. e[i + 1] = e[i] + Width(layout[i + 1], WordLen - e[i])
        BY <1>0, <4>1
      <4>4. end[i] = e[i]
        BY <4>1
      <4> QED BY <4>2, <4>3, <4>4
    <3>2. CASE ~(i + 1 <= n)
      BY <3>2
    <3> QED BY <3>1, <3>2
  <2>3. T \in SUBSET Nat
    OBVIOUS
  <2> HIDE DEF T
  <2> QED BY <2>1, <2>2, <2>3, SetInduction
<1>6. end = [i \in 0 .. n |-> end[i]]
  BY <1>0, <1>3
<1>7. \A i \in 0 .. n : end[i] = e[i]
  <2> SUFFICES ASSUME NEW i \in 0 .. n PROVE end[i] = e[i]
    OBVIOUS
  <2>1. i \in Nat /\ i <= n
    OBVIOUS
  <2>2. i \in T
    BY <1>5, <2>1
  <2> QED BY <2>1, <2>2
<1> QED BY <1>0, <1>4, <1>6, <1>7

\* The range of a field.
LEMMA RangesAre ==
  ASSUME NEW layout, NEW e, Ends(layout) = e,
         \A i, j \in DOMAIN layout : layout[i] = layout[j] => i = j
  PROVE  /\ FieldRanges(layout) = [x \in ToSet(layout) |-> FieldRanges(layout)[x]]
         /\ \A i \in DOMAIN layout : FieldRanges(layout)[layout[i]] = <<e[i - 1], e[i]>>
<1>1. FieldRanges(layout) = [x \in ToSet(layout) |-> FieldRanges(layout)[x]]
  <2>1. PICK g : g = [x \in ToSet(layout) |->
                        LET i == CHOOSE i \in DOMAIN layout : layout[i] = x
                        IN <<Ends(layout)[i - 1], Ends(layout)[i]>>]
    OBVIOUS
  <2>2. g = [x \in ToSet(layout) |-> g[x]]
    BY <2>1
  <2>3. FieldRanges(layout) = g
    BY <2>1 DEF FieldRanges
  <2> QED BY <2>2, <2>3
<1> SUFFICES ASSUME NEW i \in DOMAIN layout
             PROVE  FieldRanges(layout)[layout[i]] = <<e[i - 1], e[i]>>
  BY <1>1
<1>2. layout[i] \in ToSet(layout)
  BY DEF ToSet
<1>3. (CHOOSE j \in DOMAIN layout : layout[j] = layout[i]) = i
  OBVIOUS
<1> QED BY <1>2, <1>3 DEF FieldRanges

\* The widths of the fields, as they are named; imm has what is left of the word.
LEMMA Widths ==
  \A remlen :
    /\ Width("opcode", remlen) = 7 /\ Width("rd", remlen) = 5 /\ Width("rs1", remlen) = 5
    /\ Width("rs2", remlen) = 5 /\ Width("funct3", remlen) = 3 /\ Width("funct7", remlen) = 7
    /\ Width("imm", remlen) = remlen
    /\ Width("imm4_0", remlen) = 5 /\ Width("imm11_5", remlen) = 7 /\ Width("imm11", remlen) = 1
    /\ Width("imm4_1", remlen) = 4 /\ Width("imm10_5", remlen) = 6 /\ Width("imm12", remlen) = 1
    /\ Width("imm19_12", remlen) = 8 /\ Width("imm10_1", remlen) = 10
    /\ Width("imm20", remlen) = 1
BY DEF Width, ImmTop, ImmBottom

\* The numbers at which a layout's fields begin and end, from 0 on; what follows for
\* their ranges.
AreEnds(layout, ends) ==
  /\ Len(layout) \in Nat /\ DOMAIN layout = 1 .. Len(layout)
  /\ \A i, j \in DOMAIN layout : layout[i] = layout[j] => i = j
  /\ ends[1] = 0
  /\ \A i \in DOMAIN layout : ends[i + 1] = ends[i] + Width(layout[i], WordLen - ends[i])

AreRanges(layout, ends, ranges) ==
  /\ ranges = [x \in ToSet(layout) |-> ranges[x]]
  /\ \A i \in DOMAIN layout : ranges[layout[i]] = <<ends[i], ends[i + 1]>>

\* A layout with these ends has these ranges.
LEMMA RangesOf ==
  \A layout, ends : AreEnds(layout, ends) => AreRanges(layout, ends, FieldRanges(layout))
<1> SUFFICES ASSUME NEW layout, NEW ends, AreEnds(layout, ends)
             PROVE  AreRanges(layout, ends, FieldRanges(layout))
  OBVIOUS
<1> USE DEF AreEnds
<1> DEFINE e == [i \in 0 .. Len(layout) |-> ends[i + 1]]
<1>1. e = [i \in 0 .. Len(layout) |-> e[i]] /\ e[0] = 0
  OBVIOUS
<1>2. \A i \in 1 .. Len(layout) : e[i - 1] = ends[i] /\ e[i] = ends[i + 1]
  <2> SUFFICES ASSUME NEW i \in 1 .. Len(layout) PROVE e[i - 1] = ends[i] /\ e[i] = ends[i + 1]
    OBVIOUS
  <2>1. i \in 0 .. Len(layout) /\ i - 1 \in 0 .. Len(layout) /\ i - 1 + 1 = i
    OBVIOUS
  <2> QED BY <2>1
<1> HIDE DEF e
<1>3. \A i \in 1 .. Len(layout) : e[i] = e[i - 1] + Width(layout[i], WordLen - e[i - 1])
  BY <1>2
<1>4. Ends(layout) = e
  BY <1>1, <1>3, EndsAre
<1>5. /\ FieldRanges(layout) = [x \in ToSet(layout) |-> FieldRanges(layout)[x]]
      /\ \A i \in DOMAIN layout : FieldRanges(layout)[layout[i]] = <<e[i - 1], e[i]>>
  BY <1>4, RangesAre
<1>6. \A i \in DOMAIN layout : FieldRanges(layout)[layout[i]] = <<ends[i], ends[i + 1]>>
  <2> SUFFICES ASSUME NEW i \in DOMAIN layout
               PROVE  FieldRanges(layout)[layout[i]] = <<ends[i], ends[i + 1]>>
    OBVIOUS
  <2>1. e[i - 1] = ends[i] /\ e[i] = ends[i + 1]
    BY <1>2
  <2> QED BY <1>5, <2>1
<1> QED BY <1>5, <1>6 DEF AreRanges

(* The classes, with the ranges of their fields. *)

RRanges == [opcode |-> <<0, 7>>, rd |-> <<7, 12>>, funct3 |-> <<12, 15>>, rs1 |-> <<15, 20>>,
            rs2 |-> <<20, 25>>, funct7 |-> <<25, 32>>]

LEMMA RIs ==
  R = [layout |-> <<"opcode", "rd", "funct3", "rs1", "rs2", "funct7">>,
       ranges |-> RRanges, defaults |-> [opcode |-> 51, funct7 |-> 0]]
<1> DEFINE layout == <<"opcode", "rd", "funct3", "rs1", "rs2", "funct7">>
           ends == <<0, 7, 12, 15, 20, 25, 32>>
<1>1. Len(layout) = 6 /\ DOMAIN layout = 1 .. 6
  OBVIOUS
<1>2. /\ layout[1] = "opcode" /\ layout[2] = "rd" /\ layout[3] = "funct3"
      /\ layout[4] = "rs1" /\ layout[5] = "rs2" /\ layout[6] = "funct7"
  OBVIOUS
<1>3. /\ ends[1] = 0 /\ ends[2] = 7 /\ ends[3] = 12 /\ ends[4] = 15 /\ ends[5] = 20
      /\ ends[6] = 25 /\ ends[7] = 32
  OBVIOUS
<1> HIDE DEF layout, ends
<1>4. DOMAIN layout = {1, 2, 3, 4, 5, 6}
  BY <1>1
<1>5. \A i, j \in DOMAIN layout : layout[i] = layout[j] => i = j
  BY <1>2, <1>4
<1>6. \A i \in DOMAIN layout : ends[i + 1] = ends[i] + Width(layout[i], WordLen - ends[i])
  <2>1. /\ ends[1 + 1] = ends[1] + Width(layout[1], WordLen - ends[1])
        /\ ends[2 + 1] = ends[2] + Width(layout[2], WordLen - ends[2])
        /\ ends[3 + 1] = ends[3] + Width(layout[3], WordLen - ends[3])
        /\ ends[4 + 1] = ends[4] + Width(layout[4], WordLen - ends[4])
        /\ ends[5 + 1] = ends[5] + Width(layout[5], WordLen - ends[5])
        /\ ends[6 + 1] = ends[6] + Width(layout[6], WordLen - ends[6])
    BY <1>2, <1>3, Widths DEF WordLen
  <2> QED BY <1>4, <2>1
<1>7. AreEnds(layout, ends)
  BY <1>1, <1>3, <1>5, <1>6 DEF AreEnds
<1>8. AreRanges(layout, ends, FieldRanges(layout))
  BY <1>7, RangesOf
<1>9. ToSet(layout) = {"opcode", "rd", "funct3", "rs1", "rs2", "funct7"}
  BY <1>2, <1>4 DEF ToSet
<1>10. /\ FieldRanges(layout)["opcode"] = <<0, 7>> /\ FieldRanges(layout)["rd"] = <<7, 12>>
       /\ FieldRanges(layout)["funct3"] = <<12, 15>> /\ FieldRanges(layout)["rs1"] = <<15, 20>>
       /\ FieldRanges(layout)["rs2"] = <<20, 25>> /\ FieldRanges(layout)["funct7"] = <<25, 32>>
  <2>1. /\ FieldRanges(layout)[layout[1]] = <<ends[1], ends[1 + 1]>>
        /\ FieldRanges(layout)[layout[2]] = <<ends[2], ends[2 + 1]>>
        /\ FieldRanges(layout)[layout[3]] = <<ends[3], ends[3 + 1]>>
        /\ FieldRanges(layout)[layout[4]] = <<ends[4], ends[4 + 1]>>
        /\ FieldRanges(layout)[layout[5]] = <<ends[5], ends[5 + 1]>>
        /\ FieldRanges(layout)[layout[6]] = <<ends[6], ends[6 + 1]>>
    BY <1>4, <1>8 DEF AreRanges
  <2> QED BY <1>2, <1>3, <2>1
<1>11. FieldRanges(layout) = RRanges
  BY <1>8, <1>9, <1>10 DEF AreRanges, RRanges
<1> QED BY <1>11 DEF R, Class, layout, Opcode

IRanges == [opcode |-> <<0, 7>>, rd |-> <<7, 12>>, funct3 |-> <<12, 15>>, rs1 |-> <<15, 20>>,
            imm |-> <<20, 32>>]

LEMMA IIs ==
  I = [layout |-> <<"opcode", "rd", "funct3", "rs1", "imm">>,
       ranges |-> IRanges, defaults |-> [opcode |-> 19]]
<1> DEFINE layout == <<"opcode", "rd", "funct3", "rs1", "imm">>
           ends == <<0, 7, 12, 15, 20, 32>>
<1>1. Len(layout) = 5 /\ DOMAIN layout = 1 .. 5
  OBVIOUS
<1>2. /\ layout[1] = "opcode" /\ layout[2] = "rd" /\ layout[3] = "funct3"
      /\ layout[4] = "rs1" /\ layout[5] = "imm"
  OBVIOUS
<1>3. /\ ends[1] = 0 /\ ends[2] = 7 /\ ends[3] = 12 /\ ends[4] = 15 /\ ends[5] = 20
      /\ ends[6] = 32
  OBVIOUS
<1> HIDE DEF layout, ends
<1>4. DOMAIN layout = {1, 2, 3, 4, 5}
  BY <1>1
<1>5. \A i, j \in DOMAIN layout : layout[i] = layout[j] => i = j
  BY <1>2, <1>4
<1>6. \A i \in DOMAIN layout : ends[i + 1] = ends[i] + Width(layout[i], WordLen - ends[i])
  <2>1. /\ ends[1 + 1] = ends[1] + Width(layout[1], WordLen - ends[1])
        /\ ends[2 + 1] = ends[2] + Width(layout[2], WordLen - ends[2])
        /\ ends[3 + 1] = ends[3] + Width(layout[3], WordLen - ends[3])
        /\ ends[4 + 1] = ends[4] + Width(layout[4], WordLen - ends[4])
        /\ ends[5 + 1] = ends[5] + Width(layout[5], WordLen - ends[5])
    BY <1>2, <1>3, Widths DEF WordLen
  <2> QED BY <1>4, <2>1
<1>7. AreEnds(layout, ends)
  BY <1>1, <1>3, <1>5, <1>6 DEF AreEnds
<1>8. AreRanges(layout, ends, FieldRanges(layout))
  BY <1>7, RangesOf
<1>9. ToSet(layout) = {"opcode", "rd", "funct3", "rs1", "imm"}
  BY <1>2, <1>4 DEF ToSet
<1>10. /\ FieldRanges(layout)["opcode"] = <<0, 7>> /\ FieldRanges(layout)["rd"] = <<7, 12>>
       /\ FieldRanges(layout)["funct3"] = <<12, 15>> /\ FieldRanges(layout)["rs1"] = <<15, 20>>
       /\ FieldRanges(layout)["imm"] = <<20, 32>>
  <2>1. /\ FieldRanges(layout)[layout[1]] = <<ends[1], ends[1 + 1]>>
        /\ FieldRanges(layout)[layout[2]] = <<ends[2], ends[2 + 1]>>
        /\ FieldRanges(layout)[layout[3]] = <<ends[3], ends[3 + 1]>>
        /\ FieldRanges(layout)[layout[4]] = <<ends[4], ends[4 + 1]>>
        /\ FieldRanges(layout)[layout[5]] = <<ends[5], ends[5 + 1]>>
    BY <1>4, <1>8 DEF AreRanges
  <2> QED BY <1>2, <1>3, <2>1
<1>11. FieldRanges(layout) = IRanges
  BY <1>8, <1>9, <1>10 DEF AreRanges, IRanges
<1> QED BY <1>11 DEF I, Class, layout, Opcode

SRanges == [opcode |-> <<0, 7>>, imm4_0 |-> <<7, 12>>, funct3 |-> <<12, 15>>,
            rs1 |-> <<15, 20>>, rs2 |-> <<20, 25>>, imm11_5 |-> <<25, 32>>]

LEMMA SIs ==
  S = [layout |-> <<"opcode", "imm4_0", "funct3", "rs1", "rs2", "imm11_5">>,
       ranges |-> SRanges, defaults |-> [opcode |-> 35]]
<1> DEFINE layout == <<"opcode", "imm4_0", "funct3", "rs1", "rs2", "imm11_5">>
           ends == <<0, 7, 12, 15, 20, 25, 32>>
<1>1. Len(layout) = 6 /\ DOMAIN layout = 1 .. 6
  OBVIOUS
<1>2. /\ layout[1] = "opcode" /\ layout[2] = "imm4_0" /\ layout[3] = "funct3"
      /\ layout[4] = "rs1" /\ layout[5] = "rs2" /\ layout[6] = "imm11_5"
  OBVIOUS
<1>3. /\ ends[1] = 0 /\ ends[2] = 7 /\ ends[3] = 12 /\ ends[4] = 15 /\ ends[5] = 20
      /\ ends[6] = 25 /\ ends[7] = 32
  OBVIOUS
<1> HIDE DEF layout, ends
<1>4. DOMAIN layout = {1, 2, 3, 4, 5, 6}
  BY <1>1
<1>5. \A i, j \in DOMAIN layout : layout[i] = layout[j] => i = j
  BY <1>2, <1>4
<1>6. \A i \in DOMAIN layout : ends[i + 1] = ends[i] + Width(layout[i], WordLen - ends[i])
  <2>1. /\ ends[1 + 1] = ends[1] + Width(layout[1], WordLen - ends[1])
        /\ ends[2 + 1] = ends[2] + Width(layout[2], WordLen - ends[2])
        /\ ends[3 + 1] = ends[3] + Width(layout[3], WordLen - ends[3])
        /\ ends[4 + 1] = ends[4] + Width(layout[4], WordLen - ends[4])
        /\ ends[5 + 1] = ends[5] + Width(layout[5], WordLen - ends[5])
        /\ ends[6 + 1] = ends[6] + Width(layout[6], WordLen - ends[6])
    BY <1>2, <1>3, Widths DEF WordLen
  <2> QED BY <1>4, <2>1
<1>7. AreEnds(layout, ends)
  BY <1>1, <1>3, <1>5, <1>6 DEF AreEnds
<1>8. AreRanges(layout, ends, FieldRanges(layout))
  BY <1>7, RangesOf
<1>9. ToSet(layout) = {"opcode", "imm4_0", "funct3", "rs1", "rs2", "imm11_5"}
  BY <1>2, <1>4 DEF ToSet
<1>10. /\ FieldRanges(layout)["opcode"] = <<0, 7>> /\ FieldRanges(layout)["imm4_0"] = <<7, 12>>
       /\ FieldRanges(layout)["funct3"] = <<12, 15>> /\ FieldRanges(layout)["rs1"] = <<15, 20>>
       /\ FieldRanges(layout)["rs2"] = <<20, 25>> /\ FieldRanges(layout)["imm11_5"] = <<25, 32>>
  <2>1. /\ FieldRanges(layout)[layout[1]] = <<ends[1], ends[1 + 1]>>
        /\ FieldRanges(layout)[layout[2]] = <<ends[2], ends[2 + 1]>>
        /\ FieldRanges(layout)[layout[3]] = <<ends[3], ends[3 + 1]>>
        /\ FieldRanges(layout)[layout[4]] = <<ends[4], ends[4 + 1]>>
        /\ FieldRanges(layout)[layout[5]] = <<ends[5], ends[5 + 1]>>
        /\ FieldRanges(layout)[layout[6]] = <<ends[6], ends[6 + 1]>>
    BY <1>4, <1>8 DEF AreRanges
  <2> QED BY <1>2, <1>3, <2>1
<1>11. FieldRanges(layout) = SRanges
  BY <1>8, <1>9, <1>10 DEF AreRanges, SRanges
<1> QED BY <1>11 DEF S, Class, layout, Opcode

BRanges == [opcode |-> <<0, 7>>, imm11 |-> <<7, 8>>, imm4_1 |-> <<8, 12>>,
            funct3 |-> <<12, 15>>, rs1 |-> <<15, 20>>, rs2 |-> <<20, 25>>,
            imm10_5 |-> <<25, 31>>, imm12 |-> <<31, 32>>]

LEMMA BIs ==
  B = [layout |-> <<"opcode", "imm11", "imm4_1", "funct3", "rs1", "rs2", "imm10_5", "imm12">>,
       ranges |-> BRanges, defaults |-> [opcode |-> 99]]
<1> DEFINE layout == <<"opcode", "imm11", "imm4_1", "funct3", "rs1", "rs2", "imm10_5", "imm12">>
           ends == <<0, 7, 8, 12, 15, 20, 25, 31, 32>>
<1>1. Len(layout) = 8 /\ DOMAIN layout = 1 .. 8
  OBVIOUS
<1>2. /\ layout[1] = "opcode" /\ layout[2] = "imm11" /\ layout[3] = "imm4_1"
      /\ layout[4] = "funct3" /\ layout[5] = "rs1" /\ layout[6] = "rs2"
      /\ layout[7] = "imm10_5" /\ layout[8] = "imm12"
  OBVIOUS
<1>3. /\ ends[1] = 0 /\ ends[2] = 7 /\ ends[3] = 8 /\ ends[4] = 12 /\ ends[5] = 15
      /\ ends[6] = 20 /\ ends[7] = 25 /\ ends[8] = 31 /\ ends[9] = 32
  OBVIOUS
<1> HIDE DEF layout, ends
<1>4. DOMAIN layout = {1, 2, 3, 4, 5, 6, 7, 8}
  BY <1>1
<1>5. \A i, j \in DOMAIN layout : layout[i] = layout[j] => i = j
  BY <1>2, <1>4
<1>6. \A i \in DOMAIN layout : ends[i + 1] = ends[i] + Width(layout[i], WordLen - ends[i])
  <2>1. /\ ends[1 + 1] = ends[1] + Width(layout[1], WordLen - ends[1])
        /\ ends[2 + 1] = ends[2] + Width(layout[2], WordLen - ends[2])
        /\ ends[3 + 1] = ends[3] + Width(layout[3], WordLen - ends[3])
        /\ ends[4 + 1] = ends[4] + Width(layout[4], WordLen - ends[4])
        /\ ends[5 + 1] = ends[5] + Width(layout[5], WordLen - ends[5])
        /\ ends[6 + 1] = ends[6] + Width(layout[6], WordLen - ends[6])
        /\ ends[7 + 1] = ends[7] + Width(layout[7], WordLen - ends[7])
        /\ ends[8 + 1] = ends[8] + Width(layout[8], WordLen - ends[8])
    BY <1>2, <1>3, Widths DEF WordLen
  <2> QED BY <1>4, <2>1
<1>7. AreEnds(layout, ends)
  BY <1>1, <1>3, <1>5, <1>6 DEF AreEnds
<1>8. AreRanges(layout, ends, FieldRanges(layout))
  BY <1>7, RangesOf
<1>9. ToSet(layout) = {"opcode", "imm11", "imm4_1", "funct3", "rs1", "rs2", "imm10_5", "imm12"}
  BY <1>2, <1>4 DEF ToSet
<1>10. /\ FieldRanges(layout)["opcode"] = <<0, 7>> /\ FieldRanges(layout)["imm11"] = <<7, 8>>
       /\ FieldRanges(layout)["imm4_1"] = <<8, 12>> /\ FieldRanges(layout)["funct3"] = <<12, 15>>
       /\ FieldRanges(layout)["rs1"] = <<15, 20>> /\ FieldRanges(layout)["rs2"] = <<20, 25>>
       /\ FieldRanges(layout)["imm10_5"] = <<25, 31>> /\ FieldRanges(layout)["imm12"] = <<31, 32>>
  <2>1. /\ FieldRanges(layout)[layout[1]] = <<ends[1], ends[1 + 1]>>
        /\ FieldRanges(layout)[layout[2]] = <<ends[2], ends[2 + 1]>>
        /\ FieldRanges(layout)[layout[3]] = <<ends[3], ends[3 + 1]>>
        /\ FieldRanges(layout)[layout[4]] = <<ends[4], ends[4 + 1]>>
        /\ FieldRanges(layout)[layout[5]] = <<ends[5], ends[5 + 1]>>
        /\ FieldRanges(layout)[layout[6]] = <<ends[6], ends[6 + 1]>>
        /\ FieldRanges(layout)[layout[7]] = <<ends[7], ends[7 + 1]>>
        /\ FieldRanges(layout)[layout[8]] = <<ends[8], ends[8 + 1]>>
    BY <1>4, <1>8 DEF AreRanges
  <2> QED BY <1>2, <1>3, <2>1
<1>11. FieldRanges(layout) = BRanges
  BY <1>8, <1>9, <1>10 DEF AreRanges, BRanges
<1> QED BY <1>11 DEF B, Class, layout, Opcode

URanges == [opcode |-> <<0, 7>>, rd |-> <<7, 12>>, imm |-> <<12, 32>>]

LEMMA UIs ==
  U = [layout |-> <<"opcode", "rd", "imm">>,
       ranges |-> URanges, defaults |-> <<>>]
<1> DEFINE layout == <<"opcode", "rd", "imm">>
           ends == <<0, 7, 12, 32>>
<1>1. Len(layout) = 3 /\ DOMAIN layout = 1 .. 3
  OBVIOUS
<1>2. /\ layout[1] = "opcode" /\ layout[2] = "rd" /\ layout[3] = "imm"
  OBVIOUS
<1>3. /\ ends[1] = 0 /\ ends[2] = 7 /\ ends[3] = 12 /\ ends[4] = 32
  OBVIOUS
<1> HIDE DEF layout, ends
<1>4. DOMAIN layout = {1, 2, 3}
  BY <1>1
<1>5. \A i, j \in DOMAIN layout : layout[i] = layout[j] => i = j
  BY <1>2, <1>4
<1>6. \A i \in DOMAIN layout : ends[i + 1] = ends[i] + Width(layout[i], WordLen - ends[i])
  <2>1. /\ ends[1 + 1] = ends[1] + Width(layout[1], WordLen - ends[1])
        /\ ends[2 + 1] = ends[2] + Width(layout[2], WordLen - ends[2])
        /\ ends[3 + 1] = ends[3] + Width(layout[3], WordLen - ends[3])
    BY <1>2, <1>3, Widths DEF WordLen
  <2> QED BY <1>4, <2>1
<1>7. AreEnds(layout, ends)
  BY <1>1, <1>3, <1>5, <1>6 DEF AreEnds
<1>8. AreRanges(layout, ends, FieldRanges(layout))
  BY <1>7, RangesOf
<1>9. ToSet(layout) = {"opcode", "rd", "imm"}
  BY <1>2, <1>4 DEF ToSet
<1>10. /\ FieldRanges(layout)["opcode"] = <<0, 7>> /\ FieldRanges(layout)["rd"] = <<7, 12>>
       /\ FieldRanges(layout)["imm"] = <<12, 32>>
  <2>1. /\ FieldRanges(layout)[layout[1]] = <<ends[1], ends[1 + 1]>>
        /\ FieldRanges(layout)[layout[2]] = <<ends[2], ends[2 + 1]>>
        /\ FieldRanges(layout)[layout[3]] = <<ends[3], ends[3 + 1]>>
    BY <1>4, <1>8 DEF AreRanges
  <2> QED BY <1>2, <1>3, <2>1
<1>11. FieldRanges(layout) = URanges
  BY <1>8, <1>9, <1>10 DEF AreRanges, URanges
<1> QED BY <1>11 DEF U, Class, layout, Opcode

JRanges == [opcode |-> <<0, 7>>, rd |-> <<7, 12>>, imm19_12 |-> <<12, 20>>,
            imm11 |-> <<20, 21>>, imm10_1 |-> <<21, 31>>, imm20 |-> <<31, 32>>]

LEMMA JIs ==
  J = [layout |-> <<"opcode", "rd", "imm19_12", "imm11", "imm10_1", "imm20">>,
       ranges |-> JRanges, defaults |-> [opcode |-> 111]]
<1> DEFINE layout == <<"opcode", "rd", "imm19_12", "imm11", "imm10_1", "imm20">>
           ends == <<0, 7, 12, 20, 21, 31, 32>>
<1>1. Len(layout) = 6 /\ DOMAIN layout = 1 .. 6
  OBVIOUS
<1>2. /\ layout[1] = "opcode" /\ layout[2] = "rd" /\ layout[3] = "imm19_12"
      /\ layout[4] = "imm11" /\ layout[5] = "imm10_1" /\ layout[6] = "imm20"
  OBVIOUS
<1>3. /\ ends[1] = 0 /\ ends[2] = 7 /\ ends[3] = 12 /\ ends[4] = 20 /\ ends[5] = 21
      /\ ends[6] = 31 /\ ends[7] = 32
  OBVIOUS
<1> HIDE DEF layout, ends
<1>4. DOMAIN layout = {1, 2, 3, 4, 5, 6}
  BY <1>1
<1>5. \A i, j \in DOMAIN layout : layout[i] = layout[j] => i = j
  BY <1>2, <1>4
<1>6. \A i \in DOMAIN layout : ends[i + 1] = ends[i] + Width(layout[i], WordLen - ends[i])
  <2>1. /\ ends[1 + 1] = ends[1] + Width(layout[1], WordLen - ends[1])
        /\ ends[2 + 1] = ends[2] + Width(layout[2], WordLen - ends[2])
        /\ ends[3 + 1] = ends[3] + Width(layout[3], WordLen - ends[3])
        /\ ends[4 + 1] = ends[4] + Width(layout[4], WordLen - ends[4])
        /\ ends[5 + 1] = ends[5] + Width(layout[5], WordLen - ends[5])
        /\ ends[6 + 1] = ends[6] + Width(layout[6], WordLen - ends[6])
    BY <1>2, <1>3, Widths DEF WordLen
  <2> QED BY <1>4, <2>1
<1>7. AreEnds(layout, ends)
  BY <1>1, <1>3, <1>5, <1>6 DEF AreEnds
<1>8. AreRanges(layout, ends, FieldRanges(layout))
  BY <1>7, RangesOf
<1>9. ToSet(layout) = {"opcode", "rd", "imm19_12", "imm11", "imm10_1", "imm20"}
  BY <1>2, <1>4 DEF ToSet
<1>10. /\ FieldRanges(layout)["opcode"] = <<0, 7>> /\ FieldRanges(layout)["rd"] = <<7, 12>>
       /\ FieldRanges(layout)["imm19_12"] = <<12, 20>> /\
            FieldRanges(layout)["imm11"] = <<20, 21>>
       /\ FieldRanges(layout)["imm10_1"] = <<21, 31>> /\ FieldRanges(layout)["imm20"] = <<31, 32>>
  <2>1. /\ FieldRanges(layout)[layout[1]] = <<ends[1], ends[1 + 1]>>
        /\ FieldRanges(layout)[layout[2]] = <<ends[2], ends[2 + 1]>>
        /\ FieldRanges(layout)[layout[3]] = <<ends[3], ends[3 + 1]>>
        /\ FieldRanges(layout)[layout[4]] = <<ends[4], ends[4 + 1]>>
        /\ FieldRanges(layout)[layout[5]] = <<ends[5], ends[5 + 1]>>
        /\ FieldRanges(layout)[layout[6]] = <<ends[6], ends[6 + 1]>>
    BY <1>4, <1>8 DEF AreRanges
  <2> QED BY <1>2, <1>3, <2>1
<1>11. FieldRanges(layout) = JRanges
  BY <1>8, <1>9, <1>10 DEF AreRanges, JRanges
<1> QED BY <1>11 DEF J, Class, layout, Opcode
-----------------------------------------------------------------------------
(* Words and their fields. *)

Within(i, range) == i \in range[1] .. range[2] - 1

\* The ranges share the bits of a word among them.
Share(ranges) ==
  /\ \A e \in DOMAIN ranges :
       \E a \in Nat, w \in 0 .. 20 : ranges[e] = <<a, a + w>> /\ a + w <= 32
  /\ \A e, f \in DOMAIN ranges, i \in 0 .. 31 :
       Within(i, ranges[e]) /\ Within(i, ranges[f]) => e = f
  /\ \A i \in 0 .. 31 : \E e \in DOMAIN ranges : Within(i, ranges[e])

Made(args, ranges) == UNION {Place(args[e], ranges[e]) : e \in DOMAIN args}

\* Each of the six formats shares all bits of the word among its fields.
LEMMA RangesShare ==
  /\ Share(RRanges) /\ Share(IRanges) /\ Share(SRanges)
  /\ Share(BRanges) /\ Share(URanges) /\ Share(JRanges)
<1>1. Share(RRanges)
  <2>1. \A e \in DOMAIN RRanges :
          \E a \in Nat, w \in 0 .. 20 : RRanges[e] = <<a, a + w>> /\ a + w <= 32
    BY DEF RRanges
  <2>2. \A e, f \in DOMAIN RRanges, i \in 0 .. 31 :
          Within(i, RRanges[e]) /\ Within(i, RRanges[f]) => e = f
    BY DEF RRanges, Within
  <2>3. \A i \in 0 .. 31 : \E e \in DOMAIN RRanges : Within(i, RRanges[e])
    BY DEF RRanges, Within
  <2> QED BY <2>1, <2>2, <2>3 DEF Share
<1>2. Share(IRanges)
  <2>1. \A e \in DOMAIN IRanges :
          \E a \in Nat, w \in 0 .. 20 : IRanges[e] = <<a, a + w>> /\ a + w <= 32
    BY DEF IRanges
  <2>2. \A e, f \in DOMAIN IRanges, i \in 0 .. 31 :
          Within(i, IRanges[e]) /\ Within(i, IRanges[f]) => e = f
    BY DEF IRanges, Within
  <2>3. \A i \in 0 .. 31 : \E e \in DOMAIN IRanges : Within(i, IRanges[e])
    BY DEF IRanges, Within
  <2> QED BY <2>1, <2>2, <2>3 DEF Share
<1>3. Share(SRanges)
  <2>1. \A e \in DOMAIN SRanges :
          \E a \in Nat, w \in 0 .. 20 : SRanges[e] = <<a, a + w>> /\ a + w <= 32
    BY DEF SRanges
  <2>2. \A e, f \in DOMAIN SRanges, i \in 0 .. 31 :
          Within(i, SRanges[e]) /\ Within(i, SRanges[f]) => e = f
    BY DEF SRanges, Within
  <2>3. \A i \in 0 .. 31 : \E e \in DOMAIN SRanges : Within(i, SRanges[e])
    BY DEF SRanges, Within
  <2> QED BY <2>1, <2>2, <2>3 DEF Share
<1>4. Share(BRanges)
  <2>1. \A e \in DOMAIN BRanges :
          \E a \in Nat, w \in 0 .. 20 : BRanges[e] = <<a, a + w>> /\ a + w <= 32
    BY DEF BRanges
  <2>2. \A e, f \in DOMAIN BRanges, i \in 0 .. 31 :
          Within(i, BRanges[e]) /\ Within(i, BRanges[f]) => e = f
    BY DEF BRanges, Within
  <2>3. \A i \in 0 .. 31 : \E e \in DOMAIN BRanges : Within(i, BRanges[e])
    BY DEF BRanges, Within
  <2> QED BY <2>1, <2>2, <2>3 DEF Share
<1>5. Share(URanges)
  <2>1. \A e \in DOMAIN URanges :
          \E a \in Nat, w \in 0 .. 20 : URanges[e] = <<a, a + w>> /\ a + w <= 32
    <3>1. DOMAIN URanges = {"opcode", "rd", "imm"}
      BY DEF URanges
    <3>2. /\ URanges["opcode"] = <<0, 0 + 7>> /\ URanges["rd"] = <<7, 7 + 5>>
          /\ URanges["imm"] = <<12, 12 + 20>>
      BY DEF URanges
    <3>3. /\ \E a \in Nat, w \in 0 .. 20 : URanges["opcode"] = <<a, a + w>> /\ a + w <= 32
          /\ \E a \in Nat, w \in 0 .. 20 : URanges["rd"] = <<a, a + w>> /\ a + w <= 32
          /\ \E a \in Nat, w \in 0 .. 20 : URanges["imm"] = <<a, a + w>> /\ a + w <= 32
      BY <3>2
    <3> QED BY <3>1, <3>3
  <2>2. \A e, f \in DOMAIN URanges, i \in 0 .. 31 :
          Within(i, URanges[e]) /\ Within(i, URanges[f]) => e = f
    BY DEF URanges, Within
  <2>3. \A i \in 0 .. 31 : \E e \in DOMAIN URanges : Within(i, URanges[e])
    BY DEF URanges, Within
  <2> QED BY <2>1, <2>2, <2>3 DEF Share
<1>6. Share(JRanges)
  <2>1. \A e \in DOMAIN JRanges :
          \E a \in Nat, w \in 0 .. 20 : JRanges[e] = <<a, a + w>> /\ a + w <= 32
    BY DEF JRanges
  <2>2. \A e, f \in DOMAIN JRanges, i \in 0 .. 31 :
          Within(i, JRanges[e]) /\ Within(i, JRanges[f]) => e = f
    BY DEF JRanges, Within
  <2>3. \A i \in 0 .. 31 : \E e \in DOMAIN JRanges : Within(i, JRanges[e])
    BY DEF JRanges, Within
  <2> QED BY <2>1, <2>2, <2>3 DEF Share
<1> QED BY <1>1, <1>2, <1>3, <1>4, <1>5, <1>6

\* A field of a word made of fields has what was put there, but for what is too wide.
LEMMA MadeFields ==
  ASSUME NEW ranges, Share(ranges), NEW args, DOMAIN args = DOMAIN ranges,
         NEW word, word = Made(args, ranges)
  PROVE  /\ word \subseteq 0 .. 31
         /\ \A e \in DOMAIN ranges : args[e] \in Int =>
              Extract(word, ranges[e]) = args[e] % Power(ranges[e][2] - ranges[e][1])
<1>1. ASSUME NEW i \in word PROVE i \in 0 .. 31
  <2>1. PICK e \in DOMAIN ranges : i \in Place(args[e], ranges[e])
    BY DEF Made
  <2>2. PICK a \in Nat, w \in 0 .. 20 : ranges[e] = <<a, a + w>> /\ a + w <= 32
    BY DEF Share
  <2>3. i \in a .. a + w - 1
    BY <2>1, <2>2 DEF Place
  <2> QED BY <2>2, <2>3
<1>2. ASSUME NEW e \in DOMAIN ranges, args[e] \in Int
      PROVE  Extract(word, ranges[e]) = args[e] % Power(ranges[e][2] - ranges[e][1])
  <2>1. PICK a \in Nat, w \in 0 .. 20 : ranges[e] = <<a, a + w>> /\ a + w <= 32
    BY DEF Share
  <2>2. ASSUME NEW k \in 0 .. w - 1 PROVE a + k \in word <=> Bit(args[e], k) = 1
    <3>1. a + k \in 0 .. 31 /\ a + k \in a .. a + w - 1 /\ a + k - a = k
      BY <2>1
    <3>2. a + k \in Place(args[e], ranges[e]) <=> Bit(args[e], k) = 1
      BY <2>1, <3>1 DEF Place
    <3>3. ASSUME NEW f \in DOMAIN ranges, a + k \in Place(args[f], ranges[f]) PROVE f = e
      <4>1. Within(a + k, ranges[f]) /\ Within(a + k, ranges[e])
        BY <2>1, <3>1, <3>3 DEF Place, Within
      <4> QED BY <3>1, <4>1 DEF Share
    <3> QED BY <3>2, <3>3 DEF Made
  <2>3. Extract(word, <<a, a + w>>) = args[e] % Power(w)
    BY <1>2, <2>2, ExtractPlaced
  <2>4. ranges[e][2] - ranges[e][1] = w
    BY <2>1
  <2> QED BY <2>1, <2>3, <2>4
<1> QED BY <1>1, <1>2

\* Arguments that are, field by field, what is read in a word make that word.
LEMMA MadeOfFields ==
  ASSUME NEW ranges, Share(ranges), NEW args, DOMAIN args = DOMAIN ranges,
         NEW word \in SUBSET (0 .. 31),
         \A e \in DOMAIN ranges : /\ args[e] \in Int
              /\ args[e] % Power(ranges[e][2] - ranges[e][1]) = Extract(word, ranges[e])
  PROVE  Made(args, ranges) = word
<1>1. ASSUME NEW e \in DOMAIN ranges, NEW i \in 0 .. 31, Within(i, ranges[e])
      PROVE  i \in word <=> i \in Place(args[e], ranges[e])
  <2>1. PICK a \in Nat, w \in 0 .. 20 : ranges[e] = <<a, a + w>> /\ a + w <= 32
    BY DEF Share
  <2>2. ranges[e][2] - ranges[e][1] = w /\ i \in a .. a + w - 1
    BY <1>1, <2>1 DEF Within
  <2>3. args[e] % Power(w) = Extract(word, <<a, a + w>>) /\ args[e] \in Int
    BY <1>1, <2>1, <2>2
  <2>4. \A j \in a .. a + w - 1 : j \in word <=> Bit(args[e], j - a) = 1
    BY <2>3, PlaceRead
  <2>5. i \in word <=> Bit(args[e], i - a) = 1
    BY <2>2, <2>4
  <2>6. ranges[e][1] = a
    BY <2>1
  <2> QED BY <1>1, <2>5, <2>6 DEF Place, Within
<1>2. ASSUME NEW i \in word PROVE i \in Made(args, ranges)
  <2>1. PICK e \in DOMAIN ranges : Within(i, ranges[e])
    BY DEF Share
  <2>2. i \in Place(args[e], ranges[e])
    BY <1>1, <2>1
  <2> QED BY <2>2 DEF Made
<1>3. ASSUME NEW i \in Made(args, ranges) PROVE i \in word
  <2>1. PICK e \in DOMAIN ranges : i \in Place(args[e], ranges[e])
    BY DEF Made
  <2>2. Within(i, ranges[e])
    BY <2>1 DEF Place, Within
  <2>3. i \in 0 .. 31
    <3>1. PICK a \in Nat, w \in 0 .. 20 : ranges[e] = <<a, a + w>> /\ a + w <= 32
      BY DEF Share
    <3> QED BY <2>2, <3>1 DEF Within
  <2> QED BY <1>1, <2>1, <2>2, <2>3
<1> QED BY <1>2, <1>3
-----------------------------------------------------------------------------
(* The instructions. *)

\* The sequence of names that Without goes through.
LEMMA WithoutAre ==
  ASSUME NEW names, NEW dropped, NEW k, Len(names) \in Nat,
         k = [i \in 0 .. Len(names) |-> k[i]], k[0] = <<>>,
         \A i \in 1 .. Len(names) :
           k[i] = IF names[i] \in dropped THEN k[i - 1] ELSE Append(k[i - 1], names[i])
  PROVE  Without(names, dropped) = k[Len(names)]
<1>0. PICK n \in Nat : n = Len(names)
  OBVIOUS
<1> DEFINE kept[i \in 0 .. Len(names)] ==
        IF i = 0 THEN <<>>
        ELSE IF names[i] \in dropped THEN kept[i - 1] ELSE Append(kept[i - 1], names[i])
<1>1. k = [i \in 0 .. Len(names) |->
             IF i = 0 THEN <<>>
             ELSE IF names[i] \in dropped THEN k[i - 1] ELSE Append(k[i - 1], names[i])]
  <2>1. \A i \in 0 .. n :
          k[i] = IF i = 0 THEN <<>>
             ELSE IF names[i] \in dropped THEN k[i - 1] ELSE Append(k[i - 1], names[i])
    <3> SUFFICES ASSUME NEW i \in 0 .. n
                 PROVE  k[i] = IF i = 0 THEN <<>>
             ELSE IF names[i] \in dropped THEN k[i - 1] ELSE Append(k[i - 1], names[i])
      OBVIOUS
    <3>1. i # 0 => i \in 1 .. n
      BY <1>0
    <3> QED BY <1>0, <3>1
  <2> QED BY <1>0, <2>1
<1>2. \E f : f = [i \in 0 .. Len(names) |->
             IF i = 0 THEN <<>>
             ELSE IF names[i] \in dropped THEN f[i - 1] ELSE Append(f[i - 1], names[i])]
  BY <1>1
<1>3. kept = [i \in 0 .. Len(names) |->
             IF i = 0 THEN <<>>
             ELSE IF names[i] \in dropped THEN kept[i - 1] ELSE Append(kept[i - 1], names[i])]
  BY <1>2
<1>4. Without(names, dropped) = kept[Len(names)]
  BY DEF Without
<1> HIDE DEF kept
<1> DEFINE T == {i \in Nat : i <= n => kept[i] = k[i]}
<1>5. T = Nat
  <2>1. 0 \in T
    BY <1>0, <1>3
  <2>2. ASSUME NEW i \in T PROVE i + 1 \in T
    <3>1. CASE i + 1 <= n
      <4>1. i + 1 \in 1 .. n /\ i + 1 \in 0 .. n /\ i + 1 - 1 = i /\ i \in 0 .. n
        BY <3>1
      <4>2. kept[i + 1] = IF names[i + 1] \in dropped THEN kept[i]
              ELSE Append(kept[i], names[i + 1])
        <5>1. PICK j \in 0 .. n : j = i + 1 /\ j # 0 /\ j - 1 = i
          BY <4>1
        <5>2. kept[j] = IF names[j] \in dropped THEN kept[j - 1]
                ELSE Append(kept[j - 1], names[j])
          BY <1>0, <1>3, <5>1
        <5> QED BY <5>1, <5>2
      <4>3. k[i + 1] = IF names[i + 1] \in dropped THEN k[i] ELSE Append(k[i], names[i + 1])
        <5>1. PICK j \in 1 .. n : j = i + 1 /\ j - 1 = i
          BY <4>1
        <5>2. k[j] = IF names[j] \in dropped THEN k[j - 1] ELSE Append(k[j - 1], names[j])
          BY <1>0, <5>1
        <5> QED BY <5>1, <5>2
      <4>4. kept[i] = k[i]
        BY <4>1
      <4> QED BY <4>2, <4>3, <4>4
    <3>2. CASE ~(i + 1 <= n)
      BY <3>2
    <3> QED BY <3>1, <3>2
  <2>3. T \in SUBSET Nat
    OBVIOUS
  <2> HIDE DEF T
  <2> QED BY <2>1, <2>2, <2>3, SetInduction
<1>6. n \in T
  BY <1>5
<1> QED BY <1>0, <1>4, <1>6

\* The same of the sequence of what is kept of none, of the first, of the first two ...
AreKept(names, dropped, ks) ==
  /\ Len(names) \in Nat /\ ks[1] = <<>>
  /\ \A i \in 1 .. Len(names) :
       ks[i + 1] = IF names[i] \in dropped THEN ks[i] ELSE Append(ks[i], names[i])

\* What Without leaves is the last of the sequences that grow by the names kept.
LEMMA WithoutIs ==
  \A names, dropped, ks :
    AreKept(names, dropped, ks) => Without(names, dropped) = ks[Len(names) + 1]
<1> SUFFICES ASSUME NEW names, NEW dropped, NEW ks, AreKept(names, dropped, ks)
             PROVE  Without(names, dropped) = ks[Len(names) + 1]
  OBVIOUS
<1> USE DEF AreKept
<1> DEFINE k == [i \in 0 .. Len(names) |-> ks[i + 1]]
<1>1. k = [i \in 0 .. Len(names) |-> k[i]] /\ k[0] = <<>> /\ k[Len(names)] = ks[Len(names) + 1]
  OBVIOUS
<1>2. \A i \in 1 .. Len(names) : k[i - 1] = ks[i] /\ k[i] = ks[i + 1]
  <2> SUFFICES ASSUME NEW i \in 1 .. Len(names) PROVE k[i - 1] = ks[i] /\ k[i] = ks[i + 1]
    OBVIOUS
  <2>1. i \in 0 .. Len(names) /\ i - 1 \in 0 .. Len(names) /\ i - 1 + 1 = i
    OBVIOUS
  <2> QED BY <2>1
<1> HIDE DEF k
<1>3. \A i \in 1 .. Len(names) :
        k[i] = IF names[i] \in dropped THEN k[i - 1] ELSE Append(k[i - 1], names[i])
  <2> SUFFICES ASSUME NEW i \in 1 .. Len(names)
               PROVE k[i] = IF names[i] \in dropped THEN k[i - 1] ELSE Append(k[i - 1], names[i])
    OBVIOUS
  <2>1. k[i - 1] = ks[i] /\ k[i] = ks[i + 1]
    BY <1>2
  <2> QED BY <2>1
<1>4. Without(names, dropped) = k[Len(names)]
  BY <1>1, <1>3, WithoutAre
<1> QED BY <1>1, <1>4

Kept(k, x, dropped) == IF x \in dropped THEN k ELSE Append(k, x)

\* Without of a sequence of each length, as one choice after another.
LEMMA WithoutOfOne ==
  \A dropped, a :
    Without(<<a>>, dropped) =
      Kept(<<>>, a, dropped)
<1> SUFFICES ASSUME NEW dropped, NEW a
             PROVE  Without(<<a>>, dropped) =
                      Kept(<<>>, a, dropped)
  OBVIOUS
<1> DEFINE k1 == Kept(<<>>, a, dropped)
           names == <<a>>
           ks == <<<<>>, k1>>
<1>1. Len(names) = 1 /\ Len(names) + 1 = 2 /\ ks[1] = <<>> /\ ks[2] = k1
  OBVIOUS
<1>2. /\ ks[1 + 1] = Kept(ks[1], names[1], dropped)
  OBVIOUS
<1> HIDE DEF names, ks
<1>3. \A i \in 1 .. 1 : i \in {1}
  OBVIOUS
<1>4. \A i \in 1 .. 1 : ks[i + 1] = Kept(ks[i], names[i], dropped)
  BY <1>2, <1>3
<1>5. AreKept(names, dropped, ks)
  BY <1>1, <1>4 DEF AreKept, Kept
<1>6. Without(names, dropped) = ks[Len(names) + 1]
  BY <1>5, WithoutIs
<1>7. Without(names, dropped) = k1
  BY <1>1, <1>6
<1> QED BY <1>7 DEF names

LEMMA WithoutOfTwo ==
  \A dropped, a, b :
    Without(<<a, b>>, dropped) =
      Kept(Kept(<<>>, a, dropped), b, dropped)
<1> SUFFICES ASSUME NEW dropped, NEW a, NEW b
             PROVE  Without(<<a, b>>, dropped) =
                      Kept(Kept(<<>>, a, dropped), b, dropped)
  OBVIOUS
<1> DEFINE k1 == Kept(<<>>, a, dropped)
           k2 == Kept(k1, b, dropped)
           names == <<a, b>>
           ks == <<<<>>, k1, k2>>
<1>1. Len(names) = 2 /\ Len(names) + 1 = 3 /\ ks[1] = <<>> /\ ks[3] = k2
  OBVIOUS
<1>2. /\ ks[1 + 1] = Kept(ks[1], names[1], dropped)
      /\ ks[2 + 1] = Kept(ks[2], names[2], dropped)
  OBVIOUS
<1> HIDE DEF names, ks
<1>3. \A i \in 1 .. 2 : i \in {1, 2}
  OBVIOUS
<1>4. \A i \in 1 .. 2 : ks[i + 1] = Kept(ks[i], names[i], dropped)
  BY <1>2, <1>3
<1>5. AreKept(names, dropped, ks)
  BY <1>1, <1>4 DEF AreKept, Kept
<1>6. Without(names, dropped) = ks[Len(names) + 1]
  BY <1>5, WithoutIs
<1>7. Without(names, dropped) = k2
  BY <1>1, <1>6
<1> QED BY <1>7 DEF names

LEMMA WithoutOfThree ==
  \A dropped, a, b, c :
    Without(<<a, b, c>>, dropped) =
      Kept(Kept(Kept(<<>>, a, dropped), b, dropped), c, dropped)
<1> SUFFICES ASSUME NEW dropped, NEW a, NEW b, NEW c
             PROVE  Without(<<a, b, c>>, dropped) =
                      Kept(Kept(Kept(<<>>, a, dropped), b, dropped), c, dropped)
  OBVIOUS
<1> DEFINE k1 == Kept(<<>>, a, dropped)
           k2 == Kept(k1, b, dropped)
           k3 == Kept(k2, c, dropped)
           names == <<a, b, c>>
           ks == <<<<>>, k1, k2, k3>>
<1>1. Len(names) = 3 /\ Len(names) + 1 = 4 /\ ks[1] = <<>> /\ ks[4] = k3
  OBVIOUS
<1>2. /\ ks[1 + 1] = Kept(ks[1], names[1], dropped)
      /\ ks[2 + 1] = Kept(ks[2], names[2], dropped)
      /\ ks[3 + 1] = Kept(ks[3], names[3], dropped)
  OBVIOUS
<1> HIDE DEF names, ks
<1>3. \A i \in 1 .. 3 : i \in {1, 2, 3}
  OBVIOUS
<1>4. \A i \in 1 .. 3 : ks[i + 1] = Kept(ks[i], names[i], dropped)
  BY <1>2, <1>3
<1>5. AreKept(names, dropped, ks)
  BY <1>1, <1>4 DEF AreKept, Kept
<1>6. Without(names, dropped) = ks[Len(names) + 1]
  BY <1>5, WithoutIs
<1>7. Without(names, dropped) = k3
  BY <1>1, <1>6
<1> QED BY <1>7 DEF names

LEMMA WithoutOfFour ==
  \A dropped, a, b, c, d :
    Without(<<a, b, c, d>>, dropped) =
      Kept(Kept(Kept(Kept(<<>>, a, dropped), b, dropped), c, dropped), d, dropped)
<1> SUFFICES ASSUME NEW dropped, NEW a, NEW b, NEW c, NEW d
             PROVE  Without(<<a, b, c, d>>, dropped) =
                      Kept(Kept(Kept(Kept(<<>>, a, dropped), b, dropped), c, dropped), d, dropped)
  OBVIOUS
<1> DEFINE k1 == Kept(<<>>, a, dropped)
           k2 == Kept(k1, b, dropped)
           k3 == Kept(k2, c, dropped)
           k4 == Kept(k3, d, dropped)
           names == <<a, b, c, d>>
           ks == <<<<>>, k1, k2, k3, k4>>
<1>1. Len(names) = 4 /\ Len(names) + 1 = 5 /\ ks[1] = <<>> /\ ks[5] = k4
  OBVIOUS
<1>2. /\ ks[1 + 1] = Kept(ks[1], names[1], dropped)
      /\ ks[2 + 1] = Kept(ks[2], names[2], dropped)
      /\ ks[3 + 1] = Kept(ks[3], names[3], dropped)
      /\ ks[4 + 1] = Kept(ks[4], names[4], dropped)
  OBVIOUS
<1> HIDE DEF names, ks
<1>3. \A i \in 1 .. 4 : i \in {1, 2, 3, 4}
  OBVIOUS
<1>4. \A i \in 1 .. 4 : ks[i + 1] = Kept(ks[i], names[i], dropped)
  BY <1>2, <1>3
<1>5. AreKept(names, dropped, ks)
  BY <1>1, <1>4 DEF AreKept, Kept
<1>6. Without(names, dropped) = ks[Len(names) + 1]
  BY <1>5, WithoutIs
<1>7. Without(names, dropped) = k4
  BY <1>1, <1>6
<1> QED BY <1>7 DEF names

LEMMA WithoutOfFive ==
  \A dropped, a, b, c, d, e :
    Without(<<a, b, c, d, e>>, dropped) =
      Kept(Kept(Kept(Kept(Kept(<<>>, a, dropped), b, dropped), c, dropped), d, dropped), e,
        dropped)
<1> SUFFICES ASSUME NEW dropped, NEW a, NEW b, NEW c, NEW d, NEW e
             PROVE  Without(<<a, b, c, d, e>>, dropped) =
                      Kept(Kept(Kept(Kept(Kept(<<>>, a, dropped), b, dropped), c, dropped), d,
                        dropped), e, dropped)
  OBVIOUS
<1> DEFINE k1 == Kept(<<>>, a, dropped)
           k2 == Kept(k1, b, dropped)
           k3 == Kept(k2, c, dropped)
           k4 == Kept(k3, d, dropped)
           k5 == Kept(k4, e, dropped)
           names == <<a, b, c, d, e>>
           ks == <<<<>>, k1, k2, k3, k4, k5>>
<1>1. Len(names) = 5 /\ Len(names) + 1 = 6 /\ ks[1] = <<>> /\ ks[6] = k5
  OBVIOUS
<1>2. /\ ks[1 + 1] = Kept(ks[1], names[1], dropped)
      /\ ks[2 + 1] = Kept(ks[2], names[2], dropped)
      /\ ks[3 + 1] = Kept(ks[3], names[3], dropped)
      /\ ks[4 + 1] = Kept(ks[4], names[4], dropped)
      /\ ks[5 + 1] = Kept(ks[5], names[5], dropped)
  OBVIOUS
<1> HIDE DEF names, ks
<1>3. \A i \in 1 .. 5 : i \in {1, 2, 3, 4, 5}
  OBVIOUS
<1>4. \A i \in 1 .. 5 : ks[i + 1] = Kept(ks[i], names[i], dropped)
  BY <1>2, <1>3
<1>5. AreKept(names, dropped, ks)
  BY <1>1, <1>4 DEF AreKept, Kept
<1>6. Without(names, dropped) = ks[Len(names) + 1]
  BY <1>5, WithoutIs
<1>7. Without(names, dropped) = k5
  BY <1>1, <1>6
<1> QED BY <1>7 DEF names

LEMMA WithoutOfSix ==
  \A dropped, a, b, c, d, e, f :
    Without(<<a, b, c, d, e, f>>, dropped) =
      Kept(Kept(Kept(Kept(Kept(Kept(<<>>, a, dropped), b, dropped), c, dropped), d, dropped), e,
        dropped), f, dropped)
<1> SUFFICES ASSUME NEW dropped, NEW a, NEW b, NEW c, NEW d, NEW e, NEW f
             PROVE  Without(<<a, b, c, d, e, f>>, dropped) =
                      Kept(Kept(Kept(Kept(Kept(Kept(<<>>, a, dropped), b, dropped), c, dropped),
                        d, dropped), e, dropped), f, dropped)
  OBVIOUS
<1> DEFINE k1 == Kept(<<>>, a, dropped)
           k2 == Kept(k1, b, dropped)
           k3 == Kept(k2, c, dropped)
           k4 == Kept(k3, d, dropped)
           k5 == Kept(k4, e, dropped)
           k6 == Kept(k5, f, dropped)
           names == <<a, b, c, d, e, f>>
           ks == <<<<>>, k1, k2, k3, k4, k5, k6>>
<1>1. Len(names) = 6 /\ Len(names) + 1 = 7 /\ ks[1] = <<>> /\ ks[7] = k6
  OBVIOUS
<1>2. /\ ks[1 + 1] = Kept(ks[1], names[1], dropped)
      /\ ks[2 + 1] = Kept(ks[2], names[2], dropped)
      /\ ks[3 + 1] = Kept(ks[3], names[3], dropped)
      /\ ks[4 + 1] = Kept(ks[4], names[4], dropped)
      /\ ks[5 + 1] = Kept(ks[5], names[5], dropped)
      /\ ks[6 + 1] = Kept(ks[6], names[6], dropped)
  OBVIOUS
<1> HIDE DEF names, ks
<1>3. \A i \in 1 .. 6 : i \in {1, 2, 3, 4, 5, 6}
  OBVIOUS
<1>4. \A i \in 1 .. 6 : ks[i + 1] = Kept(ks[i], names[i], dropped)
  BY <1>2, <1>3
<1>5. AreKept(names, dropped, ks)
  BY <1>1, <1>4 DEF AreKept, Kept
<1>6. Without(names, dropped) = ks[Len(names) + 1]
  BY <1>5, WithoutIs
<1>7. Without(names, dropped) = k6
  BY <1>1, <1>6
<1> QED BY <1>7 DEF names

LEMMA WithoutOfSeven ==
  \A dropped, a, b, c, d, e, f, g :
    Without(<<a, b, c, d, e, f, g>>, dropped) =
      Kept(Kept(Kept(Kept(Kept(Kept(Kept(<<>>, a, dropped), b, dropped), c, dropped), d,
        dropped), e, dropped), f, dropped), g, dropped)
<1> SUFFICES ASSUME NEW dropped, NEW a, NEW b, NEW c, NEW d, NEW e, NEW f, NEW g
             PROVE  Without(<<a, b, c, d, e, f, g>>, dropped) =
                      Kept(Kept(Kept(Kept(Kept(Kept(Kept(<<>>, a, dropped), b, dropped), c,
                        dropped), d, dropped), e, dropped), f, dropped), g, dropped)
  OBVIOUS
<1> DEFINE k1 == Kept(<<>>, a, dropped)
           k2 == Kept(k1, b, dropped)
           k3 == Kept(k2, c, dropped)
           k4 == Kept(k3, d, dropped)
           k5 == Kept(k4, e, dropped)
           k6 == Kept(k5, f, dropped)
           k7 == Kept(k6, g, dropped)
           names == <<a, b, c, d, e, f, g>>
           ks == <<<<>>, k1, k2, k3, k4, k5, k6, k7>>
<1>1. Len(names) = 7 /\ Len(names) + 1 = 8 /\ ks[1] = <<>> /\ ks[8] = k7
  OBVIOUS
<1>2. /\ ks[1 + 1] = Kept(ks[1], names[1], dropped)
      /\ ks[2 + 1] = Kept(ks[2], names[2], dropped)
      /\ ks[3 + 1] = Kept(ks[3], names[3], dropped)
      /\ ks[4 + 1] = Kept(ks[4], names[4], dropped)
      /\ ks[5 + 1] = Kept(ks[5], names[5], dropped)
      /\ ks[6 + 1] = Kept(ks[6], names[6], dropped)
      /\ ks[7 + 1] = Kept(ks[7], names[7], dropped)
  OBVIOUS
<1> HIDE DEF names, ks
<1>3. \A i \in 1 .. 7 : i \in {1, 2, 3, 4, 5, 6, 7}
  OBVIOUS
<1>4. \A i \in 1 .. 7 : ks[i + 1] = Kept(ks[i], names[i], dropped)
  BY <1>2, <1>3
<1>5. AreKept(names, dropped, ks)
  BY <1>1, <1>4 DEF AreKept, Kept
<1>6. Without(names, dropped) = ks[Len(names) + 1]
  BY <1>5, WithoutIs
<1>7. Without(names, dropped) = k7
  BY <1>1, <1>6
<1> QED BY <1>7 DEF names

LEMMA WithoutOfEight ==
  \A dropped, a, b, c, d, e, f, g, h :
    Without(<<a, b, c, d, e, f, g, h>>, dropped) =
      Kept(Kept(Kept(Kept(Kept(Kept(Kept(Kept(<<>>, a, dropped), b, dropped), c, dropped), d,
        dropped), e, dropped), f, dropped), g, dropped), h, dropped)
<1> SUFFICES ASSUME NEW dropped, NEW a, NEW b, NEW c, NEW d, NEW e, NEW f, NEW g, NEW h
             PROVE  Without(<<a, b, c, d, e, f, g, h>>, dropped) =
                      Kept(Kept(Kept(Kept(Kept(Kept(Kept(Kept(<<>>, a, dropped), b, dropped), c,
                        dropped), d, dropped), e, dropped), f, dropped), g, dropped), h,
                        dropped)
  OBVIOUS
<1> DEFINE k1 == Kept(<<>>, a, dropped)
           k2 == Kept(k1, b, dropped)
           k3 == Kept(k2, c, dropped)
           k4 == Kept(k3, d, dropped)
           k5 == Kept(k4, e, dropped)
           k6 == Kept(k5, f, dropped)
           k7 == Kept(k6, g, dropped)
           k8 == Kept(k7, h, dropped)
           names == <<a, b, c, d, e, f, g, h>>
           ks == <<<<>>, k1, k2, k3, k4, k5, k6, k7, k8>>
<1>1. Len(names) = 8 /\ Len(names) + 1 = 9 /\ ks[1] = <<>> /\ ks[9] = k8
  OBVIOUS
<1>2. /\ ks[1 + 1] = Kept(ks[1], names[1], dropped)
      /\ ks[2 + 1] = Kept(ks[2], names[2], dropped)
      /\ ks[3 + 1] = Kept(ks[3], names[3], dropped)
      /\ ks[4 + 1] = Kept(ks[4], names[4], dropped)
      /\ ks[5 + 1] = Kept(ks[5], names[5], dropped)
      /\ ks[6 + 1] = Kept(ks[6], names[6], dropped)
      /\ ks[7 + 1] = Kept(ks[7], names[7], dropped)
      /\ ks[8 + 1] = Kept(ks[8], names[8], dropped)
  OBVIOUS
<1> HIDE DEF names, ks
<1>3. \A i \in 1 .. 8 : i \in {1, 2, 3, 4, 5, 6, 7, 8}
  OBVIOUS
<1>4. \A i \in 1 .. 8 : ks[i + 1] = Kept(ks[i], names[i], dropped)
  BY <1>2, <1>3
<1>5. AreKept(names, dropped, ks)
  BY <1>1, <1>4 DEF AreKept, Kept
<1>6. Without(names, dropped) = ks[Len(names) + 1]
  BY <1>5, WithoutIs
<1>7. Without(names, dropped) = k8
  BY <1>1, <1>6
<1> QED BY <1>7 DEF names

\* Append and concatenation, of sequences of known lengths.
LEMMA AppendIs == 
  \A Elems : \A s, t \in Seq(Elems), x \in Elems :
    Len(t) = Len(s) + 1 /\ (\A i \in 1 .. Len(s) : t[i] = s[i]) /\ t[Len(s) + 1] = x
      => Append(s, x) = t
<1> SUFFICES ASSUME NEW Elems, NEW s \in Seq(Elems), NEW t \in Seq(Elems), NEW x \in Elems,
                    Len(t) = Len(s) + 1, \A i \in 1 .. Len(s) : t[i] = s[i],
                    t[Len(s) + 1] = x
             PROVE  Append(s, x) = t
  OBVIOUS
<1>1. /\ Append(s, x) \in Seq(Elems) /\ Len(Append(s, x)) = Len(s) + 1
      /\ \A i \in 1 .. Len(s) : Append(s, x)[i] = s[i] 
      /\ Append(s, x)[Len(s) + 1] = x
  BY AppendProperties
<1>2. Len(s) \in Nat
  OBVIOUS
<1>3. \A i \in 1 .. Len(t) : Append(s, x)[i] = t[i] 
  BY <1>1, <1>2
<1> QED BY <1>1, <1>3, SeqEqual

Joined(s, u, t) ==
  /\ Len(t) = Len(s) + Len(u)
  /\ \A i \in 1 .. Len(s) : t[i] = s[i]
  /\ \A i \in 1 .. Len(u) : t[Len(s) + i] = u[i]

\* The concatenation of two sequences, by its elements.
LEMMA ConcatIs == \A Elems : \A s, u, t \in Seq(Elems) : Joined(s, u, t) => s \o u = t
<1> SUFFICES ASSUME NEW Elems, NEW s \in Seq(Elems), NEW u \in Seq(Elems), NEW t \in Seq(Elems),
      Joined(s, u, t)
             PROVE  s \o u = t
  OBVIOUS
<1> USE DEF Joined
<1>1. /\ s \o u \in Seq(Elems) /\ Len(s \o u) = Len(s) + Len(u)
      /\ \A i \in 1 .. Len(s) + Len(u) :
           (s \o u)[i] = IF i <= Len(s) THEN s[i] ELSE u[i - Len(s)]
  BY ConcatProperties
<1>2. Len(s) \in Nat /\ Len(u) \in Nat
  OBVIOUS
<1>3. ASSUME NEW i \in 1 .. Len(t) PROVE (s \o u)[i] = t[i]
  <2>1. CASE i <= Len(s)
    BY <1>1, <1>2, <2>1
  <2>2. CASE ~(i <= Len(s))
    <3>1. i - Len(s) \in 1 .. Len(u) /\ Len(s) + (i - Len(s)) = i
      BY <1>2, <2>2
    <3> QED BY <1>1, <2>2, <3>1
  <2> QED BY <2>1, <2>2
<1> QED BY <1>1, <1>3, SeqEqual

\* Append and concatenation on the lengths that there are.
LEMMA AppendToZero == \A x : Append(<<>>, x) = <<x>>
<1> SUFFICES ASSUME NEW x PROVE Append(<<>>, x) = <<x>>
  OBVIOUS
<1> DEFINE Elems == {x}
           s == <<>>
           t == <<x>>
<1>1. s \in Seq(Elems) /\ Len(s) = 0 /\ x \in Elems
  OBVIOUS
<1>2. t \in Seq(Elems) /\ Len(t) = 1 /\ t[1] = x
  OBVIOUS
<1> HIDE DEF Elems, s, t
<1>3. Len(t) = Len(s) + 1 /\ (\A i \in 1 .. Len(s) : t[i] = s[i]) /\ t[Len(s) + 1] = x
  BY <1>1, <1>2
<1>4. Append(s, x) = t
  BY <1>1, <1>2, <1>3, AppendIs
<1> QED BY <1>4 DEF s, t

LEMMA AppendToOne == \A a, x : Append(<<a>>, x) = <<a, x>>
<1> SUFFICES ASSUME NEW a, NEW x PROVE Append(<<a>>, x) = <<a, x>>
  OBVIOUS
<1> DEFINE Elems == {a, x}
           s == <<a>>
           t == <<a, x>>
<1>1. s \in Seq(Elems) /\ Len(s) = 1 /\ s[1] = a /\ x \in Elems
  OBVIOUS
<1>2. t \in Seq(Elems) /\ Len(t) = 2 /\ t[1] = a /\ t[2] = x
  OBVIOUS
<1> HIDE DEF Elems, s, t
<1>3. Len(t) = Len(s) + 1 /\ (\A i \in 1 .. Len(s) : t[i] = s[i]) /\ t[Len(s) + 1] = x
  BY <1>1, <1>2
<1>4. Append(s, x) = t
  BY <1>1, <1>2, <1>3, AppendIs
<1> QED BY <1>4 DEF s, t

LEMMA AppendToTwo == \A a, b, x : Append(<<a, b>>, x) = <<a, b, x>>
<1> SUFFICES ASSUME NEW a, NEW b, NEW x PROVE Append(<<a, b>>, x) = <<a, b, x>>
  OBVIOUS
<1> DEFINE Elems == {a, b, x}
           s == <<a, b>>
           t == <<a, b, x>>
<1>1. s \in Seq(Elems) /\ Len(s) = 2 /\ s[1] = a /\ s[2] = b /\ x \in Elems
  OBVIOUS
<1>2. t \in Seq(Elems) /\ Len(t) = 3 /\ t[1] = a /\ t[2] = b /\ t[3] = x
  OBVIOUS
<1> HIDE DEF Elems, s, t
<1>3. Len(t) = Len(s) + 1 /\ (\A i \in 1 .. Len(s) : t[i] = s[i]) /\ t[Len(s) + 1] = x
  BY <1>1, <1>2
<1>4. Append(s, x) = t
  BY <1>1, <1>2, <1>3, AppendIs
<1> QED BY <1>4 DEF s, t

LEMMA AppendToThree == \A a, b, c, x : Append(<<a, b, c>>, x) = <<a, b, c, x>>
<1> SUFFICES ASSUME NEW a, NEW b, NEW c, NEW x PROVE Append(<<a, b, c>>, x) = <<a, b, c, x>>
  OBVIOUS
<1> DEFINE Elems == {a, b, c, x}
           s == <<a, b, c>>
           t == <<a, b, c, x>>
<1>1. s \in Seq(Elems) /\ Len(s) = 3 /\ s[1] = a /\ s[2] = b /\ s[3] = c /\ x \in Elems
  OBVIOUS
<1>2. t \in Seq(Elems) /\ Len(t) = 4 /\ t[1] = a /\ t[2] = b /\ t[3] = c /\ t[4] = x
  OBVIOUS
<1> HIDE DEF Elems, s, t
<1>3. Len(t) = Len(s) + 1 /\ (\A i \in 1 .. Len(s) : t[i] = s[i]) /\ t[Len(s) + 1] = x
  BY <1>1, <1>2
<1>4. Append(s, x) = t
  BY <1>1, <1>2, <1>3, AppendIs
<1> QED BY <1>4 DEF s, t

LEMMA AppendToFour == \A a, b, c, d, x : Append(<<a, b, c, d>>, x) = <<a, b, c, d, x>>
<1> SUFFICES ASSUME NEW a, NEW b, NEW c, NEW d, NEW x
      PROVE Append(<<a, b, c, d>>, x) = <<a, b, c, d, x>>
  OBVIOUS
<1> DEFINE Elems == {a, b, c, d, x}
           s == <<a, b, c, d>>
           t == <<a, b, c, d, x>>
<1>1. s \in Seq(Elems) /\ Len(s) = 4 /\ s[1] = a /\ s[2] = b /\ s[3] = c /\ s[4] = d /\
        x \in Elems
  OBVIOUS
<1>2. t \in Seq(Elems) /\ Len(t) = 5 /\ t[1] = a /\ t[2] = b /\ t[3] = c /\ t[4] = d /\ t[5] = x
  OBVIOUS
<1> HIDE DEF Elems, s, t
<1>3. Len(t) = Len(s) + 1 /\ (\A i \in 1 .. Len(s) : t[i] = s[i]) /\ t[Len(s) + 1] = x
  BY <1>1, <1>2
<1>4. Append(s, x) = t
  BY <1>1, <1>2, <1>3, AppendIs
<1> QED BY <1>4 DEF s, t

LEMMA AppendToFive == \A a, b, c, d, e, x : Append(<<a, b, c, d, e>>, x) = <<a, b, c, d, e, x>>
<1> SUFFICES ASSUME NEW a, NEW b, NEW c, NEW d, NEW e, NEW x
      PROVE Append(<<a, b, c, d, e>>, x) = <<a, b, c, d, e, x>>
  OBVIOUS
<1> DEFINE Elems == {a, b, c, d, e, x}
           s == <<a, b, c, d, e>>
           t == <<a, b, c, d, e, x>>
<1>1. s \in Seq(Elems) /\ Len(s) = 5 /\ s[1] = a /\ s[2] = b /\ s[3] = c /\ s[4] = d /\
        s[5] = e /\ x \in Elems
  OBVIOUS
<1>2. t \in Seq(Elems) /\ Len(t) = 6 /\ t[1] = a /\ t[2] = b /\ t[3] = c /\ t[4] = d /\
        t[5] = e /\ t[6] = x
  OBVIOUS
<1> HIDE DEF Elems, s, t
<1>3. Len(t) = Len(s) + 1 /\ (\A i \in 1 .. Len(s) : t[i] = s[i]) /\ t[Len(s) + 1] = x
  BY <1>1, <1>2
<1>4. Append(s, x) = t
  BY <1>1, <1>2, <1>3, AppendIs
<1> QED BY <1>4 DEF s, t

LEMMA AppendToSix == \A a, b, c, d, e, f, x : Append(<<a, b, c, d, e, f>>, x) = <<a, b, c, d, e,
  f, x>>
<1> SUFFICES ASSUME NEW a, NEW b, NEW c, NEW d, NEW e, NEW f, NEW x
      PROVE Append(<<a, b, c, d, e, f>>, x) = <<a, b, c, d, e, f, x>>
  OBVIOUS
<1> DEFINE Elems == {a, b, c, d, e, f, x}
           s == <<a, b, c, d, e, f>>
           t == <<a, b, c, d, e, f, x>>
<1>1. s \in Seq(Elems) /\ Len(s) = 6 /\ s[1] = a /\ s[2] = b /\ s[3] = c /\ s[4] = d /\
        s[5] = e /\ s[6] = f /\ x \in Elems
  OBVIOUS
<1>2. t \in Seq(Elems) /\ Len(t) = 7 /\ t[1] = a /\ t[2] = b /\ t[3] = c /\ t[4] = d /\
        t[5] = e /\ t[6] = f /\ t[7] = x
  OBVIOUS
<1> HIDE DEF Elems, s, t
<1>3. Len(t) = Len(s) + 1 /\ (\A i \in 1 .. Len(s) : t[i] = s[i]) /\ t[Len(s) + 1] = x
  BY <1>1, <1>2
<1>4. Append(s, x) = t
  BY <1>1, <1>2, <1>3, AppendIs
<1> QED BY <1>4 DEF s, t

LEMMA NoneThenOne == \A x : <<>> \o <<x>> = <<x>>
<1> SUFFICES ASSUME NEW x PROVE <<>> \o <<x>> = <<x>>
  OBVIOUS
<1> DEFINE Elems == {x}
           s == <<>>
           u == <<x>>
           t == <<x>>
<1>1. s \in Seq(Elems) /\ Len(s) = 0
  OBVIOUS
<1>2. u \in Seq(Elems) /\ Len(u) = 1 /\ u[1] = x
  OBVIOUS
<1>3. t \in Seq(Elems) /\ Len(t) = 1 /\ t[1] = x
  OBVIOUS
<1> HIDE DEF Elems, s, u, t
<1>4. Joined(s, u, t)
  BY <1>1, <1>2, <1>3 DEF Joined
<1>5. s \o u = t
  BY <1>1, <1>2, <1>3, <1>4, ConcatIs
<1> QED BY <1>5 DEF s, u, t

LEMMA OneThenOne == \A a, x : <<a>> \o <<x>> = <<a, x>>
<1> SUFFICES ASSUME NEW a, NEW x PROVE <<a>> \o <<x>> = <<a, x>>
  OBVIOUS
<1> DEFINE Elems == {a, x}
           s == <<a>>
           u == <<x>>
           t == <<a, x>>
<1>1. s \in Seq(Elems) /\ Len(s) = 1 /\ s[1] = a
  OBVIOUS
<1>2. u \in Seq(Elems) /\ Len(u) = 1 /\ u[1] = x
  OBVIOUS
<1>3. t \in Seq(Elems) /\ Len(t) = 2 /\ t[1] = a /\ t[2] = x
  OBVIOUS
<1> HIDE DEF Elems, s, u, t
<1>4. Joined(s, u, t)
  BY <1>1, <1>2, <1>3 DEF Joined
<1>5. s \o u = t
  BY <1>1, <1>2, <1>3, <1>4, ConcatIs
<1> QED BY <1>5 DEF s, u, t

LEMMA TwoThenOne == \A a, b, x : <<a, b>> \o <<x>> = <<a, b, x>>
<1> SUFFICES ASSUME NEW a, NEW b, NEW x PROVE <<a, b>> \o <<x>> = <<a, b, x>>
  OBVIOUS
<1> DEFINE Elems == {a, b, x}
           s == <<a, b>>
           u == <<x>>
           t == <<a, b, x>>
<1>1. s \in Seq(Elems) /\ Len(s) = 2 /\ s[1] = a /\ s[2] = b
  OBVIOUS
<1>2. u \in Seq(Elems) /\ Len(u) = 1 /\ u[1] = x
  OBVIOUS
<1>3. t \in Seq(Elems) /\ Len(t) = 3 /\ t[1] = a /\ t[2] = b /\ t[3] = x
  OBVIOUS
<1> HIDE DEF Elems, s, u, t
<1>4. Joined(s, u, t)
  BY <1>1, <1>2, <1>3 DEF Joined
<1>5. s \o u = t
  BY <1>1, <1>2, <1>3, <1>4, ConcatIs
<1> QED BY <1>5 DEF s, u, t

LEMMA ThreeThenOne == \A a, b, c, x : <<a, b, c>> \o <<x>> = <<a, b, c, x>>
<1> SUFFICES ASSUME NEW a, NEW b, NEW c, NEW x PROVE <<a, b, c>> \o <<x>> = <<a, b, c, x>>
  OBVIOUS
<1> DEFINE Elems == {a, b, c, x}
           s == <<a, b, c>>
           u == <<x>>
           t == <<a, b, c, x>>
<1>1. s \in Seq(Elems) /\ Len(s) = 3 /\ s[1] = a /\ s[2] = b /\ s[3] = c
  OBVIOUS
<1>2. u \in Seq(Elems) /\ Len(u) = 1 /\ u[1] = x
  OBVIOUS
<1>3. t \in Seq(Elems) /\ Len(t) = 4 /\ t[1] = a /\ t[2] = b /\ t[3] = c /\ t[4] = x
  OBVIOUS
<1> HIDE DEF Elems, s, u, t
<1>4. Joined(s, u, t)
  BY <1>1, <1>2, <1>3 DEF Joined
<1>5. s \o u = t
  BY <1>1, <1>2, <1>3, <1>4, ConcatIs
<1> QED BY <1>5 DEF s, u, t

LEMMA NoneThenTwo == \A x, y : <<>> \o <<x, y>> = <<x, y>>
<1> SUFFICES ASSUME NEW x, NEW y PROVE <<>> \o <<x, y>> = <<x, y>>
  OBVIOUS
<1> DEFINE Elems == {x, y}
           s == <<>>
           u == <<x, y>>
           t == <<x, y>>
<1>1. s \in Seq(Elems) /\ Len(s) = 0
  OBVIOUS
<1>2. u \in Seq(Elems) /\ Len(u) = 2 /\ u[1] = x /\ u[2] = y
  OBVIOUS
<1>3. t \in Seq(Elems) /\ Len(t) = 2 /\ t[1] = x /\ t[2] = y
  OBVIOUS
<1> HIDE DEF Elems, s, u, t
<1>4. Joined(s, u, t)
  BY <1>1, <1>2, <1>3 DEF Joined
<1>5. s \o u = t
  BY <1>1, <1>2, <1>3, <1>4, ConcatIs
<1> QED BY <1>5 DEF s, u, t

LEMMA OneThenNone == \A a : <<a>> \o <<>> = <<a>>
<1> SUFFICES ASSUME NEW a PROVE <<a>> \o <<>> = <<a>>
  OBVIOUS
<1> DEFINE Elems == {a}
           s == <<a>>
           u == <<>>
           t == <<a>>
<1>1. s \in Seq(Elems) /\ Len(s) = 1 /\ s[1] = a
  OBVIOUS
<1>2. u \in Seq(Elems) /\ Len(u) = 0
  OBVIOUS
<1>3. t \in Seq(Elems) /\ Len(t) = 1 /\ t[1] = a
  OBVIOUS
<1> HIDE DEF Elems, s, u, t
<1>4. Joined(s, u, t)
  BY <1>1, <1>2, <1>3 DEF Joined
<1>5. s \o u = t
  BY <1>1, <1>2, <1>3, <1>4, ConcatIs
<1> QED BY <1>5 DEF s, u, t
-----------------------------------------------------------------------------
(* The instructions, with what is fixed of them and what they ask for. *)

Insn(cls, kwargs, xfrms, asm_args) ==
  [cls |-> cls, kwargs |-> kwargs, xfrms |-> xfrms, asm_args |-> asm_args]

\* A child of a class asks for the fields that neither class nor child fixes.
LEMMA ChildIs ==
  \A cls, kwargs, names, asm_args :
    DOMAIN cls.defaults \cup DOMAIN kwargs = names /\ Without(cls.layout, names) = asm_args
      => Child(cls, kwargs) = Insn(cls, kwargs, <<>>, asm_args)
BY DEF Child, Insn

Join(s, t) == s \o t

\* A record with two of its four fields replaced.
LEMMA CallIs ==
  ASSUME NEW insn, NEW cls, NEW kwargs, NEW xfrms, NEW asm_args, NEW more, NEW names,
         NEW all, NEW kept, insn = Insn(cls, kwargs, xfrms, asm_args),
         DOMAIN more = names, kwargs ++ more = all, Without(asm_args, names) = kept
  PROVE  Call(insn, more) = Insn(cls, all, xfrms, kept)
<1>1. insn.kwargs = kwargs /\ insn.asm_args = asm_args
  BY DEF Insn
<1>2. Call(insn, more) = [insn EXCEPT !.kwargs = all, !.asm_args = kept]
  BY <1>1 DEF Call
<1>3. [insn EXCEPT !.kwargs = all, !.asm_args = kept] = Insn(cls, all, xfrms, kept)
  <2> DEFINE m == [insn EXCEPT !.kwargs = all, !.asm_args = kept]
  <2>1. DOMAIN m = {"cls", "kwargs", "xfrms", "asm_args"} /\ m = [e \in DOMAIN m |-> m[e]]
    BY DEF Insn
  <2>2. m["cls"] = cls /\ m["kwargs"] = all /\ m["xfrms"] = xfrms /\ m["asm_args"] = kept
    BY DEF Insn
  <2> HIDE DEF m
  <2>3. m = [cls |-> cls, kwargs |-> all, xfrms |-> xfrms, asm_args |-> kept]
    BY <2>1, <2>2
  <2> QED BY <2>3 DEF Insn, m
<1> QED BY <1>2, <1>3

\* A transformed instruction asks for the inputs of the transform in place of its fields.
LEMMA XfrmOf ==
  \A cls, kwargs, xfrms, asm_args, x :
    Xfrm(Insn(cls, kwargs, xfrms, asm_args), x) =
    Insn(cls, kwargs, Join(<<x>>, xfrms), Join(Without(asm_args, ToSet(x.layout)), x.inputs))
<1> TAKE cls, kwargs, xfrms, asm_args, x
<1> DEFINE insn == Insn(cls, kwargs, xfrms, asm_args)
           more == Join(<<x>>, xfrms)
           asked == Join(Without(asm_args, ToSet(x.layout)), x.inputs)
           m == [insn EXCEPT !.xfrms = more, !.asm_args = asked]
<1>1. insn.xfrms = xfrms /\ insn.asm_args = asm_args
  BY DEF Insn
<1>2. Xfrm(insn, x) = m
  BY <1>1 DEF Xfrm, Join
<1> HIDE DEF more, asked
<1>3. DOMAIN m = {"cls", "kwargs", "xfrms", "asm_args"} /\ m = [e \in DOMAIN m |-> m[e]]
  BY DEF Insn
<1>4. m["cls"] = cls /\ m["kwargs"] = kwargs /\ m["xfrms"] = more /\ m["asm_args"] = asked
  BY DEF Insn
<1> HIDE DEF m
<1>5. m = [cls |-> cls, kwargs |-> kwargs, xfrms |-> more, asm_args |-> asked]
  BY <1>3, <1>4
<1> QED BY <1>2, <1>5 DEF Insn, more, asked

LEMMA KeepsNone == \A dropped : Without(<<>>, dropped) = <<>>
<1> SUFFICES ASSUME NEW dropped PROVE Without(<<>>, dropped) = <<>>
  OBVIOUS
<1> DEFINE ks == << <<>> >>
<1>1. AreKept(<<>>, dropped, ks) /\ Len(<<>>) + 1 = 1 /\ ks[1] = <<>>
  BY DEF AreKept
<1> HIDE DEF ks
<1> QED BY <1>1, WithoutIs

\* What is left of a layout when the names that an instruction fixes are taken out, for
\* each layout and each choice of names that an instruction needs.
LEMMA Keeps1 ==
  Without(<<"opcode", "rd", "funct3", "rs1", "rs2", "funct7">>, {"opcode", "funct7", "funct3"}) =
    <<"rd", "rs1", "rs2">>
<1> DEFINE d == {"opcode", "funct7", "funct3"}
<1>1. /\ Kept(<<>>, "opcode", d) = <<>>
      /\ Kept(<<>>, "rd", d) = <<"rd">>
      /\ Kept(<<"rd">>, "funct3", d) = <<"rd">>
      /\ Kept(<<"rd">>, "rs1", d) = <<"rd", "rs1">>
      /\ Kept(<<"rd", "rs1">>, "rs2", d) = <<"rd", "rs1", "rs2">>
      /\ Kept(<<"rd", "rs1", "rs2">>, "funct7", d) = <<"rd", "rs1", "rs2">>
  BY AppendToZero, AppendToOne, AppendToTwo DEF Kept
<1> HIDE DEF d
<1>2. Without(<<"opcode", "rd", "funct3", "rs1", "rs2", "funct7">>, d) =
        Kept(Kept(Kept(Kept(Kept(Kept(<<>>, "opcode", d), "rd", d), "funct3", d), "rs1", d),
          "rs2", d), "funct7", d)
  BY WithoutOfSix
<1> QED BY <1>1, <1>2 DEF d

LEMMA Keeps2 ==
  Without(<<"rd", "rs1", "rs2">>, {"funct7"}) =
    <<"rd", "rs1", "rs2">>
<1> DEFINE d == {"funct7"}
<1>1. /\ Kept(<<>>, "rd", d) = <<"rd">>
      /\ Kept(<<"rd">>, "rs1", d) = <<"rd", "rs1">>
      /\ Kept(<<"rd", "rs1">>, "rs2", d) = <<"rd", "rs1", "rs2">>
  BY AppendToZero, AppendToOne, AppendToTwo DEF Kept
<1> HIDE DEF d
<1>2. Without(<<"rd", "rs1", "rs2">>, d) =
        Kept(Kept(Kept(<<>>, "rd", d), "rs1", d), "rs2", d)
  BY WithoutOfThree
<1> QED BY <1>1, <1>2 DEF d

LEMMA Keeps3 ==
  Without(<<"opcode", "rd", "funct3", "rs1", "imm">>, {"opcode", "funct3"}) =
    <<"rd", "rs1", "imm">>
<1> DEFINE d == {"opcode", "funct3"}
<1>1. /\ Kept(<<>>, "opcode", d) = <<>>
      /\ Kept(<<>>, "rd", d) = <<"rd">>
      /\ Kept(<<"rd">>, "funct3", d) = <<"rd">>
      /\ Kept(<<"rd">>, "rs1", d) = <<"rd", "rs1">>
      /\ Kept(<<"rd", "rs1">>, "imm", d) = <<"rd", "rs1", "imm">>
  BY AppendToZero, AppendToOne, AppendToTwo DEF Kept
<1> HIDE DEF d
<1>2. Without(<<"opcode", "rd", "funct3", "rs1", "imm">>, d) =
        Kept(Kept(Kept(Kept(Kept(<<>>, "opcode", d), "rd", d), "funct3", d), "rs1", d), "imm", d)
  BY WithoutOfFive
<1> QED BY <1>1, <1>2 DEF d

LEMMA Keeps4 ==
  Without(<<"rd", "rs1", "imm">>, {"imm"}) =
    <<"rd", "rs1">>
<1> DEFINE d == {"imm"}
<1>1. /\ Kept(<<>>, "rd", d) = <<"rd">>
      /\ Kept(<<"rd">>, "rs1", d) = <<"rd", "rs1">>
      /\ Kept(<<"rd", "rs1">>, "imm", d) = <<"rd", "rs1">>
  BY AppendToZero, AppendToOne DEF Kept
<1> HIDE DEF d
<1>2. Without(<<"rd", "rs1", "imm">>, d) =
        Kept(Kept(Kept(<<>>, "rd", d), "rs1", d), "imm", d)
  BY WithoutOfThree
<1> QED BY <1>1, <1>2 DEF d

LEMMA Keeps5 ==
  Without(<<"opcode", "rd", "funct3", "rs1", "imm">>, {"opcode", "opcode"}) =
    <<"rd", "funct3", "rs1", "imm">>
<1> DEFINE d == {"opcode", "opcode"}
<1>1. /\ Kept(<<>>, "opcode", d) = <<>>
      /\ Kept(<<>>, "rd", d) = <<"rd">>
      /\ Kept(<<"rd">>, "funct3", d) = <<"rd", "funct3">>
      /\ Kept(<<"rd", "funct3">>, "rs1", d) = <<"rd", "funct3", "rs1">>
      /\ Kept(<<"rd", "funct3", "rs1">>, "imm", d) = <<"rd", "funct3", "rs1", "imm">>
  BY AppendToZero, AppendToOne, AppendToTwo, AppendToThree DEF Kept
<1> HIDE DEF d
<1>2. Without(<<"opcode", "rd", "funct3", "rs1", "imm">>, d) =
        Kept(Kept(Kept(Kept(Kept(<<>>, "opcode", d), "rd", d), "funct3", d), "rs1", d), "imm", d)
  BY WithoutOfFive
<1> QED BY <1>1, <1>2 DEF d

LEMMA Keeps6 ==
  Without(<<"rd", "funct3", "rs1", "imm">>, {"imm", "rs1"}) =
    <<"rd", "funct3">>
<1> DEFINE d == {"imm", "rs1"}
<1>1. /\ Kept(<<>>, "rd", d) = <<"rd">>
      /\ Kept(<<"rd">>, "funct3", d) = <<"rd", "funct3">>
      /\ Kept(<<"rd", "funct3">>, "rs1", d) = <<"rd", "funct3">>
      /\ Kept(<<"rd", "funct3">>, "imm", d) = <<"rd", "funct3">>
  BY AppendToZero, AppendToOne DEF Kept
<1> HIDE DEF d
<1>2. Without(<<"rd", "funct3", "rs1", "imm">>, d) =
        Kept(Kept(Kept(Kept(<<>>, "rd", d), "funct3", d), "rs1", d), "imm", d)
  BY WithoutOfFour
<1> QED BY <1>1, <1>2 DEF d

LEMMA Keeps7 ==
  Without(<<"rd", "funct3", "rs1off">>, {"funct3"}) =
    <<"rd", "rs1off">>
<1> DEFINE d == {"funct3"}
<1>1. /\ Kept(<<>>, "rd", d) = <<"rd">>
      /\ Kept(<<"rd">>, "funct3", d) = <<"rd">>
      /\ Kept(<<"rd">>, "rs1off", d) = <<"rd", "rs1off">>
  BY AppendToZero, AppendToOne DEF Kept
<1> HIDE DEF d
<1>2. Without(<<"rd", "funct3", "rs1off">>, d) =
        Kept(Kept(Kept(<<>>, "rd", d), "funct3", d), "rs1off", d)
  BY WithoutOfThree
<1> QED BY <1>1, <1>2 DEF d

LEMMA Keeps8 ==
  Without(<<"opcode", "rd", "funct3", "rs1", "imm">>,
    {"opcode", "opcode", "funct3", "rd", "rs1"}) =
    <<"imm">>
<1> DEFINE d == {"opcode", "opcode", "funct3", "rd", "rs1"}
<1>1. /\ Kept(<<>>, "opcode", d) = <<>>
      /\ Kept(<<>>, "rd", d) = <<>>
      /\ Kept(<<>>, "funct3", d) = <<>>
      /\ Kept(<<>>, "rs1", d) = <<>>
      /\ Kept(<<>>, "imm", d) = <<"imm">>
  BY AppendToZero DEF Kept
<1> HIDE DEF d
<1>2. Without(<<"opcode", "rd", "funct3", "rs1", "imm">>, d) =
        Kept(Kept(Kept(Kept(Kept(<<>>, "opcode", d), "rd", d), "funct3", d), "rs1", d), "imm", d)
  BY WithoutOfFive
<1> QED BY <1>1, <1>2 DEF d

LEMMA Keeps9 ==
  Without(<<"imm">>, {"imm"}) =
    <<>>
<1> DEFINE d == {"imm"}
<1>1. /\ Kept(<<>>, "imm", d) = <<>>
  BY DEF Kept
<1> HIDE DEF d
<1>2. Without(<<"imm">>, d) =
        Kept(<<>>, "imm", d)
  BY WithoutOfOne
<1> QED BY <1>1, <1>2 DEF d

LEMMA Keeps10 ==
  Without(<<"opcode", "rd", "funct3", "rs1", "imm">>, {"opcode", "opcode", "rd", "rs1"}) =
    <<"funct3", "imm">>
<1> DEFINE d == {"opcode", "opcode", "rd", "rs1"}
<1>1. /\ Kept(<<>>, "opcode", d) = <<>>
      /\ Kept(<<>>, "rd", d) = <<>>
      /\ Kept(<<>>, "funct3", d) = <<"funct3">>
      /\ Kept(<<"funct3">>, "rs1", d) = <<"funct3">>
      /\ Kept(<<"funct3">>, "imm", d) = <<"funct3", "imm">>
  BY AppendToZero, AppendToOne DEF Kept
<1> HIDE DEF d
<1>2. Without(<<"opcode", "rd", "funct3", "rs1", "imm">>, d) =
        Kept(Kept(Kept(Kept(Kept(<<>>, "opcode", d), "rd", d), "funct3", d), "rs1", d), "imm", d)
  BY WithoutOfFive
<1> QED BY <1>1, <1>2 DEF d

LEMMA Keeps11 ==
  Without(<<"funct3", "imm">>, {"funct3", "imm"}) =
    <<>>
<1> DEFINE d == {"funct3", "imm"}
<1>1. /\ Kept(<<>>, "funct3", d) = <<>>
      /\ Kept(<<>>, "imm", d) = <<>>
  BY DEF Kept
<1> HIDE DEF d
<1>2. Without(<<"funct3", "imm">>, d) =
        Kept(Kept(<<>>, "funct3", d), "imm", d)
  BY WithoutOfTwo
<1> QED BY <1>1, <1>2 DEF d

LEMMA Keeps12 ==
  Without(<<"funct">>, {"funct"}) =
    <<>>
<1> DEFINE d == {"funct"}
<1>1. /\ Kept(<<>>, "funct", d) = <<>>
  BY DEF Kept
<1> HIDE DEF d
<1>2. Without(<<"funct">>, d) =
        Kept(<<>>, "funct", d)
  BY WithoutOfOne
<1> QED BY <1>1, <1>2 DEF d

LEMMA Keeps13 ==
  Without(<<"opcode", "imm4_0", "funct3", "rs1", "rs2", "imm11_5">>, {"opcode"}) =
    <<"imm4_0", "funct3", "rs1", "rs2", "imm11_5">>
<1> DEFINE d == {"opcode"}
<1>1. /\ Kept(<<>>, "opcode", d) = <<>>
      /\ Kept(<<>>, "imm4_0", d) = <<"imm4_0">>
      /\ Kept(<<"imm4_0">>, "funct3", d) = <<"imm4_0", "funct3">>
      /\ Kept(<<"imm4_0", "funct3">>, "rs1", d) = <<"imm4_0", "funct3", "rs1">>
      /\ Kept(<<"imm4_0", "funct3", "rs1">>, "rs2", d) = <<"imm4_0", "funct3", "rs1", "rs2">>
      /\ Kept(<<"imm4_0", "funct3", "rs1", "rs2">>, "imm11_5", d) = <<"imm4_0", "funct3", "rs1",
           "rs2", "imm11_5">>
  BY AppendToZero, AppendToOne, AppendToTwo, AppendToThree, AppendToFour DEF Kept
<1> HIDE DEF d
<1>2. Without(<<"opcode", "imm4_0", "funct3", "rs1", "rs2", "imm11_5">>, d) =
        Kept(Kept(Kept(Kept(Kept(Kept(<<>>, "opcode", d), "imm4_0", d), "funct3", d), "rs1", d),
          "rs2", d), "imm11_5", d)
  BY WithoutOfSix
<1> QED BY <1>1, <1>2 DEF d

LEMMA Keeps14 ==
  Without(<<"imm4_0", "funct3", "rs1", "rs2", "imm11_5">>, {"imm4_0", "imm11_5"}) =
    <<"funct3", "rs1", "rs2">>
<1> DEFINE d == {"imm4_0", "imm11_5"}
<1>1. /\ Kept(<<>>, "imm4_0", d) = <<>>
      /\ Kept(<<>>, "funct3", d) = <<"funct3">>
      /\ Kept(<<"funct3">>, "rs1", d) = <<"funct3", "rs1">>
      /\ Kept(<<"funct3", "rs1">>, "rs2", d) = <<"funct3", "rs1", "rs2">>
      /\ Kept(<<"funct3", "rs1", "rs2">>, "imm11_5", d) = <<"funct3", "rs1", "rs2">>
  BY AppendToZero, AppendToOne, AppendToTwo DEF Kept
<1> HIDE DEF d
<1>2. Without(<<"imm4_0", "funct3", "rs1", "rs2", "imm11_5">>, d) =
        Kept(Kept(Kept(Kept(Kept(<<>>, "imm4_0", d), "funct3", d), "rs1", d), "rs2", d),
          "imm11_5", d)
  BY WithoutOfFive
<1> QED BY <1>1, <1>2 DEF d

LEMMA Keeps15 ==
  Without(<<"funct3", "rs1", "rs2", "imm">>, {"imm", "rs1"}) =
    <<"funct3", "rs2">>
<1> DEFINE d == {"imm", "rs1"}
<1>1. /\ Kept(<<>>, "funct3", d) = <<"funct3">>
      /\ Kept(<<"funct3">>, "rs1", d) = <<"funct3">>
      /\ Kept(<<"funct3">>, "rs2", d) = <<"funct3", "rs2">>
      /\ Kept(<<"funct3", "rs2">>, "imm", d) = <<"funct3", "rs2">>
  BY AppendToZero, AppendToOne DEF Kept
<1> HIDE DEF d
<1>2. Without(<<"funct3", "rs1", "rs2", "imm">>, d) =
        Kept(Kept(Kept(Kept(<<>>, "funct3", d), "rs1", d), "rs2", d), "imm", d)
  BY WithoutOfFour
<1> QED BY <1>1, <1>2 DEF d

LEMMA Keeps16 ==
  Without(<<"funct3", "rs2", "rs1off">>, {"funct3"}) =
    <<"rs2", "rs1off">>
<1> DEFINE d == {"funct3"}
<1>1. /\ Kept(<<>>, "funct3", d) = <<>>
      /\ Kept(<<>>, "rs2", d) = <<"rs2">>
      /\ Kept(<<"rs2">>, "rs1off", d) = <<"rs2", "rs1off">>
  BY AppendToZero, AppendToOne DEF Kept
<1> HIDE DEF d
<1>2. Without(<<"funct3", "rs2", "rs1off">>, d) =
        Kept(Kept(Kept(<<>>, "funct3", d), "rs2", d), "rs1off", d)
  BY WithoutOfThree
<1> QED BY <1>1, <1>2 DEF d

LEMMA Keeps17 ==
  Without(<<"opcode", "imm11", "imm4_1", "funct3", "rs1", "rs2", "imm10_5", "imm12">>,
    {"opcode"}) =
    <<"imm11", "imm4_1", "funct3", "rs1", "rs2", "imm10_5", "imm12">>
<1> DEFINE d == {"opcode"}
<1>1. /\ Kept(<<>>, "opcode", d) = <<>>
      /\ Kept(<<>>, "imm11", d) = <<"imm11">>
      /\ Kept(<<"imm11">>, "imm4_1", d) = <<"imm11", "imm4_1">>
      /\ Kept(<<"imm11", "imm4_1">>, "funct3", d) = <<"imm11", "imm4_1", "funct3">>
      /\ Kept(<<"imm11", "imm4_1", "funct3">>, "rs1", d) = <<"imm11", "imm4_1", "funct3", "rs1">>
      /\ Kept(<<"imm11", "imm4_1", "funct3", "rs1">>, "rs2", d) = <<"imm11", "imm4_1", "funct3",
           "rs1", "rs2">>
      /\ Kept(<<"imm11", "imm4_1", "funct3", "rs1", "rs2">>, "imm10_5", d) = <<"imm11",
           "imm4_1", "funct3", "rs1", "rs2", "imm10_5">>
      /\ Kept(<<"imm11", "imm4_1", "funct3", "rs1", "rs2", "imm10_5">>, "imm12", d) = <<"imm11",
           "imm4_1", "funct3", "rs1", "rs2", "imm10_5", "imm12">>
  BY AppendToZero, AppendToOne, AppendToTwo, AppendToThree, AppendToFour, AppendToFive,
        AppendToSix DEF Kept
<1> HIDE DEF d
<1>2. Without(<<"opcode", "imm11", "imm4_1", "funct3", "rs1", "rs2", "imm10_5", "imm12">>, d) =
        Kept(Kept(Kept(Kept(Kept(Kept(Kept(Kept(<<>>, "opcode", d), "imm11", d), "imm4_1", d),
          "funct3", d), "rs1", d), "rs2", d), "imm10_5", d), "imm12", d)
  BY WithoutOfEight
<1> QED BY <1>1, <1>2 DEF d

LEMMA Keeps18 ==
  Without(<<"imm11", "imm4_1", "funct3", "rs1", "rs2", "imm10_5", "imm12">>,
    {"imm11", "imm4_1", "imm10_5", "imm12"}) =
    <<"funct3", "rs1", "rs2">>
<1> DEFINE d == {"imm11", "imm4_1", "imm10_5", "imm12"}
<1>1. /\ Kept(<<>>, "imm11", d) = <<>>
      /\ Kept(<<>>, "imm4_1", d) = <<>>
      /\ Kept(<<>>, "funct3", d) = <<"funct3">>
      /\ Kept(<<"funct3">>, "rs1", d) = <<"funct3", "rs1">>
      /\ Kept(<<"funct3", "rs1">>, "rs2", d) = <<"funct3", "rs1", "rs2">>
      /\ Kept(<<"funct3", "rs1", "rs2">>, "imm10_5", d) = <<"funct3", "rs1", "rs2">>
      /\ Kept(<<"funct3", "rs1", "rs2">>, "imm12", d) = <<"funct3", "rs1", "rs2">>
  BY AppendToZero, AppendToOne, AppendToTwo DEF Kept
<1> HIDE DEF d
<1>2. Without(<<"imm11", "imm4_1", "funct3", "rs1", "rs2", "imm10_5", "imm12">>, d) =
        Kept(Kept(Kept(Kept(Kept(Kept(Kept(<<>>, "imm11", d), "imm4_1", d), "funct3", d), "rs1",
          d), "rs2", d), "imm10_5", d), "imm12", d)
  BY WithoutOfSeven
<1> QED BY <1>1, <1>2 DEF d

LEMMA Keeps19 ==
  Without(<<"funct3", "rs1", "rs2", "imm">>, {"funct3"}) =
    <<"rs1", "rs2", "imm">>
<1> DEFINE d == {"funct3"}
<1>1. /\ Kept(<<>>, "funct3", d) = <<>>
      /\ Kept(<<>>, "rs1", d) = <<"rs1">>
      /\ Kept(<<"rs1">>, "rs2", d) = <<"rs1", "rs2">>
      /\ Kept(<<"rs1", "rs2">>, "imm", d) = <<"rs1", "rs2", "imm">>
  BY AppendToZero, AppendToOne, AppendToTwo DEF Kept
<1> HIDE DEF d
<1>2. Without(<<"funct3", "rs1", "rs2", "imm">>, d) =
        Kept(Kept(Kept(Kept(<<>>, "funct3", d), "rs1", d), "rs2", d), "imm", d)
  BY WithoutOfFour
<1> QED BY <1>1, <1>2 DEF d

LEMMA Keeps20 ==
  Without(<<"opcode", "rd", "imm">>, {}) =
    <<"opcode", "rd", "imm">>
<1> DEFINE d == {}
<1>1. /\ Kept(<<>>, "opcode", d) = <<"opcode">>
      /\ Kept(<<"opcode">>, "rd", d) = <<"opcode", "rd">>
      /\ Kept(<<"opcode", "rd">>, "imm", d) = <<"opcode", "rd", "imm">>
  BY AppendToZero, AppendToOne, AppendToTwo DEF Kept
<1> HIDE DEF d
<1>2. Without(<<"opcode", "rd", "imm">>, d) =
        Kept(Kept(Kept(<<>>, "opcode", d), "rd", d), "imm", d)
  BY WithoutOfThree
<1> QED BY <1>1, <1>2 DEF d

LEMMA Keeps21 ==
  Without(<<"opcode", "rd", "imm">>, {"imm"}) =
    <<"opcode", "rd">>
<1> DEFINE d == {"imm"}
<1>1. /\ Kept(<<>>, "opcode", d) = <<"opcode">>
      /\ Kept(<<"opcode">>, "rd", d) = <<"opcode", "rd">>
      /\ Kept(<<"opcode", "rd">>, "imm", d) = <<"opcode", "rd">>
  BY AppendToZero, AppendToOne DEF Kept
<1> HIDE DEF d
<1>2. Without(<<"opcode", "rd", "imm">>, d) =
        Kept(Kept(Kept(<<>>, "opcode", d), "rd", d), "imm", d)
  BY WithoutOfThree
<1> QED BY <1>1, <1>2 DEF d

LEMMA Keeps22 ==
  Without(<<"opcode", "rd", "imm">>, {"opcode"}) =
    <<"rd", "imm">>
<1> DEFINE d == {"opcode"}
<1>1. /\ Kept(<<>>, "opcode", d) = <<>>
      /\ Kept(<<>>, "rd", d) = <<"rd">>
      /\ Kept(<<"rd">>, "imm", d) = <<"rd", "imm">>
  BY AppendToZero, AppendToOne DEF Kept
<1> HIDE DEF d
<1>2. Without(<<"opcode", "rd", "imm">>, d) =
        Kept(Kept(Kept(<<>>, "opcode", d), "rd", d), "imm", d)
  BY WithoutOfThree
<1> QED BY <1>1, <1>2 DEF d

LEMMA Keeps23 ==
  Without(<<"opcode", "rd", "funct3", "rs1", "imm">>, {"opcode", "opcode", "funct3"}) =
    <<"rd", "rs1", "imm">>
<1> DEFINE d == {"opcode", "opcode", "funct3"}
<1>1. /\ Kept(<<>>, "opcode", d) = <<>>
      /\ Kept(<<>>, "rd", d) = <<"rd">>
      /\ Kept(<<"rd">>, "funct3", d) = <<"rd">>
      /\ Kept(<<"rd">>, "rs1", d) = <<"rd", "rs1">>
      /\ Kept(<<"rd", "rs1">>, "imm", d) = <<"rd", "rs1", "imm">>
  BY AppendToZero, AppendToOne, AppendToTwo DEF Kept
<1> HIDE DEF d
<1>2. Without(<<"opcode", "rd", "funct3", "rs1", "imm">>, d) =
        Kept(Kept(Kept(Kept(Kept(<<>>, "opcode", d), "rd", d), "funct3", d), "rs1", d), "imm", d)
  BY WithoutOfFive
<1> QED BY <1>1, <1>2 DEF d

LEMMA Keeps24 ==
  Without(<<"opcode", "rd", "imm19_12", "imm11", "imm10_1", "imm20">>, {"opcode"}) =
    <<"rd", "imm19_12", "imm11", "imm10_1", "imm20">>
<1> DEFINE d == {"opcode"}
<1>1. /\ Kept(<<>>, "opcode", d) = <<>>
      /\ Kept(<<>>, "rd", d) = <<"rd">>
      /\ Kept(<<"rd">>, "imm19_12", d) = <<"rd", "imm19_12">>
      /\ Kept(<<"rd", "imm19_12">>, "imm11", d) = <<"rd", "imm19_12", "imm11">>
      /\ Kept(<<"rd", "imm19_12", "imm11">>, "imm10_1", d) = <<"rd", "imm19_12", "imm11",
           "imm10_1">>
      /\ Kept(<<"rd", "imm19_12", "imm11", "imm10_1">>, "imm20", d) = <<"rd", "imm19_12",
           "imm11", "imm10_1", "imm20">>
  BY AppendToZero, AppendToOne, AppendToTwo, AppendToThree, AppendToFour DEF Kept
<1> HIDE DEF d
<1>2. Without(<<"opcode", "rd", "imm19_12", "imm11", "imm10_1", "imm20">>, d) =
        Kept(Kept(Kept(Kept(Kept(Kept(<<>>, "opcode", d), "rd", d), "imm19_12", d), "imm11", d),
          "imm10_1", d), "imm20", d)
  BY WithoutOfSix
<1> QED BY <1>1, <1>2 DEF d

LEMMA Keeps25 ==
  Without(<<"rd", "imm19_12", "imm11", "imm10_1", "imm20">>,
    {"imm19_12", "imm11", "imm10_1", "imm20"}) =
    <<"rd">>
<1> DEFINE d == {"imm19_12", "imm11", "imm10_1", "imm20"}
<1>1. /\ Kept(<<>>, "rd", d) = <<"rd">>
      /\ Kept(<<"rd">>, "imm19_12", d) = <<"rd">>
      /\ Kept(<<"rd">>, "imm11", d) = <<"rd">>
      /\ Kept(<<"rd">>, "imm10_1", d) = <<"rd">>
      /\ Kept(<<"rd">>, "imm20", d) = <<"rd">>
  BY AppendToZero DEF Kept
<1> HIDE DEF d
<1>2. Without(<<"rd", "imm19_12", "imm11", "imm10_1", "imm20">>, d) =
        Kept(Kept(Kept(Kept(Kept(<<>>, "rd", d), "imm19_12", d), "imm11", d), "imm10_1", d),
          "imm20", d)
  BY WithoutOfFive
<1> QED BY <1>1, <1>2 DEF d

LEMMA Keeps26 ==
  Without(<<"pred", "succ">>, {"pred", "succ"}) =
    <<>>
<1> DEFINE d == {"pred", "succ"}
<1>1. /\ Kept(<<>>, "pred", d) = <<>>
      /\ Kept(<<>>, "succ", d) = <<>>
  BY DEF Kept
<1> HIDE DEF d
<1>2. Without(<<"pred", "succ">>, d) =
        Kept(Kept(<<>>, "pred", d), "succ", d)
  BY WithoutOfTwo
<1> QED BY <1>1, <1>2 DEF d

LEMMA Keeps27 ==
  Without(<<"rd", "rs1", "rs2">>, {"rs1"}) =
    <<"rd", "rs2">>
<1> DEFINE d == {"rs1"}
<1>1. /\ Kept(<<>>, "rd", d) = <<"rd">>
      /\ Kept(<<"rd">>, "rs1", d) = <<"rd">>
      /\ Kept(<<"rd">>, "rs2", d) = <<"rd", "rs2">>
  BY AppendToZero, AppendToOne DEF Kept
<1> HIDE DEF d
<1>2. Without(<<"rd", "rs1", "rs2">>, d) =
        Kept(Kept(Kept(<<>>, "rd", d), "rs1", d), "rs2", d)
  BY WithoutOfThree
<1> QED BY <1>1, <1>2 DEF d

LEMMA Keeps28 ==
  Without(<<"rd", "rs1", "imm">>, {"rd", "rs1", "imm"}) =
    <<>>
<1> DEFINE d == {"rd", "rs1", "imm"}
<1>1. /\ Kept(<<>>, "rd", d) = <<>>
      /\ Kept(<<>>, "rs1", d) = <<>>
      /\ Kept(<<>>, "imm", d) = <<>>
  BY DEF Kept
<1> HIDE DEF d
<1>2. Without(<<"rd", "rs1", "imm">>, d) =
        Kept(Kept(Kept(<<>>, "rd", d), "rs1", d), "imm", d)
  BY WithoutOfThree
<1> QED BY <1>1, <1>2 DEF d

LEMMA Keeps29 ==
  Without(<<"rd", "imm">>, {"rd"}) =
    <<"imm">>
<1> DEFINE d == {"rd"}
<1>1. /\ Kept(<<>>, "rd", d) = <<>>
      /\ Kept(<<>>, "imm", d) = <<"imm">>
  BY AppendToZero DEF Kept
<1> HIDE DEF d
<1>2. Without(<<"rd", "imm">>, d) =
        Kept(Kept(<<>>, "rd", d), "imm", d)
  BY WithoutOfTwo
<1> QED BY <1>1, <1>2 DEF d

LEMMA Keeps30 ==
  Without(<<"opcode", "imm4_0", "funct3", "rs1", "rs2", "imm11_5">>,
    {"opcode", "funct3", "rs1", "rs2"}) =
    <<"imm4_0", "imm11_5">>
<1> DEFINE d == {"opcode", "funct3", "rs1", "rs2"}
<1>1. /\ Kept(<<>>, "opcode", d) = <<>>
      /\ Kept(<<>>, "imm4_0", d) = <<"imm4_0">>
      /\ Kept(<<"imm4_0">>, "funct3", d) = <<"imm4_0">>
      /\ Kept(<<"imm4_0">>, "rs1", d) = <<"imm4_0">>
      /\ Kept(<<"imm4_0">>, "rs2", d) = <<"imm4_0">>
      /\ Kept(<<"imm4_0">>, "imm11_5", d) = <<"imm4_0", "imm11_5">>
  BY AppendToZero, AppendToOne DEF Kept
<1> HIDE DEF d
<1>2. Without(<<"opcode", "imm4_0", "funct3", "rs1", "rs2", "imm11_5">>, d) =
        Kept(Kept(Kept(Kept(Kept(Kept(<<>>, "opcode", d), "imm4_0", d), "funct3", d), "rs1", d),
          "rs2", d), "imm11_5", d)
  BY WithoutOfSix
<1> QED BY <1>1, <1>2 DEF d

LEMMA Keeps31 ==
  Without(<<"opcode", "imm11", "imm4_1", "funct3", "rs1", "rs2", "imm10_5", "imm12">>,
    {"opcode", "funct3", "rs1", "rs2"}) =
    <<"imm11", "imm4_1", "imm10_5", "imm12">>
<1> DEFINE d == {"opcode", "funct3", "rs1", "rs2"}
<1>1. /\ Kept(<<>>, "opcode", d) = <<>>
      /\ Kept(<<>>, "imm11", d) = <<"imm11">>
      /\ Kept(<<"imm11">>, "imm4_1", d) = <<"imm11", "imm4_1">>
      /\ Kept(<<"imm11", "imm4_1">>, "funct3", d) = <<"imm11", "imm4_1">>
      /\ Kept(<<"imm11", "imm4_1">>, "rs1", d) = <<"imm11", "imm4_1">>
      /\ Kept(<<"imm11", "imm4_1">>, "rs2", d) = <<"imm11", "imm4_1">>
      /\ Kept(<<"imm11", "imm4_1">>, "imm10_5", d) = <<"imm11", "imm4_1", "imm10_5">>
      /\ Kept(<<"imm11", "imm4_1", "imm10_5">>, "imm12", d) = <<"imm11", "imm4_1", "imm10_5",
           "imm12">>
  BY AppendToZero, AppendToOne, AppendToTwo, AppendToThree DEF Kept
<1> HIDE DEF d
<1>2. Without(<<"opcode", "imm11", "imm4_1", "funct3", "rs1", "rs2", "imm10_5", "imm12">>, d) =
        Kept(Kept(Kept(Kept(Kept(Kept(Kept(Kept(<<>>, "opcode", d), "imm11", d), "imm4_1", d),
          "funct3", d), "rs1", d), "rs2", d), "imm10_5", d), "imm12", d)
  BY WithoutOfEight
<1> QED BY <1>1, <1>2 DEF d

LEMMA Keeps32 ==
  Without(<<"opcode", "rd", "imm19_12", "imm11", "imm10_1", "imm20">>, {"opcode", "rd"}) =
    <<"imm19_12", "imm11", "imm10_1", "imm20">>
<1> DEFINE d == {"opcode", "rd"}
<1>1. /\ Kept(<<>>, "opcode", d) = <<>>
      /\ Kept(<<>>, "rd", d) = <<>>
      /\ Kept(<<>>, "imm19_12", d) = <<"imm19_12">>
      /\ Kept(<<"imm19_12">>, "imm11", d) = <<"imm19_12", "imm11">>
      /\ Kept(<<"imm19_12", "imm11">>, "imm10_1", d) = <<"imm19_12", "imm11", "imm10_1">>
      /\ Kept(<<"imm19_12", "imm11", "imm10_1">>, "imm20", d) = <<"imm19_12", "imm11",
           "imm10_1", "imm20">>
  BY AppendToZero, AppendToOne, AppendToTwo, AppendToThree DEF Kept
<1> HIDE DEF d
<1>2. Without(<<"opcode", "rd", "imm19_12", "imm11", "imm10_1", "imm20">>, d) =
        Kept(Kept(Kept(Kept(Kept(Kept(<<>>, "opcode", d), "rd", d), "imm19_12", d), "imm11", d),
          "imm10_1", d), "imm20", d)
  BY WithoutOfSix
<1> QED BY <1>1, <1>2 DEF d

LEMMA ImmXfrmS ==
  ImmXfrm(S) = [kind |-> "Imm", inputs |-> <<"imm">>, param |-> 0,
                  layout |-> <<"imm4_0", "imm11_5">>]
<1>1. S.layout = <<"opcode", "imm4_0", "funct3", "rs1", "rs2", "imm11_5">>
  BY SIs
<1>2. ToSet(S.layout) = {"opcode", "imm4_0", "funct3", "rs1", "rs2", "imm11_5"}
  BY <1>1 DEF ToSet
<1>3. ToSet(S.layout) \ DOMAIN ImmTop = {"opcode", "funct3", "rs1", "rs2"}
  BY <1>2 DEF ImmTop
<1> QED BY <1>1, <1>3, Keeps30 DEF ImmXfrm

LEMMA ImmXfrmB ==
  ImmXfrm(B) = [kind |-> "Imm", inputs |-> <<"imm">>, param |-> 0,
                  layout |-> <<"imm11", "imm4_1", "imm10_5", "imm12">>]
<1>1. B.layout = <<"opcode", "imm11", "imm4_1", "funct3", "rs1", "rs2", "imm10_5", "imm12">>
  BY BIs
<1>2. ToSet(B.layout) = {"opcode", "imm11", "imm4_1", "funct3", "rs1", "rs2", "imm10_5", "imm12"}
  BY <1>1 DEF ToSet
<1>3. ToSet(B.layout) \ DOMAIN ImmTop = {"opcode", "funct3", "rs1", "rs2"}
  BY <1>2 DEF ImmTop
<1> QED BY <1>1, <1>3, Keeps31 DEF ImmXfrm

LEMMA ImmXfrmJ ==
  ImmXfrm(J) = [kind |-> "Imm", inputs |-> <<"imm">>, param |-> 0,
                  layout |-> <<"imm19_12", "imm11", "imm10_1", "imm20">>]
<1>1. J.layout = <<"opcode", "rd", "imm19_12", "imm11", "imm10_1", "imm20">>
  BY JIs
<1>2. ToSet(J.layout) = {"opcode", "rd", "imm19_12", "imm11", "imm10_1", "imm20"}
  BY <1>1 DEF ToSet
<1>3. ToSet(J.layout) \ DOMAIN ImmTop = {"opcode", "rd"}
  BY <1>2 DEF ImmTop
<1> QED BY <1>1, <1>3, Keeps32 DEF ImmXfrm

\* The fields that each transform makes, and what it asks for instead.
LEMMA XfrmParts ==
  /\ ToSet(ImmXfrm(S).layout) = {"imm4_0", "imm11_5"} /\ ImmXfrm(S).inputs = <<"imm">>
  /\ ToSet(ImmXfrm(B).layout) = {"imm11", "imm4_1", "imm10_5", "imm12"} /\
       ImmXfrm(B).inputs = <<"imm">>
  /\ ToSet(ImmXfrm(J).layout) = {"imm19_12", "imm11", "imm10_1", "imm20"} /\
       ImmXfrm(J).inputs = <<"imm">>
  /\ ToSet(RS1OffXfrm.layout) = {"imm", "rs1"} /\ RS1OffXfrm.inputs = <<"rs1off">>
  /\ ToSet(SystemXfrm.layout) = {"funct3", "imm"} /\ SystemXfrm.inputs = <<"funct">>
  /\ ToSet(CheckXfrm.layout) = {"imm"} /\ CheckXfrm.inputs = <<"imm">>
  /\ \A p : ToSet(ShamtXfrm(p).layout) = {"imm"} /\ ShamtXfrm(p).inputs = <<"shamt">>
  /\ \A p : ToSet(FenceXfrm(p).layout) = {"imm"} /\ FenceXfrm(p).inputs = <<"pred", "succ">>
<1>1. /\ ToSet(<<"funct3", "imm">>) = {"funct3", "imm"}
      /\ ToSet(<<"imm">>) = {"imm"}
      /\ ToSet(<<"imm", "rs1">>) = {"imm", "rs1"}
      /\ ToSet(<<"imm11", "imm4_1", "imm10_5", "imm12">>) =
           {"imm11", "imm4_1", "imm10_5", "imm12"}
      /\ ToSet(<<"imm19_12", "imm11", "imm10_1", "imm20">>) =
           {"imm19_12", "imm11", "imm10_1", "imm20"}
      /\ ToSet(<<"imm4_0", "imm11_5">>) = {"imm4_0", "imm11_5"}
  BY DEF ToSet
<1> QED BY <1>1, ImmXfrmS, ImmXfrmB, ImmXfrmJ DEF ShamtXfrm, RS1OffXfrm, FenceXfrm, SystemXfrm,
      CheckXfrm

\* XForm, for each family X of instructions: its class, the fields it fixes, its
\* transforms and the operands it asks for.
LEMMA OpForm ==
  \A funct3 : 
    Op(funct3, 0) = Insn(R, [funct3 |-> funct3], <<>>, <<"rd", "rs1", "rs2">>)
<1> SUFFICES ASSUME NEW funct3
             PROVE  Op(funct3, 0) = Insn(R, [funct3 |-> funct3], <<>>, <<"rd", "rs1", "rs2">>)
  OBVIOUS
<1>1. DOMAIN R.defaults \cup DOMAIN [funct3 |-> funct3] = {"opcode", "funct7", "funct3"} /\
        R.layout = <<"opcode", "rd", "funct3", "rs1", "rs2", "funct7">>
  BY RIs
<1>2. Child(R, [funct3 |-> funct3]) = Insn(R, [funct3 |-> funct3], <<>>, <<"rd", "rs1", "rs2">>)
  BY <1>1, Keeps1, ChildIs
<1> QED BY <1>2 DEF Op

LEMMA OpNegateForm ==
  \A funct3 : 
    Op(funct3, F7Negate) = Insn(R, [funct3 |-> funct3, funct7 |-> 32], <<>>, <<"rd", "rs1",
      "rs2">>)
<1> SUFFICES ASSUME NEW funct3
             PROVE  Op(funct3, F7Negate) =
               Insn(R, [funct3 |-> funct3, funct7 |-> 32], <<>>, <<"rd", "rs1", "rs2">>)
  OBVIOUS
<1>1. DOMAIN R.defaults \cup DOMAIN [funct3 |-> funct3] = {"opcode", "funct7", "funct3"} /\
        R.layout = <<"opcode", "rd", "funct3", "rs1", "rs2", "funct7">>
  BY RIs
<1>2. Child(R, [funct3 |-> funct3]) = Insn(R, [funct3 |-> funct3], <<>>, <<"rd", "rs1", "rs2">>)
  BY <1>1, Keeps1, ChildIs
<1>3. DOMAIN [funct7 |-> 32] = {"funct7"} /\
        [funct3 |-> funct3] ++ [funct7 |-> 32] = [funct3 |-> funct3, funct7 |-> 32]
  BY DEF ++
<1>4. Call(Child(R, [funct3 |-> funct3]), [funct7 |-> 32]) =
        Insn(R, [funct3 |-> funct3, funct7 |-> 32], <<>>, <<"rd", "rs1", "rs2">>)
  BY <1>2, <1>3, Keeps2, CallIs
<1> QED BY <1>4 DEF Op, F7Negate

LEMMA OpImmForm ==
  \A funct3 : 
    OpImm(funct3) = Insn(I, [funct3 |-> funct3], <<>>, <<"rd", "rs1", "imm">>)
<1> SUFFICES ASSUME NEW funct3
             PROVE  OpImm(funct3) = Insn(I, [funct3 |-> funct3], <<>>, <<"rd", "rs1", "imm">>)
  OBVIOUS
<1>1. DOMAIN I.defaults \cup DOMAIN [funct3 |-> funct3] = {"opcode", "funct3"} /\
        I.layout = <<"opcode", "rd", "funct3", "rs1", "imm">>
  BY IIs
<1>2. Child(I, [funct3 |-> funct3]) = Insn(I, [funct3 |-> funct3], <<>>, <<"rd", "rs1", "imm">>)
  BY <1>1, Keeps3, ChildIs
<1> QED BY <1>2 DEF OpImm

LEMMA ShiftForm ==
  \A funct3, imm11_5 : 
    Shift(funct3, imm11_5) = Insn(I, [funct3 |-> funct3], <<ShamtXfrm(imm11_5)>>, <<"rd", "rs1",
      "shamt">>)
<1> SUFFICES ASSUME NEW funct3, NEW imm11_5
             PROVE  Shift(funct3, imm11_5) =
               Insn(I, [funct3 |-> funct3], <<ShamtXfrm(imm11_5)>>, <<"rd", "rs1", "shamt">>)
  OBVIOUS
<1>1. DOMAIN I.defaults \cup DOMAIN [funct3 |-> funct3] = {"opcode", "funct3"} /\
        I.layout = <<"opcode", "rd", "funct3", "rs1", "imm">>
  BY IIs
<1>2. Child(I, [funct3 |-> funct3]) = Insn(I, [funct3 |-> funct3], <<>>, <<"rd", "rs1", "imm">>)
  BY <1>1, Keeps3, ChildIs
<1>3. ToSet(ShamtXfrm(imm11_5).layout) = {"imm"} /\ ShamtXfrm(imm11_5).inputs = <<"shamt">>
  BY XfrmParts
<1>4. Xfrm(Child(I, [funct3 |-> funct3]), ShamtXfrm(imm11_5)) =
        Insn(I, [funct3 |-> funct3], <<ShamtXfrm(imm11_5)>>, <<"rd", "rs1", "shamt">>)
  <2>1. /\ Join(<<"rd", "rs1">>, <<"shamt">>) = <<"rd", "rs1", "shamt">>
        /\ Join(<<ShamtXfrm(imm11_5)>>, <<>>) = <<ShamtXfrm(imm11_5)>>
    BY TwoThenOne, OneThenNone DEF Join
  <2>2. Xfrm(Insn(I, [funct3 |-> funct3], <<>>, <<"rd", "rs1", "imm">>),
             ShamtXfrm(imm11_5)) =
        Insn(I, [funct3 |-> funct3], Join(<<ShamtXfrm(imm11_5)>>, <<>>),
             Join(Without(<<"rd", "rs1", "imm">>, ToSet(ShamtXfrm(imm11_5).layout)),
               ShamtXfrm(imm11_5).inputs))
    BY XfrmOf
  <2>3. Without(<<"rd", "rs1", "imm">>, ToSet(ShamtXfrm(imm11_5).layout)) = <<"rd", "rs1">>
    BY <1>3, Keeps4
  <2> QED BY <1>2, <1>3, <2>1, <2>2, <2>3
<1> QED BY <1>4 DEF Shift, OpImm

LEMMA LoadForm ==
  \A funct3 : 
    Load(funct3) = Insn(I, [opcode |-> 3, funct3 |-> funct3], <<RS1OffXfrm>>, <<"rd", "rs1off">>)
<1> SUFFICES ASSUME NEW funct3
             PROVE  Load(funct3) = Insn(I, [opcode |-> 3, funct3 |-> funct3], <<RS1OffXfrm>>,
               <<"rd", "rs1off">>)
  OBVIOUS
<1>1. DOMAIN I.defaults \cup DOMAIN [opcode |-> 3] = {"opcode", "opcode"} /\
        I.layout = <<"opcode", "rd", "funct3", "rs1", "imm">>
  BY IIs
<1>2. Child(I, [opcode |-> 3]) = Insn(I, [opcode |-> 3], <<>>, <<"rd", "funct3", "rs1", "imm">>)
  BY <1>1, Keeps5, ChildIs
<1>3. ToSet(RS1OffXfrm.layout) = {"imm", "rs1"} /\ RS1OffXfrm.inputs = <<"rs1off">>
  BY XfrmParts
<1>4. Xfrm(Child(I, [opcode |-> 3]), RS1OffXfrm) =
        Insn(I, [opcode |-> 3], <<RS1OffXfrm>>, <<"rd", "funct3", "rs1off">>)
  <2>1. /\ Join(<<"rd", "funct3">>, <<"rs1off">>) = <<"rd", "funct3", "rs1off">>
        /\ Join(<<RS1OffXfrm>>, <<>>) = <<RS1OffXfrm>>
    BY TwoThenOne, OneThenNone DEF Join
  <2>2. Xfrm(Insn(I, [opcode |-> 3], <<>>, <<"rd", "funct3", "rs1", "imm">>),
             RS1OffXfrm) =
        Insn(I, [opcode |-> 3], Join(<<RS1OffXfrm>>, <<>>),
             Join(Without(<<"rd", "funct3", "rs1", "imm">>, ToSet(RS1OffXfrm.layout)),
               RS1OffXfrm.inputs))
    BY XfrmOf
  <2>3. Without(<<"rd", "funct3", "rs1", "imm">>, ToSet(RS1OffXfrm.layout)) = <<"rd", "funct3">>
    BY <1>3, Keeps6
  <2> QED BY <1>2, <1>3, <2>1, <2>2, <2>3
<1>5. DOMAIN [funct3 |-> funct3] = {"funct3"} /\
        [opcode |-> 3] ++ [funct3 |-> funct3] = [opcode |-> 3, funct3 |-> funct3]
  BY DEF ++
<1>6. Call(Xfrm(Child(I, [opcode |-> 3]), RS1OffXfrm), [funct3 |-> funct3]) =
        Insn(I, [opcode |-> 3, funct3 |-> funct3], <<RS1OffXfrm>>, <<"rd", "rs1off">>)
  BY <1>4, <1>5, Keeps7, CallIs
<1> QED BY <1>6 DEF Load, Opcode

LEMMA FenceForm ==
  \A fm : 
    Fence(fm) = Insn(I, [opcode |-> 15, funct3 |-> 0, rd |-> 0, rs1 |-> 0], <<FenceXfrm(fm)>>,
      <<"pred", "succ">>)
<1> SUFFICES ASSUME NEW fm
             PROVE  Fence(fm) = Insn(I, [opcode |-> 15, funct3 |-> 0, rd |-> 0, rs1 |-> 0],
               <<FenceXfrm(fm)>>, <<"pred", "succ">>)
  OBVIOUS
<1>1. DOMAIN I.defaults \cup DOMAIN [opcode |-> 15, funct3 |-> 0, rd |-> 0, rs1 |-> 0] =
        {"opcode", "opcode", "funct3", "rd", "rs1"} /\
        I.layout = <<"opcode", "rd", "funct3", "rs1", "imm">>
  BY IIs
<1>2. Child(I, [opcode |-> 15, funct3 |-> 0, rd |-> 0, rs1 |-> 0]) =
        Insn(I, [opcode |-> 15, funct3 |-> 0, rd |-> 0, rs1 |-> 0], <<>>, <<"imm">>)
  BY <1>1, Keeps8, ChildIs
<1>3. ToSet(FenceXfrm(fm).layout) = {"imm"} /\ FenceXfrm(fm).inputs = <<"pred", "succ">>
  BY XfrmParts
<1>4. Xfrm(Child(I, [opcode |-> 15, funct3 |-> 0, rd |-> 0, rs1 |-> 0]), FenceXfrm(fm)) =
        Insn(I, [opcode |-> 15, funct3 |-> 0, rd |-> 0, rs1 |-> 0], <<FenceXfrm(fm)>>, <<"pred",
        "succ">>)
  <2>1. /\ Join(<<>>, <<"pred", "succ">>) = <<"pred", "succ">>
        /\ Join(<<FenceXfrm(fm)>>, <<>>) = <<FenceXfrm(fm)>>
    BY NoneThenTwo, OneThenNone DEF Join
  <2>2. Xfrm(Insn(I, [opcode |-> 15, funct3 |-> 0, rd |-> 0, rs1 |-> 0], <<>>, <<"imm">>),
             FenceXfrm(fm)) =
        Insn(I, [opcode |-> 15, funct3 |-> 0, rd |-> 0, rs1 |-> 0], Join(<<FenceXfrm(fm)>>, <<>>),
             Join(Without(<<"imm">>, ToSet(FenceXfrm(fm).layout)), FenceXfrm(fm).inputs))
    BY XfrmOf
  <2>3. Without(<<"imm">>, ToSet(FenceXfrm(fm).layout)) = <<>>
    BY <1>3, Keeps9
  <2> QED BY <1>2, <1>3, <2>1, <2>2, <2>3
<1> QED BY <1>4 DEF Fence, Opcode

LEMMA SystemForm ==
  \A funct : 
    System(funct) = Insn(I, [opcode |-> 115, rd |-> 0, rs1 |-> 0, funct |-> funct],
      <<SystemXfrm>>, <<>>)
<1> SUFFICES ASSUME NEW funct
             PROVE  System(funct) = Insn(I,
               [opcode |-> 115, rd |-> 0, rs1 |-> 0, funct |-> funct], <<SystemXfrm>>, <<>>)
  OBVIOUS
<1>1. DOMAIN I.defaults \cup DOMAIN [opcode |-> 115, rd |-> 0, rs1 |-> 0] =
        {"opcode", "opcode", "rd", "rs1"} /\
        I.layout = <<"opcode", "rd", "funct3", "rs1", "imm">>
  BY IIs
<1>2. Child(I, [opcode |-> 115, rd |-> 0, rs1 |-> 0]) =
        Insn(I, [opcode |-> 115, rd |-> 0, rs1 |-> 0], <<>>, <<"funct3", "imm">>)
  BY <1>1, Keeps10, ChildIs
<1>3. ToSet(SystemXfrm.layout) = {"funct3", "imm"} /\ SystemXfrm.inputs = <<"funct">>
  BY XfrmParts
<1>4. Xfrm(Child(I, [opcode |-> 115, rd |-> 0, rs1 |-> 0]), SystemXfrm) =
        Insn(I, [opcode |-> 115, rd |-> 0, rs1 |-> 0], <<SystemXfrm>>, <<"funct">>)
  <2>1. /\ Join(<<>>, <<"funct">>) = <<"funct">>
        /\ Join(<<SystemXfrm>>, <<>>) = <<SystemXfrm>>
    BY NoneThenOne, OneThenNone DEF Join
  <2>2. Xfrm(Insn(I, [opcode |-> 115, rd |-> 0, rs1 |-> 0], <<>>, <<"funct3", "imm">>),
             SystemXfrm) =
        Insn(I, [opcode |-> 115, rd |-> 0, rs1 |-> 0], Join(<<SystemXfrm>>, <<>>),
             Join(Without(<<"funct3", "imm">>, ToSet(SystemXfrm.layout)), SystemXfrm.inputs))
    BY XfrmOf
  <2>3. Without(<<"funct3", "imm">>, ToSet(SystemXfrm.layout)) = <<>>
    BY <1>3, Keeps11
  <2> QED BY <1>2, <1>3, <2>1, <2>2, <2>3
<1>5. DOMAIN [funct |-> funct] = {"funct"} /\
        [opcode |-> 115, rd |-> 0, rs1 |-> 0] ++ [funct |-> funct] =
        [opcode |-> 115, rd |-> 0, rs1 |-> 0, funct |-> funct]
  BY DEF ++
<1>6. Call(Xfrm(Child(I, [opcode |-> 115, rd |-> 0, rs1 |-> 0]), SystemXfrm),
        [funct |-> funct]) = Insn(I, [opcode |-> 115, rd |-> 0, rs1 |-> 0, funct |-> funct],
        <<SystemXfrm>>, <<>>)
  BY <1>4, <1>5, Keeps12, CallIs
<1> QED BY <1>6 DEF System, Opcode

LEMMA StoreForm ==
  \A funct3 : 
    Store(funct3) = Insn(S, [funct3 |-> funct3], <<RS1OffXfrm, ImmXfrm(S)>>, <<"rs2", "rs1off">>)
<1> SUFFICES ASSUME NEW funct3
             PROVE  Store(funct3) = Insn(S, [funct3 |-> funct3], <<RS1OffXfrm, ImmXfrm(S)>>,
               <<"rs2", "rs1off">>)
  OBVIOUS
<1>1. DOMAIN S.defaults \cup DOMAIN <<>> = {"opcode"} /\
        S.layout = <<"opcode", "imm4_0", "funct3", "rs1", "rs2", "imm11_5">>
  BY SIs
<1>2. Child(S, <<>>) = Insn(S, <<>>, <<>>, <<"imm4_0", "funct3", "rs1", "rs2", "imm11_5">>)
  BY <1>1, Keeps13, ChildIs
<1>3. ToSet(ImmXfrm(S).layout) = {"imm4_0", "imm11_5"} /\ ImmXfrm(S).inputs = <<"imm">>
  BY XfrmParts
<1>4. Xfrm(Child(S, <<>>), ImmXfrm(S)) = Insn(S, <<>>, <<ImmXfrm(S)>>, <<"funct3", "rs1", "rs2",
        "imm">>)
  <2>1. /\ Join(<<"funct3", "rs1", "rs2">>, <<"imm">>) = <<"funct3", "rs1", "rs2", "imm">>
        /\ Join(<<ImmXfrm(S)>>, <<>>) = <<ImmXfrm(S)>>
    BY ThreeThenOne, OneThenNone DEF Join
  <2>2. Xfrm(Insn(S, <<>>, <<>>, <<"imm4_0", "funct3", "rs1", "rs2", "imm11_5">>),
             ImmXfrm(S)) =
        Insn(S, <<>>, Join(<<ImmXfrm(S)>>, <<>>),
             Join(Without(<<"imm4_0", "funct3", "rs1", "rs2", "imm11_5">>,
               ToSet(ImmXfrm(S).layout)), ImmXfrm(S).inputs))
    BY XfrmOf
  <2>3. Without(<<"imm4_0", "funct3", "rs1", "rs2", "imm11_5">>, ToSet(ImmXfrm(S).layout)) =
          <<"funct3", "rs1", "rs2">>
    BY <1>3, Keeps14
  <2> QED BY <1>2, <1>3, <2>1, <2>2, <2>3
<1>5. ToSet(RS1OffXfrm.layout) = {"imm", "rs1"} /\ RS1OffXfrm.inputs = <<"rs1off">>
  BY XfrmParts
<1>6. Xfrm(Xfrm(Child(S, <<>>), ImmXfrm(S)), RS1OffXfrm) =
        Insn(S, <<>>, <<RS1OffXfrm, ImmXfrm(S)>>, <<"funct3", "rs2", "rs1off">>)
  <2>1. /\ Join(<<"funct3", "rs2">>, <<"rs1off">>) = <<"funct3", "rs2", "rs1off">>
        /\ Join(<<RS1OffXfrm>>, <<ImmXfrm(S)>>) = <<RS1OffXfrm, ImmXfrm(S)>>
    BY TwoThenOne, OneThenOne DEF Join
  <2>2. Xfrm(Insn(S, <<>>, <<ImmXfrm(S)>>, <<"funct3", "rs1", "rs2", "imm">>),
             RS1OffXfrm) =
        Insn(S, <<>>, Join(<<RS1OffXfrm>>, <<ImmXfrm(S)>>),
             Join(Without(<<"funct3", "rs1", "rs2", "imm">>, ToSet(RS1OffXfrm.layout)),
               RS1OffXfrm.inputs))
    BY XfrmOf
  <2>3. Without(<<"funct3", "rs1", "rs2", "imm">>, ToSet(RS1OffXfrm.layout)) = <<"funct3", "rs2">>
    BY <1>5, Keeps15
  <2> QED BY <1>4, <1>5, <2>1, <2>2, <2>3
<1>7. DOMAIN [funct3 |-> funct3] = {"funct3"} /\ <<>> ++ [funct3 |-> funct3] = [funct3 |-> funct3]
  BY DEF ++
<1>8. Call(Xfrm(Xfrm(Child(S, <<>>), ImmXfrm(S)), RS1OffXfrm), [funct3 |-> funct3]) =
        Insn(S, [funct3 |-> funct3], <<RS1OffXfrm, ImmXfrm(S)>>, <<"rs2", "rs1off">>)
  BY <1>6, <1>7, Keeps16, CallIs
<1> QED BY <1>8 DEF Store

LEMMA BranchForm ==
  \A funct3 : 
    Branch(funct3) = Insn(B, [funct3 |-> funct3], <<ImmXfrm(B)>>, <<"rs1", "rs2", "imm">>)
<1> SUFFICES ASSUME NEW funct3
             PROVE  Branch(funct3) = Insn(B, [funct3 |-> funct3], <<ImmXfrm(B)>>, <<"rs1",
               "rs2", "imm">>)
  OBVIOUS
<1>1. DOMAIN B.defaults \cup DOMAIN <<>> = {"opcode"} /\
        B.layout = <<"opcode", "imm11", "imm4_1", "funct3", "rs1", "rs2", "imm10_5", "imm12">>
  BY BIs
<1>2. Child(B, <<>>) = Insn(B, <<>>, <<>>, <<"imm11", "imm4_1", "funct3", "rs1", "rs2",
        "imm10_5", "imm12">>)
  BY <1>1, Keeps17, ChildIs
<1>3. ToSet(ImmXfrm(B).layout) = {"imm11", "imm4_1", "imm10_5", "imm12"} /\
        ImmXfrm(B).inputs = <<"imm">>
  BY XfrmParts
<1>4. Xfrm(Child(B, <<>>), ImmXfrm(B)) = Insn(B, <<>>, <<ImmXfrm(B)>>, <<"funct3", "rs1", "rs2",
        "imm">>)
  <2>1. /\ Join(<<"funct3", "rs1", "rs2">>, <<"imm">>) = <<"funct3", "rs1", "rs2", "imm">>
        /\ Join(<<ImmXfrm(B)>>, <<>>) = <<ImmXfrm(B)>>
    BY ThreeThenOne, OneThenNone DEF Join
  <2>2. Xfrm(Insn(B, <<>>, <<>>, <<"imm11", "imm4_1", "funct3", "rs1", "rs2", "imm10_5",
          "imm12">>),
             ImmXfrm(B)) =
        Insn(B, <<>>, Join(<<ImmXfrm(B)>>, <<>>),
             Join(Without(<<"imm11", "imm4_1", "funct3", "rs1", "rs2", "imm10_5", "imm12">>,
               ToSet(ImmXfrm(B).layout)), ImmXfrm(B).inputs))
    BY XfrmOf
  <2>3. Without(<<"imm11", "imm4_1", "funct3", "rs1", "rs2", "imm10_5", "imm12">>,
          ToSet(ImmXfrm(B).layout)) = <<"funct3", "rs1", "rs2">>
    BY <1>3, Keeps18
  <2> QED BY <1>2, <1>3, <2>1, <2>2, <2>3
<1>5. DOMAIN [funct3 |-> funct3] = {"funct3"} /\ <<>> ++ [funct3 |-> funct3] = [funct3 |-> funct3]
  BY DEF ++
<1>6. Call(Xfrm(Child(B, <<>>), ImmXfrm(B)), [funct3 |-> funct3]) =
        Insn(B, [funct3 |-> funct3], <<ImmXfrm(B)>>, <<"rs1", "rs2", "imm">>)
  BY <1>4, <1>5, Keeps19, CallIs
<1> QED BY <1>6 DEF Branch

LEMMA UpperForm ==
  \A opcode : 
    Upper(opcode) = Insn(U, [opcode |-> opcode], <<CheckXfrm>>, <<"rd", "imm">>)
<1> SUFFICES ASSUME NEW opcode
             PROVE  Upper(opcode) = Insn(U, [opcode |-> opcode], <<CheckXfrm>>, <<"rd", "imm">>)
  OBVIOUS
<1>1. DOMAIN U.defaults \cup DOMAIN <<>> = {} /\ U.layout = <<"opcode", "rd", "imm">>
  BY UIs
<1>2. Child(U, <<>>) = Insn(U, <<>>, <<>>, <<"opcode", "rd", "imm">>)
  BY <1>1, Keeps20, ChildIs
<1>3. ToSet(CheckXfrm.layout) = {"imm"} /\ CheckXfrm.inputs = <<"imm">>
  BY XfrmParts
<1>4. Xfrm(Child(U, <<>>), CheckXfrm) = Insn(U, <<>>, <<CheckXfrm>>, <<"opcode", "rd", "imm">>)
  <2>1. /\ Join(<<"opcode", "rd">>, <<"imm">>) = <<"opcode", "rd", "imm">>
        /\ Join(<<CheckXfrm>>, <<>>) = <<CheckXfrm>>
    BY TwoThenOne, OneThenNone DEF Join
  <2>2. Xfrm(Insn(U, <<>>, <<>>, <<"opcode", "rd", "imm">>),
             CheckXfrm) =
        Insn(U, <<>>, Join(<<CheckXfrm>>, <<>>),
             Join(Without(<<"opcode", "rd", "imm">>, ToSet(CheckXfrm.layout)), CheckXfrm.inputs))
    BY XfrmOf
  <2>3. Without(<<"opcode", "rd", "imm">>, ToSet(CheckXfrm.layout)) = <<"opcode", "rd">>
    BY <1>3, Keeps21
  <2> QED BY <1>2, <1>3, <2>1, <2>2, <2>3
<1>5. DOMAIN [opcode |-> opcode] = {"opcode"} /\ <<>> ++ [opcode |-> opcode] = [opcode |-> opcode]
  BY DEF ++
<1>6. Call(Xfrm(Child(U, <<>>), CheckXfrm), [opcode |-> opcode]) =
        Insn(U, [opcode |-> opcode], <<CheckXfrm>>, <<"rd", "imm">>)
  BY <1>4, <1>5, Keeps22, CallIs
<1> QED BY <1>6 DEF Upper

LEMMA JalrForm ==
  Jalr = Insn(I, [opcode |-> 103, funct3 |-> 0], <<>>, <<"rd", "rs1", "imm">>)
<1>1. DOMAIN I.defaults \cup DOMAIN [opcode |-> 103, funct3 |-> 0] =
        {"opcode", "opcode", "funct3"} /\ I.layout = <<"opcode", "rd", "funct3", "rs1", "imm">>
  BY IIs
<1>2. Child(I, [opcode |-> 103, funct3 |-> 0]) =
        Insn(I, [opcode |-> 103, funct3 |-> 0], <<>>, <<"rd", "rs1", "imm">>)
  BY <1>1, Keeps23, ChildIs
<1> QED BY <1>2 DEF Jalr, Opcode

LEMMA JalForm ==
  Jal = Insn(J, <<>>, <<ImmXfrm(J)>>, <<"rd", "imm">>)
<1>1. DOMAIN J.defaults \cup DOMAIN <<>> = {"opcode"} /\
        J.layout = <<"opcode", "rd", "imm19_12", "imm11", "imm10_1", "imm20">>
  BY JIs
<1>2. Child(J, <<>>) = Insn(J, <<>>, <<>>, <<"rd", "imm19_12", "imm11", "imm10_1", "imm20">>)
  BY <1>1, Keeps24, ChildIs
<1>3. ToSet(ImmXfrm(J).layout) = {"imm19_12", "imm11", "imm10_1", "imm20"} /\
        ImmXfrm(J).inputs = <<"imm">>
  BY XfrmParts
<1>4. Xfrm(Child(J, <<>>), ImmXfrm(J)) = Insn(J, <<>>, <<ImmXfrm(J)>>, <<"rd", "imm">>)
  <2>1. /\ Join(<<"rd">>, <<"imm">>) = <<"rd", "imm">>
        /\ Join(<<ImmXfrm(J)>>, <<>>) = <<ImmXfrm(J)>>
    BY OneThenOne, OneThenNone DEF Join
  <2>2. Xfrm(Insn(J, <<>>, <<>>, <<"rd", "imm19_12", "imm11", "imm10_1", "imm20">>),
             ImmXfrm(J)) =
        Insn(J, <<>>, Join(<<ImmXfrm(J)>>, <<>>),
             Join(Without(<<"rd", "imm19_12", "imm11", "imm10_1", "imm20">>,
               ToSet(ImmXfrm(J).layout)), ImmXfrm(J).inputs))
    BY XfrmOf
  <2>3. Without(<<"rd", "imm19_12", "imm11", "imm10_1", "imm20">>, ToSet(ImmXfrm(J).layout)) =
          <<"rd">>
    BY <1>3, Keeps25
  <2> QED BY <1>2, <1>3, <2>1, <2>2, <2>3
<1> QED BY <1>4 DEF Jal

LEMMA FenceTSOForm ==
  Insns.FENCE_TSO = Insn(I, [opcode |-> 15, funct3 |-> 0, rd |-> 0, rs1 |-> 0,
    pred |-> {"r", "w"}, succ |-> {"r", "w"}], <<FenceXfrm(8)>>, <<>>)
<1>1. DOMAIN I.defaults \cup DOMAIN [opcode |-> 15, funct3 |-> 0, rd |-> 0, rs1 |-> 0] =
        {"opcode", "opcode", "funct3", "rd", "rs1"} /\
        I.layout = <<"opcode", "rd", "funct3", "rs1", "imm">>
  BY IIs
<1>2. Child(I, [opcode |-> 15, funct3 |-> 0, rd |-> 0, rs1 |-> 0]) =
        Insn(I, [opcode |-> 15, funct3 |-> 0, rd |-> 0, rs1 |-> 0], <<>>, <<"imm">>)
  BY <1>1, Keeps8, ChildIs
<1>3. ToSet(FenceXfrm(8).layout) = {"imm"} /\ FenceXfrm(8).inputs = <<"pred", "succ">>
  BY XfrmParts
<1>4. Xfrm(Child(I, [opcode |-> 15, funct3 |-> 0, rd |-> 0, rs1 |-> 0]), FenceXfrm(8)) =
        Insn(I, [opcode |-> 15, funct3 |-> 0, rd |-> 0, rs1 |-> 0], <<FenceXfrm(8)>>, <<"pred",
        "succ">>)
  <2>1. /\ Join(<<>>, <<"pred", "succ">>) = <<"pred", "succ">>
        /\ Join(<<FenceXfrm(8)>>, <<>>) = <<FenceXfrm(8)>>
    BY NoneThenTwo, OneThenNone DEF Join
  <2>2. Xfrm(Insn(I, [opcode |-> 15, funct3 |-> 0, rd |-> 0, rs1 |-> 0], <<>>, <<"imm">>),
             FenceXfrm(8)) =
        Insn(I, [opcode |-> 15, funct3 |-> 0, rd |-> 0, rs1 |-> 0], Join(<<FenceXfrm(8)>>, <<>>),
             Join(Without(<<"imm">>, ToSet(FenceXfrm(8).layout)), FenceXfrm(8).inputs))
    BY XfrmOf
  <2>3. Without(<<"imm">>, ToSet(FenceXfrm(8).layout)) = <<>>
    BY <1>3, Keeps9
  <2> QED BY <1>2, <1>3, <2>1, <2>2, <2>3
<1>5. DOMAIN [pred |-> {"r", "w"}, succ |-> {"r", "w"}] = {"pred", "succ"} /\
        [opcode |-> 15, funct3 |-> 0, rd |-> 0, rs1 |-> 0] ++ [pred |-> {"r", "w"},
        succ |-> {"r", "w"}] = [opcode |-> 15, funct3 |-> 0, rd |-> 0, rs1 |-> 0,
        pred |-> {"r", "w"}, succ |-> {"r", "w"}]
  BY DEF ++
<1>6. Call(Xfrm(Child(I, [opcode |-> 15, funct3 |-> 0, rd |-> 0, rs1 |-> 0]), FenceXfrm(8)),
        [pred |-> {"r", "w"}, succ |-> {"r", "w"}]) =
        Insn(I, [opcode |-> 15, funct3 |-> 0, rd |-> 0, rs1 |-> 0, pred |-> {"r", "w"},
        succ |-> {"r", "w"}], <<FenceXfrm(8)>>, <<>>)
  BY <1>4, <1>5, Keeps26, CallIs
<1> QED BY <1>6 DEF Insns, Fence, Opcode

LEMMA SnezForm ==
  Insns.SNEZ = Insn(R, [funct3 |-> 3, rs1 |-> Reg("zero")], <<>>, <<"rd", "rs2">>)
<1>1. DOMAIN R.defaults \cup DOMAIN [funct3 |-> 3] = {"opcode", "funct7", "funct3"} /\
        R.layout = <<"opcode", "rd", "funct3", "rs1", "rs2", "funct7">>
  BY RIs
<1>2. Child(R, [funct3 |-> 3]) = Insn(R, [funct3 |-> 3], <<>>, <<"rd", "rs1", "rs2">>)
  BY <1>1, Keeps1, ChildIs
<1>3. DOMAIN [rs1 |-> Reg("zero")] = {"rs1"} /\
        [funct3 |-> 3] ++ [rs1 |-> Reg("zero")] = [funct3 |-> 3, rs1 |-> Reg("zero")]
  BY DEF ++
<1>4. Call(Child(R, [funct3 |-> 3]), [rs1 |-> Reg("zero")]) =
        Insn(R, [funct3 |-> 3, rs1 |-> Reg("zero")], <<>>, <<"rd", "rs2">>)
  BY <1>2, <1>3, Keeps27, CallIs
<1> QED BY <1>4 DEF Insns, Op

LEMMA RetForm ==
  Insns.RET = Insn(I, [opcode |-> 103, funct3 |-> 0, rd |-> Reg("zero"), rs1 |-> Reg("ra"),
    imm |-> 0], <<>>, <<>>)
<1>1. DOMAIN I.defaults \cup DOMAIN [opcode |-> 103, funct3 |-> 0] =
        {"opcode", "opcode", "funct3"} /\ I.layout = <<"opcode", "rd", "funct3", "rs1", "imm">>
  BY IIs
<1>2. Child(I, [opcode |-> 103, funct3 |-> 0]) =
        Insn(I, [opcode |-> 103, funct3 |-> 0], <<>>, <<"rd", "rs1", "imm">>)
  BY <1>1, Keeps23, ChildIs
<1>3. DOMAIN [rd |-> Reg("zero"), rs1 |-> Reg("ra"), imm |-> 0] = {"rd", "rs1", "imm"} /\
        [opcode |-> 103, funct3 |-> 0] ++ [rd |-> Reg("zero"), rs1 |-> Reg("ra"), imm |-> 0] =
        [opcode |-> 103, funct3 |-> 0, rd |-> Reg("zero"), rs1 |-> Reg("ra"), imm |-> 0]
  BY DEF ++
<1>4. Call(Child(I, [opcode |-> 103, funct3 |-> 0]),
        [rd |-> Reg("zero"), rs1 |-> Reg("ra"), imm |-> 0]) =
        Insn(I, [opcode |-> 103, funct3 |-> 0, rd |-> Reg("zero"), rs1 |-> Reg("ra"),
        imm |-> 0], <<>>, <<>>)
  BY <1>2, <1>3, Keeps28, CallIs
<1> QED BY <1>4 DEF Insns, Jalr, Opcode

LEMMA MvForm ==
  Insns.MV = Insn(I, [funct3 |-> 0, imm |-> 0], <<>>, <<"rd", "rs1">>)
<1>1. DOMAIN I.defaults \cup DOMAIN [funct3 |-> 0] = {"opcode", "funct3"} /\
        I.layout = <<"opcode", "rd", "funct3", "rs1", "imm">>
  BY IIs
<1>2. Child(I, [funct3 |-> 0]) = Insn(I, [funct3 |-> 0], <<>>, <<"rd", "rs1", "imm">>)
  BY <1>1, Keeps3, ChildIs
<1>3. DOMAIN [imm |-> 0] = {"imm"} /\ [funct3 |-> 0] ++ [imm |-> 0] = [funct3 |-> 0, imm |-> 0]
  BY DEF ++
<1>4. Call(Child(I, [funct3 |-> 0]), [imm |-> 0]) =
        Insn(I, [funct3 |-> 0, imm |-> 0], <<>>, <<"rd", "rs1">>)
  BY <1>2, <1>3, Keeps4, CallIs
<1> QED BY <1>4 DEF Insns, OpImm

LEMMA SeqzForm ==
  Insns.SEQZ = Insn(I, [funct3 |-> 3, imm |-> 1], <<>>, <<"rd", "rs1">>)
<1>1. DOMAIN I.defaults \cup DOMAIN [funct3 |-> 3] = {"opcode", "funct3"} /\
        I.layout = <<"opcode", "rd", "funct3", "rs1", "imm">>
  BY IIs
<1>2. Child(I, [funct3 |-> 3]) = Insn(I, [funct3 |-> 3], <<>>, <<"rd", "rs1", "imm">>)
  BY <1>1, Keeps3, ChildIs
<1>3. DOMAIN [imm |-> 1] = {"imm"} /\ [funct3 |-> 3] ++ [imm |-> 1] = [funct3 |-> 3, imm |-> 1]
  BY DEF ++
<1>4. Call(Child(I, [funct3 |-> 3]), [imm |-> 1]) =
        Insn(I, [funct3 |-> 3, imm |-> 1], <<>>, <<"rd", "rs1">>)
  BY <1>2, <1>3, Keeps4, CallIs
<1> QED BY <1>4 DEF Insns, OpImm

LEMMA NotForm ==
  Insns.NOT = Insn(I, [funct3 |-> 4, imm |-> -1], <<>>, <<"rd", "rs1">>)
<1>1. DOMAIN I.defaults \cup DOMAIN [funct3 |-> 4] = {"opcode", "funct3"} /\
        I.layout = <<"opcode", "rd", "funct3", "rs1", "imm">>
  BY IIs
<1>2. Child(I, [funct3 |-> 4]) = Insn(I, [funct3 |-> 4], <<>>, <<"rd", "rs1", "imm">>)
  BY <1>1, Keeps3, ChildIs
<1>3. DOMAIN [imm |-> -1] = {"imm"} /\ [funct3 |-> 4] ++ [imm |-> -1] = [funct3 |-> 4, imm |-> -1]
  BY DEF ++
<1>4. Call(Child(I, [funct3 |-> 4]), [imm |-> -1]) =
        Insn(I, [funct3 |-> 4, imm |-> -1], <<>>, <<"rd", "rs1">>)
  BY <1>2, <1>3, Keeps4, CallIs
<1> QED BY <1>4 DEF Insns, OpImm

LEMMA NopForm ==
  Insns.NOP = Insn(I, [funct3 |-> 0, rd |-> Reg("zero"), rs1 |-> Reg("zero"), imm |-> 0], <<>>,
    <<>>)
<1>1. DOMAIN I.defaults \cup DOMAIN [funct3 |-> 0] = {"opcode", "funct3"} /\
        I.layout = <<"opcode", "rd", "funct3", "rs1", "imm">>
  BY IIs
<1>2. Child(I, [funct3 |-> 0]) = Insn(I, [funct3 |-> 0], <<>>, <<"rd", "rs1", "imm">>)
  BY <1>1, Keeps3, ChildIs
<1>3. DOMAIN [rd |-> Reg("zero"), rs1 |-> Reg("zero"), imm |-> 0] = {"rd", "rs1", "imm"} /\
        [funct3 |-> 0] ++ [rd |-> Reg("zero"), rs1 |-> Reg("zero"), imm |-> 0] =
        [funct3 |-> 0, rd |-> Reg("zero"), rs1 |-> Reg("zero"), imm |-> 0]
  BY DEF ++
<1>4. Call(Child(I, [funct3 |-> 0]), [rd |-> Reg("zero"), rs1 |-> Reg("zero"), imm |-> 0]) =
        Insn(I, [funct3 |-> 0, rd |-> Reg("zero"), rs1 |-> Reg("zero"), imm |-> 0], <<>>, <<>>)
  BY <1>2, <1>3, Keeps28, CallIs
<1> QED BY <1>4 DEF Insns, OpImm

LEMMA JForm ==
  Insns.J_ = Insn(J, [rd |-> Reg("zero")], <<ImmXfrm(J)>>, <<"imm">>)
<1>1. DOMAIN J.defaults \cup DOMAIN <<>> = {"opcode"} /\
        J.layout = <<"opcode", "rd", "imm19_12", "imm11", "imm10_1", "imm20">>
  BY JIs
<1>2. Child(J, <<>>) = Insn(J, <<>>, <<>>, <<"rd", "imm19_12", "imm11", "imm10_1", "imm20">>)
  BY <1>1, Keeps24, ChildIs
<1>3. ToSet(ImmXfrm(J).layout) = {"imm19_12", "imm11", "imm10_1", "imm20"} /\
        ImmXfrm(J).inputs = <<"imm">>
  BY XfrmParts
<1>4. Xfrm(Child(J, <<>>), ImmXfrm(J)) = Insn(J, <<>>, <<ImmXfrm(J)>>, <<"rd", "imm">>)
  <2>1. /\ Join(<<"rd">>, <<"imm">>) = <<"rd", "imm">>
        /\ Join(<<ImmXfrm(J)>>, <<>>) = <<ImmXfrm(J)>>
    BY OneThenOne, OneThenNone DEF Join
  <2>2. Xfrm(Insn(J, <<>>, <<>>, <<"rd", "imm19_12", "imm11", "imm10_1", "imm20">>),
             ImmXfrm(J)) =
        Insn(J, <<>>, Join(<<ImmXfrm(J)>>, <<>>),
             Join(Without(<<"rd", "imm19_12", "imm11", "imm10_1", "imm20">>,
               ToSet(ImmXfrm(J).layout)), ImmXfrm(J).inputs))
    BY XfrmOf
  <2>3. Without(<<"rd", "imm19_12", "imm11", "imm10_1", "imm20">>, ToSet(ImmXfrm(J).layout)) =
          <<"rd">>
    BY <1>3, Keeps25
  <2> QED BY <1>2, <1>3, <2>1, <2>2, <2>3
<1>5. DOMAIN [rd |-> Reg("zero")] = {"rd"} /\ <<>> ++ [rd |-> Reg("zero")] = [rd |-> Reg("zero")]
  BY DEF ++
<1>6. Call(Xfrm(Child(J, <<>>), ImmXfrm(J)), [rd |-> Reg("zero")]) =
        Insn(J, [rd |-> Reg("zero")], <<ImmXfrm(J)>>, <<"imm">>)
  BY <1>4, <1>5, Keeps29, CallIs
<1> QED BY <1>6 DEF Insns, Jal
-----------------------------------------------------------------------------
(* Arguments through transforms. *)

\* The transforms of an instruction, of which there are at most two, one after the other.
LEMMA AppliedOf ==
  /\ \A kwargs : Applied(<<>>, kwargs) = kwargs
  /\ \A x, kwargs : Applied(<<x>>, kwargs) = Forward(x, kwargs)
  /\ \A x, y, kwargs : Applied(<<x, y>>, kwargs) = Forward(y, Forward(x, kwargs))
<1>1. ASSUME NEW xfrms, NEW n \in 0 .. 2, Len(xfrms) = n, NEW kwargs, NEW f,
             f = [k \in 0 .. n |-> f[k]], f[0] = kwargs,
             n >= 1 => f[1] = Forward(xfrms[1], f[0]), n = 2 => f[2] = Forward(xfrms[2], f[1])
      PROVE  Applied(xfrms, kwargs) = f[n]
  <2> DEFINE after[k \in 0 .. Len(xfrms)] ==
          IF k = 0 THEN kwargs ELSE Forward(xfrms[k], after[k - 1])
  <2>1. \A k \in 0 .. n : f[k] = IF k = 0 THEN kwargs ELSE Forward(xfrms[k], f[k - 1])
    <3> SUFFICES ASSUME NEW k \in 0 .. n
                 PROVE  f[k] = IF k = 0 THEN kwargs ELSE Forward(xfrms[k], f[k - 1])
      OBVIOUS
    <3>1. CASE k = 0
      BY <1>1, <3>1
    <3>2. CASE k = 1
      <4>1. k - 1 = 0 /\ n >= 1
        BY <3>2
      <4> QED BY <1>1, <3>2, <4>1
    <3>3. CASE k = 2
      <4>1. k - 1 = 1 /\ n = 2
        BY <3>3
      <4> QED BY <1>1, <3>3, <4>1
    <3> QED BY <3>1, <3>2, <3>3
  <2>2. f = [k \in 0 .. Len(xfrms) |->
               IF k = 0 THEN kwargs ELSE Forward(xfrms[k], f[k - 1])]
    BY <1>1, <2>1
  <2>3. \E g : g = [k \in 0 .. Len(xfrms) |->
               IF k = 0 THEN kwargs ELSE Forward(xfrms[k], g[k - 1])]
    BY <2>2
  <2>4. after = [k \in 0 .. Len(xfrms) |->
               IF k = 0 THEN kwargs ELSE Forward(xfrms[k], after[k - 1])]
    BY <2>3
  <2>5. Applied(xfrms, kwargs) = after[n]
    BY <1>1 DEF Applied
  <2> HIDE DEF after
  <2>6. after[0] = f[0]
    BY <1>1, <2>4
  <2>7. CASE n = 0
    BY <2>5, <2>6, <2>7
  <2>8. n >= 1 => after[1] = f[1]
    <3> SUFFICES ASSUME n >= 1 PROVE after[1] = f[1]
      OBVIOUS
    <3>1. PICK i \in 0 .. n : i = 1 /\ i # 0 /\ i - 1 = 0
      OBVIOUS
    <3>2. after[i] = Forward(xfrms[i], after[i - 1])
      BY <1>1, <2>4, <3>1
    <3> QED BY <1>1, <2>6, <3>1, <3>2
  <2>9. CASE n = 2
    <3>1. PICK i \in 0 .. n : i = 2 /\ i # 0 /\ i - 1 = 1
      BY <2>9
    <3>2. after[i] = Forward(xfrms[i], after[i - 1])
      BY <1>1, <2>4, <3>1
    <3> QED BY <1>1, <2>5, <2>8, <2>9, <3>1, <3>2
  <2>10. CASE n = 1
    BY <2>5, <2>8, <2>10
  <2> QED BY <2>7, <2>9, <2>10
<1>2. ASSUME NEW kwargs PROVE Applied(<<>>, kwargs) = kwargs
  <2> DEFINE f == [k \in 0 .. 0 |-> kwargs]
  <2>1. f = [k \in 0 .. 0 |-> f[k]] /\ f[0] = kwargs /\ Len(<<>>) = 0
    OBVIOUS
  <2> HIDE DEF f
  <2> QED BY <1>1, <2>1
<1>3. ASSUME NEW x, NEW kwargs PROVE Applied(<<x>>, kwargs) = Forward(x, kwargs)
  <2> DEFINE f == [k \in 0 .. 1 |-> IF k = 0 THEN kwargs ELSE Forward(x, kwargs)]
             xfrms == <<x>>
  <2>1. f = [k \in 0 .. 1 |-> f[k]] /\ f[0] = kwargs /\ f[1] = Forward(x, kwargs)
    OBVIOUS
  <2>2. Len(xfrms) = 1 /\ xfrms[1] = x
    OBVIOUS
  <2> HIDE DEF f, xfrms
  <2>3. Applied(xfrms, kwargs) = f[1]
    BY <1>1, <2>1, <2>2
  <2> QED BY <2>1, <2>3 DEF xfrms
<1>4. ASSUME NEW x, NEW y, NEW kwargs
      PROVE  Applied(<<x, y>>, kwargs) = Forward(y, Forward(x, kwargs))
  <2> DEFINE f == [k \in 0 .. 2 |-> IF k = 0 THEN kwargs ELSE IF k = 1 THEN Forward(x, kwargs)
                                  ELSE Forward(y, Forward(x, kwargs))]
             xfrms == <<x, y>>
  <2>1. /\ f = [k \in 0 .. 2 |-> f[k]] /\ f[0] = kwargs /\ f[1] = Forward(x, kwargs)
        /\ f[2] = Forward(y, Forward(x, kwargs))
    OBVIOUS
  <2>2. Len(xfrms) = 2 /\ xfrms[1] = x /\ xfrms[2] = y
    OBVIOUS
  <2> HIDE DEF f, xfrms
  <2>3. Applied(xfrms, kwargs) = f[2]
    BY <1>1, <2>1, <2>2
  <2> QED BY <2>1, <2>3 DEF xfrms
<1> QED BY <1>2, <1>3, <1>4

\* And reversed, in that same order.
LEMMA ReversedOf ==
  /\ \A kwargs : Reversed(<<>>, kwargs) = kwargs
  /\ \A x, kwargs : Reversed(<<x>>, kwargs) = Backward(x, kwargs)
  /\ \A x, y, kwargs : Reversed(<<x, y>>, kwargs) = Backward(y, Backward(x, kwargs))
<1>1. ASSUME NEW xfrms, NEW n \in 0 .. 2, Len(xfrms) = n, NEW kwargs, NEW f,
             f = [k \in 0 .. n |-> f[k]], f[0] = kwargs,
             n >= 1 => f[1] = Backward(xfrms[1], f[0]), n = 2 => f[2] = Backward(xfrms[2], f[1])
      PROVE  Reversed(xfrms, kwargs) = f[n]
  <2> DEFINE after[k \in 0 .. Len(xfrms)] ==
          IF k = 0 THEN kwargs ELSE Backward(xfrms[k], after[k - 1])
  <2>1. \A k \in 0 .. n : f[k] = IF k = 0 THEN kwargs ELSE Backward(xfrms[k], f[k - 1])
    <3> SUFFICES ASSUME NEW k \in 0 .. n
                 PROVE  f[k] = IF k = 0 THEN kwargs ELSE Backward(xfrms[k], f[k - 1])
      OBVIOUS
    <3>1. CASE k = 0
      BY <1>1, <3>1
    <3>2. CASE k = 1
      <4>1. k - 1 = 0 /\ n >= 1
        BY <3>2
      <4> QED BY <1>1, <3>2, <4>1
    <3>3. CASE k = 2
      <4>1. k - 1 = 1 /\ n = 2
        BY <3>3
      <4> QED BY <1>1, <3>3, <4>1
    <3> QED BY <3>1, <3>2, <3>3
  <2>2. f = [k \in 0 .. Len(xfrms) |->
               IF k = 0 THEN kwargs ELSE Backward(xfrms[k], f[k - 1])]
    BY <1>1, <2>1
  <2>3. \E g : g = [k \in 0 .. Len(xfrms) |->
               IF k = 0 THEN kwargs ELSE Backward(xfrms[k], g[k - 1])]
    BY <2>2
  <2>4. after = [k \in 0 .. Len(xfrms) |->
               IF k = 0 THEN kwargs ELSE Backward(xfrms[k], after[k - 1])]
    BY <2>3
  <2>5. Reversed(xfrms, kwargs) = after[n]
    BY <1>1 DEF Reversed
  <2> HIDE DEF after
  <2>6. after[0] = f[0]
    BY <1>1, <2>4
  <2>7. CASE n = 0
    BY <2>5, <2>6, <2>7
  <2>8. n >= 1 => after[1] = f[1]
    <3> SUFFICES ASSUME n >= 1 PROVE after[1] = f[1]
      OBVIOUS
    <3>1. PICK i \in 0 .. n : i = 1 /\ i # 0 /\ i - 1 = 0
      OBVIOUS
    <3>2. after[i] = Backward(xfrms[i], after[i - 1])
      BY <1>1, <2>4, <3>1
    <3> QED BY <1>1, <2>6, <3>1, <3>2
  <2>9. CASE n = 2
    <3>1. PICK i \in 0 .. n : i = 2 /\ i # 0 /\ i - 1 = 1
      BY <2>9
    <3>2. after[i] = Backward(xfrms[i], after[i - 1])
      BY <1>1, <2>4, <3>1
    <3> QED BY <1>1, <2>5, <2>8, <2>9, <3>1, <3>2
  <2>10. CASE n = 1
    BY <2>5, <2>8, <2>10
  <2> QED BY <2>7, <2>9, <2>10
<1>2. ASSUME NEW kwargs PROVE Reversed(<<>>, kwargs) = kwargs
  <2> DEFINE f == [k \in 0 .. 0 |-> kwargs]
  <2>1. f = [k \in 0 .. 0 |-> f[k]] /\ f[0] = kwargs /\ Len(<<>>) = 0
    OBVIOUS
  <2> HIDE DEF f
  <2> QED BY <1>1, <2>1
<1>3. ASSUME NEW x, NEW kwargs PROVE Reversed(<<x>>, kwargs) = Backward(x, kwargs)
  <2> DEFINE f == [k \in 0 .. 1 |-> IF k = 0 THEN kwargs ELSE Backward(x, kwargs)]
             xfrms == <<x>>
  <2>1. f = [k \in 0 .. 1 |-> f[k]] /\ f[0] = kwargs /\ f[1] = Backward(x, kwargs)
    OBVIOUS
  <2>2. Len(xfrms) = 1 /\ xfrms[1] = x
    OBVIOUS
  <2> HIDE DEF f, xfrms
  <2>3. Reversed(xfrms, kwargs) = f[1]
    BY <1>1, <2>1, <2>2
  <2> QED BY <2>1, <2>3 DEF xfrms
<1>4. ASSUME NEW x, NEW y, NEW kwargs
      PROVE  Reversed(<<x, y>>, kwargs) = Backward(y, Backward(x, kwargs))
  <2> DEFINE f == [k \in 0 .. 2 |-> IF k = 0 THEN kwargs ELSE IF k = 1 THEN Backward(x, kwargs)
                                  ELSE Backward(y, Backward(x, kwargs))]
             xfrms == <<x, y>>
  <2>1. /\ f = [k \in 0 .. 2 |-> f[k]] /\ f[0] = kwargs /\ f[1] = Backward(x, kwargs)
        /\ f[2] = Backward(y, Backward(x, kwargs))
    OBVIOUS
  <2>2. Len(xfrms) = 2 /\ xfrms[1] = x /\ xfrms[2] = y
    OBVIOUS
  <2> HIDE DEF f, xfrms
  <2>3. Reversed(xfrms, kwargs) = f[2]
    BY <1>1, <2>1, <2>2
  <2> QED BY <2>1, <2>3 DEF xfrms
<1> QED BY <1>2, <1>3, <1>4
-----------------------------------------------------------------------------
(* The words of a class, by their fields. *)

Format(cls) == Share(cls.ranges) /\ DOMAIN cls.ranges = ToSet(cls.layout)

RWord(opcode, rd, funct3, rs1, rs2, funct7) ==
  Made([opcode |-> opcode, rd |-> rd, funct3 |-> funct3, rs1 |-> rs1, rs2 |-> rs2,
        funct7 |-> funct7],
       RRanges)

IWord(opcode, rd, funct3, rs1, imm) ==
  Made([opcode |-> opcode, rd |-> rd, funct3 |-> funct3, rs1 |-> rs1, imm |-> imm],
       IRanges)

SWord(opcode, imm4_0, funct3, rs1, rs2, imm11_5) ==
  Made([opcode |-> opcode, imm4_0 |-> imm4_0, funct3 |-> funct3, rs1 |-> rs1, rs2 |-> rs2,
        imm11_5 |-> imm11_5],
       SRanges)

BWord(opcode, imm11, imm4_1, funct3, rs1, rs2, imm10_5, imm12) ==
  Made([opcode |-> opcode, imm11 |-> imm11, imm4_1 |-> imm4_1, funct3 |-> funct3, rs1 |-> rs1,
        rs2 |-> rs2, imm10_5 |-> imm10_5, imm12 |-> imm12],
       BRanges)

UWord(opcode, rd, imm) ==
  Made([opcode |-> opcode, rd |-> rd, imm |-> imm],
       URanges)

JWord(opcode, rd, imm19_12, imm11, imm10_1, imm20) ==
  Made([opcode |-> opcode, rd |-> rd, imm19_12 |-> imm19_12, imm11 |-> imm11,
        imm10_1 |-> imm10_1, imm20 |-> imm20],
       JRanges)

\* The ranges and the fields of the six formats.
LEMMA Formats ==
  /\ Format(R) /\ R.ranges = RRanges /\ ToSet(R.layout) =
       {"opcode", "rd", "funct3", "rs1", "rs2", "funct7"}
  /\ Format(I) /\ I.ranges = IRanges /\ ToSet(I.layout) = {"opcode", "rd", "funct3", "rs1", "imm"}
  /\ Format(S) /\ S.ranges = SRanges /\ ToSet(S.layout) =
       {"opcode", "imm4_0", "funct3", "rs1", "rs2", "imm11_5"}
  /\ Format(B) /\ B.ranges = BRanges /\ ToSet(B.layout) =
       {"opcode", "imm11", "imm4_1", "funct3", "rs1", "rs2", "imm10_5", "imm12"}
  /\ Format(U) /\ U.ranges = URanges /\ ToSet(U.layout) = {"opcode", "rd", "imm"}
  /\ Format(J) /\ J.ranges = JRanges /\ ToSet(J.layout) =
       {"opcode", "rd", "imm19_12", "imm11", "imm10_1", "imm20"}
<1>1. Format(R) /\ R.ranges = RRanges /\ ToSet(R.layout) =
        {"opcode", "rd", "funct3", "rs1", "rs2", "funct7"}
  <2>1. R.ranges = RRanges /\ R.layout = <<"opcode", "rd", "funct3", "rs1", "rs2", "funct7">>
    BY RIs
  <2>2. ToSet(R.layout) = {"opcode", "rd", "funct3", "rs1", "rs2", "funct7"}
    BY <2>1 DEF ToSet
  <2>3. DOMAIN RRanges = {"opcode", "rd", "funct3", "rs1", "rs2", "funct7"}
    BY DEF RRanges
  <2> QED BY <2>1, <2>2, <2>3, RangesShare DEF Format
<1>2. Format(I) /\ I.ranges = IRanges /\ ToSet(I.layout) =
        {"opcode", "rd", "funct3", "rs1", "imm"}
  <2>1. I.ranges = IRanges /\ I.layout = <<"opcode", "rd", "funct3", "rs1", "imm">>
    BY IIs
  <2>2. ToSet(I.layout) = {"opcode", "rd", "funct3", "rs1", "imm"}
    BY <2>1 DEF ToSet
  <2>3. DOMAIN IRanges = {"opcode", "rd", "funct3", "rs1", "imm"}
    BY DEF IRanges
  <2> QED BY <2>1, <2>2, <2>3, RangesShare DEF Format
<1>3. Format(S) /\ S.ranges = SRanges /\ ToSet(S.layout) =
        {"opcode", "imm4_0", "funct3", "rs1", "rs2", "imm11_5"}
  <2>1. S.ranges = SRanges /\ S.layout = <<"opcode", "imm4_0", "funct3", "rs1", "rs2", "imm11_5">>
    BY SIs
  <2>2. ToSet(S.layout) = {"opcode", "imm4_0", "funct3", "rs1", "rs2", "imm11_5"}
    BY <2>1 DEF ToSet
  <2>3. DOMAIN SRanges = {"opcode", "imm4_0", "funct3", "rs1", "rs2", "imm11_5"}
    BY DEF SRanges
  <2> QED BY <2>1, <2>2, <2>3, RangesShare DEF Format
<1>4. Format(B) /\ B.ranges = BRanges /\ ToSet(B.layout) =
        {"opcode", "imm11", "imm4_1", "funct3", "rs1", "rs2", "imm10_5", "imm12"}
  <2>1. B.ranges = BRanges /\ B.layout = <<"opcode", "imm11", "imm4_1", "funct3", "rs1", "rs2",
          "imm10_5", "imm12">>
    BY BIs
  <2>2. ToSet(B.layout) = {"opcode", "imm11", "imm4_1", "funct3", "rs1", "rs2", "imm10_5",
          "imm12"}
    BY <2>1 DEF ToSet
  <2>3. DOMAIN BRanges = {"opcode", "imm11", "imm4_1", "funct3", "rs1", "rs2", "imm10_5", "imm12"}
    BY DEF BRanges
  <2> QED BY <2>1, <2>2, <2>3, RangesShare DEF Format
<1>5. Format(U) /\ U.ranges = URanges /\ ToSet(U.layout) = {"opcode", "rd", "imm"}
  <2>1. U.ranges = URanges /\ U.layout = <<"opcode", "rd", "imm">>
    BY UIs
  <2>2. ToSet(U.layout) = {"opcode", "rd", "imm"}
    BY <2>1 DEF ToSet
  <2>3. DOMAIN URanges = {"opcode", "rd", "imm"}
    BY DEF URanges
  <2> QED BY <2>1, <2>2, <2>3, RangesShare DEF Format
<1>6. Format(J) /\ J.ranges = JRanges /\ ToSet(J.layout) =
        {"opcode", "rd", "imm19_12", "imm11", "imm10_1", "imm20"}
  <2>1. J.ranges = JRanges /\ J.layout = <<"opcode", "rd", "imm19_12", "imm11", "imm10_1",
          "imm20">>
    BY JIs
  <2>2. ToSet(J.layout) = {"opcode", "rd", "imm19_12", "imm11", "imm10_1", "imm20"}
    BY <2>1 DEF ToSet
  <2>3. DOMAIN JRanges = {"opcode", "rd", "imm19_12", "imm11", "imm10_1", "imm20"}
    BY DEF JRanges
  <2> QED BY <2>1, <2>2, <2>3, RangesShare DEF Format
<1> QED BY <1>1, <1>2, <1>3, <1>4, <1>5, <1>6

\* XFields and XOfFields, for each format X: the fields of a word made in it, and the
\* fields of which a word is made.
LEMMA RFields ==
  ASSUME NEW opcode, NEW rd, NEW funct3, NEW rs1, NEW rs2, NEW funct7, NEW word,
         word = RWord(opcode, rd, funct3, rs1, rs2, funct7)
  PROVE  /\ word \subseteq 0 .. 31
         /\ opcode \in Int => Extract(word, <<0, 7>>) = opcode % 128
         /\ rd \in Int => Extract(word, <<7, 12>>) = rd % 32
         /\ funct3 \in Int => Extract(word, <<12, 15>>) = funct3 % 8
         /\ rs1 \in Int => Extract(word, <<15, 20>>) = rs1 % 32
         /\ rs2 \in Int => Extract(word, <<20, 25>>) = rs2 % 32
         /\ funct7 \in Int => Extract(word, <<25, 32>>) = funct7 % 128
<1> DEFINE args == [opcode |-> opcode, rd |-> rd, funct3 |-> funct3, rs1 |-> rs1, rs2 |-> rs2,
                    funct7 |-> funct7]
<1>1. DOMAIN args = DOMAIN RRanges /\ word = Made(args, RRanges)
  BY DEF RWord, RRanges
<1>2. args["opcode"] = opcode /\ args["rd"] = rd /\ args["funct3"] = funct3 /\
      args["rs1"] = rs1 /\ args["rs2"] = rs2 /\ args["funct7"] = funct7
  OBVIOUS
<1>3. DOMAIN RRanges = {"opcode", "rd", "funct3", "rs1", "rs2", "funct7"}
  BY DEF RRanges
<1>4. /\ RRanges["opcode"] = <<0, 7>>
      /\ RRanges["rd"] = <<7, 12>>
      /\ RRanges["funct3"] = <<12, 15>>
      /\ RRanges["rs1"] = <<15, 20>>
      /\ RRanges["rs2"] = <<20, 25>>
      /\ RRanges["funct7"] = <<25, 32>>
  BY DEF RRanges
<1> HIDE DEF args
<1>5. /\ word \subseteq 0 .. 31
      /\ \A e \in DOMAIN RRanges : args[e] \in Int =>
           Extract(word, RRanges[e]) = args[e] % Power(RRanges[e][2] - RRanges[e][1])
  BY <1>1, RangesShare, MadeFields
<1>6. opcode \in Int => Extract(word, <<0, 7>>) = opcode % 128
  <2>1. RRanges["opcode"][2] - RRanges["opcode"][1] = 7 /\ "opcode" \in DOMAIN RRanges
    BY <1>3, <1>4
  <2>2. Power(7) = 128
    BY Powers DEF Power
  <2> QED BY <1>2, <1>4, <1>5, <2>1, <2>2
<1>7. rd \in Int => Extract(word, <<7, 12>>) = rd % 32
  <2>1. RRanges["rd"][2] - RRanges["rd"][1] = 5 /\ "rd" \in DOMAIN RRanges
    BY <1>3, <1>4
  <2>2. Power(5) = 32
    BY Powers DEF Power
  <2> QED BY <1>2, <1>4, <1>5, <2>1, <2>2
<1>8. funct3 \in Int => Extract(word, <<12, 15>>) = funct3 % 8
  <2>1. RRanges["funct3"][2] - RRanges["funct3"][1] = 3 /\ "funct3" \in DOMAIN RRanges
    BY <1>3, <1>4
  <2>2. Power(3) = 8
    BY Powers DEF Power
  <2> QED BY <1>2, <1>4, <1>5, <2>1, <2>2
<1>9. rs1 \in Int => Extract(word, <<15, 20>>) = rs1 % 32
  <2>1. RRanges["rs1"][2] - RRanges["rs1"][1] = 5 /\ "rs1" \in DOMAIN RRanges
    BY <1>3, <1>4
  <2>2. Power(5) = 32
    BY Powers DEF Power
  <2> QED BY <1>2, <1>4, <1>5, <2>1, <2>2
<1>10. rs2 \in Int => Extract(word, <<20, 25>>) = rs2 % 32
  <2>1. RRanges["rs2"][2] - RRanges["rs2"][1] = 5 /\ "rs2" \in DOMAIN RRanges
    BY <1>3, <1>4
  <2>2. Power(5) = 32
    BY Powers DEF Power
  <2> QED BY <1>2, <1>4, <1>5, <2>1, <2>2
<1>11. funct7 \in Int => Extract(word, <<25, 32>>) = funct7 % 128
  <2>1. RRanges["funct7"][2] - RRanges["funct7"][1] = 7 /\ "funct7" \in DOMAIN RRanges
    BY <1>3, <1>4
  <2>2. Power(7) = 128
    BY Powers DEF Power
  <2> QED BY <1>2, <1>4, <1>5, <2>1, <2>2
<1> QED BY <1>5, <1>6, <1>7, <1>8, <1>9, <1>10, <1>11

LEMMA ROfFields ==
  ASSUME NEW opcode \in Int, NEW rd \in Int, NEW funct3 \in Int, NEW rs1 \in Int,
         NEW rs2 \in Int, NEW funct7 \in Int, NEW word \in SUBSET (0 .. 31),
         (opcode % 128) = Extract(word, <<0, 7>>),
         (rd % 32) = Extract(word, <<7, 12>>),
         (funct3 % 8) = Extract(word, <<12, 15>>),
         (rs1 % 32) = Extract(word, <<15, 20>>),
         (rs2 % 32) = Extract(word, <<20, 25>>),
         (funct7 % 128) = Extract(word, <<25, 32>>)
  PROVE  RWord(opcode, rd, funct3, rs1, rs2, funct7) = word
<1> DEFINE args == [opcode |-> opcode, rd |-> rd, funct3 |-> funct3, rs1 |-> rs1, rs2 |-> rs2,
                    funct7 |-> funct7]
<1>1. DOMAIN args = DOMAIN RRanges /\ RWord(opcode, rd, funct3, rs1, rs2, funct7) =
        Made(args, RRanges)
  BY DEF RWord, RRanges
<1>2. args["opcode"] = opcode /\ args["rd"] = rd /\ args["funct3"] = funct3 /\
      args["rs1"] = rs1 /\ args["rs2"] = rs2 /\ args["funct7"] = funct7
  OBVIOUS
<1>3. DOMAIN RRanges = {"opcode", "rd", "funct3", "rs1", "rs2", "funct7"}
  BY DEF RRanges
<1>4. /\ RRanges["opcode"] = <<0, 7>>
      /\ RRanges["rd"] = <<7, 12>>
      /\ RRanges["funct3"] = <<12, 15>>
      /\ RRanges["rs1"] = <<15, 20>>
      /\ RRanges["rs2"] = <<20, 25>>
      /\ RRanges["funct7"] = <<25, 32>>
  BY DEF RRanges
<1> HIDE DEF args
<1>5. /\ args["opcode"] \in Int
      /\ args["opcode"] % Power(RRanges["opcode"][2] - RRanges["opcode"][1]) =
           Extract(word, RRanges["opcode"])
  <2>1. RRanges["opcode"][2] - RRanges["opcode"][1] = 7
    BY <1>4
  <2>2. Power(7) = 128
    BY Powers DEF Power
  <2> QED BY <1>2, <1>4, <2>1, <2>2
<1>6. /\ args["rd"] \in Int
      /\ args["rd"] % Power(RRanges["rd"][2] - RRanges["rd"][1]) =
           Extract(word, RRanges["rd"])
  <2>1. RRanges["rd"][2] - RRanges["rd"][1] = 5
    BY <1>4
  <2>2. Power(5) = 32
    BY Powers DEF Power
  <2> QED BY <1>2, <1>4, <2>1, <2>2
<1>7. /\ args["funct3"] \in Int
      /\ args["funct3"] % Power(RRanges["funct3"][2] - RRanges["funct3"][1]) =
           Extract(word, RRanges["funct3"])
  <2>1. RRanges["funct3"][2] - RRanges["funct3"][1] = 3
    BY <1>4
  <2>2. Power(3) = 8
    BY Powers DEF Power
  <2> QED BY <1>2, <1>4, <2>1, <2>2
<1>8. /\ args["rs1"] \in Int
      /\ args["rs1"] % Power(RRanges["rs1"][2] - RRanges["rs1"][1]) =
           Extract(word, RRanges["rs1"])
  <2>1. RRanges["rs1"][2] - RRanges["rs1"][1] = 5
    BY <1>4
  <2>2. Power(5) = 32
    BY Powers DEF Power
  <2> QED BY <1>2, <1>4, <2>1, <2>2
<1>9. /\ args["rs2"] \in Int
      /\ args["rs2"] % Power(RRanges["rs2"][2] - RRanges["rs2"][1]) =
           Extract(word, RRanges["rs2"])
  <2>1. RRanges["rs2"][2] - RRanges["rs2"][1] = 5
    BY <1>4
  <2>2. Power(5) = 32
    BY Powers DEF Power
  <2> QED BY <1>2, <1>4, <2>1, <2>2
<1>10. /\ args["funct7"] \in Int
      /\ args["funct7"] % Power(RRanges["funct7"][2] - RRanges["funct7"][1]) =
           Extract(word, RRanges["funct7"])
  <2>1. RRanges["funct7"][2] - RRanges["funct7"][1] = 7
    BY <1>4
  <2>2. Power(7) = 128
    BY Powers DEF Power
  <2> QED BY <1>2, <1>4, <2>1, <2>2
<1>11. \A e \in DOMAIN RRanges : /\ args[e] \in Int
           /\ args[e] % Power(RRanges[e][2] - RRanges[e][1]) = Extract(word, RRanges[e])
  BY <1>3, <1>5, <1>6, <1>7, <1>8, <1>9, <1>10
<1> QED BY <1>1, <1>11, RangesShare, MadeOfFields

LEMMA IFields ==
  ASSUME NEW opcode, NEW rd, NEW funct3, NEW rs1, NEW imm, NEW word,
         word = IWord(opcode, rd, funct3, rs1, imm)
  PROVE  /\ word \subseteq 0 .. 31
         /\ opcode \in Int => Extract(word, <<0, 7>>) = opcode % 128
         /\ rd \in Int => Extract(word, <<7, 12>>) = rd % 32
         /\ funct3 \in Int => Extract(word, <<12, 15>>) = funct3 % 8
         /\ rs1 \in Int => Extract(word, <<15, 20>>) = rs1 % 32
         /\ imm \in Int => Extract(word, <<20, 32>>) = imm % 4096
<1> DEFINE args == [opcode |-> opcode, rd |-> rd, funct3 |-> funct3, rs1 |-> rs1, imm |-> imm]
<1>1. DOMAIN args = DOMAIN IRanges /\ word = Made(args, IRanges)
  BY DEF IWord, IRanges
<1>2. args["opcode"] = opcode /\ args["rd"] = rd /\ args["funct3"] = funct3 /\
      args["rs1"] = rs1 /\ args["imm"] = imm
  OBVIOUS
<1>3. DOMAIN IRanges = {"opcode", "rd", "funct3", "rs1", "imm"}
  BY DEF IRanges
<1>4. /\ IRanges["opcode"] = <<0, 7>>
      /\ IRanges["rd"] = <<7, 12>>
      /\ IRanges["funct3"] = <<12, 15>>
      /\ IRanges["rs1"] = <<15, 20>>
      /\ IRanges["imm"] = <<20, 32>>
  BY DEF IRanges
<1> HIDE DEF args
<1>5. /\ word \subseteq 0 .. 31
      /\ \A e \in DOMAIN IRanges : args[e] \in Int =>
           Extract(word, IRanges[e]) = args[e] % Power(IRanges[e][2] - IRanges[e][1])
  BY <1>1, RangesShare, MadeFields
<1>6. opcode \in Int => Extract(word, <<0, 7>>) = opcode % 128
  <2>1. IRanges["opcode"][2] - IRanges["opcode"][1] = 7 /\ "opcode" \in DOMAIN IRanges
    BY <1>3, <1>4
  <2>2. Power(7) = 128
    BY Powers DEF Power
  <2> QED BY <1>2, <1>4, <1>5, <2>1, <2>2
<1>7. rd \in Int => Extract(word, <<7, 12>>) = rd % 32
  <2>1. IRanges["rd"][2] - IRanges["rd"][1] = 5 /\ "rd" \in DOMAIN IRanges
    BY <1>3, <1>4
  <2>2. Power(5) = 32
    BY Powers DEF Power
  <2> QED BY <1>2, <1>4, <1>5, <2>1, <2>2
<1>8. funct3 \in Int => Extract(word, <<12, 15>>) = funct3 % 8
  <2>1. IRanges["funct3"][2] - IRanges["funct3"][1] = 3 /\ "funct3" \in DOMAIN IRanges
    BY <1>3, <1>4
  <2>2. Power(3) = 8
    BY Powers DEF Power
  <2> QED BY <1>2, <1>4, <1>5, <2>1, <2>2
<1>9. rs1 \in Int => Extract(word, <<15, 20>>) = rs1 % 32
  <2>1. IRanges["rs1"][2] - IRanges["rs1"][1] = 5 /\ "rs1" \in DOMAIN IRanges
    BY <1>3, <1>4
  <2>2. Power(5) = 32
    BY Powers DEF Power
  <2> QED BY <1>2, <1>4, <1>5, <2>1, <2>2
<1>10. imm \in Int => Extract(word, <<20, 32>>) = imm % 4096
  <2>1. IRanges["imm"][2] - IRanges["imm"][1] = 12 /\ "imm" \in DOMAIN IRanges
    BY <1>3, <1>4
  <2>2. Power(12) = 4096
    BY Powers DEF Power
  <2> QED BY <1>2, <1>4, <1>5, <2>1, <2>2
<1> QED BY <1>5, <1>6, <1>7, <1>8, <1>9, <1>10

LEMMA IOfFields ==
  ASSUME NEW opcode \in Int, NEW rd \in Int, NEW funct3 \in Int, NEW rs1 \in Int,
         NEW imm \in Int, NEW word \in SUBSET (0 .. 31),
         (opcode % 128) = Extract(word, <<0, 7>>),
         (rd % 32) = Extract(word, <<7, 12>>),
         (funct3 % 8) = Extract(word, <<12, 15>>),
         (rs1 % 32) = Extract(word, <<15, 20>>),
         (imm % 4096) = Extract(word, <<20, 32>>)
  PROVE  IWord(opcode, rd, funct3, rs1, imm) = word
<1> DEFINE args == [opcode |-> opcode, rd |-> rd, funct3 |-> funct3, rs1 |-> rs1, imm |-> imm]
<1>1. DOMAIN args = DOMAIN IRanges /\ IWord(opcode, rd, funct3, rs1, imm) = Made(args, IRanges)
  BY DEF IWord, IRanges
<1>2. args["opcode"] = opcode /\ args["rd"] = rd /\ args["funct3"] = funct3 /\
      args["rs1"] = rs1 /\ args["imm"] = imm
  OBVIOUS
<1>3. DOMAIN IRanges = {"opcode", "rd", "funct3", "rs1", "imm"}
  BY DEF IRanges
<1>4. /\ IRanges["opcode"] = <<0, 7>>
      /\ IRanges["rd"] = <<7, 12>>
      /\ IRanges["funct3"] = <<12, 15>>
      /\ IRanges["rs1"] = <<15, 20>>
      /\ IRanges["imm"] = <<20, 32>>
  BY DEF IRanges
<1> HIDE DEF args
<1>5. /\ args["opcode"] \in Int
      /\ args["opcode"] % Power(IRanges["opcode"][2] - IRanges["opcode"][1]) =
           Extract(word, IRanges["opcode"])
  <2>1. IRanges["opcode"][2] - IRanges["opcode"][1] = 7
    BY <1>4
  <2>2. Power(7) = 128
    BY Powers DEF Power
  <2> QED BY <1>2, <1>4, <2>1, <2>2
<1>6. /\ args["rd"] \in Int
      /\ args["rd"] % Power(IRanges["rd"][2] - IRanges["rd"][1]) =
           Extract(word, IRanges["rd"])
  <2>1. IRanges["rd"][2] - IRanges["rd"][1] = 5
    BY <1>4
  <2>2. Power(5) = 32
    BY Powers DEF Power
  <2> QED BY <1>2, <1>4, <2>1, <2>2
<1>7. /\ args["funct3"] \in Int
      /\ args["funct3"] % Power(IRanges["funct3"][2] - IRanges["funct3"][1]) =
           Extract(word, IRanges["funct3"])
  <2>1. IRanges["funct3"][2] - IRanges["funct3"][1] = 3
    BY <1>4
  <2>2. Power(3) = 8
    BY Powers DEF Power
  <2> QED BY <1>2, <1>4, <2>1, <2>2
<1>8. /\ args["rs1"] \in Int
      /\ args["rs1"] % Power(IRanges["rs1"][2] - IRanges["rs1"][1]) =
           Extract(word, IRanges["rs1"])
  <2>1. IRanges["rs1"][2] - IRanges["rs1"][1] = 5
    BY <1>4
  <2>2. Power(5) = 32
    BY Powers DEF Power
  <2> QED BY <1>2, <1>4, <2>1, <2>2
<1>9. /\ args["imm"] \in Int
      /\ args["imm"] % Power(IRanges["imm"][2] - IRanges["imm"][1]) =
           Extract(word, IRanges["imm"])
  <2>1. IRanges["imm"][2] - IRanges["imm"][1] = 12
    BY <1>4
  <2>2. Power(12) = 4096
    BY Powers DEF Power
  <2> QED BY <1>2, <1>4, <2>1, <2>2
<1>10. \A e \in DOMAIN IRanges : /\ args[e] \in Int
           /\ args[e] % Power(IRanges[e][2] - IRanges[e][1]) = Extract(word, IRanges[e])
  BY <1>3, <1>5, <1>6, <1>7, <1>8, <1>9
<1> QED BY <1>1, <1>10, RangesShare, MadeOfFields

LEMMA SFields ==
  ASSUME NEW opcode, NEW imm4_0, NEW funct3, NEW rs1, NEW rs2, NEW imm11_5, NEW word,
         word = SWord(opcode, imm4_0, funct3, rs1, rs2, imm11_5)
  PROVE  /\ word \subseteq 0 .. 31
         /\ opcode \in Int => Extract(word, <<0, 7>>) = opcode % 128
         /\ imm4_0 \in Int => Extract(word, <<7, 12>>) = imm4_0 % 32
         /\ funct3 \in Int => Extract(word, <<12, 15>>) = funct3 % 8
         /\ rs1 \in Int => Extract(word, <<15, 20>>) = rs1 % 32
         /\ rs2 \in Int => Extract(word, <<20, 25>>) = rs2 % 32
         /\ imm11_5 \in Int => Extract(word, <<25, 32>>) = imm11_5 % 128
<1> DEFINE args == [opcode |-> opcode, imm4_0 |-> imm4_0, funct3 |-> funct3, rs1 |-> rs1,
                    rs2 |-> rs2, imm11_5 |-> imm11_5]
<1>1. DOMAIN args = DOMAIN SRanges /\ word = Made(args, SRanges)
  BY DEF SWord, SRanges
<1>2. args["opcode"] = opcode /\ args["imm4_0"] = imm4_0 /\ args["funct3"] = funct3 /\
      args["rs1"] = rs1 /\ args["rs2"] = rs2 /\ args["imm11_5"] = imm11_5
  OBVIOUS
<1>3. DOMAIN SRanges = {"opcode", "imm4_0", "funct3", "rs1", "rs2", "imm11_5"}
  BY DEF SRanges
<1>4. /\ SRanges["opcode"] = <<0, 7>>
      /\ SRanges["imm4_0"] = <<7, 12>>
      /\ SRanges["funct3"] = <<12, 15>>
      /\ SRanges["rs1"] = <<15, 20>>
      /\ SRanges["rs2"] = <<20, 25>>
      /\ SRanges["imm11_5"] = <<25, 32>>
  BY DEF SRanges
<1> HIDE DEF args
<1>5. /\ word \subseteq 0 .. 31
      /\ \A e \in DOMAIN SRanges : args[e] \in Int =>
           Extract(word, SRanges[e]) = args[e] % Power(SRanges[e][2] - SRanges[e][1])
  BY <1>1, RangesShare, MadeFields
<1>6. opcode \in Int => Extract(word, <<0, 7>>) = opcode % 128
  <2>1. SRanges["opcode"][2] - SRanges["opcode"][1] = 7 /\ "opcode" \in DOMAIN SRanges
    BY <1>3, <1>4
  <2>2. Power(7) = 128
    BY Powers DEF Power
  <2> QED BY <1>2, <1>4, <1>5, <2>1, <2>2
<1>7. imm4_0 \in Int => Extract(word, <<7, 12>>) = imm4_0 % 32
  <2>1. SRanges["imm4_0"][2] - SRanges["imm4_0"][1] = 5 /\ "imm4_0" \in DOMAIN SRanges
    BY <1>3, <1>4
  <2>2. Power(5) = 32
    BY Powers DEF Power
  <2> QED BY <1>2, <1>4, <1>5, <2>1, <2>2
<1>8. funct3 \in Int => Extract(word, <<12, 15>>) = funct3 % 8
  <2>1. SRanges["funct3"][2] - SRanges["funct3"][1] = 3 /\ "funct3" \in DOMAIN SRanges
    BY <1>3, <1>4
  <2>2. Power(3) = 8
    BY Powers DEF Power
  <2> QED BY <1>2, <1>4, <1>5, <2>1, <2>2
<1>9. rs1 \in Int => Extract(word, <<15, 20>>) = rs1 % 32
  <2>1. SRanges["rs1"][2] - SRanges["rs1"][1] = 5 /\ "rs1" \in DOMAIN SRanges
    BY <1>3, <1>4
  <2>2. Power(5) = 32
    BY Powers DEF Power
  <2> QED BY <1>2, <1>4, <1>5, <2>1, <2>2
<1>10. rs2 \in Int => Extract(word, <<20, 25>>) = rs2 % 32
  <2>1. SRanges["rs2"][2] - SRanges["rs2"][1] = 5 /\ "rs2" \in DOMAIN SRanges
    BY <1>3, <1>4
  <2>2. Power(5) = 32
    BY Powers DEF Power
  <2> QED BY <1>2, <1>4, <1>5, <2>1, <2>2
<1>11. imm11_5 \in Int => Extract(word, <<25, 32>>) = imm11_5 % 128
  <2>1. SRanges["imm11_5"][2] - SRanges["imm11_5"][1] = 7 /\ "imm11_5" \in DOMAIN SRanges
    BY <1>3, <1>4
  <2>2. Power(7) = 128
    BY Powers DEF Power
  <2> QED BY <1>2, <1>4, <1>5, <2>1, <2>2
<1> QED BY <1>5, <1>6, <1>7, <1>8, <1>9, <1>10, <1>11

LEMMA SOfFields ==
  ASSUME NEW opcode \in Int, NEW imm4_0 \in Int, NEW funct3 \in Int, NEW rs1 \in Int,
         NEW rs2 \in Int, NEW imm11_5 \in Int, NEW word \in SUBSET (0 .. 31),
         (opcode % 128) = Extract(word, <<0, 7>>),
         (imm4_0 % 32) = Extract(word, <<7, 12>>),
         (funct3 % 8) = Extract(word, <<12, 15>>),
         (rs1 % 32) = Extract(word, <<15, 20>>),
         (rs2 % 32) = Extract(word, <<20, 25>>),
         (imm11_5 % 128) = Extract(word, <<25, 32>>)
  PROVE  SWord(opcode, imm4_0, funct3, rs1, rs2, imm11_5) = word
<1> DEFINE args == [opcode |-> opcode, imm4_0 |-> imm4_0, funct3 |-> funct3, rs1 |-> rs1,
                    rs2 |-> rs2, imm11_5 |-> imm11_5]
<1>1. DOMAIN args = DOMAIN SRanges /\ SWord(opcode, imm4_0, funct3, rs1, rs2, imm11_5) =
        Made(args, SRanges)
  BY DEF SWord, SRanges
<1>2. args["opcode"] = opcode /\ args["imm4_0"] = imm4_0 /\ args["funct3"] = funct3 /\
      args["rs1"] = rs1 /\ args["rs2"] = rs2 /\ args["imm11_5"] = imm11_5
  OBVIOUS
<1>3. DOMAIN SRanges = {"opcode", "imm4_0", "funct3", "rs1", "rs2", "imm11_5"}
  BY DEF SRanges
<1>4. /\ SRanges["opcode"] = <<0, 7>>
      /\ SRanges["imm4_0"] = <<7, 12>>
      /\ SRanges["funct3"] = <<12, 15>>
      /\ SRanges["rs1"] = <<15, 20>>
      /\ SRanges["rs2"] = <<20, 25>>
      /\ SRanges["imm11_5"] = <<25, 32>>
  BY DEF SRanges
<1> HIDE DEF args
<1>5. /\ args["opcode"] \in Int
      /\ args["opcode"] % Power(SRanges["opcode"][2] - SRanges["opcode"][1]) =
           Extract(word, SRanges["opcode"])
  <2>1. SRanges["opcode"][2] - SRanges["opcode"][1] = 7
    BY <1>4
  <2>2. Power(7) = 128
    BY Powers DEF Power
  <2> QED BY <1>2, <1>4, <2>1, <2>2
<1>6. /\ args["imm4_0"] \in Int
      /\ args["imm4_0"] % Power(SRanges["imm4_0"][2] - SRanges["imm4_0"][1]) =
           Extract(word, SRanges["imm4_0"])
  <2>1. SRanges["imm4_0"][2] - SRanges["imm4_0"][1] = 5
    BY <1>4
  <2>2. Power(5) = 32
    BY Powers DEF Power
  <2> QED BY <1>2, <1>4, <2>1, <2>2
<1>7. /\ args["funct3"] \in Int
      /\ args["funct3"] % Power(SRanges["funct3"][2] - SRanges["funct3"][1]) =
           Extract(word, SRanges["funct3"])
  <2>1. SRanges["funct3"][2] - SRanges["funct3"][1] = 3
    BY <1>4
  <2>2. Power(3) = 8
    BY Powers DEF Power
  <2> QED BY <1>2, <1>4, <2>1, <2>2
<1>8. /\ args["rs1"] \in Int
      /\ args["rs1"] % Power(SRanges["rs1"][2] - SRanges["rs1"][1]) =
           Extract(word, SRanges["rs1"])
  <2>1. SRanges["rs1"][2] - SRanges["rs1"][1] = 5
    BY <1>4
  <2>2. Power(5) = 32
    BY Powers DEF Power
  <2> QED BY <1>2, <1>4, <2>1, <2>2
<1>9. /\ args["rs2"] \in Int
      /\ args["rs2"] % Power(SRanges["rs2"][2] - SRanges["rs2"][1]) =
           Extract(word, SRanges["rs2"])
  <2>1. SRanges["rs2"][2] - SRanges["rs2"][1] = 5
    BY <1>4
  <2>2. Power(5) = 32
    BY Powers DEF Power
  <2> QED BY <1>2, <1>4, <2>1, <2>2
<1>10. /\ args["imm11_5"] \in Int
      /\ args["imm11_5"] % Power(SRanges["imm11_5"][2] - SRanges["imm11_5"][1]) =
           Extract(word, SRanges["imm11_5"])
  <2>1. SRanges["imm11_5"][2] - SRanges["imm11_5"][1] = 7
    BY <1>4
  <2>2. Power(7) = 128
    BY Powers DEF Power
  <2> QED BY <1>2, <1>4, <2>1, <2>2
<1>11. \A e \in DOMAIN SRanges : /\ args[e] \in Int
           /\ args[e] % Power(SRanges[e][2] - SRanges[e][1]) = Extract(word, SRanges[e])
  BY <1>3, <1>5, <1>6, <1>7, <1>8, <1>9, <1>10
<1> QED BY <1>1, <1>11, RangesShare, MadeOfFields

LEMMA BFields ==
  ASSUME NEW opcode, NEW imm11, NEW imm4_1, NEW funct3, NEW rs1, NEW rs2, NEW imm10_5,
    NEW imm12, NEW word,
         word = BWord(opcode, imm11, imm4_1, funct3, rs1, rs2, imm10_5, imm12)
  PROVE  /\ word \subseteq 0 .. 31
         /\ opcode \in Int => Extract(word, <<0, 7>>) = opcode % 128
         /\ imm11 \in Int => Extract(word, <<7, 8>>) = imm11 % 2
         /\ imm4_1 \in Int => Extract(word, <<8, 12>>) = imm4_1 % 16
         /\ funct3 \in Int => Extract(word, <<12, 15>>) = funct3 % 8
         /\ rs1 \in Int => Extract(word, <<15, 20>>) = rs1 % 32
         /\ rs2 \in Int => Extract(word, <<20, 25>>) = rs2 % 32
         /\ imm10_5 \in Int => Extract(word, <<25, 31>>) = imm10_5 % 64
         /\ imm12 \in Int => Extract(word, <<31, 32>>) = imm12 % 2
<1> DEFINE args == [opcode |-> opcode, imm11 |-> imm11, imm4_1 |-> imm4_1, funct3 |-> funct3,
                    rs1 |-> rs1, rs2 |-> rs2, imm10_5 |-> imm10_5, imm12 |-> imm12]
<1>1. DOMAIN args = DOMAIN BRanges /\ word = Made(args, BRanges)
  BY DEF BWord, BRanges
<1>2. args["opcode"] = opcode /\ args["imm11"] = imm11 /\ args["imm4_1"] = imm4_1 /\
      args["funct3"] = funct3 /\ args["rs1"] = rs1 /\ args["rs2"] = rs2 /\
      args["imm10_5"] = imm10_5 /\ args["imm12"] = imm12
  OBVIOUS
<1>3. DOMAIN BRanges = {"opcode", "imm11", "imm4_1", "funct3", "rs1", "rs2", "imm10_5", "imm12"}
  BY DEF BRanges
<1>4. /\ BRanges["opcode"] = <<0, 7>>
      /\ BRanges["imm11"] = <<7, 8>>
      /\ BRanges["imm4_1"] = <<8, 12>>
      /\ BRanges["funct3"] = <<12, 15>>
      /\ BRanges["rs1"] = <<15, 20>>
      /\ BRanges["rs2"] = <<20, 25>>
      /\ BRanges["imm10_5"] = <<25, 31>>
      /\ BRanges["imm12"] = <<31, 32>>
  BY DEF BRanges
<1> HIDE DEF args
<1>5. /\ word \subseteq 0 .. 31
      /\ \A e \in DOMAIN BRanges : args[e] \in Int =>
           Extract(word, BRanges[e]) = args[e] % Power(BRanges[e][2] - BRanges[e][1])
  BY <1>1, RangesShare, MadeFields
<1>6. opcode \in Int => Extract(word, <<0, 7>>) = opcode % 128
  <2>1. BRanges["opcode"][2] - BRanges["opcode"][1] = 7 /\ "opcode" \in DOMAIN BRanges
    BY <1>3, <1>4
  <2>2. Power(7) = 128
    BY Powers DEF Power
  <2> QED BY <1>2, <1>4, <1>5, <2>1, <2>2
<1>7. imm11 \in Int => Extract(word, <<7, 8>>) = imm11 % 2
  <2>1. BRanges["imm11"][2] - BRanges["imm11"][1] = 1 /\ "imm11" \in DOMAIN BRanges
    BY <1>3, <1>4
  <2>2. Power(1) = 2
    BY Powers DEF Power
  <2> QED BY <1>2, <1>4, <1>5, <2>1, <2>2
<1>8. imm4_1 \in Int => Extract(word, <<8, 12>>) = imm4_1 % 16
  <2>1. BRanges["imm4_1"][2] - BRanges["imm4_1"][1] = 4 /\ "imm4_1" \in DOMAIN BRanges
    BY <1>3, <1>4
  <2>2. Power(4) = 16
    BY Powers DEF Power
  <2> QED BY <1>2, <1>4, <1>5, <2>1, <2>2
<1>9. funct3 \in Int => Extract(word, <<12, 15>>) = funct3 % 8
  <2>1. BRanges["funct3"][2] - BRanges["funct3"][1] = 3 /\ "funct3" \in DOMAIN BRanges
    BY <1>3, <1>4
  <2>2. Power(3) = 8
    BY Powers DEF Power
  <2> QED BY <1>2, <1>4, <1>5, <2>1, <2>2
<1>10. rs1 \in Int => Extract(word, <<15, 20>>) = rs1 % 32
  <2>1. BRanges["rs1"][2] - BRanges["rs1"][1] = 5 /\ "rs1" \in DOMAIN BRanges
    BY <1>3, <1>4
  <2>2. Power(5) = 32
    BY Powers DEF Power
  <2> QED BY <1>2, <1>4, <1>5, <2>1, <2>2
<1>11. rs2 \in Int => Extract(word, <<20, 25>>) = rs2 % 32
  <2>1. BRanges["rs2"][2] - BRanges["rs2"][1] = 5 /\ "rs2" \in DOMAIN BRanges
    BY <1>3, <1>4
  <2>2. Power(5) = 32
    BY Powers DEF Power
  <2> QED BY <1>2, <1>4, <1>5, <2>1, <2>2
<1>12. imm10_5 \in Int => Extract(word, <<25, 31>>) = imm10_5 % 64
  <2>1. BRanges["imm10_5"][2] - BRanges["imm10_5"][1] = 6 /\ "imm10_5" \in DOMAIN BRanges
    BY <1>3, <1>4
  <2>2. Power(6) = 64
    BY Powers DEF Power
  <2> QED BY <1>2, <1>4, <1>5, <2>1, <2>2
<1>13. imm12 \in Int => Extract(word, <<31, 32>>) = imm12 % 2
  <2>1. BRanges["imm12"][2] - BRanges["imm12"][1] = 1 /\ "imm12" \in DOMAIN BRanges
    BY <1>3, <1>4
  <2>2. Power(1) = 2
    BY Powers DEF Power
  <2> QED BY <1>2, <1>4, <1>5, <2>1, <2>2
<1> QED BY <1>5, <1>6, <1>7, <1>8, <1>9, <1>10, <1>11, <1>12, <1>13

LEMMA BOfFields ==
  ASSUME NEW opcode \in Int, NEW imm11 \in Int, NEW imm4_1 \in Int, NEW funct3 \in Int,
         NEW rs1 \in Int, NEW rs2 \in Int, NEW imm10_5 \in Int, NEW imm12 \in Int,
           NEW word \in SUBSET (0 .. 31),
         (opcode % 128) = Extract(word, <<0, 7>>),
         (imm11 % 2) = Extract(word, <<7, 8>>),
         (imm4_1 % 16) = Extract(word, <<8, 12>>),
         (funct3 % 8) = Extract(word, <<12, 15>>),
         (rs1 % 32) = Extract(word, <<15, 20>>),
         (rs2 % 32) = Extract(word, <<20, 25>>),
         (imm10_5 % 64) = Extract(word, <<25, 31>>),
         (imm12 % 2) = Extract(word, <<31, 32>>)
  PROVE  BWord(opcode, imm11, imm4_1, funct3, rs1, rs2, imm10_5, imm12) = word
<1> DEFINE args == [opcode |-> opcode, imm11 |-> imm11, imm4_1 |-> imm4_1, funct3 |-> funct3,
                    rs1 |-> rs1, rs2 |-> rs2, imm10_5 |-> imm10_5, imm12 |-> imm12]
<1>1. DOMAIN args = DOMAIN BRanges /\ BWord(opcode, imm11, imm4_1, funct3, rs1, rs2, imm10_5,
        imm12) = Made(args, BRanges)
  BY DEF BWord, BRanges
<1>2. args["opcode"] = opcode /\ args["imm11"] = imm11 /\ args["imm4_1"] = imm4_1 /\
      args["funct3"] = funct3 /\ args["rs1"] = rs1 /\ args["rs2"] = rs2 /\
      args["imm10_5"] = imm10_5 /\ args["imm12"] = imm12
  OBVIOUS
<1>3. DOMAIN BRanges = {"opcode", "imm11", "imm4_1", "funct3", "rs1", "rs2", "imm10_5", "imm12"}
  BY DEF BRanges
<1>4. /\ BRanges["opcode"] = <<0, 7>>
      /\ BRanges["imm11"] = <<7, 8>>
      /\ BRanges["imm4_1"] = <<8, 12>>
      /\ BRanges["funct3"] = <<12, 15>>
      /\ BRanges["rs1"] = <<15, 20>>
      /\ BRanges["rs2"] = <<20, 25>>
      /\ BRanges["imm10_5"] = <<25, 31>>
      /\ BRanges["imm12"] = <<31, 32>>
  BY DEF BRanges
<1> HIDE DEF args
<1>5. /\ args["opcode"] \in Int
      /\ args["opcode"] % Power(BRanges["opcode"][2] - BRanges["opcode"][1]) =
           Extract(word, BRanges["opcode"])
  <2>1. BRanges["opcode"][2] - BRanges["opcode"][1] = 7
    BY <1>4
  <2>2. Power(7) = 128
    BY Powers DEF Power
  <2> QED BY <1>2, <1>4, <2>1, <2>2
<1>6. /\ args["imm11"] \in Int
      /\ args["imm11"] % Power(BRanges["imm11"][2] - BRanges["imm11"][1]) =
           Extract(word, BRanges["imm11"])
  <2>1. BRanges["imm11"][2] - BRanges["imm11"][1] = 1
    BY <1>4
  <2>2. Power(1) = 2
    BY Powers DEF Power
  <2> QED BY <1>2, <1>4, <2>1, <2>2
<1>7. /\ args["imm4_1"] \in Int
      /\ args["imm4_1"] % Power(BRanges["imm4_1"][2] - BRanges["imm4_1"][1]) =
           Extract(word, BRanges["imm4_1"])
  <2>1. BRanges["imm4_1"][2] - BRanges["imm4_1"][1] = 4
    BY <1>4
  <2>2. Power(4) = 16
    BY Powers DEF Power
  <2> QED BY <1>2, <1>4, <2>1, <2>2
<1>8. /\ args["funct3"] \in Int
      /\ args["funct3"] % Power(BRanges["funct3"][2] - BRanges["funct3"][1]) =
           Extract(word, BRanges["funct3"])
  <2>1. BRanges["funct3"][2] - BRanges["funct3"][1] = 3
    BY <1>4
  <2>2. Power(3) = 8
    BY Powers DEF Power
  <2> QED BY <1>2, <1>4, <2>1, <2>2
<1>9. /\ args["rs1"] \in Int
      /\ args["rs1"] % Power(BRanges["rs1"][2] - BRanges["rs1"][1]) =
           Extract(word, BRanges["rs1"])
  <2>1. BRanges["rs1"][2] - BRanges["rs1"][1] = 5
    BY <1>4
  <2>2. Power(5) = 32
    BY Powers DEF Power
  <2> QED BY <1>2, <1>4, <2>1, <2>2
<1>10. /\ args["rs2"] \in Int
      /\ args["rs2"] % Power(BRanges["rs2"][2] - BRanges["rs2"][1]) =
           Extract(word, BRanges["rs2"])
  <2>1. BRanges["rs2"][2] - BRanges["rs2"][1] = 5
    BY <1>4
  <2>2. Power(5) = 32
    BY Powers DEF Power
  <2> QED BY <1>2, <1>4, <2>1, <2>2
<1>11. /\ args["imm10_5"] \in Int
      /\ args["imm10_5"] % Power(BRanges["imm10_5"][2] - BRanges["imm10_5"][1]) =
           Extract(word, BRanges["imm10_5"])
  <2>1. BRanges["imm10_5"][2] - BRanges["imm10_5"][1] = 6
    BY <1>4
  <2>2. Power(6) = 64
    BY Powers DEF Power
  <2> QED BY <1>2, <1>4, <2>1, <2>2
<1>12. /\ args["imm12"] \in Int
      /\ args["imm12"] % Power(BRanges["imm12"][2] - BRanges["imm12"][1]) =
           Extract(word, BRanges["imm12"])
  <2>1. BRanges["imm12"][2] - BRanges["imm12"][1] = 1
    BY <1>4
  <2>2. Power(1) = 2
    BY Powers DEF Power
  <2> QED BY <1>2, <1>4, <2>1, <2>2
<1>13. \A e \in DOMAIN BRanges : /\ args[e] \in Int
           /\ args[e] % Power(BRanges[e][2] - BRanges[e][1]) = Extract(word, BRanges[e])
  BY <1>3, <1>5, <1>6, <1>7, <1>8, <1>9, <1>10, <1>11, <1>12
<1> QED BY <1>1, <1>13, RangesShare, MadeOfFields

LEMMA UFields ==
  ASSUME NEW opcode, NEW rd, NEW imm, NEW word,
         word = UWord(opcode, rd, imm)
  PROVE  /\ word \subseteq 0 .. 31
         /\ opcode \in Int => Extract(word, <<0, 7>>) = opcode % 128
         /\ rd \in Int => Extract(word, <<7, 12>>) = rd % 32
         /\ imm \in Int => Extract(word, <<12, 32>>) = imm % 1048576
<1> DEFINE args == [opcode |-> opcode, rd |-> rd, imm |-> imm]
<1>1. DOMAIN args = DOMAIN URanges /\ word = Made(args, URanges)
  BY DEF UWord, URanges
<1>2. args["opcode"] = opcode /\ args["rd"] = rd /\ args["imm"] = imm
  OBVIOUS
<1>3. DOMAIN URanges = {"opcode", "rd", "imm"}
  BY DEF URanges
<1>4. /\ URanges["opcode"] = <<0, 7>>
      /\ URanges["rd"] = <<7, 12>>
      /\ URanges["imm"] = <<12, 32>>
  BY DEF URanges
<1> HIDE DEF args
<1>5. /\ word \subseteq 0 .. 31
      /\ \A e \in DOMAIN URanges : args[e] \in Int =>
           Extract(word, URanges[e]) = args[e] % Power(URanges[e][2] - URanges[e][1])
  BY <1>1, RangesShare, MadeFields
<1>6. opcode \in Int => Extract(word, <<0, 7>>) = opcode % 128
  <2>1. URanges["opcode"][2] - URanges["opcode"][1] = 7 /\ "opcode" \in DOMAIN URanges
    BY <1>3, <1>4
  <2>2. Power(7) = 128
    BY Powers DEF Power
  <2> QED BY <1>2, <1>4, <1>5, <2>1, <2>2
<1>7. rd \in Int => Extract(word, <<7, 12>>) = rd % 32
  <2>1. URanges["rd"][2] - URanges["rd"][1] = 5 /\ "rd" \in DOMAIN URanges
    BY <1>3, <1>4
  <2>2. Power(5) = 32
    BY Powers DEF Power
  <2> QED BY <1>2, <1>4, <1>5, <2>1, <2>2
<1>8. imm \in Int => Extract(word, <<12, 32>>) = imm % 1048576
  <2>1. URanges["imm"][2] - URanges["imm"][1] = 20 /\ "imm" \in DOMAIN URanges
    BY <1>3, <1>4
  <2>2. Power(20) = 1048576
    BY Powers DEF Power
  <2> QED BY <1>2, <1>4, <1>5, <2>1, <2>2
<1> QED BY <1>5, <1>6, <1>7, <1>8

LEMMA UOfFields ==
  ASSUME NEW opcode \in Int, NEW rd \in Int, NEW imm \in Int, NEW word \in SUBSET (0 .. 31),
         (opcode % 128) = Extract(word, <<0, 7>>),
         (rd % 32) = Extract(word, <<7, 12>>),
         (imm % 1048576) = Extract(word, <<12, 32>>)
  PROVE  UWord(opcode, rd, imm) = word
<1> DEFINE args == [opcode |-> opcode, rd |-> rd, imm |-> imm]
<1>1. DOMAIN args = DOMAIN URanges /\ UWord(opcode, rd, imm) = Made(args, URanges)
  BY DEF UWord, URanges
<1>2. args["opcode"] = opcode /\ args["rd"] = rd /\ args["imm"] = imm
  OBVIOUS
<1>3. DOMAIN URanges = {"opcode", "rd", "imm"}
  BY DEF URanges
<1>4. /\ URanges["opcode"] = <<0, 7>>
      /\ URanges["rd"] = <<7, 12>>
      /\ URanges["imm"] = <<12, 32>>
  BY DEF URanges
<1> HIDE DEF args
<1>5. /\ args["opcode"] \in Int
      /\ args["opcode"] % Power(URanges["opcode"][2] - URanges["opcode"][1]) =
           Extract(word, URanges["opcode"])
  <2>1. URanges["opcode"][2] - URanges["opcode"][1] = 7
    BY <1>4
  <2>2. Power(7) = 128
    BY Powers DEF Power
  <2> QED BY <1>2, <1>4, <2>1, <2>2
<1>6. /\ args["rd"] \in Int
      /\ args["rd"] % Power(URanges["rd"][2] - URanges["rd"][1]) =
           Extract(word, URanges["rd"])
  <2>1. URanges["rd"][2] - URanges["rd"][1] = 5
    BY <1>4
  <2>2. Power(5) = 32
    BY Powers DEF Power
  <2> QED BY <1>2, <1>4, <2>1, <2>2
<1>7. /\ args["imm"] \in Int
      /\ args["imm"] % Power(URanges["imm"][2] - URanges["imm"][1]) =
           Extract(word, URanges["imm"])
  <2>1. URanges["imm"][2] - URanges["imm"][1] = 20
    BY <1>4
  <2>2. Power(20) = 1048576
    BY Powers DEF Power
  <2> QED BY <1>2, <1>4, <2>1, <2>2
<1>8. \A e \in DOMAIN URanges : /\ args[e] \in Int
           /\ args[e] % Power(URanges[e][2] - URanges[e][1]) = Extract(word, URanges[e])
  BY <1>3, <1>5, <1>6, <1>7
<1> QED BY <1>1, <1>8, RangesShare, MadeOfFields

LEMMA JFields ==
  ASSUME NEW opcode, NEW rd, NEW imm19_12, NEW imm11, NEW imm10_1, NEW imm20, NEW word,
         word = JWord(opcode, rd, imm19_12, imm11, imm10_1, imm20)
  PROVE  /\ word \subseteq 0 .. 31
         /\ opcode \in Int => Extract(word, <<0, 7>>) = opcode % 128
         /\ rd \in Int => Extract(word, <<7, 12>>) = rd % 32
         /\ imm19_12 \in Int => Extract(word, <<12, 20>>) = imm19_12 % 256
         /\ imm11 \in Int => Extract(word, <<20, 21>>) = imm11 % 2
         /\ imm10_1 \in Int => Extract(word, <<21, 31>>) = imm10_1 % 1024
         /\ imm20 \in Int => Extract(word, <<31, 32>>) = imm20 % 2
<1> DEFINE args == [opcode |-> opcode, rd |-> rd, imm19_12 |-> imm19_12, imm11 |-> imm11,
                    imm10_1 |-> imm10_1, imm20 |-> imm20]
<1>1. DOMAIN args = DOMAIN JRanges /\ word = Made(args, JRanges)
  BY DEF JWord, JRanges
<1>2. args["opcode"] = opcode /\ args["rd"] = rd /\ args["imm19_12"] = imm19_12 /\
      args["imm11"] = imm11 /\ args["imm10_1"] = imm10_1 /\ args["imm20"] = imm20
  OBVIOUS
<1>3. DOMAIN JRanges = {"opcode", "rd", "imm19_12", "imm11", "imm10_1", "imm20"}
  BY DEF JRanges
<1>4. /\ JRanges["opcode"] = <<0, 7>>
      /\ JRanges["rd"] = <<7, 12>>
      /\ JRanges["imm19_12"] = <<12, 20>>
      /\ JRanges["imm11"] = <<20, 21>>
      /\ JRanges["imm10_1"] = <<21, 31>>
      /\ JRanges["imm20"] = <<31, 32>>
  BY DEF JRanges
<1> HIDE DEF args
<1>5. /\ word \subseteq 0 .. 31
      /\ \A e \in DOMAIN JRanges : args[e] \in Int =>
           Extract(word, JRanges[e]) = args[e] % Power(JRanges[e][2] - JRanges[e][1])
  BY <1>1, RangesShare, MadeFields
<1>6. opcode \in Int => Extract(word, <<0, 7>>) = opcode % 128
  <2>1. JRanges["opcode"][2] - JRanges["opcode"][1] = 7 /\ "opcode" \in DOMAIN JRanges
    BY <1>3, <1>4
  <2>2. Power(7) = 128
    BY Powers DEF Power
  <2> QED BY <1>2, <1>4, <1>5, <2>1, <2>2
<1>7. rd \in Int => Extract(word, <<7, 12>>) = rd % 32
  <2>1. JRanges["rd"][2] - JRanges["rd"][1] = 5 /\ "rd" \in DOMAIN JRanges
    BY <1>3, <1>4
  <2>2. Power(5) = 32
    BY Powers DEF Power
  <2> QED BY <1>2, <1>4, <1>5, <2>1, <2>2
<1>8. imm19_12 \in Int => Extract(word, <<12, 20>>) = imm19_12 % 256
  <2>1. JRanges["imm19_12"][2] - JRanges["imm19_12"][1] = 8 /\ "imm19_12" \in DOMAIN JRanges
    BY <1>3, <1>4
  <2>2. Power(8) = 256
    BY Powers DEF Power
  <2> QED BY <1>2, <1>4, <1>5, <2>1, <2>2
<1>9. imm11 \in Int => Extract(word, <<20, 21>>) = imm11 % 2
  <2>1. JRanges["imm11"][2] - JRanges["imm11"][1] = 1 /\ "imm11" \in DOMAIN JRanges
    BY <1>3, <1>4
  <2>2. Power(1) = 2
    BY Powers DEF Power
  <2> QED BY <1>2, <1>4, <1>5, <2>1, <2>2
<1>10. imm10_1 \in Int => Extract(word, <<21, 31>>) = imm10_1 % 1024
  <2>1. JRanges["imm10_1"][2] - JRanges["imm10_1"][1] = 10 /\ "imm10_1" \in DOMAIN JRanges
    BY <1>3, <1>4
  <2>2. Power(10) = 1024
    BY Powers DEF Power
  <2> QED BY <1>2, <1>4, <1>5, <2>1, <2>2
<1>11. imm20 \in Int => Extract(word, <<31, 32>>) = imm20 % 2
  <2>1. JRanges["imm20"][2] - JRanges["imm20"][1] = 1 /\ "imm20" \in DOMAIN JRanges
    BY <1>3, <1>4
  <2>2. Power(1) = 2
    BY Powers DEF Power
  <2> QED BY <1>2, <1>4, <1>5, <2>1, <2>2
<1> QED BY <1>5, <1>6, <1>7, <1>8, <1>9, <1>10, <1>11

LEMMA JOfFields ==
  ASSUME NEW opcode \in Int, NEW rd \in Int, NEW imm19_12 \in Int, NEW imm11 \in Int,
         NEW imm10_1 \in Int, NEW imm20 \in Int, NEW word \in SUBSET (0 .. 31),
         (opcode % 128) = Extract(word, <<0, 7>>),
         (rd % 32) = Extract(word, <<7, 12>>),
         (imm19_12 % 256) = Extract(word, <<12, 20>>),
         (imm11 % 2) = Extract(word, <<20, 21>>),
         (imm10_1 % 1024) = Extract(word, <<21, 31>>),
         (imm20 % 2) = Extract(word, <<31, 32>>)
  PROVE  JWord(opcode, rd, imm19_12, imm11, imm10_1, imm20) = word
<1> DEFINE args == [opcode |-> opcode, rd |-> rd, imm19_12 |-> imm19_12, imm11 |-> imm11,
                    imm10_1 |-> imm10_1, imm20 |-> imm20]
<1>1. DOMAIN args = DOMAIN JRanges /\ JWord(opcode, rd, imm19_12, imm11, imm10_1, imm20) =
        Made(args, JRanges)
  BY DEF JWord, JRanges
<1>2. args["opcode"] = opcode /\ args["rd"] = rd /\ args["imm19_12"] = imm19_12 /\
      args["imm11"] = imm11 /\ args["imm10_1"] = imm10_1 /\ args["imm20"] = imm20
  OBVIOUS
<1>3. DOMAIN JRanges = {"opcode", "rd", "imm19_12", "imm11", "imm10_1", "imm20"}
  BY DEF JRanges
<1>4. /\ JRanges["opcode"] = <<0, 7>>
      /\ JRanges["rd"] = <<7, 12>>
      /\ JRanges["imm19_12"] = <<12, 20>>
      /\ JRanges["imm11"] = <<20, 21>>
      /\ JRanges["imm10_1"] = <<21, 31>>
      /\ JRanges["imm20"] = <<31, 32>>
  BY DEF JRanges
<1> HIDE DEF args
<1>5. /\ args["opcode"] \in Int
      /\ args["opcode"] % Power(JRanges["opcode"][2] - JRanges["opcode"][1]) =
           Extract(word, JRanges["opcode"])
  <2>1. JRanges["opcode"][2] - JRanges["opcode"][1] = 7
    BY <1>4
  <2>2. Power(7) = 128
    BY Powers DEF Power
  <2> QED BY <1>2, <1>4, <2>1, <2>2
<1>6. /\ args["rd"] \in Int
      /\ args["rd"] % Power(JRanges["rd"][2] - JRanges["rd"][1]) =
           Extract(word, JRanges["rd"])
  <2>1. JRanges["rd"][2] - JRanges["rd"][1] = 5
    BY <1>4
  <2>2. Power(5) = 32
    BY Powers DEF Power
  <2> QED BY <1>2, <1>4, <2>1, <2>2
<1>7. /\ args["imm19_12"] \in Int
      /\ args["imm19_12"] % Power(JRanges["imm19_12"][2] - JRanges["imm19_12"][1]) =
           Extract(word, JRanges["imm19_12"])
  <2>1. JRanges["imm19_12"][2] - JRanges["imm19_12"][1] = 8
    BY <1>4
  <2>2. Power(8) = 256
    BY Powers DEF Power
  <2> QED BY <1>2, <1>4, <2>1, <2>2
<1>8. /\ args["imm11"] \in Int
      /\ args["imm11"] % Power(JRanges["imm11"][2] - JRanges["imm11"][1]) =
           Extract(word, JRanges["imm11"])
  <2>1. JRanges["imm11"][2] - JRanges["imm11"][1] = 1
    BY <1>4
  <2>2. Power(1) = 2
    BY Powers DEF Power
  <2> QED BY <1>2, <1>4, <2>1, <2>2
<1>9. /\ args["imm10_1"] \in Int
      /\ args["imm10_1"] % Power(JRanges["imm10_1"][2] - JRanges["imm10_1"][1]) =
           Extract(word, JRanges["imm10_1"])
  <2>1. JRanges["imm10_1"][2] - JRanges["imm10_1"][1] = 10
    BY <1>4
  <2>2. Power(10) = 1024
    BY Powers DEF Power
  <2> QED BY <1>2, <1>4, <2>1, <2>2
<1>10. /\ args["imm20"] \in Int
      /\ args["imm20"] % Power(JRanges["imm20"][2] - JRanges["imm20"][1]) =
           Extract(word, JRanges["imm20"])
  <2>1. JRanges["imm20"][2] - JRanges["imm20"][1] = 1
    BY <1>4
  <2>2. Power(1) = 2
    BY Powers DEF Power
  <2> QED BY <1>2, <1>4, <2>1, <2>2
<1>11. \A e \in DOMAIN JRanges : /\ args[e] \in Int
           /\ args[e] % Power(JRanges[e][2] - JRanges[e][1]) = Extract(word, JRanges[e])
  BY <1>3, <1>5, <1>6, <1>7, <1>8, <1>9, <1>10
<1> QED BY <1>1, <1>11, RangesShare, MadeOfFields

\* args are kwargs ++ more; are without some names.
IsPlus(args, kwargs, more) ==
  /\ args = kwargs ++ more
  /\ args = [e \in DOMAIN args |-> args[e]]
  /\ DOMAIN args = DOMAIN kwargs \cup DOMAIN more
  /\ \A e \in DOMAIN more : args[e] = more[e]
  /\ \A e \in DOMAIN kwargs : e \notin DOMAIN more => args[e] = kwargs[e]

IsDrop(args, kwargs, names) ==
  /\ args = Drop(kwargs, names)
  /\ DOMAIN args = DOMAIN kwargs \ names
  /\ \A e \in DOMAIN kwargs : e \notin names => args[e] = kwargs[e]

\* One function overriding another, and the removal of names.
LEMMA PlusIs == \A kwargs, more : IsPlus(kwargs ++ more, kwargs, more)
<1> TAKE kwargs, more
<1> DEFINE args == kwargs ++ more
<1>1. DOMAIN args = DOMAIN kwargs \cup DOMAIN more /\ args = [e \in DOMAIN args |-> args[e]]
  BY DEF ++
<1>2. \A e \in DOMAIN more : args[e] = more[e]
  BY DEF ++
<1>3. \A e \in DOMAIN kwargs : e \notin DOMAIN more => args[e] = kwargs[e]
  BY DEF ++
<1> QED BY <1>1, <1>2, <1>3 DEF IsPlus

LEMMA DropIs == \A kwargs, names : IsDrop(Drop(kwargs, names), kwargs, names)
BY DEF IsDrop, Drop, Restrict

\* The arguments with which an instruction makes a word, and what it says of those it
\* was given; and the word of those that it accepts.
MakesWord(word, layout, ranges, defaults, kwargs, given, more) ==
  \E args :
    /\ IsPlus(args, defaults, more) /\ DOMAIN args = layout /\ word = Made(args, ranges)
    /\ DOMAIN more \subseteq layout
    /\ DOMAIN more \cap DOMAIN given \cap (DOMAIN defaults \cup DOMAIN kwargs) = {}

\* The word that value makes of an instruction's transformed arguments, if it makes one.
LEMMA ValueMakes ==
  \A insn, given, all, more :
    IsPlus(all, insn.kwargs, given) /\ more = Applied(insn.xfrms, all)
    /\ value(insn, given) # Refused
    => MakesWord(value(insn, given), ToSet(insn.cls.layout), insn.cls.ranges,
                 insn.cls.defaults, insn.kwargs, given, more)
<1> SUFFICES ASSUME NEW insn, NEW given, NEW all, IsPlus(all, insn.kwargs, given),
                    NEW more, more = Applied(insn.xfrms, all), value(insn, given) # Refused
             PROVE  MakesWord(value(insn, given), ToSet(insn.cls.layout), insn.cls.ranges,
                              insn.cls.defaults, insn.kwargs, given, more)
  OBVIOUS
<1>1. Accepts(insn, given) /\ DOMAIN args_for(insn, given) = ToSet(insn.cls.layout)
  BY DEF value
<1>2. value(insn, given) = Made(args_for(insn, given), insn.cls.ranges)
  BY <1>1 DEF value, Made
<1>3. Combined(insn, given) = more
  BY DEF Combined, IsPlus
<1>4. IsPlus(args_for(insn, given), insn.cls.defaults, more)
  BY <1>3, PlusIs DEF args_for
<1>5. /\ DOMAIN more \subseteq ToSet(insn.cls.layout)
      /\ DOMAIN more \cap DOMAIN given \cap
           (DOMAIN insn.cls.defaults \cup DOMAIN insn.kwargs) = {}
  BY <1>1, <1>3 DEF Accepts
<1> QED BY <1>1, <1>2, <1>4, <1>5 DEF MakesWord

\* And it makes one, if the arguments have all fields and no other.
LEMMA ValueOf ==
  \A insn, given, all, more :
    IsPlus(all, insn.kwargs, given) /\ more = Applied(insn.xfrms, all)
    => \A word : MakesWord(word, ToSet(insn.cls.layout), insn.cls.ranges,
                           insn.cls.defaults, insn.kwargs, given, more)
                  => value(insn, given) = word
<1> SUFFICES ASSUME NEW insn, NEW given, NEW all, IsPlus(all, insn.kwargs, given),
                    NEW more, more = Applied(insn.xfrms, all), NEW word,
                    MakesWord(word, ToSet(insn.cls.layout), insn.cls.ranges,
                              insn.cls.defaults, insn.kwargs, given, more)
             PROVE  value(insn, given) = word
  OBVIOUS
<1>1. PICK args :
        /\ IsPlus(args, insn.cls.defaults, more) /\ DOMAIN args = ToSet(insn.cls.layout)
        /\ word = Made(args, insn.cls.ranges)
        /\ DOMAIN more \subseteq ToSet(insn.cls.layout)
        /\ DOMAIN more \cap DOMAIN given \cap
             (DOMAIN insn.cls.defaults \cup DOMAIN insn.kwargs) = {}
  BY DEF MakesWord
<1>2. Combined(insn, given) = more
  BY DEF Combined, IsPlus
<1>3. args_for(insn, given) = args
  BY <1>1, <1>2 DEF args_for, IsPlus
<1>4. Accepts(insn, given)
  BY <1>1, <1>2 DEF Accepts
<1> QED BY <1>1, <1>3, <1>4 DEF value, Made

\* What an instruction matches: the word has what it knows, and the rest goes back
\* through the transforms.
Knows(known, word, ranges) == \A e \in DOMAIN known : Extract(word, ranges[e]) = known[e]
Rest(known, word, layout, ranges) ==
  [e \in layout \ DOMAIN known |-> Extract(word, ranges[e])]

\* match_value compares the fields that are known and reverses the transforms on the rest.
LEMMA MatchIs ==
  \A insn, all, known :
    IsPlus(all, insn.kwargs, <<>>)
    /\ IsPlus(known, insn.cls.defaults, Applied(insn.xfrms, all))
    => \A word : match_value(insn, word) =
         IF Knows(known, word, insn.cls.ranges)
           THEN Reversed(insn.xfrms, Rest(known, word, ToSet(insn.cls.layout), insn.cls.ranges))
           ELSE NoMatch
<1> SUFFICES ASSUME NEW insn, NEW all, IsPlus(all, insn.kwargs, <<>>), NEW known,
                    IsPlus(known, insn.cls.defaults, Applied(insn.xfrms, all)), NEW word
             PROVE  match_value(insn, word) =
         IF Knows(known, word, insn.cls.ranges)
           THEN Reversed(insn.xfrms, Rest(known, word, ToSet(insn.cls.layout), insn.cls.ranges))
           ELSE NoMatch
  OBVIOUS
<1>1. Combined(insn, <<>>) = Applied(insn.xfrms, all)
  BY DEF Combined, IsPlus
<1>2. args_for(insn, <<>>) = known
  BY <1>1 DEF args_for, IsPlus
<1> QED BY <1>2 DEF match_value, Knows, Rest
-----------------------------------------------------------------------------
(* What each transform makes, forwards and backwards. *)

\* A transform whose inputs are not there passes the arguments on.
LEMMA ForwardNot ==
  \A x, kwargs : ~(ToSet(x.inputs) \subseteq DOMAIN kwargs) => Forward(x, kwargs) = kwargs
BY DEF Forward

\* One whose inputs are there replaces them by the fields that they make.
LEMMA ForwardIs ==
  \A x, kwargs, left :
    ToSet(x.inputs) \subseteq DOMAIN kwargs /\ IsDrop(left, kwargs, ToSet(x.inputs))
    => IsPlus(Forward(x, kwargs), left, inputs_to_layout(x, kwargs))
<1> SUFFICES ASSUME NEW x, NEW kwargs, NEW left, ToSet(x.inputs) \subseteq DOMAIN kwargs,
                    IsDrop(left, kwargs, ToSet(x.inputs))
             PROVE  IsPlus(Forward(x, kwargs), left, inputs_to_layout(x, kwargs))
  OBVIOUS
<1>1. left = Drop(kwargs, ToSet(x.inputs))
  BY DEF IsDrop
<1>2. Forward(x, kwargs) = left ++ inputs_to_layout(x, kwargs)
  BY <1>1 DEF Forward
<1> QED BY <1>2, PlusIs

LEMMA BackwardNot ==
  \A x, kwargs : kwargs # NoMatch /\ ~(ToSet(x.layout) \subseteq DOMAIN kwargs)
    => Backward(x, kwargs) = kwargs
BY DEF Backward

\* A reversed transform replaces its fields by the inputs that they come from.
LEMMA BackwardIs ==
  \A x, kwargs, left :
    kwargs # NoMatch /\ ToSet(x.layout) \subseteq DOMAIN kwargs
    /\ IsDrop(left, kwargs, ToSet(x.layout)) /\ layout_to_inputs(x, kwargs) # NoMatch
    => IsPlus(Backward(x, kwargs), left, layout_to_inputs(x, kwargs))
<1> SUFFICES ASSUME NEW x, NEW kwargs, NEW left, kwargs # NoMatch,
                    ToSet(x.layout) \subseteq DOMAIN kwargs,
                    IsDrop(left, kwargs, ToSet(x.layout)),
                    layout_to_inputs(x, kwargs) # NoMatch
             PROVE  IsPlus(Backward(x, kwargs), left, layout_to_inputs(x, kwargs))
  OBVIOUS
<1>1. left = Drop(kwargs, ToSet(x.layout))
  BY DEF IsDrop
<1>2. Backward(x, kwargs) = left ++ layout_to_inputs(x, kwargs)
  BY <1>1 DEF Backward
<1> QED BY <1>2, PlusIs

LEMMA BackwardNoMatch ==
  \A x, kwargs : ToSet(x.layout) \subseteq DOMAIN kwargs
    /\ layout_to_inputs(x, kwargs) = NoMatch => Backward(x, kwargs) = NoMatch
BY DEF Backward

LEMMA NotNoMatch == \A kwargs : "no_match" \notin DOMAIN kwargs => kwargs # NoMatch
BY DEF NoMatch

\* What a transform does depends on its kind.
LEMMA KindsForth ==
  ASSUME NEW x, NEW args
  PROVE  /\ x.kind = "Imm" => inputs_to_layout(x, args) = ImmToLayout(x, args)
         /\ x.kind = "Shamt" => inputs_to_layout(x, args) = ShamtToLayout(x, args)
         /\ x.kind = "RS1Off" => inputs_to_layout(x, args) = RS1OffToLayout(x, args)
         /\ x.kind = "Fence" => inputs_to_layout(x, args) = FenceToLayout(x, args)
         /\ x.kind = "System" => inputs_to_layout(x, args) = SystemToLayout(x, args)
         /\ x.kind = "Check" => inputs_to_layout(x, args) = CheckToLayout(x, args)
<1>1. x.kind = "Imm" => inputs_to_layout(x, args) = ImmToLayout(x, args)
  BY SMT DEF inputs_to_layout
<1>2. x.kind = "Shamt" => inputs_to_layout(x, args) = ShamtToLayout(x, args)
  BY SMT DEF inputs_to_layout
<1>3. x.kind = "RS1Off" => inputs_to_layout(x, args) = RS1OffToLayout(x, args)
  BY SMT DEF inputs_to_layout
<1>4. x.kind = "Fence" => inputs_to_layout(x, args) = FenceToLayout(x, args)
  BY SMT DEF inputs_to_layout
<1>5. x.kind = "System" => inputs_to_layout(x, args) = SystemToLayout(x, args)
  BY SMT DEF inputs_to_layout
<1>6. x.kind = "Check" => inputs_to_layout(x, args) = CheckToLayout(x, args)
  BY SMT DEF inputs_to_layout
<1> QED BY <1>1, <1>2, <1>3, <1>4, <1>5, <1>6

LEMMA KindsBack ==
  ASSUME NEW x, NEW args
  PROVE  /\ x.kind = "Imm" => layout_to_inputs(x, args) = ImmToInputs(x, args)
         /\ x.kind = "Shamt" => layout_to_inputs(x, args) = ShamtToInputs(x, args)
         /\ x.kind = "RS1Off" => layout_to_inputs(x, args) = RS1OffToInputs(x, args)
         /\ x.kind = "Fence" => layout_to_inputs(x, args) = FenceToInputs(x, args)
         /\ x.kind = "Check" => layout_to_inputs(x, args) = CheckToInputs(x, args)
<1>1. x.kind = "Imm" => layout_to_inputs(x, args) = ImmToInputs(x, args)
  BY SMT DEF layout_to_inputs
<1>2. x.kind = "Shamt" => layout_to_inputs(x, args) = ShamtToInputs(x, args)
  BY SMT DEF layout_to_inputs
<1>3. x.kind = "RS1Off" => layout_to_inputs(x, args) = RS1OffToInputs(x, args)
  BY SMT DEF layout_to_inputs
<1>4. x.kind = "Fence" => layout_to_inputs(x, args) = FenceToInputs(x, args)
  BY SMT DEF layout_to_inputs
<1>5. x.kind = "Check" => layout_to_inputs(x, args) = CheckToInputs(x, args)
  BY SMT DEF layout_to_inputs
<1> QED BY <1>1, <1>2, <1>3, <1>4, <1>5

LEMMA XfrmInputs ==
  /\ ToSet(ImmXfrm(S).inputs) = {"imm"}
  /\ ToSet(ImmXfrm(B).inputs) = {"imm"}
  /\ ToSet(ImmXfrm(J).inputs) = {"imm"}
  /\ ToSet(RS1OffXfrm.inputs) = {"rs1off"}
  /\ ToSet(SystemXfrm.inputs) = {"funct"}
  /\ ToSet(CheckXfrm.inputs) = {"imm"}
  /\ \A p : ToSet(ShamtXfrm(p).inputs) = {"shamt"}
  /\ \A p : ToSet(FenceXfrm(p).inputs) = {"pred", "succ"}
<1>1. /\ ToSet(<<"funct">>) = {"funct"}
      /\ ToSet(<<"imm">>) = {"imm"}
      /\ ToSet(<<"pred", "succ">>) = {"pred", "succ"}
      /\ ToSet(<<"rs1off">>) = {"rs1off"}
      /\ ToSet(<<"shamt">>) = {"shamt"}
  BY DEF ToSet
<1> QED BY <1>1, XfrmParts

\* XForth and XBack, for each transform X: the fields of its inputs, the inputs of its
\* fields.
LEMMA ShamtForth ==
  \A p, args : 
    inputs_to_layout(ShamtXfrm(p), args) =
      IF args["shamt"] \in 0 .. 31 THEN [imm |-> p * 32 + args["shamt"]] ELSE Assertion
<1> TAKE p, args
<1>1. ShamtXfrm(p).kind = "Shamt"
  BY DEF ShamtXfrm
<1>2. inputs_to_layout(ShamtXfrm(p), args) = ShamtToLayout(ShamtXfrm(p), args)
  BY <1>1, KindsForth
<1>3. ShamtToLayout(ShamtXfrm(p), args) =
      IF args["shamt"] \in 0 .. 31 THEN [imm |-> p * 32 + args["shamt"]] ELSE Assertion
  BY DEF ShamtToLayout, ShamtXfrm
<1> QED BY <1>2, <1>3

LEMMA RS1OffForth ==
  \A args : 
    inputs_to_layout(RS1OffXfrm, args) =
      [imm |-> args["rs1off"][1], rs1 |-> args["rs1off"][2]]
<1> TAKE args
<1>1. RS1OffXfrm.kind = "RS1Off"
  BY DEF RS1OffXfrm
<1>2. inputs_to_layout(RS1OffXfrm, args) = RS1OffToLayout(RS1OffXfrm, args)
  BY <1>1, KindsForth
<1>3. RS1OffToLayout(RS1OffXfrm, args) =
      [imm |-> args["rs1off"][1], rs1 |-> args["rs1off"][2]]
  BY DEF RS1OffToLayout, RS1OffXfrm
<1> QED BY <1>2, <1>3

LEMMA FenceForth ==
  \A p, args : 
    inputs_to_layout(FenceXfrm(p), args) =
      IF args["pred"] = {} \/ args["succ"] = {} THEN Assertion
      ELSE [imm |-> fence_arg(args["succ"]) + 16 * fence_arg(args["pred"]) + 256 * p]
<1> TAKE p, args
<1>1. FenceXfrm(p).kind = "Fence"
  BY DEF FenceXfrm
<1>2. inputs_to_layout(FenceXfrm(p), args) = FenceToLayout(FenceXfrm(p), args)
  BY <1>1, KindsForth
<1>3. FenceToLayout(FenceXfrm(p), args) =
      IF args["pred"] = {} \/ args["succ"] = {} THEN Assertion
      ELSE [imm |-> fence_arg(args["succ"]) + 16 * fence_arg(args["pred"]) + 256 * p]
  BY DEF FenceToLayout, FenceXfrm
<1> QED BY <1>2, <1>3

LEMMA SystemForth ==
  \A args : 
    inputs_to_layout(SystemXfrm, args) =
      [funct3 |-> args["funct"] % 8, imm |-> args["funct"] \div 8]
<1> TAKE args
<1>1. SystemXfrm.kind = "System"
  BY DEF SystemXfrm
<1>2. inputs_to_layout(SystemXfrm, args) = SystemToLayout(SystemXfrm, args)
  BY <1>1, KindsForth
<1>3. SystemToLayout(SystemXfrm, args) =
      [funct3 |-> args["funct"] % 8, imm |-> args["funct"] \div 8]
  BY DEF SystemToLayout, SystemXfrm
<1> QED BY <1>2, <1>3

LEMMA CheckForth ==
  \A args : 
    inputs_to_layout(CheckXfrm, args) =
      IF args["imm"] \in -(2^20 - 1) .. 2^20 - 1 THEN [imm |-> args["imm"]] ELSE Assertion
<1> TAKE args
<1>1. CheckXfrm.kind = "Check"
  BY DEF CheckXfrm
<1>2. inputs_to_layout(CheckXfrm, args) = CheckToLayout(CheckXfrm, args)
  BY <1>1, KindsForth
<1>3. CheckToLayout(CheckXfrm, args) =
      IF args["imm"] \in -(2^20 - 1) .. 2^20 - 1 THEN [imm |-> args["imm"]] ELSE Assertion
  BY DEF CheckToLayout, CheckXfrm
<1> QED BY <1>2, <1>3

LEMMA ImmSForth ==
  \A args : inputs_to_layout(ImmXfrm(S), args) =
    [imm4_0 |-> (args["imm"] \div 1) % 32,
     imm11_5 |-> (args["imm"] \div 32) % 128]
<1> TAKE args
<1> DEFINE m == inputs_to_layout(ImmXfrm(S), args)
<1>1. ToSet(ImmXfrm(S).layout) = {"imm4_0", "imm11_5"}
  BY XfrmParts
<1>2. m = ImmToLayout(ImmXfrm(S), args)
  <2>1. ImmXfrm(S).kind = "Imm"
    BY ImmXfrmS
  <2> QED BY <2>1, KindsForth
<1>3. m = [e \in {"imm4_0", "imm11_5"} |->
             (args["imm"] \div 2^ImmBottom[e]) % 2^(ImmTop[e] - ImmBottom[e] + 1)]
  BY <1>1, <1>2 DEF ImmToLayout
<1> HIDE DEF m
<1>4. /\ 2^ImmBottom["imm4_0"] = 1 /\ 2^(ImmTop["imm4_0"] - ImmBottom["imm4_0"] + 1) = 32
      /\ 2^ImmBottom["imm11_5"] = 32 /\ 2^(ImmTop["imm11_5"] - ImmBottom["imm11_5"] + 1) = 128
  BY Powers DEF ImmBottom, ImmTop
<1>5. /\ m["imm4_0"] = (args["imm"] \div 2^ImmBottom["imm4_0"]) %
           2^(ImmTop["imm4_0"] - ImmBottom["imm4_0"] + 1)
      /\ m["imm11_5"] = (args["imm"] \div 2^ImmBottom["imm11_5"]) %
           2^(ImmTop["imm11_5"] - ImmBottom["imm11_5"] + 1)
  BY <1>3
<1>6. /\ m["imm4_0"] = (args["imm"] \div 1) % 32
      /\ m["imm11_5"] = (args["imm"] \div 32) % 128
  BY <1>4, <1>5
<1>7. DOMAIN m = {"imm4_0", "imm11_5"} /\ m = [e \in DOMAIN m |-> m[e]]
  BY <1>3
<1>8. m = [imm4_0 |-> (args["imm"] \div 1) % 32,
           imm11_5 |-> (args["imm"] \div 32) % 128]
  BY <1>6, <1>7
<1> QED BY <1>8 DEF m

LEMMA ImmBForth ==
  \A args : inputs_to_layout(ImmXfrm(B), args) =
    [imm11 |-> (args["imm"] \div 2048) % 2,
     imm4_1 |-> (args["imm"] \div 2) % 16,
     imm10_5 |-> (args["imm"] \div 32) % 64,
     imm12 |-> (args["imm"] \div 4096) % 2]
<1> TAKE args
<1> DEFINE m == inputs_to_layout(ImmXfrm(B), args)
<1>1. ToSet(ImmXfrm(B).layout) = {"imm11", "imm4_1", "imm10_5", "imm12"}
  BY XfrmParts
<1>2. m = ImmToLayout(ImmXfrm(B), args)
  <2>1. ImmXfrm(B).kind = "Imm"
    BY ImmXfrmB
  <2> QED BY <2>1, KindsForth
<1>3. m = [e \in {"imm11", "imm4_1", "imm10_5", "imm12"} |->
             (args["imm"] \div 2^ImmBottom[e]) % 2^(ImmTop[e] - ImmBottom[e] + 1)]
  BY <1>1, <1>2 DEF ImmToLayout
<1> HIDE DEF m
<1>4. /\ 2^ImmBottom["imm11"] = 2048 /\ 2^(ImmTop["imm11"] - ImmBottom["imm11"] + 1) = 2
      /\ 2^ImmBottom["imm4_1"] = 2 /\ 2^(ImmTop["imm4_1"] - ImmBottom["imm4_1"] + 1) = 16
      /\ 2^ImmBottom["imm10_5"] = 32 /\ 2^(ImmTop["imm10_5"] - ImmBottom["imm10_5"] + 1) = 64
      /\ 2^ImmBottom["imm12"] = 4096 /\ 2^(ImmTop["imm12"] - ImmBottom["imm12"] + 1) = 2
  BY Powers DEF ImmBottom, ImmTop
<1>5. /\ m["imm11"] = (args["imm"] \div 2^ImmBottom["imm11"]) %
           2^(ImmTop["imm11"] - ImmBottom["imm11"] + 1)
      /\ m["imm4_1"] = (args["imm"] \div 2^ImmBottom["imm4_1"]) %
           2^(ImmTop["imm4_1"] - ImmBottom["imm4_1"] + 1)
      /\ m["imm10_5"] = (args["imm"] \div 2^ImmBottom["imm10_5"]) %
           2^(ImmTop["imm10_5"] - ImmBottom["imm10_5"] + 1)
      /\ m["imm12"] = (args["imm"] \div 2^ImmBottom["imm12"]) %
           2^(ImmTop["imm12"] - ImmBottom["imm12"] + 1)
  BY <1>3
<1>6. /\ m["imm11"] = (args["imm"] \div 2048) % 2
      /\ m["imm4_1"] = (args["imm"] \div 2) % 16
      /\ m["imm10_5"] = (args["imm"] \div 32) % 64
      /\ m["imm12"] = (args["imm"] \div 4096) % 2
  BY <1>4, <1>5
<1>7. DOMAIN m = {"imm11", "imm4_1", "imm10_5", "imm12"} /\ m = [e \in DOMAIN m |-> m[e]]
  BY <1>3
<1>8. m = [imm11 |-> (args["imm"] \div 2048) % 2,
           imm4_1 |-> (args["imm"] \div 2) % 16,
           imm10_5 |-> (args["imm"] \div 32) % 64,
           imm12 |-> (args["imm"] \div 4096) % 2]
  BY <1>6, <1>7
<1> QED BY <1>8 DEF m

LEMMA ImmJForth ==
  \A args : inputs_to_layout(ImmXfrm(J), args) =
    [imm19_12 |-> (args["imm"] \div 4096) % 256,
     imm11 |-> (args["imm"] \div 2048) % 2,
     imm10_1 |-> (args["imm"] \div 2) % 1024,
     imm20 |-> (args["imm"] \div 1048576) % 2]
<1> TAKE args
<1> DEFINE m == inputs_to_layout(ImmXfrm(J), args)
<1>1. ToSet(ImmXfrm(J).layout) = {"imm19_12", "imm11", "imm10_1", "imm20"}
  BY XfrmParts
<1>2. m = ImmToLayout(ImmXfrm(J), args)
  <2>1. ImmXfrm(J).kind = "Imm"
    BY ImmXfrmJ
  <2> QED BY <2>1, KindsForth
<1>3. m = [e \in {"imm19_12", "imm11", "imm10_1", "imm20"} |->
             (args["imm"] \div 2^ImmBottom[e]) % 2^(ImmTop[e] - ImmBottom[e] + 1)]
  BY <1>1, <1>2 DEF ImmToLayout
<1> HIDE DEF m
<1>4. /\ 2^ImmBottom["imm19_12"] = 4096 /\
           2^(ImmTop["imm19_12"] - ImmBottom["imm19_12"] + 1) = 256
      /\ 2^ImmBottom["imm11"] = 2048 /\ 2^(ImmTop["imm11"] - ImmBottom["imm11"] + 1) = 2
      /\ 2^ImmBottom["imm10_1"] = 2 /\ 2^(ImmTop["imm10_1"] - ImmBottom["imm10_1"] + 1) = 1024
      /\ 2^ImmBottom["imm20"] = 1048576 /\ 2^(ImmTop["imm20"] - ImmBottom["imm20"] + 1) = 2
  BY Powers DEF ImmBottom, ImmTop
<1>5. /\ m["imm19_12"] = (args["imm"] \div 2^ImmBottom["imm19_12"]) %
           2^(ImmTop["imm19_12"] - ImmBottom["imm19_12"] + 1)
      /\ m["imm11"] = (args["imm"] \div 2^ImmBottom["imm11"]) %
           2^(ImmTop["imm11"] - ImmBottom["imm11"] + 1)
      /\ m["imm10_1"] = (args["imm"] \div 2^ImmBottom["imm10_1"]) %
           2^(ImmTop["imm10_1"] - ImmBottom["imm10_1"] + 1)
      /\ m["imm20"] = (args["imm"] \div 2^ImmBottom["imm20"]) %
           2^(ImmTop["imm20"] - ImmBottom["imm20"] + 1)
  BY <1>3
<1>6. /\ m["imm19_12"] = (args["imm"] \div 4096) % 256
      /\ m["imm11"] = (args["imm"] \div 2048) % 2
      /\ m["imm10_1"] = (args["imm"] \div 2) % 1024
      /\ m["imm20"] = (args["imm"] \div 1048576) % 2
  BY <1>4, <1>5
<1>7. DOMAIN m = {"imm19_12", "imm11", "imm10_1", "imm20"} /\ m = [e \in DOMAIN m |-> m[e]]
  BY <1>3
<1>8. m = [imm19_12 |-> (args["imm"] \div 4096) % 256,
           imm11 |-> (args["imm"] \div 2048) % 2,
           imm10_1 |-> (args["imm"] \div 2) % 1024,
           imm20 |-> (args["imm"] \div 1048576) % 2]
  BY <1>6, <1>7
<1> QED BY <1>8 DEF m

LEMMA ShamtBack ==
  \A p, args : 
    layout_to_inputs(ShamtXfrm(p), args) =
      [shamt |-> args["imm"]]
<1> TAKE p, args
<1>1. ShamtXfrm(p).kind = "Shamt"
  BY DEF ShamtXfrm
<1>2. layout_to_inputs(ShamtXfrm(p), args) = ShamtToInputs(ShamtXfrm(p), args)
  BY <1>1, KindsBack
<1>3. ShamtToInputs(ShamtXfrm(p), args) =
      [shamt |-> args["imm"]]
  BY DEF ShamtToInputs, ShamtXfrm
<1> QED BY <1>2, <1>3

LEMMA RS1OffBack ==
  \A args : 
    layout_to_inputs(RS1OffXfrm, args) =
      [rs1off |-> <<args["imm"], args["rs1"]>>]
<1> TAKE args
<1>1. RS1OffXfrm.kind = "RS1Off"
  BY DEF RS1OffXfrm
<1>2. layout_to_inputs(RS1OffXfrm, args) = RS1OffToInputs(RS1OffXfrm, args)
  BY <1>1, KindsBack
<1>3. RS1OffToInputs(RS1OffXfrm, args) =
      [rs1off |-> <<args["imm"], args["rs1"]>>]
  BY DEF RS1OffToInputs, RS1OffXfrm
<1> QED BY <1>2, <1>3

LEMMA FenceBack ==
  \A p, args : 
    layout_to_inputs(FenceXfrm(p), args) =
      IF args["imm"] \div 256 # p THEN NoMatch
      ELSE [pred |-> arg_fence((args["imm"] \div 16) % 16), succ |-> arg_fence(args["imm"] % 16)]
<1> TAKE p, args
<1>1. FenceXfrm(p).kind = "Fence"
  BY DEF FenceXfrm
<1>2. layout_to_inputs(FenceXfrm(p), args) = FenceToInputs(FenceXfrm(p), args)
  BY <1>1, KindsBack
<1>3. FenceToInputs(FenceXfrm(p), args) =
      IF args["imm"] \div 256 # p THEN NoMatch
      ELSE [pred |-> arg_fence((args["imm"] \div 16) % 16), succ |-> arg_fence(args["imm"] % 16)]
  BY DEF FenceToInputs, FenceXfrm
<1> QED BY <1>2, <1>3

LEMMA CheckBack ==
  \A args : 
    layout_to_inputs(CheckXfrm, args) =
      [imm |-> args["imm"]]
<1> TAKE args
<1>1. CheckXfrm.kind = "Check"
  BY DEF CheckXfrm
<1>2. layout_to_inputs(CheckXfrm, args) = CheckToInputs(CheckXfrm, args)
  BY <1>1, KindsBack
<1>3. CheckToInputs(CheckXfrm, args) =
      [imm |-> args["imm"]]
  BY DEF CheckToInputs, CheckXfrm
<1> QED BY <1>2, <1>3

LEMMA ImmSBack ==
  \A args : (args["imm4_0"] \in Int /\ args["imm11_5"] \in Int) =>
    layout_to_inputs(ImmXfrm(S), args) =
      [imm |-> args["imm4_0"] * 1 + args["imm11_5"] * 32]
<1> SUFFICES ASSUME NEW args, args["imm4_0"] \in Int, args["imm11_5"] \in Int
             PROVE  layout_to_inputs(ImmXfrm(S), args) =
      [imm |-> args["imm4_0"] * 1 + args["imm11_5"] * 32]
  OBVIOUS
<1>1. PICK x : x = ImmXfrm(S)
  OBVIOUS
<1>2. layout_to_inputs(x, args) = ImmToInputs(x, args)
  <2>1. x.kind = "Imm"
    BY <1>1, ImmXfrmS
  <2> QED BY <2>1, KindsBack
<1>3. PICK names : names = x.layout /\ names = <<"imm4_0", "imm11_5">>
  BY <1>1, ImmXfrmS
<1>4. /\ Len(names) = 2
      /\ names[1] = "imm4_0" /\ names[2] = "imm11_5"
  BY <1>3
<1>5. /\ 2^ImmBottom["imm4_0"] = 1
      /\ 2^ImmBottom["imm11_5"] = 32
  BY Powers DEF ImmBottom
<1> DEFINE sum[k \in 0 .. Len(x.layout)] ==
        IF k = 0 THEN 0
        ELSE sum[k - 1] + args[x.layout[k]] * 2^ImmBottom[x.layout[k]]
    term == [k \in 1 .. 2 |-> args[names[k]] * 2^ImmBottom[names[k]]]
    f == [k \in 0 .. 2 |-> IF k = 0 THEN 0 ELSE IF k = 1 THEN 0 + term[1] ELSE 0 + term[1] +
      term[2]]
<1>6. /\ term[1] = args["imm4_0"] * 1
      /\ term[2] = args["imm11_5"] * 32
  BY <1>4, <1>5
<1>7. ASSUME NEW k \in 0 .. 2, k # 0 PROVE args[names[k]] * 2^ImmBottom[names[k]] = term[k]
  BY <1>7
<1> HIDE DEF term
<1>8. /\ f[0] = 0
      /\ f[1] = f[0] + term[1]
      /\ f[2] = f[1] + term[2]
  OBVIOUS
<1>9. f = [k \in 0 .. 2 |-> f[k]]
  OBVIOUS
<1>10. f[2] = 0 + term[1] + term[2]
  OBVIOUS
<1> HIDE DEF f
<1>11. \A k \in 0 .. 2 : f[k] = IF k = 0 THEN 0 ELSE f[k - 1] +
         args[names[k]] * 2^ImmBottom[names[k]]
  <2> SUFFICES ASSUME NEW k \in 0 .. 2
               PROVE  f[k] = IF k = 0 THEN 0 ELSE f[k - 1] +
                 args[names[k]] * 2^ImmBottom[names[k]]
    OBVIOUS
  <2>0. CASE k = 0
    BY <1>8, <2>0
  <2>1. CASE k = 1
    <3>1. k - 1 = 0 /\ f[k] = f[0] + term[k]
      BY <1>8, <2>1
    <3> QED BY <1>7, <2>1, <3>1
  <2>2. CASE k = 2
    <3>1. k - 1 = 1 /\ f[k] = f[1] + term[k]
      BY <1>8, <2>2
    <3> QED BY <1>7, <2>2, <3>1
  <2> QED BY <2>0, <2>1, <2>2
<1>12. f = [k \in 0 .. Len(x.layout) |-> IF k = 0 THEN 0
            ELSE f[k - 1] + args[x.layout[k]] * 2^ImmBottom[x.layout[k]]]
  BY <1>3, <1>4, <1>9, <1>11
<1>13. \E g : g = [k \in 0 .. Len(x.layout) |-> IF k = 0 THEN 0
            ELSE g[k - 1] + args[x.layout[k]] * 2^ImmBottom[x.layout[k]]]
  BY <1>12
<1>14. sum = [k \in 0 .. Len(x.layout) |-> IF k = 0 THEN 0
            ELSE sum[k - 1] + args[x.layout[k]] * 2^ImmBottom[x.layout[k]]]
  BY <1>13
<1>15. ImmToInputs(x, args) = [imm |-> sum[Len(x.layout)]]
  BY SMT DEF ImmToInputs
<1> HIDE DEF sum
<1>16. \A k \in 0 .. 2 : sum[k] = IF k = 0 THEN 0 ELSE sum[k - 1] +
         args[names[k]] * 2^ImmBottom[names[k]]
  BY <1>3, <1>4, <1>14
<1>17. sum[0] = 0
  BY <1>16
<1>18. sum[1] = sum[0] + term[1]
  <2>1. PICK k \in 0 .. 2 : k = 1 /\ k # 0 /\ k - 1 = 0
    OBVIOUS
  <2>2. sum[k] = sum[k - 1] + args[names[k]] * 2^ImmBottom[names[k]]
    BY <1>16, <2>1
  <2> QED BY <1>7, <2>1, <2>2
<1>19. sum[2] = sum[1] + term[2]
  <2>1. PICK k \in 0 .. 2 : k = 2 /\ k # 0 /\ k - 1 = 1
    OBVIOUS
  <2>2. sum[k] = sum[k - 1] + args[names[k]] * 2^ImmBottom[names[k]]
    BY <1>16, <2>1
  <2> QED BY <1>7, <2>1, <2>2
<1>20. sum[2] = args["imm4_0"] * 1 + args["imm11_5"] * 32
  BY <1>6, <1>17, <1>18, <1>19
<1>21. layout_to_inputs(x, args) = [imm |-> sum[2]]
  <2>1. Len(x.layout) = 2
    BY <1>3, <1>4
  <2>2. ImmToInputs(x, args) = [imm |-> sum[2]]
    BY <1>15, <2>1
  <2> QED BY <1>2, <2>2
<1> QED BY SMT, <1>1, <1>20, <1>21

LEMMA ImmBBack ==
  \A args : (args["imm11"] \in Int /\ args["imm4_1"] \in Int /\ args["imm10_5"] \in Int /\
    args["imm12"] \in Int) =>
    layout_to_inputs(ImmXfrm(B), args) =
      [imm |-> args["imm11"] * 2048 + args["imm4_1"] * 2 + args["imm10_5"] * 32 +
        args["imm12"] * 4096]
<1> SUFFICES ASSUME NEW args, args["imm11"] \in Int, args["imm4_1"] \in Int,
      args["imm10_5"] \in Int, args["imm12"] \in Int
             PROVE  layout_to_inputs(ImmXfrm(B), args) =
      [imm |-> args["imm11"] * 2048 + args["imm4_1"] * 2 + args["imm10_5"] * 32 +
        args["imm12"] * 4096]
  OBVIOUS
<1>1. PICK x : x = ImmXfrm(B)
  OBVIOUS
<1>2. layout_to_inputs(x, args) = ImmToInputs(x, args)
  <2>1. x.kind = "Imm"
    BY <1>1, ImmXfrmB
  <2> QED BY <2>1, KindsBack
<1>3. PICK names : names = x.layout /\ names = <<"imm11", "imm4_1", "imm10_5", "imm12">>
  BY <1>1, ImmXfrmB
<1>4. /\ Len(names) = 4
      /\ names[1] = "imm11" /\ names[2] = "imm4_1" /\ names[3] = "imm10_5" /\ names[4] = "imm12"
  BY <1>3
<1>5. /\ 2^ImmBottom["imm11"] = 2048
      /\ 2^ImmBottom["imm4_1"] = 2
      /\ 2^ImmBottom["imm10_5"] = 32
      /\ 2^ImmBottom["imm12"] = 4096
  BY Powers DEF ImmBottom
<1> DEFINE sum[k \in 0 .. Len(x.layout)] ==
        IF k = 0 THEN 0
        ELSE sum[k - 1] + args[x.layout[k]] * 2^ImmBottom[x.layout[k]]
    term == [k \in 1 .. 4 |-> args[names[k]] * 2^ImmBottom[names[k]]]
    f == [k \in 0 .. 4 |-> IF k = 0 THEN 0 ELSE IF k = 1 THEN 0 + term[1] ELSE IF k = 2 THEN 0 +
      term[1] + term[2] ELSE IF k = 3 THEN 0 + term[1] + term[2] + term[3] ELSE 0 + term[1] +
      term[2] + term[3] + term[4]]
<1>6. /\ term[1] = args["imm11"] * 2048
      /\ term[2] = args["imm4_1"] * 2
      /\ term[3] = args["imm10_5"] * 32
      /\ term[4] = args["imm12"] * 4096
  BY <1>4, <1>5
<1>7. ASSUME NEW k \in 0 .. 4, k # 0 PROVE args[names[k]] * 2^ImmBottom[names[k]] = term[k]
  BY <1>7
<1> HIDE DEF term
<1>8. /\ f[0] = 0
      /\ f[1] = f[0] + term[1]
      /\ f[2] = f[1] + term[2]
      /\ f[3] = f[2] + term[3]
      /\ f[4] = f[3] + term[4]
  OBVIOUS
<1>9. f = [k \in 0 .. 4 |-> f[k]]
  OBVIOUS
<1>10. f[4] = 0 + term[1] + term[2] + term[3] + term[4]
  OBVIOUS
<1> HIDE DEF f
<1>11. \A k \in 0 .. 4 : f[k] = IF k = 0 THEN 0 ELSE f[k - 1] +
         args[names[k]] * 2^ImmBottom[names[k]]
  <2> SUFFICES ASSUME NEW k \in 0 .. 4
               PROVE  f[k] = IF k = 0 THEN 0 ELSE f[k - 1] +
                 args[names[k]] * 2^ImmBottom[names[k]]
    OBVIOUS
  <2>0. CASE k = 0
    BY <1>8, <2>0
  <2>1. CASE k = 1
    <3>1. k - 1 = 0 /\ f[k] = f[0] + term[k]
      BY <1>8, <2>1
    <3> QED BY <1>7, <2>1, <3>1
  <2>2. CASE k = 2
    <3>1. k - 1 = 1 /\ f[k] = f[1] + term[k]
      BY <1>8, <2>2
    <3> QED BY <1>7, <2>2, <3>1
  <2>3. CASE k = 3
    <3>1. k - 1 = 2 /\ f[k] = f[2] + term[k]
      BY <1>8, <2>3
    <3> QED BY <1>7, <2>3, <3>1
  <2>4. CASE k = 4
    <3>1. k - 1 = 3 /\ f[k] = f[3] + term[k]
      BY <1>8, <2>4
    <3> QED BY <1>7, <2>4, <3>1
  <2> QED BY <2>0, <2>1, <2>2, <2>3, <2>4
<1>12. f = [k \in 0 .. Len(x.layout) |-> IF k = 0 THEN 0
            ELSE f[k - 1] + args[x.layout[k]] * 2^ImmBottom[x.layout[k]]]
  BY <1>3, <1>4, <1>9, <1>11
<1>13. \E g : g = [k \in 0 .. Len(x.layout) |-> IF k = 0 THEN 0
            ELSE g[k - 1] + args[x.layout[k]] * 2^ImmBottom[x.layout[k]]]
  BY <1>12
<1>14. sum = [k \in 0 .. Len(x.layout) |-> IF k = 0 THEN 0
            ELSE sum[k - 1] + args[x.layout[k]] * 2^ImmBottom[x.layout[k]]]
  BY <1>13
<1>15. ImmToInputs(x, args) = [imm |-> sum[Len(x.layout)]]
  BY SMT DEF ImmToInputs
<1> HIDE DEF sum
<1>16. \A k \in 0 .. 4 : sum[k] = IF k = 0 THEN 0 ELSE sum[k - 1] +
         args[names[k]] * 2^ImmBottom[names[k]]
  BY <1>3, <1>4, <1>14
<1>17. sum[0] = 0
  BY <1>16
<1>18. sum[1] = sum[0] + term[1]
  <2>1. PICK k \in 0 .. 4 : k = 1 /\ k # 0 /\ k - 1 = 0
    OBVIOUS
  <2>2. sum[k] = sum[k - 1] + args[names[k]] * 2^ImmBottom[names[k]]
    BY <1>16, <2>1
  <2> QED BY <1>7, <2>1, <2>2
<1>19. sum[2] = sum[1] + term[2]
  <2>1. PICK k \in 0 .. 4 : k = 2 /\ k # 0 /\ k - 1 = 1
    OBVIOUS
  <2>2. sum[k] = sum[k - 1] + args[names[k]] * 2^ImmBottom[names[k]]
    BY <1>16, <2>1
  <2> QED BY <1>7, <2>1, <2>2
<1>20. sum[3] = sum[2] + term[3]
  <2>1. PICK k \in 0 .. 4 : k = 3 /\ k # 0 /\ k - 1 = 2
    OBVIOUS
  <2>2. sum[k] = sum[k - 1] + args[names[k]] * 2^ImmBottom[names[k]]
    BY <1>16, <2>1
  <2> QED BY <1>7, <2>1, <2>2
<1>21. sum[4] = sum[3] + term[4]
  <2>1. PICK k \in 0 .. 4 : k = 4 /\ k # 0 /\ k - 1 = 3
    OBVIOUS
  <2>2. sum[k] = sum[k - 1] + args[names[k]] * 2^ImmBottom[names[k]]
    BY <1>16, <2>1
  <2> QED BY <1>7, <2>1, <2>2
<1>22. sum[4] = args["imm11"] * 2048 + args["imm4_1"] * 2 + args["imm10_5"] * 32 +
         args["imm12"] * 4096
  BY <1>6, <1>17, <1>18, <1>19, <1>20, <1>21
<1>23. layout_to_inputs(x, args) = [imm |-> sum[4]]
  <2>1. Len(x.layout) = 4
    BY <1>3, <1>4
  <2>2. ImmToInputs(x, args) = [imm |-> sum[4]]
    BY <1>15, <2>1
  <2> QED BY <1>2, <2>2
<1> QED BY SMT, <1>1, <1>22, <1>23

LEMMA ImmJBack ==
  \A args : (args["imm19_12"] \in Int /\ args["imm11"] \in Int /\ args["imm10_1"] \in Int /\
    args["imm20"] \in Int) =>
    layout_to_inputs(ImmXfrm(J), args) =
      [imm |-> args["imm19_12"] * 4096 + args["imm11"] * 2048 + args["imm10_1"] * 2 +
        args["imm20"] * 1048576]
<1> SUFFICES ASSUME NEW args, args["imm19_12"] \in Int, args["imm11"] \in Int,
      args["imm10_1"] \in Int, args["imm20"] \in Int
             PROVE  layout_to_inputs(ImmXfrm(J), args) =
      [imm |-> args["imm19_12"] * 4096 + args["imm11"] * 2048 + args["imm10_1"] * 2 +
        args["imm20"] * 1048576]
  OBVIOUS
<1>1. PICK x : x = ImmXfrm(J)
  OBVIOUS
<1>2. layout_to_inputs(x, args) = ImmToInputs(x, args)
  <2>1. x.kind = "Imm"
    BY <1>1, ImmXfrmJ
  <2> QED BY <2>1, KindsBack
<1>3. PICK names : names = x.layout /\ names = <<"imm19_12", "imm11", "imm10_1", "imm20">>
  BY <1>1, ImmXfrmJ
<1>4. /\ Len(names) = 4
      /\ names[1] = "imm19_12" /\ names[2] = "imm11" /\ names[3] = "imm10_1" /\ names[4] = "imm20"
  BY <1>3
<1>5. /\ 2^ImmBottom["imm19_12"] = 4096
      /\ 2^ImmBottom["imm11"] = 2048
      /\ 2^ImmBottom["imm10_1"] = 2
      /\ 2^ImmBottom["imm20"] = 1048576
  BY Powers DEF ImmBottom
<1> DEFINE sum[k \in 0 .. Len(x.layout)] ==
        IF k = 0 THEN 0
        ELSE sum[k - 1] + args[x.layout[k]] * 2^ImmBottom[x.layout[k]]
    term == [k \in 1 .. 4 |-> args[names[k]] * 2^ImmBottom[names[k]]]
    f == [k \in 0 .. 4 |-> IF k = 0 THEN 0 ELSE IF k = 1 THEN 0 + term[1] ELSE IF k = 2 THEN 0 +
      term[1] + term[2] ELSE IF k = 3 THEN 0 + term[1] + term[2] + term[3] ELSE 0 + term[1] +
      term[2] + term[3] + term[4]]
<1>6. /\ term[1] = args["imm19_12"] * 4096
      /\ term[2] = args["imm11"] * 2048
      /\ term[3] = args["imm10_1"] * 2
      /\ term[4] = args["imm20"] * 1048576
  BY <1>4, <1>5
<1>7. ASSUME NEW k \in 0 .. 4, k # 0 PROVE args[names[k]] * 2^ImmBottom[names[k]] = term[k]
  BY <1>7
<1> HIDE DEF term
<1>8. /\ f[0] = 0
      /\ f[1] = f[0] + term[1]
      /\ f[2] = f[1] + term[2]
      /\ f[3] = f[2] + term[3]
      /\ f[4] = f[3] + term[4]
  OBVIOUS
<1>9. f = [k \in 0 .. 4 |-> f[k]]
  OBVIOUS
<1>10. f[4] = 0 + term[1] + term[2] + term[3] + term[4]
  OBVIOUS
<1> HIDE DEF f
<1>11. \A k \in 0 .. 4 : f[k] = IF k = 0 THEN 0 ELSE f[k - 1] +
         args[names[k]] * 2^ImmBottom[names[k]]
  <2> SUFFICES ASSUME NEW k \in 0 .. 4
               PROVE  f[k] = IF k = 0 THEN 0 ELSE f[k - 1] +
                 args[names[k]] * 2^ImmBottom[names[k]]
    OBVIOUS
  <2>0. CASE k = 0
    BY <1>8, <2>0
  <2>1. CASE k = 1
    <3>1. k - 1 = 0 /\ f[k] = f[0] + term[k]
      BY <1>8, <2>1
    <3> QED BY <1>7, <2>1, <3>1
  <2>2. CASE k = 2
    <3>1. k - 1 = 1 /\ f[k] = f[1] + term[k]
      BY <1>8, <2>2
    <3> QED BY <1>7, <2>2, <3>1
  <2>3. CASE k = 3
    <3>1. k - 1 = 2 /\ f[k] = f[2] + term[k]
      BY <1>8, <2>3
    <3> QED BY <1>7, <2>3, <3>1
  <2>4. CASE k = 4
    <3>1. k - 1 = 3 /\ f[k] = f[3] + term[k]
      BY <1>8, <2>4
    <3> QED BY <1>7, <2>4, <3>1
  <2> QED BY <2>0, <2>1, <2>2, <2>3, <2>4
<1>12. f = [k \in 0 .. Len(x.layout) |-> IF k = 0 THEN 0
            ELSE f[k - 1] + args[x.layout[k]] * 2^ImmBottom[x.layout[k]]]
  BY <1>3, <1>4, <1>9, <1>11
<1>13. \E g : g = [k \in 0 .. Len(x.layout) |-> IF k = 0 THEN 0
            ELSE g[k - 1] + args[x.layout[k]] * 2^ImmBottom[x.layout[k]]]
  BY <1>12
<1>14. sum = [k \in 0 .. Len(x.layout) |-> IF k = 0 THEN 0
            ELSE sum[k - 1] + args[x.layout[k]] * 2^ImmBottom[x.layout[k]]]
  BY <1>13
<1>15. ImmToInputs(x, args) = [imm |-> sum[Len(x.layout)]]
  BY SMT DEF ImmToInputs
<1> HIDE DEF sum
<1>16. \A k \in 0 .. 4 : sum[k] = IF k = 0 THEN 0 ELSE sum[k - 1] +
         args[names[k]] * 2^ImmBottom[names[k]]
  BY <1>3, <1>4, <1>14
<1>17. sum[0] = 0
  BY <1>16
<1>18. sum[1] = sum[0] + term[1]
  <2>1. PICK k \in 0 .. 4 : k = 1 /\ k # 0 /\ k - 1 = 0
    OBVIOUS
  <2>2. sum[k] = sum[k - 1] + args[names[k]] * 2^ImmBottom[names[k]]
    BY <1>16, <2>1
  <2> QED BY <1>7, <2>1, <2>2
<1>19. sum[2] = sum[1] + term[2]
  <2>1. PICK k \in 0 .. 4 : k = 2 /\ k # 0 /\ k - 1 = 1
    OBVIOUS
  <2>2. sum[k] = sum[k - 1] + args[names[k]] * 2^ImmBottom[names[k]]
    BY <1>16, <2>1
  <2> QED BY <1>7, <2>1, <2>2
<1>20. sum[3] = sum[2] + term[3]
  <2>1. PICK k \in 0 .. 4 : k = 3 /\ k # 0 /\ k - 1 = 2
    OBVIOUS
  <2>2. sum[k] = sum[k - 1] + args[names[k]] * 2^ImmBottom[names[k]]
    BY <1>16, <2>1
  <2> QED BY <1>7, <2>1, <2>2
<1>21. sum[4] = sum[3] + term[4]
  <2>1. PICK k \in 0 .. 4 : k = 4 /\ k # 0 /\ k - 1 = 3
    OBVIOUS
  <2>2. sum[k] = sum[k - 1] + args[names[k]] * 2^ImmBottom[names[k]]
    BY <1>16, <2>1
  <2> QED BY <1>7, <2>1, <2>2
<1>22. sum[4] = args["imm19_12"] * 4096 + args["imm11"] * 2048 + args["imm10_1"] * 2 +
         args["imm20"] * 1048576
  BY <1>6, <1>17, <1>18, <1>19, <1>20, <1>21
<1>23. layout_to_inputs(x, args) = [imm |-> sum[4]]
  <2>1. Len(x.layout) = 4
    BY <1>3, <1>4
  <2>2. ImmToInputs(x, args) = [imm |-> sum[4]]
    BY <1>15, <2>1
  <2> QED BY <1>2, <2>2
<1> QED BY SMT, <1>1, <1>22, <1>23
-----------------------------------------------------------------------------
(* The words of the instructions, and the arguments that make them. *)

\* The parts of an instruction.
LEMMA InsnParts ==
  \A cls, kwargs, xfrms, asm_args :
    LET insn == Insn(cls, kwargs, xfrms, asm_args)
    IN insn.cls = cls /\ insn.kwargs = kwargs /\ insn.xfrms = xfrms /\ insn.asm_args = asm_args
BY DEF Insn

\* The registers that the special cases fix.
LEMMA RegValues == Reg("zero") = 0 /\ Reg("ra") = 1
<1>1. /\ RegNames[1] = <<"zero", "x0">> /\ RegNames[2] = <<"ra", "x1">>
      /\ 1 \in DOMAIN RegNames /\ 2 \in DOMAIN RegNames
  BY DEF RegNames
<1>2. "zero" \in ToSet(RegNames[1]) /\ "ra" \in ToSet(RegNames[2])
  BY <1>1 DEF ToSet
<1>3. ASSUME NEW name, NEW i \in DOMAIN RegNames, name \in ToSet(RegNames[i])
      PROVE  Reg(name) = i - 1
  <2>1. \A j \in DOMAIN RegNames : name \in ToSet(RegNames[j]) => j = i
    BY <1>3, RegistersNamed
  <2> QED BY <1>3, <2>1 DEF Reg
<1> QED BY <1>1, <1>2, <1>3

\* The letters that FENCE.TSO fixes.
LEMMA FencePower == fence_arg({"r", "w"}) = 3
<1> DEFINE word == {i \in 0 .. 3 : FenceLetter[i + 1] \in {"r", "w"}}
<1>1. word = {0, 1}
  BY DEF FenceLetter
<1>2. Bit(3, 0) = 1 /\ Bit(3, 1) = 1 /\ Bit(3, 2) = 0 /\ Bit(3, 3) = 0
  BY Powers DEF Bit
<1> HIDE DEF word
<1>3. PICK a \in Nat, w \in 0 .. 20, v \in Int : a = 0 /\ w = 4 /\ v = 3
  OBVIOUS
<1>4. \A k \in 0 .. w - 1 : a + k \in word <=> Bit(v, k) = 1
  BY <1>1, <1>2, <1>3
<1>5. Extract(word, <<a, a + w>>) = v % Power(w)
  BY <1>4, ExtractPlaced
<1>6. Power(4) = 16 /\ <<a, a + w>> = <<0, 4>>
  BY <1>3, Powers DEF Power
<1>7. Extract(word, <<0, 4>>) = 3
  BY <1>3, <1>5, <1>6
<1> QED BY <1>7 DEF fence_arg, word
\* XMakes, for each family X: the word of whatever arguments an instruction accepts.
LEMMA OpMakes ==
  ASSUME NEW funct3, NEW given, NEW word, word = value(Op(funct3, 0), given),
         word # Refused
  PROVE  /\ DOMAIN given = {"rd", "rs1", "rs2"}
         /\ word = RWord(51, given["rd"], funct3, given["rs1"], given["rs2"], 0)
<1> DEFINE kwargs == [funct3 |-> funct3]
           defaults == [opcode |-> 51, funct7 |-> 0]
           layout == {"opcode", "rd", "funct3", "rs1", "rs2", "funct7"}
<1>1. PICK insn : insn = Insn(R, kwargs, <<>>, <<"rd", "rs1", "rs2">>)
  OBVIOUS
<1>2. insn = Op(funct3, 0)
  BY <1>1, OpForm
<1>3. insn.cls = R /\ insn.kwargs = kwargs /\ insn.xfrms = <<>>
  BY <1>1, InsnParts
<1>4. ToSet(R.layout) = layout /\ R.ranges = RRanges /\ R.defaults = defaults
  BY Formats, RIs
<1>5. DOMAIN defaults = {"opcode", "funct7"} /\ DOMAIN kwargs = {"funct3"}
  OBVIOUS
<1>6. /\ defaults["opcode"] = 51
      /\ defaults["funct7"] = 0
      /\ kwargs["funct3"] = funct3
  OBVIOUS
<1> HIDE DEF kwargs, defaults
<1>7. word = value(insn, given) /\ value(insn, given) # Refused
  BY <1>2
<1>8. PICK all : IsPlus(all, kwargs, given)
  BY PlusIs
<1>9. /\ DOMAIN all = DOMAIN kwargs \cup DOMAIN given
      /\ \A e \in DOMAIN given : all[e] = given[e]
      /\ \A e \in DOMAIN kwargs : e \notin DOMAIN given => all[e] = kwargs[e]
  BY <1>8 DEF IsPlus
<1>10. all = Applied(<<>>, all)
  BY AppliedOf
<1>11. MakesWord(value(insn, given), ToSet(insn.cls.layout), insn.cls.ranges,
                  insn.cls.defaults, insn.kwargs, given, all)
  BY Zenon, <1>7, <1>3, <1>8, <1>10, ValueMakes
<1>12. MakesWord(word, layout, RRanges, defaults, kwargs, given, all)
  BY <1>7, <1>3, <1>4, <1>11
<1>13. PICK args :
         /\ IsPlus(args, defaults, all) /\ DOMAIN args = layout /\ word = Made(args, RRanges)
         /\ DOMAIN all \subseteq layout
         /\ DOMAIN all \cap DOMAIN given \cap (DOMAIN defaults \cup DOMAIN kwargs) = {}
  BY <1>12 DEF MakesWord
<1>14. /\ DOMAIN args = DOMAIN defaults \cup DOMAIN all
       /\ \A e \in DOMAIN all : args[e] = all[e]
       /\ \A e \in DOMAIN defaults : e \notin DOMAIN all => args[e] = defaults[e]
  BY <1>13 DEF IsPlus
<1>15. DOMAIN given = {"rd", "rs1", "rs2"}
  BY <1>13, <1>14, <1>5, <1>9
<1>16. /\ "funct3" \in DOMAIN all /\ all["funct3"] = funct3
       /\ "rd" \in DOMAIN all /\ all["rd"] = given["rd"]
       /\ "rs1" \in DOMAIN all /\ all["rs1"] = given["rs1"]
       /\ "rs2" \in DOMAIN all /\ all["rs2"] = given["rs2"]
  BY <1>5, <1>6, <1>9, <1>15
<1>17. args["opcode"] = 51
  BY <1>15, <1>5, <1>6, <1>16, <1>14, <1>9
<1>18. args["rd"] = given["rd"]
  BY <1>15, <1>5, <1>6, <1>16, <1>14
<1>19. args["funct3"] = funct3
  BY <1>15, <1>5, <1>6, <1>16, <1>14
<1>20. args["rs1"] = given["rs1"]
  BY <1>15, <1>5, <1>6, <1>16, <1>14
<1>21. args["rs2"] = given["rs2"]
  BY <1>15, <1>5, <1>6, <1>16, <1>14
<1>22. args["funct7"] = 0
  BY <1>15, <1>5, <1>6, <1>16, <1>14, <1>9
<1>23. args = [e \in layout |-> args[e]]
  BY <1>13 DEF IsPlus
<1>24. args = [opcode |-> 51, rd |-> given["rd"], funct3 |-> funct3, rs1 |-> given["rs1"],
               rs2 |-> given["rs2"], funct7 |-> 0]
  BY <1>17, <1>18, <1>19, <1>20, <1>21, <1>22, <1>23
<1> QED BY <1>15, <1>13, <1>24 DEF RWord

LEMMA OpNegateMakes ==
  ASSUME NEW funct3, NEW given, NEW word, word = value(Op(funct3, F7Negate), given),
         word # Refused
  PROVE  /\ DOMAIN given = {"rd", "rs1", "rs2"}
         /\ word = RWord(51, given["rd"], funct3, given["rs1"], given["rs2"], 32)
<1> DEFINE kwargs == [funct3 |-> funct3, funct7 |-> 32]
           defaults == [opcode |-> 51, funct7 |-> 0]
           layout == {"opcode", "rd", "funct3", "rs1", "rs2", "funct7"}
<1>1. PICK insn : insn = Insn(R, kwargs, <<>>, <<"rd", "rs1", "rs2">>)
  OBVIOUS
<1>2. insn = Op(funct3, F7Negate)
  BY <1>1, OpNegateForm
<1>3. insn.cls = R /\ insn.kwargs = kwargs /\ insn.xfrms = <<>>
  BY <1>1, InsnParts
<1>4. ToSet(R.layout) = layout /\ R.ranges = RRanges /\ R.defaults = defaults
  BY Formats, RIs
<1>5. DOMAIN defaults = {"opcode", "funct7"} /\ DOMAIN kwargs = {"funct3", "funct7"}
  OBVIOUS
<1>6. /\ defaults["opcode"] = 51
      /\ defaults["funct7"] = 0
      /\ kwargs["funct3"] = funct3
      /\ kwargs["funct7"] = 32
  OBVIOUS
<1> HIDE DEF kwargs, defaults
<1>7. word = value(insn, given) /\ value(insn, given) # Refused
  BY <1>2
<1>8. PICK all : IsPlus(all, kwargs, given)
  BY PlusIs
<1>9. /\ DOMAIN all = DOMAIN kwargs \cup DOMAIN given
      /\ \A e \in DOMAIN given : all[e] = given[e]
      /\ \A e \in DOMAIN kwargs : e \notin DOMAIN given => all[e] = kwargs[e]
  BY <1>8 DEF IsPlus
<1>10. all = Applied(<<>>, all)
  BY AppliedOf
<1>11. MakesWord(value(insn, given), ToSet(insn.cls.layout), insn.cls.ranges,
                  insn.cls.defaults, insn.kwargs, given, all)
  BY Zenon, <1>7, <1>3, <1>8, <1>10, ValueMakes
<1>12. MakesWord(word, layout, RRanges, defaults, kwargs, given, all)
  BY <1>7, <1>3, <1>4, <1>11
<1>13. PICK args :
         /\ IsPlus(args, defaults, all) /\ DOMAIN args = layout /\ word = Made(args, RRanges)
         /\ DOMAIN all \subseteq layout
         /\ DOMAIN all \cap DOMAIN given \cap (DOMAIN defaults \cup DOMAIN kwargs) = {}
  BY <1>12 DEF MakesWord
<1>14. /\ DOMAIN args = DOMAIN defaults \cup DOMAIN all
       /\ \A e \in DOMAIN all : args[e] = all[e]
       /\ \A e \in DOMAIN defaults : e \notin DOMAIN all => args[e] = defaults[e]
  BY <1>13 DEF IsPlus
<1>15. DOMAIN given = {"rd", "rs1", "rs2"}
  BY <1>13, <1>14, <1>5, <1>9
<1>16. /\ "funct3" \in DOMAIN all /\ all["funct3"] = funct3
       /\ "funct7" \in DOMAIN all /\ all["funct7"] = 32
       /\ "rd" \in DOMAIN all /\ all["rd"] = given["rd"]
       /\ "rs1" \in DOMAIN all /\ all["rs1"] = given["rs1"]
       /\ "rs2" \in DOMAIN all /\ all["rs2"] = given["rs2"]
  BY <1>5, <1>6, <1>9, <1>15
<1>17. args["opcode"] = 51
  BY <1>15, <1>5, <1>6, <1>16, <1>14, <1>9
<1>18. args["rd"] = given["rd"]
  BY <1>15, <1>5, <1>6, <1>16, <1>14
<1>19. args["funct3"] = funct3
  BY <1>15, <1>5, <1>6, <1>16, <1>14
<1>20. args["rs1"] = given["rs1"]
  BY <1>15, <1>5, <1>6, <1>16, <1>14
<1>21. args["rs2"] = given["rs2"]
  BY <1>15, <1>5, <1>6, <1>16, <1>14
<1>22. args["funct7"] = 32
  BY <1>15, <1>5, <1>6, <1>16, <1>14
<1>23. args = [e \in layout |-> args[e]]
  BY <1>13 DEF IsPlus
<1>24. args = [opcode |-> 51, rd |-> given["rd"], funct3 |-> funct3, rs1 |-> given["rs1"],
               rs2 |-> given["rs2"], funct7 |-> 32]
  BY <1>17, <1>18, <1>19, <1>20, <1>21, <1>22, <1>23
<1> QED BY <1>15, <1>13, <1>24 DEF RWord

LEMMA OpImmMakes ==
  ASSUME NEW funct3, NEW given, NEW word, word = value(OpImm(funct3), given),
         word # Refused
  PROVE  /\ DOMAIN given = {"rd", "rs1", "imm"}
         /\ word = IWord(19, given["rd"], funct3, given["rs1"], given["imm"])
<1> DEFINE kwargs == [funct3 |-> funct3]
           defaults == [opcode |-> 19]
           layout == {"opcode", "rd", "funct3", "rs1", "imm"}
<1>1. PICK insn : insn = Insn(I, kwargs, <<>>, <<"rd", "rs1", "imm">>)
  OBVIOUS
<1>2. insn = OpImm(funct3)
  BY <1>1, OpImmForm
<1>3. insn.cls = I /\ insn.kwargs = kwargs /\ insn.xfrms = <<>>
  BY <1>1, InsnParts
<1>4. ToSet(I.layout) = layout /\ I.ranges = IRanges /\ I.defaults = defaults
  BY Formats, IIs
<1>5. DOMAIN defaults = {"opcode"} /\ DOMAIN kwargs = {"funct3"}
  OBVIOUS
<1>6. /\ defaults["opcode"] = 19
      /\ kwargs["funct3"] = funct3
  OBVIOUS
<1> HIDE DEF kwargs, defaults
<1>7. word = value(insn, given) /\ value(insn, given) # Refused
  BY <1>2
<1>8. PICK all : IsPlus(all, kwargs, given)
  BY PlusIs
<1>9. /\ DOMAIN all = DOMAIN kwargs \cup DOMAIN given
      /\ \A e \in DOMAIN given : all[e] = given[e]
      /\ \A e \in DOMAIN kwargs : e \notin DOMAIN given => all[e] = kwargs[e]
  BY <1>8 DEF IsPlus
<1>10. all = Applied(<<>>, all)
  BY AppliedOf
<1>11. MakesWord(value(insn, given), ToSet(insn.cls.layout), insn.cls.ranges,
                  insn.cls.defaults, insn.kwargs, given, all)
  BY Zenon, <1>7, <1>3, <1>8, <1>10, ValueMakes
<1>12. MakesWord(word, layout, IRanges, defaults, kwargs, given, all)
  BY <1>7, <1>3, <1>4, <1>11
<1>13. PICK args :
         /\ IsPlus(args, defaults, all) /\ DOMAIN args = layout /\ word = Made(args, IRanges)
         /\ DOMAIN all \subseteq layout
         /\ DOMAIN all \cap DOMAIN given \cap (DOMAIN defaults \cup DOMAIN kwargs) = {}
  BY <1>12 DEF MakesWord
<1>14. /\ DOMAIN args = DOMAIN defaults \cup DOMAIN all
       /\ \A e \in DOMAIN all : args[e] = all[e]
       /\ \A e \in DOMAIN defaults : e \notin DOMAIN all => args[e] = defaults[e]
  BY <1>13 DEF IsPlus
<1>15. DOMAIN given = {"rd", "rs1", "imm"}
  BY <1>13, <1>14, <1>5, <1>9
<1>16. /\ "funct3" \in DOMAIN all /\ all["funct3"] = funct3
       /\ "rd" \in DOMAIN all /\ all["rd"] = given["rd"]
       /\ "rs1" \in DOMAIN all /\ all["rs1"] = given["rs1"]
       /\ "imm" \in DOMAIN all /\ all["imm"] = given["imm"]
  BY <1>5, <1>6, <1>9, <1>15
<1>17. args["opcode"] = 19
  BY <1>15, <1>5, <1>6, <1>16, <1>14, <1>9
<1>18. args["rd"] = given["rd"]
  BY <1>15, <1>5, <1>6, <1>16, <1>14
<1>19. args["funct3"] = funct3
  BY <1>15, <1>5, <1>6, <1>16, <1>14
<1>20. args["rs1"] = given["rs1"]
  BY <1>15, <1>5, <1>6, <1>16, <1>14
<1>21. args["imm"] = given["imm"]
  BY <1>15, <1>5, <1>6, <1>16, <1>14
<1>22. args = [e \in layout |-> args[e]]
  BY <1>13 DEF IsPlus
<1>23. args = [opcode |-> 19, rd |-> given["rd"], funct3 |-> funct3, rs1 |-> given["rs1"],
               imm |-> given["imm"]]
  BY <1>17, <1>18, <1>19, <1>20, <1>21, <1>22
<1> QED BY <1>15, <1>13, <1>23 DEF IWord

LEMMA ShiftMakes ==
  ASSUME NEW funct3, NEW p, NEW given, NEW word, word = value(Shift(funct3, p), given),
         word # Refused,
         {"rd", "rs1", "shamt"} \subseteq DOMAIN given
  PROVE  /\ given["shamt"] \in 0 .. 31
         /\ word = IWord(19, given["rd"], funct3, given["rs1"], p * 32 + given["shamt"])
<1> DEFINE kwargs == [funct3 |-> funct3]
           defaults == [opcode |-> 19]
           layout == {"opcode", "rd", "funct3", "rs1", "imm"}
<1>1. PICK insn : insn = Insn(I, kwargs, <<ShamtXfrm(p)>>, <<"rd", "rs1", "shamt">>)
  OBVIOUS
<1>2. insn = Shift(funct3, p)
  BY <1>1, ShiftForm
<1>3. insn.cls = I /\ insn.kwargs = kwargs /\ insn.xfrms = <<ShamtXfrm(p)>>
  BY <1>1, InsnParts
<1>4. ToSet(I.layout) = layout /\ I.ranges = IRanges /\ I.defaults = defaults
  BY Formats, IIs
<1>5. DOMAIN defaults = {"opcode"} /\ DOMAIN kwargs = {"funct3"}
  OBVIOUS
<1>6. /\ defaults["opcode"] = 19
      /\ kwargs["funct3"] = funct3
  OBVIOUS
<1> HIDE DEF kwargs, defaults
<1>7. word = value(insn, given) /\ value(insn, given) # Refused
  BY <1>2
<1>8. PICK all : IsPlus(all, kwargs, given)
  BY PlusIs
<1>9. /\ DOMAIN all = DOMAIN kwargs \cup DOMAIN given
      /\ \A e \in DOMAIN given : all[e] = given[e]
      /\ \A e \in DOMAIN kwargs : e \notin DOMAIN given => all[e] = kwargs[e]
  BY <1>8 DEF IsPlus
<1>10. {"shamt"} \subseteq DOMAIN all
  BY <1>5, <1>9
<1>11. PICK left1 : IsDrop(left1, all, {"shamt"})
  BY DropIs
<1>12. /\ DOMAIN left1 = DOMAIN all \ {"shamt"}
       /\ \A e \in DOMAIN all : e \notin {"shamt"} => left1[e] = all[e]
  BY <1>11 DEF IsDrop
<1> DEFINE out1 == IF all["shamt"] \in 0 .. 31 THEN [imm |-> p * 32 + all["shamt"]] ELSE Assertion
<1>13. inputs_to_layout(ShamtXfrm(p), all) = out1
  BY ShamtForth
<1>14. /\ all["shamt"] \in 0 .. 31 =>
            /\ DOMAIN out1 = {"imm"}
            /\ out1["imm"] = p * 32 + all["shamt"]
       /\ ~(all["shamt"] \in 0 .. 31) => DOMAIN out1 = {"refused"}
  BY DEF Assertion
<1> HIDE DEF out1
<1>15. ToSet(ShamtXfrm(p).inputs) = {"shamt"}
  BY XfrmInputs
<1>16. PICK more1 : more1 = Forward(ShamtXfrm(p), all) /\ IsPlus(more1, left1, out1)
  BY <1>10, <1>11, <1>13, <1>15, ForwardIs
<1>17. /\ DOMAIN more1 = DOMAIN left1 \cup DOMAIN out1
       /\ \A e \in DOMAIN out1 : more1[e] = out1[e]
       /\ \A e \in DOMAIN left1 : e \notin DOMAIN out1 => more1[e] = left1[e]
  BY <1>16 DEF IsPlus
<1>18. more1 = Applied(<<ShamtXfrm(p)>>, all)
  BY <1>16, AppliedOf
<1>19. MakesWord(value(insn, given), ToSet(insn.cls.layout), insn.cls.ranges,
                  insn.cls.defaults, insn.kwargs, given, more1)
  BY Zenon, <1>7, <1>3, <1>8, <1>18, ValueMakes
<1>20. MakesWord(word, layout, IRanges, defaults, kwargs, given, more1)
  BY <1>7, <1>3, <1>4, <1>19
<1>21. PICK args :
         /\ IsPlus(args, defaults, more1) /\ DOMAIN args = layout /\ word = Made(args, IRanges)
         /\ DOMAIN more1 \subseteq layout
         /\ DOMAIN more1 \cap DOMAIN given \cap (DOMAIN defaults \cup DOMAIN kwargs) = {}
  BY <1>20 DEF MakesWord
<1>22. /\ DOMAIN args = DOMAIN defaults \cup DOMAIN more1
       /\ \A e \in DOMAIN more1 : args[e] = more1[e]
       /\ \A e \in DOMAIN defaults : e \notin DOMAIN more1 => args[e] = defaults[e]
  BY <1>21 DEF IsPlus
<1>23. given["shamt"] \in 0 .. 31
  BY <1>21, <1>5, <1>9, <1>12, <1>14, <1>17
<1>24. {"funct3", "opcode"} \cap DOMAIN given = {}
  BY <1>21, <1>5, <1>9, <1>12, <1>14, <1>17, <1>23
<1>25. /\ "funct3" \in DOMAIN all /\ all["funct3"] = funct3
       /\ "rd" \in DOMAIN all /\ all["rd"] = given["rd"]
       /\ "rs1" \in DOMAIN all /\ all["rs1"] = given["rs1"]
       /\ "shamt" \in DOMAIN all /\ all["shamt"] = given["shamt"]
  BY <1>5, <1>6, <1>9, <1>23, <1>24
<1>26. all["shamt"] \in 0 .. 31
  BY <1>25, <1>23, <1>24
<1>27. /\ DOMAIN out1 = {"imm"}
       /\ out1["imm"] = p * 32 + all["shamt"]
  BY <1>14, <1>26
<1>28. /\ "funct3" \in DOMAIN more1 /\ more1["funct3"] = funct3
       /\ "rd" \in DOMAIN more1 /\ more1["rd"] = given["rd"]
       /\ "rs1" \in DOMAIN more1 /\ more1["rs1"] = given["rs1"]
       /\ "imm" \in DOMAIN more1 /\ more1["imm"] = p * 32 + given["shamt"]
  BY <1>12, <1>27, <1>17, <1>25, <1>23, <1>24
<1>29. args["opcode"] = 19
  BY <1>23, <1>24, <1>5, <1>6, <1>28, <1>22, <1>9, <1>12, <1>14, <1>17, <1>27
<1>30. args["rd"] = given["rd"]
  BY <1>23, <1>24, <1>5, <1>6, <1>28, <1>22
<1>31. args["funct3"] = funct3
  BY <1>23, <1>24, <1>5, <1>6, <1>28, <1>22
<1>32. args["rs1"] = given["rs1"]
  BY <1>23, <1>24, <1>5, <1>6, <1>28, <1>22
<1>33. args["imm"] = p * 32 + given["shamt"]
  BY <1>23, <1>24, <1>5, <1>6, <1>28, <1>22
<1>34. args = [e \in layout |-> args[e]]
  BY <1>21 DEF IsPlus
<1>35. args = [opcode |-> 19, rd |-> given["rd"], funct3 |-> funct3, rs1 |-> given["rs1"],
               imm |-> p * 32 + given["shamt"]]
  BY <1>29, <1>30, <1>31, <1>32, <1>33, <1>34
<1> QED BY <1>23, <1>24, <1>21, <1>35 DEF IWord

LEMMA LoadMakes ==
  ASSUME NEW funct3, NEW given, NEW word, word = value(Load(funct3), given),
         word # Refused,
         {"rd", "rs1off"} \subseteq DOMAIN given
  PROVE  /\ word = IWord(3, given["rd"], funct3, given["rs1off"][2], given["rs1off"][1])
<1> DEFINE kwargs == [opcode |-> 3, funct3 |-> funct3]
           defaults == [opcode |-> 19]
           layout == {"opcode", "rd", "funct3", "rs1", "imm"}
<1>1. PICK insn : insn = Insn(I, kwargs, <<RS1OffXfrm>>, <<"rd", "rs1off">>)
  OBVIOUS
<1>2. insn = Load(funct3)
  BY <1>1, LoadForm
<1>3. insn.cls = I /\ insn.kwargs = kwargs /\ insn.xfrms = <<RS1OffXfrm>>
  BY <1>1, InsnParts
<1>4. ToSet(I.layout) = layout /\ I.ranges = IRanges /\ I.defaults = defaults
  BY Formats, IIs
<1>5. DOMAIN defaults = {"opcode"} /\ DOMAIN kwargs = {"opcode", "funct3"}
  OBVIOUS
<1>6. /\ defaults["opcode"] = 19
      /\ kwargs["opcode"] = 3
      /\ kwargs["funct3"] = funct3
  OBVIOUS
<1> HIDE DEF kwargs, defaults
<1>7. word = value(insn, given) /\ value(insn, given) # Refused
  BY <1>2
<1>8. PICK all : IsPlus(all, kwargs, given)
  BY PlusIs
<1>9. /\ DOMAIN all = DOMAIN kwargs \cup DOMAIN given
      /\ \A e \in DOMAIN given : all[e] = given[e]
      /\ \A e \in DOMAIN kwargs : e \notin DOMAIN given => all[e] = kwargs[e]
  BY <1>8 DEF IsPlus
<1>10. {"rs1off"} \subseteq DOMAIN all
  BY <1>5, <1>9
<1>11. PICK left1 : IsDrop(left1, all, {"rs1off"})
  BY DropIs
<1>12. /\ DOMAIN left1 = DOMAIN all \ {"rs1off"}
       /\ \A e \in DOMAIN all : e \notin {"rs1off"} => left1[e] = all[e]
  BY <1>11 DEF IsDrop
<1> DEFINE out1 == [imm |-> all["rs1off"][1], rs1 |-> all["rs1off"][2]]
<1>13. inputs_to_layout(RS1OffXfrm, all) = out1
  BY RS1OffForth
<1>14. /\ DOMAIN out1 = {"imm", "rs1"}
       /\ out1["imm"] = all["rs1off"][1]
       /\ out1["rs1"] = all["rs1off"][2]
  OBVIOUS
<1> HIDE DEF out1
<1>15. ToSet(RS1OffXfrm.inputs) = {"rs1off"}
  BY XfrmInputs
<1>16. PICK more1 : more1 = Forward(RS1OffXfrm, all) /\ IsPlus(more1, left1, out1)
  BY <1>10, <1>11, <1>13, <1>15, ForwardIs
<1>17. /\ DOMAIN more1 = DOMAIN left1 \cup DOMAIN out1
       /\ \A e \in DOMAIN out1 : more1[e] = out1[e]
       /\ \A e \in DOMAIN left1 : e \notin DOMAIN out1 => more1[e] = left1[e]
  BY <1>16 DEF IsPlus
<1>18. more1 = Applied(<<RS1OffXfrm>>, all)
  BY <1>16, AppliedOf
<1>19. MakesWord(value(insn, given), ToSet(insn.cls.layout), insn.cls.ranges,
                  insn.cls.defaults, insn.kwargs, given, more1)
  BY Zenon, <1>7, <1>3, <1>8, <1>18, ValueMakes
<1>20. MakesWord(word, layout, IRanges, defaults, kwargs, given, more1)
  BY <1>7, <1>3, <1>4, <1>19
<1>21. PICK args :
         /\ IsPlus(args, defaults, more1) /\ DOMAIN args = layout /\ word = Made(args, IRanges)
         /\ DOMAIN more1 \subseteq layout
         /\ DOMAIN more1 \cap DOMAIN given \cap (DOMAIN defaults \cup DOMAIN kwargs) = {}
  BY <1>20 DEF MakesWord
<1>22. /\ DOMAIN args = DOMAIN defaults \cup DOMAIN more1
       /\ \A e \in DOMAIN more1 : args[e] = more1[e]
       /\ \A e \in DOMAIN defaults : e \notin DOMAIN more1 => args[e] = defaults[e]
  BY <1>21 DEF IsPlus
<1>23. {"opcode", "funct3", "opcode"} \cap DOMAIN given = {}
  BY <1>21, <1>5, <1>9, <1>12, <1>14, <1>17
<1>24. /\ "opcode" \in DOMAIN all /\ all["opcode"] = 3
       /\ "funct3" \in DOMAIN all /\ all["funct3"] = funct3
       /\ "rd" \in DOMAIN all /\ all["rd"] = given["rd"]
       /\ "rs1off" \in DOMAIN all /\ all["rs1off"] = given["rs1off"]
  BY <1>5, <1>6, <1>9, <1>23
<1>25. /\ "opcode" \in DOMAIN more1 /\ more1["opcode"] = 3
       /\ "funct3" \in DOMAIN more1 /\ more1["funct3"] = funct3
       /\ "rd" \in DOMAIN more1 /\ more1["rd"] = given["rd"]
       /\ "imm" \in DOMAIN more1 /\ more1["imm"] = given["rs1off"][1]
       /\ "rs1" \in DOMAIN more1 /\ more1["rs1"] = given["rs1off"][2]
  BY <1>12, <1>14, <1>17, <1>24, <1>23
<1>26. args["opcode"] = 3
  BY <1>23, <1>5, <1>6, <1>25, <1>22
<1>27. args["rd"] = given["rd"]
  BY <1>23, <1>5, <1>6, <1>25, <1>22
<1>28. args["funct3"] = funct3
  BY <1>23, <1>5, <1>6, <1>25, <1>22
<1>29. args["rs1"] = given["rs1off"][2]
  BY <1>23, <1>5, <1>6, <1>25, <1>22
<1>30. args["imm"] = given["rs1off"][1]
  BY <1>23, <1>5, <1>6, <1>25, <1>22
<1>31. args = [e \in layout |-> args[e]]
  BY <1>21 DEF IsPlus
<1>32. args = [opcode |-> 3, rd |-> given["rd"], funct3 |-> funct3, rs1 |-> given["rs1off"][2],
               imm |-> given["rs1off"][1]]
  BY <1>26, <1>27, <1>28, <1>29, <1>30, <1>31
<1> QED BY <1>23, <1>21, <1>32 DEF IWord

LEMMA FenceMakes ==
  ASSUME NEW p, NEW given, NEW word, word = value(Fence(p), given),
         word # Refused,
         {"pred", "succ"} \subseteq DOMAIN given
  PROVE  /\ given["pred"] # {} /\ given["succ"] # {}
         /\ word = IWord(15, 0, 0, 0,
                  fence_arg(given["succ"]) + 16 * fence_arg(given["pred"]) + 256 * p)
<1> DEFINE kwargs == [opcode |-> 15, funct3 |-> 0, rd |-> 0, rs1 |-> 0]
           defaults == [opcode |-> 19]
           layout == {"opcode", "rd", "funct3", "rs1", "imm"}
<1>1. PICK insn : insn = Insn(I, kwargs, <<FenceXfrm(p)>>, <<"pred", "succ">>)
  OBVIOUS
<1>2. insn = Fence(p)
  BY <1>1, FenceForm
<1>3. insn.cls = I /\ insn.kwargs = kwargs /\ insn.xfrms = <<FenceXfrm(p)>>
  BY <1>1, InsnParts
<1>4. ToSet(I.layout) = layout /\ I.ranges = IRanges /\ I.defaults = defaults
  BY Formats, IIs
<1>5. DOMAIN defaults = {"opcode"} /\ DOMAIN kwargs = {"opcode", "funct3", "rd", "rs1"}
  OBVIOUS
<1>6. /\ defaults["opcode"] = 19
      /\ kwargs["opcode"] = 15
      /\ kwargs["funct3"] = 0
      /\ kwargs["rd"] = 0
      /\ kwargs["rs1"] = 0
  OBVIOUS
<1> HIDE DEF kwargs, defaults
<1>7. word = value(insn, given) /\ value(insn, given) # Refused
  BY <1>2
<1>8. PICK all : IsPlus(all, kwargs, given)
  BY PlusIs
<1>9. /\ DOMAIN all = DOMAIN kwargs \cup DOMAIN given
      /\ \A e \in DOMAIN given : all[e] = given[e]
      /\ \A e \in DOMAIN kwargs : e \notin DOMAIN given => all[e] = kwargs[e]
  BY <1>8 DEF IsPlus
<1>10. {"pred", "succ"} \subseteq DOMAIN all
  BY <1>5, <1>9
<1>11. PICK left1 : IsDrop(left1, all, {"pred", "succ"})
  BY DropIs
<1>12. /\ DOMAIN left1 = DOMAIN all \ {"pred", "succ"}
       /\ \A e \in DOMAIN all : e \notin {"pred", "succ"} => left1[e] = all[e]
  BY <1>11 DEF IsDrop
<1> DEFINE out1 == IF all["pred"] = {} \/ all["succ"] = {} THEN Assertion
          ELSE [imm |-> fence_arg(all["succ"]) + 16 * fence_arg(all["pred"]) + 256 * p]
<1>13. inputs_to_layout(FenceXfrm(p), all) = out1
  BY FenceForth
<1>14. /\ ~(all["pred"] = {} \/ all["succ"] = {}) =>
            /\ DOMAIN out1 = {"imm"}
            /\ out1["imm"] = fence_arg(all["succ"]) + 16 * fence_arg(all["pred"]) + 256 * p
       /\ ~(~(all["pred"] = {} \/ all["succ"] = {})) => DOMAIN out1 = {"refused"}
  BY DEF Assertion
<1> HIDE DEF out1
<1>15. ToSet(FenceXfrm(p).inputs) = {"pred", "succ"}
  BY XfrmInputs
<1>16. PICK more1 : more1 = Forward(FenceXfrm(p), all) /\ IsPlus(more1, left1, out1)
  BY <1>10, <1>11, <1>13, <1>15, ForwardIs
<1>17. /\ DOMAIN more1 = DOMAIN left1 \cup DOMAIN out1
       /\ \A e \in DOMAIN out1 : more1[e] = out1[e]
       /\ \A e \in DOMAIN left1 : e \notin DOMAIN out1 => more1[e] = left1[e]
  BY <1>16 DEF IsPlus
<1>18. more1 = Applied(<<FenceXfrm(p)>>, all)
  BY <1>16, AppliedOf
<1>19. MakesWord(value(insn, given), ToSet(insn.cls.layout), insn.cls.ranges,
                  insn.cls.defaults, insn.kwargs, given, more1)
  BY Zenon, <1>7, <1>3, <1>8, <1>18, ValueMakes
<1>20. MakesWord(word, layout, IRanges, defaults, kwargs, given, more1)
  BY <1>7, <1>3, <1>4, <1>19
<1>21. PICK args :
         /\ IsPlus(args, defaults, more1) /\ DOMAIN args = layout /\ word = Made(args, IRanges)
         /\ DOMAIN more1 \subseteq layout
         /\ DOMAIN more1 \cap DOMAIN given \cap (DOMAIN defaults \cup DOMAIN kwargs) = {}
  BY <1>20 DEF MakesWord
<1>22. /\ DOMAIN args = DOMAIN defaults \cup DOMAIN more1
       /\ \A e \in DOMAIN more1 : args[e] = more1[e]
       /\ \A e \in DOMAIN defaults : e \notin DOMAIN more1 => args[e] = defaults[e]
  BY <1>21 DEF IsPlus
<1>23. given["pred"] # {} /\ given["succ"] # {}
  BY <1>21, <1>5, <1>9, <1>12, <1>14, <1>17
<1>24. {"opcode", "funct3", "rd", "rs1", "opcode"} \cap DOMAIN given = {}
  BY <1>21, <1>5, <1>9, <1>12, <1>14, <1>17, <1>23
<1>25. /\ "opcode" \in DOMAIN all /\ all["opcode"] = 15
       /\ "funct3" \in DOMAIN all /\ all["funct3"] = 0
       /\ "rd" \in DOMAIN all /\ all["rd"] = 0
       /\ "rs1" \in DOMAIN all /\ all["rs1"] = 0
       /\ "pred" \in DOMAIN all /\ all["pred"] = given["pred"]
       /\ "succ" \in DOMAIN all /\ all["succ"] = given["succ"]
  BY <1>5, <1>6, <1>9, <1>23, <1>24
<1>26. ~(all["pred"] = {} \/ all["succ"] = {})
  BY <1>25, <1>23, <1>24
<1>27. /\ DOMAIN out1 = {"imm"}
       /\ out1["imm"] = fence_arg(all["succ"]) + 16 * fence_arg(all["pred"]) + 256 * p
  BY <1>14, <1>26
<1>28. /\ "opcode" \in DOMAIN more1 /\ more1["opcode"] = 15
       /\ "funct3" \in DOMAIN more1 /\ more1["funct3"] = 0
       /\ "rd" \in DOMAIN more1 /\ more1["rd"] = 0
       /\ "rs1" \in DOMAIN more1 /\ more1["rs1"] = 0
       /\ "imm" \in DOMAIN more1 /\ more1["imm"] = fence_arg(given["succ"]) +
            16 * fence_arg(given["pred"]) + 256 * p
  BY <1>12, <1>27, <1>17, <1>25, <1>23, <1>24
<1>29. args["opcode"] = 15
  BY <1>23, <1>24, <1>5, <1>6, <1>28, <1>22
<1>30. args["rd"] = 0
  BY <1>23, <1>24, <1>5, <1>6, <1>28, <1>22
<1>31. args["funct3"] = 0
  BY <1>23, <1>24, <1>5, <1>6, <1>28, <1>22
<1>32. args["rs1"] = 0
  BY <1>23, <1>24, <1>5, <1>6, <1>28, <1>22
<1>33. args["imm"] = fence_arg(given["succ"]) + 16 * fence_arg(given["pred"]) + 256 * p
  BY <1>23, <1>24, <1>5, <1>6, <1>28, <1>22
<1>34. args = [e \in layout |-> args[e]]
  BY <1>21 DEF IsPlus
<1>35. args = [opcode |-> 15, rd |-> 0, funct3 |-> 0, rs1 |-> 0,
               imm |-> fence_arg(given["succ"]) + 16 * fence_arg(given["pred"]) + 256 * p]
  BY <1>29, <1>30, <1>31, <1>32, <1>33, <1>34
<1> QED BY <1>23, <1>24, <1>21, <1>35 DEF IWord

LEMMA SystemMakes ==
  ASSUME NEW funct, NEW given, NEW word, word = value(System(funct), given),
         word # Refused,
         {"funct"} \cap DOMAIN given = {}
  PROVE  /\ word = IWord(115, 0, funct % 8, 0, funct \div 8)
<1> DEFINE kwargs == [opcode |-> 115, rd |-> 0, rs1 |-> 0, funct |-> funct]
           defaults == [opcode |-> 19]
           layout == {"opcode", "rd", "funct3", "rs1", "imm"}
<1>1. PICK insn : insn = Insn(I, kwargs, <<SystemXfrm>>, <<>>)
  OBVIOUS
<1>2. insn = System(funct)
  BY <1>1, SystemForm
<1>3. insn.cls = I /\ insn.kwargs = kwargs /\ insn.xfrms = <<SystemXfrm>>
  BY <1>1, InsnParts
<1>4. ToSet(I.layout) = layout /\ I.ranges = IRanges /\ I.defaults = defaults
  BY Formats, IIs
<1>5. DOMAIN defaults = {"opcode"} /\ DOMAIN kwargs = {"opcode", "rd", "rs1", "funct"}
  OBVIOUS
<1>6. /\ defaults["opcode"] = 19
      /\ kwargs["opcode"] = 115
      /\ kwargs["rd"] = 0
      /\ kwargs["rs1"] = 0
      /\ kwargs["funct"] = funct
  OBVIOUS
<1> HIDE DEF kwargs, defaults
<1>7. word = value(insn, given) /\ value(insn, given) # Refused
  BY <1>2
<1>8. PICK all : IsPlus(all, kwargs, given)
  BY PlusIs
<1>9. /\ DOMAIN all = DOMAIN kwargs \cup DOMAIN given
      /\ \A e \in DOMAIN given : all[e] = given[e]
      /\ \A e \in DOMAIN kwargs : e \notin DOMAIN given => all[e] = kwargs[e]
  BY <1>8 DEF IsPlus
<1>10. {"funct"} \subseteq DOMAIN all
  BY <1>5, <1>9
<1>11. PICK left1 : IsDrop(left1, all, {"funct"})
  BY DropIs
<1>12. /\ DOMAIN left1 = DOMAIN all \ {"funct"}
       /\ \A e \in DOMAIN all : e \notin {"funct"} => left1[e] = all[e]
  BY <1>11 DEF IsDrop
<1> DEFINE out1 == [funct3 |-> all["funct"] % 8, imm |-> all["funct"] \div 8]
<1>13. inputs_to_layout(SystemXfrm, all) = out1
  BY SystemForth
<1>14. /\ DOMAIN out1 = {"funct3", "imm"}
       /\ out1["funct3"] = all["funct"] % 8
       /\ out1["imm"] = all["funct"] \div 8
  OBVIOUS
<1> HIDE DEF out1
<1>15. ToSet(SystemXfrm.inputs) = {"funct"}
  BY XfrmInputs
<1>16. PICK more1 : more1 = Forward(SystemXfrm, all) /\ IsPlus(more1, left1, out1)
  BY <1>10, <1>11, <1>13, <1>15, ForwardIs
<1>17. /\ DOMAIN more1 = DOMAIN left1 \cup DOMAIN out1
       /\ \A e \in DOMAIN out1 : more1[e] = out1[e]
       /\ \A e \in DOMAIN left1 : e \notin DOMAIN out1 => more1[e] = left1[e]
  BY <1>16 DEF IsPlus
<1>18. more1 = Applied(<<SystemXfrm>>, all)
  BY <1>16, AppliedOf
<1>19. MakesWord(value(insn, given), ToSet(insn.cls.layout), insn.cls.ranges,
                  insn.cls.defaults, insn.kwargs, given, more1)
  BY Zenon, <1>7, <1>3, <1>8, <1>18, ValueMakes
<1>20. MakesWord(word, layout, IRanges, defaults, kwargs, given, more1)
  BY <1>7, <1>3, <1>4, <1>19
<1>21. PICK args :
         /\ IsPlus(args, defaults, more1) /\ DOMAIN args = layout /\ word = Made(args, IRanges)
         /\ DOMAIN more1 \subseteq layout
         /\ DOMAIN more1 \cap DOMAIN given \cap (DOMAIN defaults \cup DOMAIN kwargs) = {}
  BY <1>20 DEF MakesWord
<1>22. /\ DOMAIN args = DOMAIN defaults \cup DOMAIN more1
       /\ \A e \in DOMAIN more1 : args[e] = more1[e]
       /\ \A e \in DOMAIN defaults : e \notin DOMAIN more1 => args[e] = defaults[e]
  BY <1>21 DEF IsPlus
<1>23. {"opcode", "rd", "rs1", "opcode"} \cap DOMAIN given = {}
  BY <1>21, <1>5, <1>9, <1>12, <1>14, <1>17
<1>24. /\ "opcode" \in DOMAIN all /\ all["opcode"] = 115
       /\ "rd" \in DOMAIN all /\ all["rd"] = 0
       /\ "rs1" \in DOMAIN all /\ all["rs1"] = 0
       /\ "funct" \in DOMAIN all /\ all["funct"] = funct
  BY <1>5, <1>6, <1>9, <1>23
<1>25. /\ "opcode" \in DOMAIN more1 /\ more1["opcode"] = 115
       /\ "rd" \in DOMAIN more1 /\ more1["rd"] = 0
       /\ "rs1" \in DOMAIN more1 /\ more1["rs1"] = 0
       /\ "funct3" \in DOMAIN more1 /\ more1["funct3"] = funct % 8
       /\ "imm" \in DOMAIN more1 /\ more1["imm"] = funct \div 8
  BY <1>12, <1>14, <1>17, <1>24, <1>23
<1>26. args["opcode"] = 115
  BY <1>23, <1>5, <1>6, <1>25, <1>22
<1>27. args["rd"] = 0
  BY <1>23, <1>5, <1>6, <1>25, <1>22
<1>28. args["funct3"] = funct % 8
  BY <1>23, <1>5, <1>6, <1>25, <1>22
<1>29. args["rs1"] = 0
  BY <1>23, <1>5, <1>6, <1>25, <1>22
<1>30. args["imm"] = funct \div 8
  BY <1>23, <1>5, <1>6, <1>25, <1>22
<1>31. args = [e \in layout |-> args[e]]
  BY <1>21 DEF IsPlus
<1>32. args = [opcode |-> 115, rd |-> 0, funct3 |-> funct % 8, rs1 |-> 0, imm |-> funct \div 8]
  BY <1>26, <1>27, <1>28, <1>29, <1>30, <1>31
<1> QED BY <1>23, <1>21, <1>32 DEF IWord

LEMMA StoreMakes ==
  ASSUME NEW funct3, NEW given, NEW word, word = value(Store(funct3), given),
         word # Refused,
         {"rs2", "rs1off"} \subseteq DOMAIN given
  PROVE  /\ word = SWord(35, (given["rs1off"][1] \div 1) % 32, funct3, given["rs1off"][2],
                  given["rs2"], (given["rs1off"][1] \div 32) % 128)
<1> DEFINE kwargs == [funct3 |-> funct3]
           defaults == [opcode |-> 35]
           layout == {"opcode", "imm4_0", "funct3", "rs1", "rs2", "imm11_5"}
<1>1. PICK insn : insn = Insn(S, kwargs, <<RS1OffXfrm, ImmXfrm(S)>>, <<"rs2", "rs1off">>)
  OBVIOUS
<1>2. insn = Store(funct3)
  BY <1>1, StoreForm
<1>3. insn.cls = S /\ insn.kwargs = kwargs /\ insn.xfrms = <<RS1OffXfrm, ImmXfrm(S)>>
  BY <1>1, InsnParts
<1>4. ToSet(S.layout) = layout /\ S.ranges = SRanges /\ S.defaults = defaults
  BY Formats, SIs
<1>5. DOMAIN defaults = {"opcode"} /\ DOMAIN kwargs = {"funct3"}
  OBVIOUS
<1>6. /\ defaults["opcode"] = 35
      /\ kwargs["funct3"] = funct3
  OBVIOUS
<1> HIDE DEF kwargs, defaults
<1>7. word = value(insn, given) /\ value(insn, given) # Refused
  BY <1>2
<1>8. PICK all : IsPlus(all, kwargs, given)
  BY PlusIs
<1>9. /\ DOMAIN all = DOMAIN kwargs \cup DOMAIN given
      /\ \A e \in DOMAIN given : all[e] = given[e]
      /\ \A e \in DOMAIN kwargs : e \notin DOMAIN given => all[e] = kwargs[e]
  BY <1>8 DEF IsPlus
<1>10. {"rs1off"} \subseteq DOMAIN all
  BY <1>5, <1>9
<1>11. PICK left1 : IsDrop(left1, all, {"rs1off"})
  BY DropIs
<1>12. /\ DOMAIN left1 = DOMAIN all \ {"rs1off"}
       /\ \A e \in DOMAIN all : e \notin {"rs1off"} => left1[e] = all[e]
  BY <1>11 DEF IsDrop
<1> DEFINE out1 == [imm |-> all["rs1off"][1], rs1 |-> all["rs1off"][2]]
<1>13. inputs_to_layout(RS1OffXfrm, all) = out1
  BY RS1OffForth
<1>14. /\ DOMAIN out1 = {"imm", "rs1"}
       /\ out1["imm"] = all["rs1off"][1]
       /\ out1["rs1"] = all["rs1off"][2]
  OBVIOUS
<1> HIDE DEF out1
<1>15. ToSet(RS1OffXfrm.inputs) = {"rs1off"}
  BY XfrmInputs
<1>16. PICK more1 : more1 = Forward(RS1OffXfrm, all) /\ IsPlus(more1, left1, out1)
  BY <1>10, <1>11, <1>13, <1>15, ForwardIs
<1>17. /\ DOMAIN more1 = DOMAIN left1 \cup DOMAIN out1
       /\ \A e \in DOMAIN out1 : more1[e] = out1[e]
       /\ \A e \in DOMAIN left1 : e \notin DOMAIN out1 => more1[e] = left1[e]
  BY <1>16 DEF IsPlus
<1>18. {"imm"} \subseteq DOMAIN more1
  BY <1>5, <1>9, <1>12, <1>14, <1>17
<1>19. PICK left2 : IsDrop(left2, more1, {"imm"})
  BY DropIs
<1>20. /\ DOMAIN left2 = DOMAIN more1 \ {"imm"}
       /\ \A e \in DOMAIN more1 : e \notin {"imm"} => left2[e] = more1[e]
  BY <1>19 DEF IsDrop
<1> DEFINE out2 == [imm4_0 |-> (more1["imm"] \div 1) % 32,
      imm11_5 |-> (more1["imm"] \div 32) % 128]
<1>21. inputs_to_layout(ImmXfrm(S), more1) = out2
  BY ImmSForth
<1>22. /\ DOMAIN out2 = {"imm4_0", "imm11_5"}
       /\ out2["imm4_0"] = (more1["imm"] \div 1) % 32
       /\ out2["imm11_5"] = (more1["imm"] \div 32) % 128
  OBVIOUS
<1> HIDE DEF out2
<1>23. ToSet(ImmXfrm(S).inputs) = {"imm"}
  BY XfrmInputs
<1>24. PICK more2 : more2 = Forward(ImmXfrm(S), more1) /\ IsPlus(more2, left2, out2)
  BY <1>18, <1>19, <1>21, <1>23, ForwardIs
<1>25. /\ DOMAIN more2 = DOMAIN left2 \cup DOMAIN out2
       /\ \A e \in DOMAIN out2 : more2[e] = out2[e]
       /\ \A e \in DOMAIN left2 : e \notin DOMAIN out2 => more2[e] = left2[e]
  BY <1>24 DEF IsPlus
<1>26. more2 = Applied(<<RS1OffXfrm, ImmXfrm(S)>>, all)
  BY <1>16, <1>24, AppliedOf
<1>27. MakesWord(value(insn, given), ToSet(insn.cls.layout), insn.cls.ranges,
                  insn.cls.defaults, insn.kwargs, given, more2)
  BY Zenon, <1>7, <1>3, <1>8, <1>26, ValueMakes
<1>28. MakesWord(word, layout, SRanges, defaults, kwargs, given, more2)
  BY <1>7, <1>3, <1>4, <1>27
<1>29. PICK args :
         /\ IsPlus(args, defaults, more2) /\ DOMAIN args = layout /\ word = Made(args, SRanges)
         /\ DOMAIN more2 \subseteq layout
         /\ DOMAIN more2 \cap DOMAIN given \cap (DOMAIN defaults \cup DOMAIN kwargs) = {}
  BY <1>28 DEF MakesWord
<1>30. /\ DOMAIN args = DOMAIN defaults \cup DOMAIN more2
       /\ \A e \in DOMAIN more2 : args[e] = more2[e]
       /\ \A e \in DOMAIN defaults : e \notin DOMAIN more2 => args[e] = defaults[e]
  BY <1>29 DEF IsPlus
<1>31. {"funct3", "opcode"} \cap DOMAIN given = {}
  BY <1>29, <1>5, <1>9, <1>12, <1>14, <1>17, <1>20, <1>22, <1>25
<1>32. /\ "funct3" \in DOMAIN all /\ all["funct3"] = funct3
       /\ "rs2" \in DOMAIN all /\ all["rs2"] = given["rs2"]
       /\ "rs1off" \in DOMAIN all /\ all["rs1off"] = given["rs1off"]
  BY <1>5, <1>6, <1>9, <1>31
<1>33. /\ "funct3" \in DOMAIN more1 /\ more1["funct3"] = funct3
       /\ "rs2" \in DOMAIN more1 /\ more1["rs2"] = given["rs2"]
       /\ "imm" \in DOMAIN more1 /\ more1["imm"] = given["rs1off"][1]
       /\ "rs1" \in DOMAIN more1 /\ more1["rs1"] = given["rs1off"][2]
  BY <1>12, <1>14, <1>17, <1>32, <1>31
<1>34. /\ "funct3" \in DOMAIN more2 /\ more2["funct3"] = funct3
       /\ "rs2" \in DOMAIN more2 /\ more2["rs2"] = given["rs2"]
       /\ "rs1" \in DOMAIN more2 /\ more2["rs1"] = given["rs1off"][2]
       /\ "imm4_0" \in DOMAIN more2 /\ more2["imm4_0"] = (given["rs1off"][1] \div 1) % 32
       /\ "imm11_5" \in DOMAIN more2 /\ more2["imm11_5"] = (given["rs1off"][1] \div 32) % 128
  BY <1>20, <1>22, <1>25, <1>33, <1>31
<1>35. args["opcode"] = 35
  BY <1>31, <1>5, <1>6, <1>34, <1>30, <1>9, <1>12, <1>14, <1>17, <1>20, <1>22, <1>25
<1>36. args["imm4_0"] = (given["rs1off"][1] \div 1) % 32
  BY <1>31, <1>5, <1>6, <1>34, <1>30
<1>37. args["funct3"] = funct3
  BY <1>31, <1>5, <1>6, <1>34, <1>30
<1>38. args["rs1"] = given["rs1off"][2]
  BY <1>31, <1>5, <1>6, <1>34, <1>30
<1>39. args["rs2"] = given["rs2"]
  BY <1>31, <1>5, <1>6, <1>34, <1>30
<1>40. args["imm11_5"] = (given["rs1off"][1] \div 32) % 128
  BY <1>31, <1>5, <1>6, <1>34, <1>30
<1>41. args = [e \in layout |-> args[e]]
  BY <1>29 DEF IsPlus
<1>42. args = [opcode |-> 35, imm4_0 |-> (given["rs1off"][1] \div 1) % 32, funct3 |-> funct3,
               rs1 |-> given["rs1off"][2], rs2 |-> given["rs2"],
               imm11_5 |-> (given["rs1off"][1] \div 32) % 128]
  BY <1>35, <1>36, <1>37, <1>38, <1>39, <1>40, <1>41
<1> QED BY <1>31, <1>29, <1>42 DEF SWord

LEMMA BranchMakes ==
  ASSUME NEW funct3, NEW given, NEW word, word = value(Branch(funct3), given),
         word # Refused,
         {"rs1", "rs2", "imm"} \subseteq DOMAIN given
  PROVE  /\ word = BWord(99, (given["imm"] \div 2048) % 2, (given["imm"] \div 2) % 16, funct3,
                  given["rs1"], given["rs2"], (given["imm"] \div 32) % 64,
                  (given["imm"] \div 4096) % 2)
<1> DEFINE kwargs == [funct3 |-> funct3]
           defaults == [opcode |-> 99]
           layout == {"opcode", "imm11", "imm4_1", "funct3", "rs1", "rs2", "imm10_5", "imm12"}
<1>1. PICK insn : insn = Insn(B, kwargs, <<ImmXfrm(B)>>, <<"rs1", "rs2", "imm">>)
  OBVIOUS
<1>2. insn = Branch(funct3)
  BY <1>1, BranchForm
<1>3. insn.cls = B /\ insn.kwargs = kwargs /\ insn.xfrms = <<ImmXfrm(B)>>
  BY <1>1, InsnParts
<1>4. ToSet(B.layout) = layout /\ B.ranges = BRanges /\ B.defaults = defaults
  BY Formats, BIs
<1>5. DOMAIN defaults = {"opcode"} /\ DOMAIN kwargs = {"funct3"}
  OBVIOUS
<1>6. /\ defaults["opcode"] = 99
      /\ kwargs["funct3"] = funct3
  OBVIOUS
<1> HIDE DEF kwargs, defaults
<1>7. word = value(insn, given) /\ value(insn, given) # Refused
  BY <1>2
<1>8. PICK all : IsPlus(all, kwargs, given)
  BY PlusIs
<1>9. /\ DOMAIN all = DOMAIN kwargs \cup DOMAIN given
      /\ \A e \in DOMAIN given : all[e] = given[e]
      /\ \A e \in DOMAIN kwargs : e \notin DOMAIN given => all[e] = kwargs[e]
  BY <1>8 DEF IsPlus
<1>10. {"imm"} \subseteq DOMAIN all
  BY <1>5, <1>9
<1>11. PICK left1 : IsDrop(left1, all, {"imm"})
  BY DropIs
<1>12. /\ DOMAIN left1 = DOMAIN all \ {"imm"}
       /\ \A e \in DOMAIN all : e \notin {"imm"} => left1[e] = all[e]
  BY <1>11 DEF IsDrop
<1> DEFINE out1 == [imm11 |-> (all["imm"] \div 2048) % 2, imm4_1 |-> (all["imm"] \div 2) % 16,
      imm10_5 |-> (all["imm"] \div 32) % 64, imm12 |-> (all["imm"] \div 4096) % 2]
<1>13. inputs_to_layout(ImmXfrm(B), all) = out1
  BY ImmBForth
<1>14. /\ DOMAIN out1 = {"imm11", "imm4_1", "imm10_5", "imm12"}
       /\ out1["imm11"] = (all["imm"] \div 2048) % 2
       /\ out1["imm4_1"] = (all["imm"] \div 2) % 16
       /\ out1["imm10_5"] = (all["imm"] \div 32) % 64
       /\ out1["imm12"] = (all["imm"] \div 4096) % 2
  OBVIOUS
<1> HIDE DEF out1
<1>15. ToSet(ImmXfrm(B).inputs) = {"imm"}
  BY XfrmInputs
<1>16. PICK more1 : more1 = Forward(ImmXfrm(B), all) /\ IsPlus(more1, left1, out1)
  BY <1>10, <1>11, <1>13, <1>15, ForwardIs
<1>17. /\ DOMAIN more1 = DOMAIN left1 \cup DOMAIN out1
       /\ \A e \in DOMAIN out1 : more1[e] = out1[e]
       /\ \A e \in DOMAIN left1 : e \notin DOMAIN out1 => more1[e] = left1[e]
  BY <1>16 DEF IsPlus
<1>18. more1 = Applied(<<ImmXfrm(B)>>, all)
  BY <1>16, AppliedOf
<1>19. MakesWord(value(insn, given), ToSet(insn.cls.layout), insn.cls.ranges,
                  insn.cls.defaults, insn.kwargs, given, more1)
  BY Zenon, <1>7, <1>3, <1>8, <1>18, ValueMakes
<1>20. MakesWord(word, layout, BRanges, defaults, kwargs, given, more1)
  BY <1>7, <1>3, <1>4, <1>19
<1>21. PICK args :
         /\ IsPlus(args, defaults, more1) /\ DOMAIN args = layout /\ word = Made(args, BRanges)
         /\ DOMAIN more1 \subseteq layout
         /\ DOMAIN more1 \cap DOMAIN given \cap (DOMAIN defaults \cup DOMAIN kwargs) = {}
  BY <1>20 DEF MakesWord
<1>22. /\ DOMAIN args = DOMAIN defaults \cup DOMAIN more1
       /\ \A e \in DOMAIN more1 : args[e] = more1[e]
       /\ \A e \in DOMAIN defaults : e \notin DOMAIN more1 => args[e] = defaults[e]
  BY <1>21 DEF IsPlus
<1>23. {"funct3", "opcode"} \cap DOMAIN given = {}
  BY <1>21, <1>5, <1>9, <1>12, <1>14, <1>17
<1>24. /\ "funct3" \in DOMAIN all /\ all["funct3"] = funct3
       /\ "rs1" \in DOMAIN all /\ all["rs1"] = given["rs1"]
       /\ "rs2" \in DOMAIN all /\ all["rs2"] = given["rs2"]
       /\ "imm" \in DOMAIN all /\ all["imm"] = given["imm"]
  BY <1>5, <1>6, <1>9, <1>23
<1>25. /\ "funct3" \in DOMAIN more1 /\ more1["funct3"] = funct3
       /\ "rs1" \in DOMAIN more1 /\ more1["rs1"] = given["rs1"]
       /\ "rs2" \in DOMAIN more1 /\ more1["rs2"] = given["rs2"]
       /\ "imm11" \in DOMAIN more1 /\ more1["imm11"] = (given["imm"] \div 2048) % 2
       /\ "imm4_1" \in DOMAIN more1 /\ more1["imm4_1"] = (given["imm"] \div 2) % 16
       /\ "imm10_5" \in DOMAIN more1 /\ more1["imm10_5"] = (given["imm"] \div 32) % 64
       /\ "imm12" \in DOMAIN more1 /\ more1["imm12"] = (given["imm"] \div 4096) % 2
  BY <1>12, <1>14, <1>17, <1>24, <1>23
<1>26. args["opcode"] = 99
  BY <1>23, <1>5, <1>6, <1>25, <1>22, <1>9, <1>12, <1>14, <1>17
<1>27. args["imm11"] = (given["imm"] \div 2048) % 2
  BY <1>23, <1>5, <1>6, <1>25, <1>22
<1>28. args["imm4_1"] = (given["imm"] \div 2) % 16
  BY <1>23, <1>5, <1>6, <1>25, <1>22
<1>29. args["funct3"] = funct3
  BY <1>23, <1>5, <1>6, <1>25, <1>22
<1>30. args["rs1"] = given["rs1"]
  BY <1>23, <1>5, <1>6, <1>25, <1>22
<1>31. args["rs2"] = given["rs2"]
  BY <1>23, <1>5, <1>6, <1>25, <1>22
<1>32. args["imm10_5"] = (given["imm"] \div 32) % 64
  BY <1>23, <1>5, <1>6, <1>25, <1>22
<1>33. args["imm12"] = (given["imm"] \div 4096) % 2
  BY <1>23, <1>5, <1>6, <1>25, <1>22
<1>34. args = [e \in layout |-> args[e]]
  BY <1>21 DEF IsPlus
<1>35. args = [opcode |-> 99, imm11 |-> (given["imm"] \div 2048) % 2,
               imm4_1 |-> (given["imm"] \div 2) % 16, funct3 |-> funct3, rs1 |-> given["rs1"],
               rs2 |-> given["rs2"], imm10_5 |-> (given["imm"] \div 32) % 64,
               imm12 |-> (given["imm"] \div 4096) % 2]
  BY <1>26, <1>27, <1>28, <1>29, <1>30, <1>31, <1>32, <1>33, <1>34
<1> QED BY <1>23, <1>21, <1>35 DEF BWord

LEMMA UpperMakes ==
  ASSUME NEW opcode, NEW given, NEW word, word = value(Upper(opcode), given),
         word # Refused,
         {"rd", "imm"} \subseteq DOMAIN given
  PROVE  /\ given["imm"] \in -(2^20 - 1) .. 2^20 - 1
         /\ word = UWord(opcode, given["rd"], given["imm"])
<1> DEFINE kwargs == [opcode |-> opcode]
           defaults == <<>>
           layout == {"opcode", "rd", "imm"}
<1>1. PICK insn : insn = Insn(U, kwargs, <<CheckXfrm>>, <<"rd", "imm">>)
  OBVIOUS
<1>2. insn = Upper(opcode)
  BY <1>1, UpperForm
<1>3. insn.cls = U /\ insn.kwargs = kwargs /\ insn.xfrms = <<CheckXfrm>>
  BY <1>1, InsnParts
<1>4. ToSet(U.layout) = layout /\ U.ranges = URanges /\ U.defaults = defaults
  BY Formats, UIs
<1>5. DOMAIN defaults = {} /\ DOMAIN kwargs = {"opcode"}
  OBVIOUS
<1>6. /\ kwargs["opcode"] = opcode
  OBVIOUS
<1> HIDE DEF kwargs, defaults
<1>7. word = value(insn, given) /\ value(insn, given) # Refused
  BY <1>2
<1>8. PICK all : IsPlus(all, kwargs, given)
  BY PlusIs
<1>9. /\ DOMAIN all = DOMAIN kwargs \cup DOMAIN given
      /\ \A e \in DOMAIN given : all[e] = given[e]
      /\ \A e \in DOMAIN kwargs : e \notin DOMAIN given => all[e] = kwargs[e]
  BY <1>8 DEF IsPlus
<1>10. {"imm"} \subseteq DOMAIN all
  BY <1>5, <1>9
<1>11. PICK left1 : IsDrop(left1, all, {"imm"})
  BY DropIs
<1>12. /\ DOMAIN left1 = DOMAIN all \ {"imm"}
       /\ \A e \in DOMAIN all : e \notin {"imm"} => left1[e] = all[e]
  BY <1>11 DEF IsDrop
<1> DEFINE out1 == IF all["imm"] \in -(2^20 - 1) .. 2^20 - 1 THEN [imm |-> all["imm"]]
      ELSE Assertion
<1>13. inputs_to_layout(CheckXfrm, all) = out1
  BY CheckForth
<1>14. /\ all["imm"] \in -(2^20 - 1) .. 2^20 - 1 =>
            /\ DOMAIN out1 = {"imm"}
            /\ out1["imm"] = all["imm"]
       /\ ~(all["imm"] \in -(2^20 - 1) .. 2^20 - 1) => DOMAIN out1 = {"refused"}
  BY DEF Assertion
<1> HIDE DEF out1
<1>15. ToSet(CheckXfrm.inputs) = {"imm"}
  BY XfrmInputs
<1>16. PICK more1 : more1 = Forward(CheckXfrm, all) /\ IsPlus(more1, left1, out1)
  BY <1>10, <1>11, <1>13, <1>15, ForwardIs
<1>17. /\ DOMAIN more1 = DOMAIN left1 \cup DOMAIN out1
       /\ \A e \in DOMAIN out1 : more1[e] = out1[e]
       /\ \A e \in DOMAIN left1 : e \notin DOMAIN out1 => more1[e] = left1[e]
  BY <1>16 DEF IsPlus
<1>18. more1 = Applied(<<CheckXfrm>>, all)
  BY <1>16, AppliedOf
<1>19. MakesWord(value(insn, given), ToSet(insn.cls.layout), insn.cls.ranges,
                  insn.cls.defaults, insn.kwargs, given, more1)
  BY Zenon, <1>7, <1>3, <1>8, <1>18, ValueMakes
<1>20. MakesWord(word, layout, URanges, defaults, kwargs, given, more1)
  BY <1>7, <1>3, <1>4, <1>19
<1>21. PICK args :
         /\ IsPlus(args, defaults, more1) /\ DOMAIN args = layout /\ word = Made(args, URanges)
         /\ DOMAIN more1 \subseteq layout
         /\ DOMAIN more1 \cap DOMAIN given \cap (DOMAIN defaults \cup DOMAIN kwargs) = {}
  BY <1>20 DEF MakesWord
<1>22. /\ DOMAIN args = DOMAIN defaults \cup DOMAIN more1
       /\ \A e \in DOMAIN more1 : args[e] = more1[e]
       /\ \A e \in DOMAIN defaults : e \notin DOMAIN more1 => args[e] = defaults[e]
  BY <1>21 DEF IsPlus
<1>23. given["imm"] \in -(2^20 - 1) .. 2^20 - 1
  BY <1>21, <1>5, <1>9, <1>12, <1>14, <1>17
<1>24. {"opcode"} \cap DOMAIN given = {}
  BY <1>21, <1>5, <1>9, <1>12, <1>14, <1>17, <1>23
<1>25. /\ "opcode" \in DOMAIN all /\ all["opcode"] = opcode
       /\ "rd" \in DOMAIN all /\ all["rd"] = given["rd"]
       /\ "imm" \in DOMAIN all /\ all["imm"] = given["imm"]
  BY <1>5, <1>6, <1>9, <1>23, <1>24
<1>26. all["imm"] \in -(2^20 - 1) .. 2^20 - 1
  BY <1>25, <1>23, <1>24
<1>27. /\ DOMAIN out1 = {"imm"}
       /\ out1["imm"] = all["imm"]
  BY <1>14, <1>26
<1>28. /\ "opcode" \in DOMAIN more1 /\ more1["opcode"] = opcode
       /\ "rd" \in DOMAIN more1 /\ more1["rd"] = given["rd"]
       /\ "imm" \in DOMAIN more1 /\ more1["imm"] = given["imm"]
  BY <1>12, <1>27, <1>17, <1>25, <1>23, <1>24
<1>29. args["opcode"] = opcode
  BY <1>23, <1>24, <1>5, <1>6, <1>28, <1>22
<1>30. args["rd"] = given["rd"]
  BY <1>23, <1>24, <1>5, <1>6, <1>28, <1>22
<1>31. args["imm"] = given["imm"]
  BY <1>23, <1>24, <1>5, <1>6, <1>28, <1>22
<1>32. args = [e \in layout |-> args[e]]
  BY <1>21 DEF IsPlus
<1>33. args = [opcode |-> opcode, rd |-> given["rd"], imm |-> given["imm"]]
  BY <1>29, <1>30, <1>31, <1>32
<1> QED BY <1>23, <1>24, <1>21, <1>33 DEF UWord

LEMMA JalrMakes ==
  ASSUME NEW given, NEW word, word = value(Jalr, given),
         word # Refused
  PROVE  /\ DOMAIN given = {"rd", "rs1", "imm"}
         /\ word = IWord(103, given["rd"], 0, given["rs1"], given["imm"])
<1> DEFINE kwargs == [opcode |-> 103, funct3 |-> 0]
           defaults == [opcode |-> 19]
           layout == {"opcode", "rd", "funct3", "rs1", "imm"}
<1>1. PICK insn : insn = Insn(I, kwargs, <<>>, <<"rd", "rs1", "imm">>)
  OBVIOUS
<1>2. insn = Jalr
  BY <1>1, JalrForm
<1>3. insn.cls = I /\ insn.kwargs = kwargs /\ insn.xfrms = <<>>
  BY <1>1, InsnParts
<1>4. ToSet(I.layout) = layout /\ I.ranges = IRanges /\ I.defaults = defaults
  BY Formats, IIs
<1>5. DOMAIN defaults = {"opcode"} /\ DOMAIN kwargs = {"opcode", "funct3"}
  OBVIOUS
<1>6. /\ defaults["opcode"] = 19
      /\ kwargs["opcode"] = 103
      /\ kwargs["funct3"] = 0
  OBVIOUS
<1> HIDE DEF kwargs, defaults
<1>7. word = value(insn, given) /\ value(insn, given) # Refused
  BY <1>2
<1>8. PICK all : IsPlus(all, kwargs, given)
  BY PlusIs
<1>9. /\ DOMAIN all = DOMAIN kwargs \cup DOMAIN given
      /\ \A e \in DOMAIN given : all[e] = given[e]
      /\ \A e \in DOMAIN kwargs : e \notin DOMAIN given => all[e] = kwargs[e]
  BY <1>8 DEF IsPlus
<1>10. all = Applied(<<>>, all)
  BY AppliedOf
<1>11. MakesWord(value(insn, given), ToSet(insn.cls.layout), insn.cls.ranges,
                  insn.cls.defaults, insn.kwargs, given, all)
  BY Zenon, <1>7, <1>3, <1>8, <1>10, ValueMakes
<1>12. MakesWord(word, layout, IRanges, defaults, kwargs, given, all)
  BY <1>7, <1>3, <1>4, <1>11
<1>13. PICK args :
         /\ IsPlus(args, defaults, all) /\ DOMAIN args = layout /\ word = Made(args, IRanges)
         /\ DOMAIN all \subseteq layout
         /\ DOMAIN all \cap DOMAIN given \cap (DOMAIN defaults \cup DOMAIN kwargs) = {}
  BY <1>12 DEF MakesWord
<1>14. /\ DOMAIN args = DOMAIN defaults \cup DOMAIN all
       /\ \A e \in DOMAIN all : args[e] = all[e]
       /\ \A e \in DOMAIN defaults : e \notin DOMAIN all => args[e] = defaults[e]
  BY <1>13 DEF IsPlus
<1>15. DOMAIN given = {"rd", "rs1", "imm"}
  BY <1>13, <1>14, <1>5, <1>9
<1>16. /\ "opcode" \in DOMAIN all /\ all["opcode"] = 103
       /\ "funct3" \in DOMAIN all /\ all["funct3"] = 0
       /\ "rd" \in DOMAIN all /\ all["rd"] = given["rd"]
       /\ "rs1" \in DOMAIN all /\ all["rs1"] = given["rs1"]
       /\ "imm" \in DOMAIN all /\ all["imm"] = given["imm"]
  BY <1>5, <1>6, <1>9, <1>15
<1>17. args["opcode"] = 103
  BY <1>15, <1>5, <1>6, <1>16, <1>14
<1>18. args["rd"] = given["rd"]
  BY <1>15, <1>5, <1>6, <1>16, <1>14
<1>19. args["funct3"] = 0
  BY <1>15, <1>5, <1>6, <1>16, <1>14
<1>20. args["rs1"] = given["rs1"]
  BY <1>15, <1>5, <1>6, <1>16, <1>14
<1>21. args["imm"] = given["imm"]
  BY <1>15, <1>5, <1>6, <1>16, <1>14
<1>22. args = [e \in layout |-> args[e]]
  BY <1>13 DEF IsPlus
<1>23. args = [opcode |-> 103, rd |-> given["rd"], funct3 |-> 0, rs1 |-> given["rs1"],
               imm |-> given["imm"]]
  BY <1>17, <1>18, <1>19, <1>20, <1>21, <1>22
<1> QED BY <1>15, <1>13, <1>23 DEF IWord

LEMMA JalMakes ==
  ASSUME NEW given, NEW word, word = value(Jal, given),
         word # Refused,
         {"rd", "imm"} \subseteq DOMAIN given
  PROVE  /\ word = JWord(111, given["rd"], (given["imm"] \div 4096) % 256,
                  (given["imm"] \div 2048) % 2, (given["imm"] \div 2) % 1024,
                  (given["imm"] \div 1048576) % 2)
<1> DEFINE kwargs == <<>>
           defaults == [opcode |-> 111]
           layout == {"opcode", "rd", "imm19_12", "imm11", "imm10_1", "imm20"}
<1>1. PICK insn : insn = Insn(J, kwargs, <<ImmXfrm(J)>>, <<"rd", "imm">>)
  OBVIOUS
<1>2. insn = Jal
  BY <1>1, JalForm
<1>3. insn.cls = J /\ insn.kwargs = kwargs /\ insn.xfrms = <<ImmXfrm(J)>>
  BY <1>1, InsnParts
<1>4. ToSet(J.layout) = layout /\ J.ranges = JRanges /\ J.defaults = defaults
  BY Formats, JIs
<1>5. DOMAIN defaults = {"opcode"} /\ DOMAIN kwargs = {}
  OBVIOUS
<1>6. /\ defaults["opcode"] = 111
  OBVIOUS
<1> HIDE DEF kwargs, defaults
<1>7. word = value(insn, given) /\ value(insn, given) # Refused
  BY <1>2
<1>8. PICK all : IsPlus(all, kwargs, given)
  BY PlusIs
<1>9. /\ DOMAIN all = DOMAIN kwargs \cup DOMAIN given
      /\ \A e \in DOMAIN given : all[e] = given[e]
      /\ \A e \in DOMAIN kwargs : e \notin DOMAIN given => all[e] = kwargs[e]
  BY <1>8 DEF IsPlus
<1>10. {"imm"} \subseteq DOMAIN all
  BY <1>5, <1>9
<1>11. PICK left1 : IsDrop(left1, all, {"imm"})
  BY DropIs
<1>12. /\ DOMAIN left1 = DOMAIN all \ {"imm"}
       /\ \A e \in DOMAIN all : e \notin {"imm"} => left1[e] = all[e]
  BY <1>11 DEF IsDrop
<1> DEFINE out1 == [imm19_12 |-> (all["imm"] \div 4096) % 256,
      imm11 |-> (all["imm"] \div 2048) % 2, imm10_1 |-> (all["imm"] \div 2) % 1024,
      imm20 |-> (all["imm"] \div 1048576) % 2]
<1>13. inputs_to_layout(ImmXfrm(J), all) = out1
  BY ImmJForth
<1>14. /\ DOMAIN out1 = {"imm19_12", "imm11", "imm10_1", "imm20"}
       /\ out1["imm19_12"] = (all["imm"] \div 4096) % 256
       /\ out1["imm11"] = (all["imm"] \div 2048) % 2
       /\ out1["imm10_1"] = (all["imm"] \div 2) % 1024
       /\ out1["imm20"] = (all["imm"] \div 1048576) % 2
  OBVIOUS
<1> HIDE DEF out1
<1>15. ToSet(ImmXfrm(J).inputs) = {"imm"}
  BY XfrmInputs
<1>16. PICK more1 : more1 = Forward(ImmXfrm(J), all) /\ IsPlus(more1, left1, out1)
  BY <1>10, <1>11, <1>13, <1>15, ForwardIs
<1>17. /\ DOMAIN more1 = DOMAIN left1 \cup DOMAIN out1
       /\ \A e \in DOMAIN out1 : more1[e] = out1[e]
       /\ \A e \in DOMAIN left1 : e \notin DOMAIN out1 => more1[e] = left1[e]
  BY <1>16 DEF IsPlus
<1>18. more1 = Applied(<<ImmXfrm(J)>>, all)
  BY <1>16, AppliedOf
<1>19. MakesWord(value(insn, given), ToSet(insn.cls.layout), insn.cls.ranges,
                  insn.cls.defaults, insn.kwargs, given, more1)
  BY Zenon, <1>7, <1>3, <1>8, <1>18, ValueMakes
<1>20. MakesWord(word, layout, JRanges, defaults, kwargs, given, more1)
  BY <1>7, <1>3, <1>4, <1>19
<1>21. PICK args :
         /\ IsPlus(args, defaults, more1) /\ DOMAIN args = layout /\ word = Made(args, JRanges)
         /\ DOMAIN more1 \subseteq layout
         /\ DOMAIN more1 \cap DOMAIN given \cap (DOMAIN defaults \cup DOMAIN kwargs) = {}
  BY <1>20 DEF MakesWord
<1>22. /\ DOMAIN args = DOMAIN defaults \cup DOMAIN more1
       /\ \A e \in DOMAIN more1 : args[e] = more1[e]
       /\ \A e \in DOMAIN defaults : e \notin DOMAIN more1 => args[e] = defaults[e]
  BY <1>21 DEF IsPlus
<1>23. {"opcode"} \cap DOMAIN given = {}
  BY <1>21, <1>5, <1>9, <1>12, <1>14, <1>17
<1>24. /\ "rd" \in DOMAIN all /\ all["rd"] = given["rd"]
       /\ "imm" \in DOMAIN all /\ all["imm"] = given["imm"]
  BY <1>5, <1>6, <1>9, <1>23
<1>25. /\ "rd" \in DOMAIN more1 /\ more1["rd"] = given["rd"]
       /\ "imm19_12" \in DOMAIN more1 /\ more1["imm19_12"] = (given["imm"] \div 4096) % 256
       /\ "imm11" \in DOMAIN more1 /\ more1["imm11"] = (given["imm"] \div 2048) % 2
       /\ "imm10_1" \in DOMAIN more1 /\ more1["imm10_1"] = (given["imm"] \div 2) % 1024
       /\ "imm20" \in DOMAIN more1 /\ more1["imm20"] = (given["imm"] \div 1048576) % 2
  BY <1>12, <1>14, <1>17, <1>24, <1>23
<1>26. args["opcode"] = 111
  BY <1>23, <1>5, <1>6, <1>25, <1>22, <1>9, <1>12, <1>14, <1>17
<1>27. args["rd"] = given["rd"]
  BY <1>23, <1>5, <1>6, <1>25, <1>22
<1>28. args["imm19_12"] = (given["imm"] \div 4096) % 256
  BY <1>23, <1>5, <1>6, <1>25, <1>22
<1>29. args["imm11"] = (given["imm"] \div 2048) % 2
  BY <1>23, <1>5, <1>6, <1>25, <1>22
<1>30. args["imm10_1"] = (given["imm"] \div 2) % 1024
  BY <1>23, <1>5, <1>6, <1>25, <1>22
<1>31. args["imm20"] = (given["imm"] \div 1048576) % 2
  BY <1>23, <1>5, <1>6, <1>25, <1>22
<1>32. args = [e \in layout |-> args[e]]
  BY <1>21 DEF IsPlus
<1>33. args = [opcode |-> 111, rd |-> given["rd"], imm19_12 |-> (given["imm"] \div 4096) % 256,
               imm11 |-> (given["imm"] \div 2048) % 2, imm10_1 |-> (given["imm"] \div 2) % 1024,
               imm20 |-> (given["imm"] \div 1048576) % 2]
  BY <1>26, <1>27, <1>28, <1>29, <1>30, <1>31, <1>32
<1> QED BY <1>23, <1>21, <1>33 DEF JWord

LEMMA FenceTSOMakes ==
  ASSUME NEW given, NEW word, word = value(Insns.FENCE_TSO, given),
         word # Refused,
         {"pred", "succ"} \cap DOMAIN given = {}
  PROVE  /\ word = IWord(15, 0, 0, 0, 2099)
<1> DEFINE kwargs == [opcode |-> 15, funct3 |-> 0, rd |-> 0, rs1 |-> 0, pred |-> {"r", "w"},
      succ |-> {"r", "w"}]
           defaults == [opcode |-> 19]
           layout == {"opcode", "rd", "funct3", "rs1", "imm"}
<1>1. PICK insn : insn = Insn(I, kwargs, <<FenceXfrm(8)>>, <<>>)
  OBVIOUS
<1>2. insn = Insns.FENCE_TSO
  BY <1>1, FenceTSOForm
<1>3. insn.cls = I /\ insn.kwargs = kwargs /\ insn.xfrms = <<FenceXfrm(8)>>
  BY <1>1, InsnParts
<1>4. ToSet(I.layout) = layout /\ I.ranges = IRanges /\ I.defaults = defaults
  BY Formats, IIs
<1>5. DOMAIN defaults = {"opcode"} /\ DOMAIN kwargs =
        {"opcode", "funct3", "rd", "rs1", "pred", "succ"}
  OBVIOUS
<1>6. /\ defaults["opcode"] = 19
      /\ kwargs["opcode"] = 15
      /\ kwargs["funct3"] = 0
      /\ kwargs["rd"] = 0
      /\ kwargs["rs1"] = 0
      /\ kwargs["pred"] = {"r", "w"}
      /\ kwargs["succ"] = {"r", "w"}
  OBVIOUS
<1> HIDE DEF kwargs, defaults
<1>7. word = value(insn, given) /\ value(insn, given) # Refused
  BY <1>2
<1>8. PICK all : IsPlus(all, kwargs, given)
  BY PlusIs
<1>9. /\ DOMAIN all = DOMAIN kwargs \cup DOMAIN given
      /\ \A e \in DOMAIN given : all[e] = given[e]
      /\ \A e \in DOMAIN kwargs : e \notin DOMAIN given => all[e] = kwargs[e]
  BY <1>8 DEF IsPlus
<1>10. {"pred", "succ"} \subseteq DOMAIN all
  BY <1>5, <1>9
<1>11. PICK left1 : IsDrop(left1, all, {"pred", "succ"})
  BY DropIs
<1>12. /\ DOMAIN left1 = DOMAIN all \ {"pred", "succ"}
       /\ \A e \in DOMAIN all : e \notin {"pred", "succ"} => left1[e] = all[e]
  BY <1>11 DEF IsDrop
<1> DEFINE out1 == IF all["pred"] = {} \/ all["succ"] = {} THEN Assertion
          ELSE [imm |-> fence_arg(all["succ"]) + 16 * fence_arg(all["pred"]) + 256 * 8]
<1>13. inputs_to_layout(FenceXfrm(8), all) = out1
  BY FenceForth
<1>14. /\ ~(all["pred"] = {} \/ all["succ"] = {}) =>
            /\ DOMAIN out1 = {"imm"}
            /\ out1["imm"] = fence_arg(all["succ"]) + 16 * fence_arg(all["pred"]) + 256 * 8
       /\ ~(~(all["pred"] = {} \/ all["succ"] = {})) => DOMAIN out1 = {"refused"}
  BY DEF Assertion
<1> HIDE DEF out1
<1>15. ToSet(FenceXfrm(8).inputs) = {"pred", "succ"}
  BY XfrmInputs
<1>16. PICK more1 : more1 = Forward(FenceXfrm(8), all) /\ IsPlus(more1, left1, out1)
  BY <1>10, <1>11, <1>13, <1>15, ForwardIs
<1>17. /\ DOMAIN more1 = DOMAIN left1 \cup DOMAIN out1
       /\ \A e \in DOMAIN out1 : more1[e] = out1[e]
       /\ \A e \in DOMAIN left1 : e \notin DOMAIN out1 => more1[e] = left1[e]
  BY <1>16 DEF IsPlus
<1>18. more1 = Applied(<<FenceXfrm(8)>>, all)
  BY <1>16, AppliedOf
<1>19. MakesWord(value(insn, given), ToSet(insn.cls.layout), insn.cls.ranges,
                  insn.cls.defaults, insn.kwargs, given, more1)
  BY Zenon, <1>7, <1>3, <1>8, <1>18, ValueMakes
<1>20. MakesWord(word, layout, IRanges, defaults, kwargs, given, more1)
  BY <1>7, <1>3, <1>4, <1>19
<1>21. PICK args :
         /\ IsPlus(args, defaults, more1) /\ DOMAIN args = layout /\ word = Made(args, IRanges)
         /\ DOMAIN more1 \subseteq layout
         /\ DOMAIN more1 \cap DOMAIN given \cap (DOMAIN defaults \cup DOMAIN kwargs) = {}
  BY <1>20 DEF MakesWord
<1>22. /\ DOMAIN args = DOMAIN defaults \cup DOMAIN more1
       /\ \A e \in DOMAIN more1 : args[e] = more1[e]
       /\ \A e \in DOMAIN defaults : e \notin DOMAIN more1 => args[e] = defaults[e]
  BY <1>21 DEF IsPlus
<1>23. {"opcode", "funct3", "rd", "rs1", "opcode"} \cap DOMAIN given = {}
  BY <1>21, <1>5, <1>9, <1>12, <1>14, <1>17
<1>24. /\ "opcode" \in DOMAIN all /\ all["opcode"] = 15
       /\ "funct3" \in DOMAIN all /\ all["funct3"] = 0
       /\ "rd" \in DOMAIN all /\ all["rd"] = 0
       /\ "rs1" \in DOMAIN all /\ all["rs1"] = 0
       /\ "pred" \in DOMAIN all /\ all["pred"] = {"r", "w"}
       /\ "succ" \in DOMAIN all /\ all["succ"] = {"r", "w"}
  BY <1>5, <1>6, <1>9, <1>23
<1>25. ~(all["pred"] = {} \/ all["succ"] = {})
  BY <1>24, <1>23
<1>26. /\ DOMAIN out1 = {"imm"}
       /\ out1["imm"] = fence_arg(all["succ"]) + 16 * fence_arg(all["pred"]) + 256 * 8
  BY <1>14, <1>25
<1>27. /\ "opcode" \in DOMAIN more1 /\ more1["opcode"] = 15
       /\ "funct3" \in DOMAIN more1 /\ more1["funct3"] = 0
       /\ "rd" \in DOMAIN more1 /\ more1["rd"] = 0
       /\ "rs1" \in DOMAIN more1 /\ more1["rs1"] = 0
       /\ "imm" \in DOMAIN more1 /\ more1["imm"] = fence_arg({"r", "w"}) +
            16 * fence_arg({"r", "w"}) + 256 * 8
  BY <1>12, <1>26, <1>17, <1>24, <1>23
<1>28. args["opcode"] = 15
  BY <1>23, <1>5, <1>6, <1>27, <1>22
<1>29. args["rd"] = 0
  BY <1>23, <1>5, <1>6, <1>27, <1>22
<1>30. args["funct3"] = 0
  BY <1>23, <1>5, <1>6, <1>27, <1>22
<1>31. args["rs1"] = 0
  BY <1>23, <1>5, <1>6, <1>27, <1>22
<1>32. args["imm"] = 2099
  BY <1>23, <1>5, <1>6, <1>27, <1>22, FencePower
<1>33. args = [e \in layout |-> args[e]]
  BY <1>21 DEF IsPlus
<1>34. args = [opcode |-> 15, rd |-> 0, funct3 |-> 0, rs1 |-> 0, imm |-> 2099]
  BY <1>28, <1>29, <1>30, <1>31, <1>32, <1>33
<1> QED BY <1>23, <1>21, <1>34 DEF IWord

LEMMA SnezMakes ==
  ASSUME NEW given, NEW word, word = value(Insns.SNEZ, given),
         word # Refused
  PROVE  /\ DOMAIN given = {"rd", "rs2"}
         /\ word = RWord(51, given["rd"], 3, 0, given["rs2"], 0)
<1> DEFINE kwargs == [funct3 |-> 3, rs1 |-> Reg("zero")]
           defaults == [opcode |-> 51, funct7 |-> 0]
           layout == {"opcode", "rd", "funct3", "rs1", "rs2", "funct7"}
<1>1. PICK insn : insn = Insn(R, kwargs, <<>>, <<"rd", "rs2">>)
  OBVIOUS
<1>2. insn = Insns.SNEZ
  BY <1>1, SnezForm
<1>3. insn.cls = R /\ insn.kwargs = kwargs /\ insn.xfrms = <<>>
  BY <1>1, InsnParts
<1>4. ToSet(R.layout) = layout /\ R.ranges = RRanges /\ R.defaults = defaults
  BY Formats, RIs
<1>5. DOMAIN defaults = {"opcode", "funct7"} /\ DOMAIN kwargs = {"funct3", "rs1"}
  OBVIOUS
<1>6. /\ defaults["opcode"] = 51
      /\ defaults["funct7"] = 0
      /\ kwargs["funct3"] = 3
      /\ kwargs["rs1"] = 0
  BY RegValues
<1> HIDE DEF kwargs, defaults
<1>7. word = value(insn, given) /\ value(insn, given) # Refused
  BY <1>2
<1>8. PICK all : IsPlus(all, kwargs, given)
  BY PlusIs
<1>9. /\ DOMAIN all = DOMAIN kwargs \cup DOMAIN given
      /\ \A e \in DOMAIN given : all[e] = given[e]
      /\ \A e \in DOMAIN kwargs : e \notin DOMAIN given => all[e] = kwargs[e]
  BY <1>8 DEF IsPlus
<1>10. all = Applied(<<>>, all)
  BY AppliedOf
<1>11. MakesWord(value(insn, given), ToSet(insn.cls.layout), insn.cls.ranges,
                  insn.cls.defaults, insn.kwargs, given, all)
  BY Zenon, <1>7, <1>3, <1>8, <1>10, ValueMakes
<1>12. MakesWord(word, layout, RRanges, defaults, kwargs, given, all)
  BY <1>7, <1>3, <1>4, <1>11
<1>13. PICK args :
         /\ IsPlus(args, defaults, all) /\ DOMAIN args = layout /\ word = Made(args, RRanges)
         /\ DOMAIN all \subseteq layout
         /\ DOMAIN all \cap DOMAIN given \cap (DOMAIN defaults \cup DOMAIN kwargs) = {}
  BY <1>12 DEF MakesWord
<1>14. /\ DOMAIN args = DOMAIN defaults \cup DOMAIN all
       /\ \A e \in DOMAIN all : args[e] = all[e]
       /\ \A e \in DOMAIN defaults : e \notin DOMAIN all => args[e] = defaults[e]
  BY <1>13 DEF IsPlus
<1>15. DOMAIN given = {"rd", "rs2"}
  BY <1>13, <1>14, <1>5, <1>9
<1>16. /\ "funct3" \in DOMAIN all /\ all["funct3"] = 3
       /\ "rs1" \in DOMAIN all /\ all["rs1"] = 0
       /\ "rd" \in DOMAIN all /\ all["rd"] = given["rd"]
       /\ "rs2" \in DOMAIN all /\ all["rs2"] = given["rs2"]
  BY <1>5, <1>6, <1>9, <1>15
<1>17. args["opcode"] = 51
  BY <1>15, <1>5, <1>6, <1>16, <1>14, <1>9
<1>18. args["rd"] = given["rd"]
  BY <1>15, <1>5, <1>6, <1>16, <1>14
<1>19. args["funct3"] = 3
  BY <1>15, <1>5, <1>6, <1>16, <1>14
<1>20. args["rs1"] = 0
  BY <1>15, <1>5, <1>6, <1>16, <1>14
<1>21. args["rs2"] = given["rs2"]
  BY <1>15, <1>5, <1>6, <1>16, <1>14
<1>22. args["funct7"] = 0
  BY <1>15, <1>5, <1>6, <1>16, <1>14, <1>9
<1>23. args = [e \in layout |-> args[e]]
  BY <1>13 DEF IsPlus
<1>24. args = [opcode |-> 51, rd |-> given["rd"], funct3 |-> 3, rs1 |-> 0, rs2 |-> given["rs2"],
               funct7 |-> 0]
  BY <1>17, <1>18, <1>19, <1>20, <1>21, <1>22, <1>23
<1> QED BY <1>15, <1>13, <1>24 DEF RWord

LEMMA RetMakes ==
  ASSUME NEW given, NEW word, word = value(Insns.RET, given),
         word # Refused
  PROVE  /\ DOMAIN given = {}
         /\ word = IWord(103, 0, 0, 1, 0)
<1> DEFINE kwargs == [opcode |-> 103, funct3 |-> 0, rd |-> Reg("zero"), rs1 |-> Reg("ra"),
      imm |-> 0]
           defaults == [opcode |-> 19]
           layout == {"opcode", "rd", "funct3", "rs1", "imm"}
<1>1. PICK insn : insn = Insn(I, kwargs, <<>>, <<>>)
  OBVIOUS
<1>2. insn = Insns.RET
  BY <1>1, RetForm
<1>3. insn.cls = I /\ insn.kwargs = kwargs /\ insn.xfrms = <<>>
  BY <1>1, InsnParts
<1>4. ToSet(I.layout) = layout /\ I.ranges = IRanges /\ I.defaults = defaults
  BY Formats, IIs
<1>5. DOMAIN defaults = {"opcode"} /\ DOMAIN kwargs = {"opcode", "funct3", "rd", "rs1", "imm"}
  OBVIOUS
<1>6. /\ defaults["opcode"] = 19
      /\ kwargs["opcode"] = 103
      /\ kwargs["funct3"] = 0
      /\ kwargs["rd"] = 0
      /\ kwargs["rs1"] = 1
      /\ kwargs["imm"] = 0
  BY RegValues
<1> HIDE DEF kwargs, defaults
<1>7. word = value(insn, given) /\ value(insn, given) # Refused
  BY <1>2
<1>8. PICK all : IsPlus(all, kwargs, given)
  BY PlusIs
<1>9. /\ DOMAIN all = DOMAIN kwargs \cup DOMAIN given
      /\ \A e \in DOMAIN given : all[e] = given[e]
      /\ \A e \in DOMAIN kwargs : e \notin DOMAIN given => all[e] = kwargs[e]
  BY <1>8 DEF IsPlus
<1>10. all = Applied(<<>>, all)
  BY AppliedOf
<1>11. MakesWord(value(insn, given), ToSet(insn.cls.layout), insn.cls.ranges,
                  insn.cls.defaults, insn.kwargs, given, all)
  BY Zenon, <1>7, <1>3, <1>8, <1>10, ValueMakes
<1>12. MakesWord(word, layout, IRanges, defaults, kwargs, given, all)
  BY <1>7, <1>3, <1>4, <1>11
<1>13. PICK args :
         /\ IsPlus(args, defaults, all) /\ DOMAIN args = layout /\ word = Made(args, IRanges)
         /\ DOMAIN all \subseteq layout
         /\ DOMAIN all \cap DOMAIN given \cap (DOMAIN defaults \cup DOMAIN kwargs) = {}
  BY <1>12 DEF MakesWord
<1>14. /\ DOMAIN args = DOMAIN defaults \cup DOMAIN all
       /\ \A e \in DOMAIN all : args[e] = all[e]
       /\ \A e \in DOMAIN defaults : e \notin DOMAIN all => args[e] = defaults[e]
  BY <1>13 DEF IsPlus
<1>15. DOMAIN given = {}
  BY <1>13, <1>14, <1>5, <1>9
<1>16. /\ "opcode" \in DOMAIN all /\ all["opcode"] = 103
       /\ "funct3" \in DOMAIN all /\ all["funct3"] = 0
       /\ "rd" \in DOMAIN all /\ all["rd"] = 0
       /\ "rs1" \in DOMAIN all /\ all["rs1"] = 1
       /\ "imm" \in DOMAIN all /\ all["imm"] = 0
  BY <1>5, <1>6, <1>9, <1>15
<1>17. args["opcode"] = 103
  BY <1>15, <1>5, <1>6, <1>16, <1>14
<1>18. args["rd"] = 0
  BY <1>15, <1>5, <1>6, <1>16, <1>14
<1>19. args["funct3"] = 0
  BY <1>15, <1>5, <1>6, <1>16, <1>14
<1>20. args["rs1"] = 1
  BY <1>15, <1>5, <1>6, <1>16, <1>14
<1>21. args["imm"] = 0
  BY <1>15, <1>5, <1>6, <1>16, <1>14
<1>22. args = [e \in layout |-> args[e]]
  BY <1>13 DEF IsPlus
<1>23. args = [opcode |-> 103, rd |-> 0, funct3 |-> 0, rs1 |-> 1, imm |-> 0]
  BY <1>17, <1>18, <1>19, <1>20, <1>21, <1>22
<1> QED BY <1>15, <1>13, <1>23 DEF IWord

LEMMA MvMakes ==
  ASSUME NEW given, NEW word, word = value(Insns.MV, given),
         word # Refused
  PROVE  /\ DOMAIN given = {"rd", "rs1"}
         /\ word = IWord(19, given["rd"], 0, given["rs1"], 0)
<1> DEFINE kwargs == [funct3 |-> 0, imm |-> 0]
           defaults == [opcode |-> 19]
           layout == {"opcode", "rd", "funct3", "rs1", "imm"}
<1>1. PICK insn : insn = Insn(I, kwargs, <<>>, <<"rd", "rs1">>)
  OBVIOUS
<1>2. insn = Insns.MV
  BY <1>1, MvForm
<1>3. insn.cls = I /\ insn.kwargs = kwargs /\ insn.xfrms = <<>>
  BY <1>1, InsnParts
<1>4. ToSet(I.layout) = layout /\ I.ranges = IRanges /\ I.defaults = defaults
  BY Formats, IIs
<1>5. DOMAIN defaults = {"opcode"} /\ DOMAIN kwargs = {"funct3", "imm"}
  OBVIOUS
<1>6. /\ defaults["opcode"] = 19
      /\ kwargs["funct3"] = 0
      /\ kwargs["imm"] = 0
  OBVIOUS
<1> HIDE DEF kwargs, defaults
<1>7. word = value(insn, given) /\ value(insn, given) # Refused
  BY <1>2
<1>8. PICK all : IsPlus(all, kwargs, given)
  BY PlusIs
<1>9. /\ DOMAIN all = DOMAIN kwargs \cup DOMAIN given
      /\ \A e \in DOMAIN given : all[e] = given[e]
      /\ \A e \in DOMAIN kwargs : e \notin DOMAIN given => all[e] = kwargs[e]
  BY <1>8 DEF IsPlus
<1>10. all = Applied(<<>>, all)
  BY AppliedOf
<1>11. MakesWord(value(insn, given), ToSet(insn.cls.layout), insn.cls.ranges,
                  insn.cls.defaults, insn.kwargs, given, all)
  BY Zenon, <1>7, <1>3, <1>8, <1>10, ValueMakes
<1>12. MakesWord(word, layout, IRanges, defaults, kwargs, given, all)
  BY <1>7, <1>3, <1>4, <1>11
<1>13. PICK args :
         /\ IsPlus(args, defaults, all) /\ DOMAIN args = layout /\ word = Made(args, IRanges)
         /\ DOMAIN all \subseteq layout
         /\ DOMAIN all \cap DOMAIN given \cap (DOMAIN defaults \cup DOMAIN kwargs) = {}
  BY <1>12 DEF MakesWord
<1>14. /\ DOMAIN args = DOMAIN defaults \cup DOMAIN all
       /\ \A e \in DOMAIN all : args[e] = all[e]
       /\ \A e \in DOMAIN defaults : e \notin DOMAIN all => args[e] = defaults[e]
  BY <1>13 DEF IsPlus
<1>15. DOMAIN given = {"rd", "rs1"}
  BY <1>13, <1>14, <1>5, <1>9
<1>16. /\ "funct3" \in DOMAIN all /\ all["funct3"] = 0
       /\ "imm" \in DOMAIN all /\ all["imm"] = 0
       /\ "rd" \in DOMAIN all /\ all["rd"] = given["rd"]
       /\ "rs1" \in DOMAIN all /\ all["rs1"] = given["rs1"]
  BY <1>5, <1>6, <1>9, <1>15
<1>17. args["opcode"] = 19
  BY <1>15, <1>5, <1>6, <1>16, <1>14, <1>9
<1>18. args["rd"] = given["rd"]
  BY <1>15, <1>5, <1>6, <1>16, <1>14
<1>19. args["funct3"] = 0
  BY <1>15, <1>5, <1>6, <1>16, <1>14
<1>20. args["rs1"] = given["rs1"]
  BY <1>15, <1>5, <1>6, <1>16, <1>14
<1>21. args["imm"] = 0
  BY <1>15, <1>5, <1>6, <1>16, <1>14
<1>22. args = [e \in layout |-> args[e]]
  BY <1>13 DEF IsPlus
<1>23. args = [opcode |-> 19, rd |-> given["rd"], funct3 |-> 0, rs1 |-> given["rs1"], imm |-> 0]
  BY <1>17, <1>18, <1>19, <1>20, <1>21, <1>22
<1> QED BY <1>15, <1>13, <1>23 DEF IWord

LEMMA SeqzMakes ==
  ASSUME NEW given, NEW word, word = value(Insns.SEQZ, given),
         word # Refused
  PROVE  /\ DOMAIN given = {"rd", "rs1"}
         /\ word = IWord(19, given["rd"], 3, given["rs1"], 1)
<1> DEFINE kwargs == [funct3 |-> 3, imm |-> 1]
           defaults == [opcode |-> 19]
           layout == {"opcode", "rd", "funct3", "rs1", "imm"}
<1>1. PICK insn : insn = Insn(I, kwargs, <<>>, <<"rd", "rs1">>)
  OBVIOUS
<1>2. insn = Insns.SEQZ
  BY <1>1, SeqzForm
<1>3. insn.cls = I /\ insn.kwargs = kwargs /\ insn.xfrms = <<>>
  BY <1>1, InsnParts
<1>4. ToSet(I.layout) = layout /\ I.ranges = IRanges /\ I.defaults = defaults
  BY Formats, IIs
<1>5. DOMAIN defaults = {"opcode"} /\ DOMAIN kwargs = {"funct3", "imm"}
  OBVIOUS
<1>6. /\ defaults["opcode"] = 19
      /\ kwargs["funct3"] = 3
      /\ kwargs["imm"] = 1
  OBVIOUS
<1> HIDE DEF kwargs, defaults
<1>7. word = value(insn, given) /\ value(insn, given) # Refused
  BY <1>2
<1>8. PICK all : IsPlus(all, kwargs, given)
  BY PlusIs
<1>9. /\ DOMAIN all = DOMAIN kwargs \cup DOMAIN given
      /\ \A e \in DOMAIN given : all[e] = given[e]
      /\ \A e \in DOMAIN kwargs : e \notin DOMAIN given => all[e] = kwargs[e]
  BY <1>8 DEF IsPlus
<1>10. all = Applied(<<>>, all)
  BY AppliedOf
<1>11. MakesWord(value(insn, given), ToSet(insn.cls.layout), insn.cls.ranges,
                  insn.cls.defaults, insn.kwargs, given, all)
  BY Zenon, <1>7, <1>3, <1>8, <1>10, ValueMakes
<1>12. MakesWord(word, layout, IRanges, defaults, kwargs, given, all)
  BY <1>7, <1>3, <1>4, <1>11
<1>13. PICK args :
         /\ IsPlus(args, defaults, all) /\ DOMAIN args = layout /\ word = Made(args, IRanges)
         /\ DOMAIN all \subseteq layout
         /\ DOMAIN all \cap DOMAIN given \cap (DOMAIN defaults \cup DOMAIN kwargs) = {}
  BY <1>12 DEF MakesWord
<1>14. /\ DOMAIN args = DOMAIN defaults \cup DOMAIN all
       /\ \A e \in DOMAIN all : args[e] = all[e]
       /\ \A e \in DOMAIN defaults : e \notin DOMAIN all => args[e] = defaults[e]
  BY <1>13 DEF IsPlus
<1>15. DOMAIN given = {"rd", "rs1"}
  BY <1>13, <1>14, <1>5, <1>9
<1>16. /\ "funct3" \in DOMAIN all /\ all["funct3"] = 3
       /\ "imm" \in DOMAIN all /\ all["imm"] = 1
       /\ "rd" \in DOMAIN all /\ all["rd"] = given["rd"]
       /\ "rs1" \in DOMAIN all /\ all["rs1"] = given["rs1"]
  BY <1>5, <1>6, <1>9, <1>15
<1>17. args["opcode"] = 19
  BY <1>15, <1>5, <1>6, <1>16, <1>14, <1>9
<1>18. args["rd"] = given["rd"]
  BY <1>15, <1>5, <1>6, <1>16, <1>14
<1>19. args["funct3"] = 3
  BY <1>15, <1>5, <1>6, <1>16, <1>14
<1>20. args["rs1"] = given["rs1"]
  BY <1>15, <1>5, <1>6, <1>16, <1>14
<1>21. args["imm"] = 1
  BY <1>15, <1>5, <1>6, <1>16, <1>14
<1>22. args = [e \in layout |-> args[e]]
  BY <1>13 DEF IsPlus
<1>23. args = [opcode |-> 19, rd |-> given["rd"], funct3 |-> 3, rs1 |-> given["rs1"], imm |-> 1]
  BY <1>17, <1>18, <1>19, <1>20, <1>21, <1>22
<1> QED BY <1>15, <1>13, <1>23 DEF IWord

LEMMA NotMakes ==
  ASSUME NEW given, NEW word, word = value(Insns.NOT, given),
         word # Refused
  PROVE  /\ DOMAIN given = {"rd", "rs1"}
         /\ word = IWord(19, given["rd"], 4, given["rs1"], -1)
<1> DEFINE kwargs == [funct3 |-> 4, imm |-> -1]
           defaults == [opcode |-> 19]
           layout == {"opcode", "rd", "funct3", "rs1", "imm"}
<1>1. PICK insn : insn = Insn(I, kwargs, <<>>, <<"rd", "rs1">>)
  OBVIOUS
<1>2. insn = Insns.NOT
  BY <1>1, NotForm
<1>3. insn.cls = I /\ insn.kwargs = kwargs /\ insn.xfrms = <<>>
  BY <1>1, InsnParts
<1>4. ToSet(I.layout) = layout /\ I.ranges = IRanges /\ I.defaults = defaults
  BY Formats, IIs
<1>5. DOMAIN defaults = {"opcode"} /\ DOMAIN kwargs = {"funct3", "imm"}
  OBVIOUS
<1>6. /\ defaults["opcode"] = 19
      /\ kwargs["funct3"] = 4
      /\ kwargs["imm"] = -1
  OBVIOUS
<1> HIDE DEF kwargs, defaults
<1>7. word = value(insn, given) /\ value(insn, given) # Refused
  BY <1>2
<1>8. PICK all : IsPlus(all, kwargs, given)
  BY PlusIs
<1>9. /\ DOMAIN all = DOMAIN kwargs \cup DOMAIN given
      /\ \A e \in DOMAIN given : all[e] = given[e]
      /\ \A e \in DOMAIN kwargs : e \notin DOMAIN given => all[e] = kwargs[e]
  BY <1>8 DEF IsPlus
<1>10. all = Applied(<<>>, all)
  BY AppliedOf
<1>11. MakesWord(value(insn, given), ToSet(insn.cls.layout), insn.cls.ranges,
                  insn.cls.defaults, insn.kwargs, given, all)
  BY Zenon, <1>7, <1>3, <1>8, <1>10, ValueMakes
<1>12. MakesWord(word, layout, IRanges, defaults, kwargs, given, all)
  BY <1>7, <1>3, <1>4, <1>11
<1>13. PICK args :
         /\ IsPlus(args, defaults, all) /\ DOMAIN args = layout /\ word = Made(args, IRanges)
         /\ DOMAIN all \subseteq layout
         /\ DOMAIN all \cap DOMAIN given \cap (DOMAIN defaults \cup DOMAIN kwargs) = {}
  BY <1>12 DEF MakesWord
<1>14. /\ DOMAIN args = DOMAIN defaults \cup DOMAIN all
       /\ \A e \in DOMAIN all : args[e] = all[e]
       /\ \A e \in DOMAIN defaults : e \notin DOMAIN all => args[e] = defaults[e]
  BY <1>13 DEF IsPlus
<1>15. DOMAIN given = {"rd", "rs1"}
  BY <1>13, <1>14, <1>5, <1>9
<1>16. /\ "funct3" \in DOMAIN all /\ all["funct3"] = 4
       /\ "imm" \in DOMAIN all /\ all["imm"] = -1
       /\ "rd" \in DOMAIN all /\ all["rd"] = given["rd"]
       /\ "rs1" \in DOMAIN all /\ all["rs1"] = given["rs1"]
  BY <1>5, <1>6, <1>9, <1>15
<1>17. args["opcode"] = 19
  BY <1>15, <1>5, <1>6, <1>16, <1>14, <1>9
<1>18. args["rd"] = given["rd"]
  BY <1>15, <1>5, <1>6, <1>16, <1>14
<1>19. args["funct3"] = 4
  BY <1>15, <1>5, <1>6, <1>16, <1>14
<1>20. args["rs1"] = given["rs1"]
  BY <1>15, <1>5, <1>6, <1>16, <1>14
<1>21. args["imm"] = -1
  BY <1>15, <1>5, <1>6, <1>16, <1>14
<1>22. args = [e \in layout |-> args[e]]
  BY <1>13 DEF IsPlus
<1>23. args = [opcode |-> 19, rd |-> given["rd"], funct3 |-> 4, rs1 |-> given["rs1"], imm |-> -1]
  BY <1>17, <1>18, <1>19, <1>20, <1>21, <1>22
<1> QED BY <1>15, <1>13, <1>23 DEF IWord

LEMMA NopMakes ==
  ASSUME NEW given, NEW word, word = value(Insns.NOP, given),
         word # Refused
  PROVE  /\ DOMAIN given = {}
         /\ word = IWord(19, 0, 0, 0, 0)
<1> DEFINE kwargs == [funct3 |-> 0, rd |-> Reg("zero"), rs1 |-> Reg("zero"), imm |-> 0]
           defaults == [opcode |-> 19]
           layout == {"opcode", "rd", "funct3", "rs1", "imm"}
<1>1. PICK insn : insn = Insn(I, kwargs, <<>>, <<>>)
  OBVIOUS
<1>2. insn = Insns.NOP
  BY <1>1, NopForm
<1>3. insn.cls = I /\ insn.kwargs = kwargs /\ insn.xfrms = <<>>
  BY <1>1, InsnParts
<1>4. ToSet(I.layout) = layout /\ I.ranges = IRanges /\ I.defaults = defaults
  BY Formats, IIs
<1>5. DOMAIN defaults = {"opcode"} /\ DOMAIN kwargs = {"funct3", "rd", "rs1", "imm"}
  OBVIOUS
<1>6. /\ defaults["opcode"] = 19
      /\ kwargs["funct3"] = 0
      /\ kwargs["rd"] = 0
      /\ kwargs["rs1"] = 0
      /\ kwargs["imm"] = 0
  BY RegValues
<1> HIDE DEF kwargs, defaults
<1>7. word = value(insn, given) /\ value(insn, given) # Refused
  BY <1>2
<1>8. PICK all : IsPlus(all, kwargs, given)
  BY PlusIs
<1>9. /\ DOMAIN all = DOMAIN kwargs \cup DOMAIN given
      /\ \A e \in DOMAIN given : all[e] = given[e]
      /\ \A e \in DOMAIN kwargs : e \notin DOMAIN given => all[e] = kwargs[e]
  BY <1>8 DEF IsPlus
<1>10. all = Applied(<<>>, all)
  BY AppliedOf
<1>11. MakesWord(value(insn, given), ToSet(insn.cls.layout), insn.cls.ranges,
                  insn.cls.defaults, insn.kwargs, given, all)
  BY Zenon, <1>7, <1>3, <1>8, <1>10, ValueMakes
<1>12. MakesWord(word, layout, IRanges, defaults, kwargs, given, all)
  BY <1>7, <1>3, <1>4, <1>11
<1>13. PICK args :
         /\ IsPlus(args, defaults, all) /\ DOMAIN args = layout /\ word = Made(args, IRanges)
         /\ DOMAIN all \subseteq layout
         /\ DOMAIN all \cap DOMAIN given \cap (DOMAIN defaults \cup DOMAIN kwargs) = {}
  BY <1>12 DEF MakesWord
<1>14. /\ DOMAIN args = DOMAIN defaults \cup DOMAIN all
       /\ \A e \in DOMAIN all : args[e] = all[e]
       /\ \A e \in DOMAIN defaults : e \notin DOMAIN all => args[e] = defaults[e]
  BY <1>13 DEF IsPlus
<1>15. DOMAIN given = {}
  BY <1>13, <1>14, <1>5, <1>9
<1>16. /\ "funct3" \in DOMAIN all /\ all["funct3"] = 0
       /\ "rd" \in DOMAIN all /\ all["rd"] = 0
       /\ "rs1" \in DOMAIN all /\ all["rs1"] = 0
       /\ "imm" \in DOMAIN all /\ all["imm"] = 0
  BY <1>5, <1>6, <1>9, <1>15
<1>17. args["opcode"] = 19
  BY <1>15, <1>5, <1>6, <1>16, <1>14, <1>9
<1>18. args["rd"] = 0
  BY <1>15, <1>5, <1>6, <1>16, <1>14
<1>19. args["funct3"] = 0
  BY <1>15, <1>5, <1>6, <1>16, <1>14
<1>20. args["rs1"] = 0
  BY <1>15, <1>5, <1>6, <1>16, <1>14
<1>21. args["imm"] = 0
  BY <1>15, <1>5, <1>6, <1>16, <1>14
<1>22. args = [e \in layout |-> args[e]]
  BY <1>13 DEF IsPlus
<1>23. args = [opcode |-> 19, rd |-> 0, funct3 |-> 0, rs1 |-> 0, imm |-> 0]
  BY <1>17, <1>18, <1>19, <1>20, <1>21, <1>22
<1> QED BY <1>15, <1>13, <1>23 DEF IWord

LEMMA JMakes ==
  ASSUME NEW given, NEW word, word = value(Insns.J_, given),
         word # Refused,
         {"imm"} \subseteq DOMAIN given
  PROVE  /\ word = JWord(111, 0, (given["imm"] \div 4096) % 256, (given["imm"] \div 2048) % 2,
                  (given["imm"] \div 2) % 1024, (given["imm"] \div 1048576) % 2)
<1> DEFINE kwargs == [rd |-> Reg("zero")]
           defaults == [opcode |-> 111]
           layout == {"opcode", "rd", "imm19_12", "imm11", "imm10_1", "imm20"}
<1>1. PICK insn : insn = Insn(J, kwargs, <<ImmXfrm(J)>>, <<"imm">>)
  OBVIOUS
<1>2. insn = Insns.J_
  BY <1>1, JForm
<1>3. insn.cls = J /\ insn.kwargs = kwargs /\ insn.xfrms = <<ImmXfrm(J)>>
  BY <1>1, InsnParts
<1>4. ToSet(J.layout) = layout /\ J.ranges = JRanges /\ J.defaults = defaults
  BY Formats, JIs
<1>5. DOMAIN defaults = {"opcode"} /\ DOMAIN kwargs = {"rd"}
  OBVIOUS
<1>6. /\ defaults["opcode"] = 111
      /\ kwargs["rd"] = 0
  BY RegValues
<1> HIDE DEF kwargs, defaults
<1>7. word = value(insn, given) /\ value(insn, given) # Refused
  BY <1>2
<1>8. PICK all : IsPlus(all, kwargs, given)
  BY PlusIs
<1>9. /\ DOMAIN all = DOMAIN kwargs \cup DOMAIN given
      /\ \A e \in DOMAIN given : all[e] = given[e]
      /\ \A e \in DOMAIN kwargs : e \notin DOMAIN given => all[e] = kwargs[e]
  BY <1>8 DEF IsPlus
<1>10. {"imm"} \subseteq DOMAIN all
  BY <1>5, <1>9
<1>11. PICK left1 : IsDrop(left1, all, {"imm"})
  BY DropIs
<1>12. /\ DOMAIN left1 = DOMAIN all \ {"imm"}
       /\ \A e \in DOMAIN all : e \notin {"imm"} => left1[e] = all[e]
  BY <1>11 DEF IsDrop
<1> DEFINE out1 == [imm19_12 |-> (all["imm"] \div 4096) % 256,
      imm11 |-> (all["imm"] \div 2048) % 2, imm10_1 |-> (all["imm"] \div 2) % 1024,
      imm20 |-> (all["imm"] \div 1048576) % 2]
<1>13. inputs_to_layout(ImmXfrm(J), all) = out1
  BY ImmJForth
<1>14. /\ DOMAIN out1 = {"imm19_12", "imm11", "imm10_1", "imm20"}
       /\ out1["imm19_12"] = (all["imm"] \div 4096) % 256
       /\ out1["imm11"] = (all["imm"] \div 2048) % 2
       /\ out1["imm10_1"] = (all["imm"] \div 2) % 1024
       /\ out1["imm20"] = (all["imm"] \div 1048576) % 2
  OBVIOUS
<1> HIDE DEF out1
<1>15. ToSet(ImmXfrm(J).inputs) = {"imm"}
  BY XfrmInputs
<1>16. PICK more1 : more1 = Forward(ImmXfrm(J), all) /\ IsPlus(more1, left1, out1)
  BY <1>10, <1>11, <1>13, <1>15, ForwardIs
<1>17. /\ DOMAIN more1 = DOMAIN left1 \cup DOMAIN out1
       /\ \A e \in DOMAIN out1 : more1[e] = out1[e]
       /\ \A e \in DOMAIN left1 : e \notin DOMAIN out1 => more1[e] = left1[e]
  BY <1>16 DEF IsPlus
<1>18. more1 = Applied(<<ImmXfrm(J)>>, all)
  BY <1>16, AppliedOf
<1>19. MakesWord(value(insn, given), ToSet(insn.cls.layout), insn.cls.ranges,
                  insn.cls.defaults, insn.kwargs, given, more1)
  BY Zenon, <1>7, <1>3, <1>8, <1>18, ValueMakes
<1>20. MakesWord(word, layout, JRanges, defaults, kwargs, given, more1)
  BY <1>7, <1>3, <1>4, <1>19
<1>21. PICK args :
         /\ IsPlus(args, defaults, more1) /\ DOMAIN args = layout /\ word = Made(args, JRanges)
         /\ DOMAIN more1 \subseteq layout
         /\ DOMAIN more1 \cap DOMAIN given \cap (DOMAIN defaults \cup DOMAIN kwargs) = {}
  BY <1>20 DEF MakesWord
<1>22. /\ DOMAIN args = DOMAIN defaults \cup DOMAIN more1
       /\ \A e \in DOMAIN more1 : args[e] = more1[e]
       /\ \A e \in DOMAIN defaults : e \notin DOMAIN more1 => args[e] = defaults[e]
  BY <1>21 DEF IsPlus
<1>23. {"rd", "opcode"} \cap DOMAIN given = {}
  BY <1>21, <1>5, <1>9, <1>12, <1>14, <1>17
<1>24. /\ "rd" \in DOMAIN all /\ all["rd"] = 0
       /\ "imm" \in DOMAIN all /\ all["imm"] = given["imm"]
  BY <1>5, <1>6, <1>9, <1>23
<1>25. /\ "rd" \in DOMAIN more1 /\ more1["rd"] = 0
       /\ "imm19_12" \in DOMAIN more1 /\ more1["imm19_12"] = (given["imm"] \div 4096) % 256
       /\ "imm11" \in DOMAIN more1 /\ more1["imm11"] = (given["imm"] \div 2048) % 2
       /\ "imm10_1" \in DOMAIN more1 /\ more1["imm10_1"] = (given["imm"] \div 2) % 1024
       /\ "imm20" \in DOMAIN more1 /\ more1["imm20"] = (given["imm"] \div 1048576) % 2
  BY <1>12, <1>14, <1>17, <1>24, <1>23
<1>26. args["opcode"] = 111
  BY <1>23, <1>5, <1>6, <1>25, <1>22, <1>9, <1>12, <1>14, <1>17
<1>27. args["rd"] = 0
  BY <1>23, <1>5, <1>6, <1>25, <1>22
<1>28. args["imm19_12"] = (given["imm"] \div 4096) % 256
  BY <1>23, <1>5, <1>6, <1>25, <1>22
<1>29. args["imm11"] = (given["imm"] \div 2048) % 2
  BY <1>23, <1>5, <1>6, <1>25, <1>22
<1>30. args["imm10_1"] = (given["imm"] \div 2) % 1024
  BY <1>23, <1>5, <1>6, <1>25, <1>22
<1>31. args["imm20"] = (given["imm"] \div 1048576) % 2
  BY <1>23, <1>5, <1>6, <1>25, <1>22
<1>32. args = [e \in layout |-> args[e]]
  BY <1>21 DEF IsPlus
<1>33. args = [opcode |-> 111, rd |-> 0, imm19_12 |-> (given["imm"] \div 4096) % 256,
               imm11 |-> (given["imm"] \div 2048) % 2, imm10_1 |-> (given["imm"] \div 2) % 1024,
               imm20 |-> (given["imm"] \div 1048576) % 2]
  BY <1>26, <1>27, <1>28, <1>29, <1>30, <1>31, <1>32
<1> QED BY <1>23, <1>21, <1>33 DEF JWord

\* XValue, for each family X: the word of the operands that an instruction asks for.
LEMMA OpValue ==
  ASSUME NEW funct3, NEW given, DOMAIN given = {"rd", "rs1", "rs2"}
  PROVE  value(Op(funct3, 0), given) =
           RWord(51, given["rd"], funct3, given["rs1"], given["rs2"], 0)
<1> DEFINE kwargs == [funct3 |-> funct3]
           defaults == [opcode |-> 51, funct7 |-> 0]
           layout == {"opcode", "rd", "funct3", "rs1", "rs2", "funct7"}
<1>1. PICK insn : insn = Insn(R, kwargs, <<>>, <<"rd", "rs1", "rs2">>)
  OBVIOUS
<1>2. insn = Op(funct3, 0)
  BY <1>1, OpForm
<1>3. insn.cls = R /\ insn.kwargs = kwargs /\ insn.xfrms = <<>>
  BY <1>1, InsnParts
<1>4. ToSet(R.layout) = layout /\ R.ranges = RRanges /\ R.defaults = defaults
  BY Formats, RIs
<1>5. DOMAIN defaults = {"opcode", "funct7"} /\ DOMAIN kwargs = {"funct3"}
  OBVIOUS
<1>6. /\ defaults["opcode"] = 51
      /\ defaults["funct7"] = 0
      /\ kwargs["funct3"] = funct3
  OBVIOUS
<1> HIDE DEF kwargs, defaults
<1>7. PICK all : IsPlus(all, kwargs, given)
  BY PlusIs
<1>8. /\ DOMAIN all = DOMAIN kwargs \cup DOMAIN given
      /\ \A e \in DOMAIN given : all[e] = given[e]
      /\ \A e \in DOMAIN kwargs : e \notin DOMAIN given => all[e] = kwargs[e]
  BY <1>7 DEF IsPlus
<1>9. all = Applied(<<>>, all)
  BY AppliedOf
<1>10. PICK args : IsPlus(args, defaults, all)
  BY PlusIs
<1>11. /\ DOMAIN args = DOMAIN defaults \cup DOMAIN all
       /\ \A e \in DOMAIN all : args[e] = all[e]
       /\ \A e \in DOMAIN defaults : e \notin DOMAIN all => args[e] = defaults[e]
  BY <1>10 DEF IsPlus
<1>12. /\ "funct3" \in DOMAIN all /\ all["funct3"] = funct3
       /\ "rd" \in DOMAIN all /\ all["rd"] = given["rd"]
       /\ "rs1" \in DOMAIN all /\ all["rs1"] = given["rs1"]
       /\ "rs2" \in DOMAIN all /\ all["rs2"] = given["rs2"]
  BY <1>5, <1>6, <1>8
<1>13. /\ DOMAIN args = layout /\ DOMAIN all \subseteq layout
       /\ DOMAIN all \cap DOMAIN given \cap (DOMAIN defaults \cup DOMAIN kwargs) = {}
  BY <1>5, <1>8, <1>11, <1>12
<1>14. args["opcode"] = 51
  BY <1>5, <1>6, <1>12, <1>11, <1>8
<1>15. args["rd"] = given["rd"]
  BY <1>5, <1>6, <1>12, <1>11
<1>16. args["funct3"] = funct3
  BY <1>5, <1>6, <1>12, <1>11
<1>17. args["rs1"] = given["rs1"]
  BY <1>5, <1>6, <1>12, <1>11
<1>18. args["rs2"] = given["rs2"]
  BY <1>5, <1>6, <1>12, <1>11
<1>19. args["funct7"] = 0
  BY <1>5, <1>6, <1>12, <1>11, <1>8
<1>20. args = [e \in layout |-> args[e]]
  BY <1>10, <1>13 DEF IsPlus
<1>21. args = [opcode |-> 51, rd |-> given["rd"], funct3 |-> funct3, rs1 |-> given["rs1"],
               rs2 |-> given["rs2"], funct7 |-> 0]
  BY <1>14, <1>15, <1>16, <1>17, <1>18, <1>19, <1>20
<1>22. MakesWord(Made(args, RRanges), layout, RRanges, defaults, kwargs, given, all)
  BY <1>10, <1>13 DEF MakesWord
<1>23. MakesWord(Made(args, RRanges), ToSet(insn.cls.layout), insn.cls.ranges,
                  insn.cls.defaults, insn.kwargs, given, all)
  BY <1>3, <1>4, <1>22
<1>24. value(insn, given) = Made(args, RRanges)
  BY Zenon, <1>3, <1>7, <1>9, <1>23, ValueOf
<1> QED BY <1>2, <1>24, <1>21 DEF RWord

LEMMA OpNegateValue ==
  ASSUME NEW funct3, NEW given, DOMAIN given = {"rd", "rs1", "rs2"}
  PROVE  value(Op(funct3, F7Negate), given) =
           RWord(51, given["rd"], funct3, given["rs1"], given["rs2"], 32)
<1> DEFINE kwargs == [funct3 |-> funct3, funct7 |-> 32]
           defaults == [opcode |-> 51, funct7 |-> 0]
           layout == {"opcode", "rd", "funct3", "rs1", "rs2", "funct7"}
<1>1. PICK insn : insn = Insn(R, kwargs, <<>>, <<"rd", "rs1", "rs2">>)
  OBVIOUS
<1>2. insn = Op(funct3, F7Negate)
  BY <1>1, OpNegateForm
<1>3. insn.cls = R /\ insn.kwargs = kwargs /\ insn.xfrms = <<>>
  BY <1>1, InsnParts
<1>4. ToSet(R.layout) = layout /\ R.ranges = RRanges /\ R.defaults = defaults
  BY Formats, RIs
<1>5. DOMAIN defaults = {"opcode", "funct7"} /\ DOMAIN kwargs = {"funct3", "funct7"}
  OBVIOUS
<1>6. /\ defaults["opcode"] = 51
      /\ defaults["funct7"] = 0
      /\ kwargs["funct3"] = funct3
      /\ kwargs["funct7"] = 32
  OBVIOUS
<1> HIDE DEF kwargs, defaults
<1>7. PICK all : IsPlus(all, kwargs, given)
  BY PlusIs
<1>8. /\ DOMAIN all = DOMAIN kwargs \cup DOMAIN given
      /\ \A e \in DOMAIN given : all[e] = given[e]
      /\ \A e \in DOMAIN kwargs : e \notin DOMAIN given => all[e] = kwargs[e]
  BY <1>7 DEF IsPlus
<1>9. all = Applied(<<>>, all)
  BY AppliedOf
<1>10. PICK args : IsPlus(args, defaults, all)
  BY PlusIs
<1>11. /\ DOMAIN args = DOMAIN defaults \cup DOMAIN all
       /\ \A e \in DOMAIN all : args[e] = all[e]
       /\ \A e \in DOMAIN defaults : e \notin DOMAIN all => args[e] = defaults[e]
  BY <1>10 DEF IsPlus
<1>12. /\ "funct3" \in DOMAIN all /\ all["funct3"] = funct3
       /\ "funct7" \in DOMAIN all /\ all["funct7"] = 32
       /\ "rd" \in DOMAIN all /\ all["rd"] = given["rd"]
       /\ "rs1" \in DOMAIN all /\ all["rs1"] = given["rs1"]
       /\ "rs2" \in DOMAIN all /\ all["rs2"] = given["rs2"]
  BY <1>5, <1>6, <1>8
<1>13. /\ DOMAIN args = layout /\ DOMAIN all \subseteq layout
       /\ DOMAIN all \cap DOMAIN given \cap (DOMAIN defaults \cup DOMAIN kwargs) = {}
  BY <1>5, <1>8, <1>11, <1>12
<1>14. args["opcode"] = 51
  BY <1>5, <1>6, <1>12, <1>11, <1>8
<1>15. args["rd"] = given["rd"]
  BY <1>5, <1>6, <1>12, <1>11
<1>16. args["funct3"] = funct3
  BY <1>5, <1>6, <1>12, <1>11
<1>17. args["rs1"] = given["rs1"]
  BY <1>5, <1>6, <1>12, <1>11
<1>18. args["rs2"] = given["rs2"]
  BY <1>5, <1>6, <1>12, <1>11
<1>19. args["funct7"] = 32
  BY <1>5, <1>6, <1>12, <1>11
<1>20. args = [e \in layout |-> args[e]]
  BY <1>10, <1>13 DEF IsPlus
<1>21. args = [opcode |-> 51, rd |-> given["rd"], funct3 |-> funct3, rs1 |-> given["rs1"],
               rs2 |-> given["rs2"], funct7 |-> 32]
  BY <1>14, <1>15, <1>16, <1>17, <1>18, <1>19, <1>20
<1>22. MakesWord(Made(args, RRanges), layout, RRanges, defaults, kwargs, given, all)
  BY <1>10, <1>13 DEF MakesWord
<1>23. MakesWord(Made(args, RRanges), ToSet(insn.cls.layout), insn.cls.ranges,
                  insn.cls.defaults, insn.kwargs, given, all)
  BY <1>3, <1>4, <1>22
<1>24. value(insn, given) = Made(args, RRanges)
  BY Zenon, <1>3, <1>7, <1>9, <1>23, ValueOf
<1> QED BY <1>2, <1>24, <1>21 DEF RWord

LEMMA OpImmValue ==
  ASSUME NEW funct3, NEW given, DOMAIN given = {"rd", "rs1", "imm"}
  PROVE  value(OpImm(funct3), given) =
           IWord(19, given["rd"], funct3, given["rs1"], given["imm"])
<1> DEFINE kwargs == [funct3 |-> funct3]
           defaults == [opcode |-> 19]
           layout == {"opcode", "rd", "funct3", "rs1", "imm"}
<1>1. PICK insn : insn = Insn(I, kwargs, <<>>, <<"rd", "rs1", "imm">>)
  OBVIOUS
<1>2. insn = OpImm(funct3)
  BY <1>1, OpImmForm
<1>3. insn.cls = I /\ insn.kwargs = kwargs /\ insn.xfrms = <<>>
  BY <1>1, InsnParts
<1>4. ToSet(I.layout) = layout /\ I.ranges = IRanges /\ I.defaults = defaults
  BY Formats, IIs
<1>5. DOMAIN defaults = {"opcode"} /\ DOMAIN kwargs = {"funct3"}
  OBVIOUS
<1>6. /\ defaults["opcode"] = 19
      /\ kwargs["funct3"] = funct3
  OBVIOUS
<1> HIDE DEF kwargs, defaults
<1>7. PICK all : IsPlus(all, kwargs, given)
  BY PlusIs
<1>8. /\ DOMAIN all = DOMAIN kwargs \cup DOMAIN given
      /\ \A e \in DOMAIN given : all[e] = given[e]
      /\ \A e \in DOMAIN kwargs : e \notin DOMAIN given => all[e] = kwargs[e]
  BY <1>7 DEF IsPlus
<1>9. all = Applied(<<>>, all)
  BY AppliedOf
<1>10. PICK args : IsPlus(args, defaults, all)
  BY PlusIs
<1>11. /\ DOMAIN args = DOMAIN defaults \cup DOMAIN all
       /\ \A e \in DOMAIN all : args[e] = all[e]
       /\ \A e \in DOMAIN defaults : e \notin DOMAIN all => args[e] = defaults[e]
  BY <1>10 DEF IsPlus
<1>12. /\ "funct3" \in DOMAIN all /\ all["funct3"] = funct3
       /\ "rd" \in DOMAIN all /\ all["rd"] = given["rd"]
       /\ "rs1" \in DOMAIN all /\ all["rs1"] = given["rs1"]
       /\ "imm" \in DOMAIN all /\ all["imm"] = given["imm"]
  BY <1>5, <1>6, <1>8
<1>13. /\ DOMAIN args = layout /\ DOMAIN all \subseteq layout
       /\ DOMAIN all \cap DOMAIN given \cap (DOMAIN defaults \cup DOMAIN kwargs) = {}
  BY <1>5, <1>8, <1>11, <1>12
<1>14. args["opcode"] = 19
  BY <1>5, <1>6, <1>12, <1>11, <1>8
<1>15. args["rd"] = given["rd"]
  BY <1>5, <1>6, <1>12, <1>11
<1>16. args["funct3"] = funct3
  BY <1>5, <1>6, <1>12, <1>11
<1>17. args["rs1"] = given["rs1"]
  BY <1>5, <1>6, <1>12, <1>11
<1>18. args["imm"] = given["imm"]
  BY <1>5, <1>6, <1>12, <1>11
<1>19. args = [e \in layout |-> args[e]]
  BY <1>10, <1>13 DEF IsPlus
<1>20. args = [opcode |-> 19, rd |-> given["rd"], funct3 |-> funct3, rs1 |-> given["rs1"],
               imm |-> given["imm"]]
  BY <1>14, <1>15, <1>16, <1>17, <1>18, <1>19
<1>21. MakesWord(Made(args, IRanges), layout, IRanges, defaults, kwargs, given, all)
  BY <1>10, <1>13 DEF MakesWord
<1>22. MakesWord(Made(args, IRanges), ToSet(insn.cls.layout), insn.cls.ranges,
                  insn.cls.defaults, insn.kwargs, given, all)
  BY <1>3, <1>4, <1>21
<1>23. value(insn, given) = Made(args, IRanges)
  BY Zenon, <1>3, <1>7, <1>9, <1>22, ValueOf
<1> QED BY <1>2, <1>23, <1>20 DEF IWord

LEMMA ShiftValue ==
  ASSUME NEW funct3, NEW p, NEW given, DOMAIN given = {"rd", "rs1", "shamt"},
         given["shamt"] \in 0 .. 31
  PROVE  value(Shift(funct3, p), given) =
           IWord(19, given["rd"], funct3, given["rs1"], p * 32 + given["shamt"])
<1> DEFINE kwargs == [funct3 |-> funct3]
           defaults == [opcode |-> 19]
           layout == {"opcode", "rd", "funct3", "rs1", "imm"}
<1>1. PICK insn : insn = Insn(I, kwargs, <<ShamtXfrm(p)>>, <<"rd", "rs1", "shamt">>)
  OBVIOUS
<1>2. insn = Shift(funct3, p)
  BY <1>1, ShiftForm
<1>3. insn.cls = I /\ insn.kwargs = kwargs /\ insn.xfrms = <<ShamtXfrm(p)>>
  BY <1>1, InsnParts
<1>4. ToSet(I.layout) = layout /\ I.ranges = IRanges /\ I.defaults = defaults
  BY Formats, IIs
<1>5. DOMAIN defaults = {"opcode"} /\ DOMAIN kwargs = {"funct3"}
  OBVIOUS
<1>6. /\ defaults["opcode"] = 19
      /\ kwargs["funct3"] = funct3
  OBVIOUS
<1> HIDE DEF kwargs, defaults
<1>7. PICK all : IsPlus(all, kwargs, given)
  BY PlusIs
<1>8. /\ DOMAIN all = DOMAIN kwargs \cup DOMAIN given
      /\ \A e \in DOMAIN given : all[e] = given[e]
      /\ \A e \in DOMAIN kwargs : e \notin DOMAIN given => all[e] = kwargs[e]
  BY <1>7 DEF IsPlus
<1>9. {"shamt"} \subseteq DOMAIN all
  BY <1>5, <1>8
<1>10. PICK left1 : IsDrop(left1, all, {"shamt"})
  BY DropIs
<1>11. /\ DOMAIN left1 = DOMAIN all \ {"shamt"}
       /\ \A e \in DOMAIN all : e \notin {"shamt"} => left1[e] = all[e]
  BY <1>10 DEF IsDrop
<1> DEFINE out1 == IF all["shamt"] \in 0 .. 31 THEN [imm |-> p * 32 + all["shamt"]] ELSE Assertion
<1>12. inputs_to_layout(ShamtXfrm(p), all) = out1
  BY ShamtForth
<1>13. /\ all["shamt"] \in 0 .. 31 =>
            /\ DOMAIN out1 = {"imm"}
            /\ out1["imm"] = p * 32 + all["shamt"]
       /\ ~(all["shamt"] \in 0 .. 31) => DOMAIN out1 = {"refused"}
  BY DEF Assertion
<1> HIDE DEF out1
<1>14. ToSet(ShamtXfrm(p).inputs) = {"shamt"}
  BY XfrmInputs
<1>15. PICK more1 : more1 = Forward(ShamtXfrm(p), all) /\ IsPlus(more1, left1, out1)
  BY <1>9, <1>10, <1>12, <1>14, ForwardIs
<1>16. /\ DOMAIN more1 = DOMAIN left1 \cup DOMAIN out1
       /\ \A e \in DOMAIN out1 : more1[e] = out1[e]
       /\ \A e \in DOMAIN left1 : e \notin DOMAIN out1 => more1[e] = left1[e]
  BY <1>15 DEF IsPlus
<1>17. more1 = Applied(<<ShamtXfrm(p)>>, all)
  BY <1>15, AppliedOf
<1>18. PICK args : IsPlus(args, defaults, more1)
  BY PlusIs
<1>19. /\ DOMAIN args = DOMAIN defaults \cup DOMAIN more1
       /\ \A e \in DOMAIN more1 : args[e] = more1[e]
       /\ \A e \in DOMAIN defaults : e \notin DOMAIN more1 => args[e] = defaults[e]
  BY <1>18 DEF IsPlus
<1>20. /\ "funct3" \in DOMAIN all /\ all["funct3"] = funct3
       /\ "rd" \in DOMAIN all /\ all["rd"] = given["rd"]
       /\ "rs1" \in DOMAIN all /\ all["rs1"] = given["rs1"]
       /\ "shamt" \in DOMAIN all /\ all["shamt"] = given["shamt"]
  BY <1>5, <1>6, <1>8
<1>21. all["shamt"] \in 0 .. 31
  BY <1>20
<1>22. /\ DOMAIN out1 = {"imm"}
       /\ out1["imm"] = p * 32 + all["shamt"]
  BY <1>13, <1>21
<1>23. /\ "funct3" \in DOMAIN more1 /\ more1["funct3"] = funct3
       /\ "rd" \in DOMAIN more1 /\ more1["rd"] = given["rd"]
       /\ "rs1" \in DOMAIN more1 /\ more1["rs1"] = given["rs1"]
       /\ "imm" \in DOMAIN more1 /\ more1["imm"] = p * 32 + given["shamt"]
  BY <1>11, <1>22, <1>16, <1>20
<1>24. /\ DOMAIN args = layout /\ DOMAIN more1 \subseteq layout
       /\ DOMAIN more1 \cap DOMAIN given \cap (DOMAIN defaults \cup DOMAIN kwargs) = {}
  BY <1>5, <1>8, <1>11, <1>13, <1>16, <1>22, <1>19, <1>23
<1>25. args["opcode"] = 19
  BY <1>5, <1>6, <1>23, <1>19, <1>8, <1>11, <1>13, <1>16, <1>22
<1>26. args["rd"] = given["rd"]
  BY <1>5, <1>6, <1>23, <1>19
<1>27. args["funct3"] = funct3
  BY <1>5, <1>6, <1>23, <1>19
<1>28. args["rs1"] = given["rs1"]
  BY <1>5, <1>6, <1>23, <1>19
<1>29. args["imm"] = p * 32 + given["shamt"]
  BY <1>5, <1>6, <1>23, <1>19
<1>30. args = [e \in layout |-> args[e]]
  BY <1>18, <1>24 DEF IsPlus
<1>31. args = [opcode |-> 19, rd |-> given["rd"], funct3 |-> funct3, rs1 |-> given["rs1"],
               imm |-> p * 32 + given["shamt"]]
  BY <1>25, <1>26, <1>27, <1>28, <1>29, <1>30
<1>32. MakesWord(Made(args, IRanges), layout, IRanges, defaults, kwargs, given, more1)
  BY <1>18, <1>24 DEF MakesWord
<1>33. MakesWord(Made(args, IRanges), ToSet(insn.cls.layout), insn.cls.ranges,
                  insn.cls.defaults, insn.kwargs, given, more1)
  BY <1>3, <1>4, <1>32
<1>34. value(insn, given) = Made(args, IRanges)
  BY Zenon, <1>3, <1>7, <1>17, <1>33, ValueOf
<1> QED BY <1>2, <1>34, <1>31 DEF IWord

LEMMA LoadValue ==
  ASSUME NEW funct3, NEW given, DOMAIN given = {"rd", "rs1off"}
  PROVE  value(Load(funct3), given) =
           IWord(3, given["rd"], funct3, given["rs1off"][2], given["rs1off"][1])
<1> DEFINE kwargs == [opcode |-> 3, funct3 |-> funct3]
           defaults == [opcode |-> 19]
           layout == {"opcode", "rd", "funct3", "rs1", "imm"}
<1>1. PICK insn : insn = Insn(I, kwargs, <<RS1OffXfrm>>, <<"rd", "rs1off">>)
  OBVIOUS
<1>2. insn = Load(funct3)
  BY <1>1, LoadForm
<1>3. insn.cls = I /\ insn.kwargs = kwargs /\ insn.xfrms = <<RS1OffXfrm>>
  BY <1>1, InsnParts
<1>4. ToSet(I.layout) = layout /\ I.ranges = IRanges /\ I.defaults = defaults
  BY Formats, IIs
<1>5. DOMAIN defaults = {"opcode"} /\ DOMAIN kwargs = {"opcode", "funct3"}
  OBVIOUS
<1>6. /\ defaults["opcode"] = 19
      /\ kwargs["opcode"] = 3
      /\ kwargs["funct3"] = funct3
  OBVIOUS
<1> HIDE DEF kwargs, defaults
<1>7. PICK all : IsPlus(all, kwargs, given)
  BY PlusIs
<1>8. /\ DOMAIN all = DOMAIN kwargs \cup DOMAIN given
      /\ \A e \in DOMAIN given : all[e] = given[e]
      /\ \A e \in DOMAIN kwargs : e \notin DOMAIN given => all[e] = kwargs[e]
  BY <1>7 DEF IsPlus
<1>9. {"rs1off"} \subseteq DOMAIN all
  BY <1>5, <1>8
<1>10. PICK left1 : IsDrop(left1, all, {"rs1off"})
  BY DropIs
<1>11. /\ DOMAIN left1 = DOMAIN all \ {"rs1off"}
       /\ \A e \in DOMAIN all : e \notin {"rs1off"} => left1[e] = all[e]
  BY <1>10 DEF IsDrop
<1> DEFINE out1 == [imm |-> all["rs1off"][1], rs1 |-> all["rs1off"][2]]
<1>12. inputs_to_layout(RS1OffXfrm, all) = out1
  BY RS1OffForth
<1>13. /\ DOMAIN out1 = {"imm", "rs1"}
       /\ out1["imm"] = all["rs1off"][1]
       /\ out1["rs1"] = all["rs1off"][2]
  OBVIOUS
<1> HIDE DEF out1
<1>14. ToSet(RS1OffXfrm.inputs) = {"rs1off"}
  BY XfrmInputs
<1>15. PICK more1 : more1 = Forward(RS1OffXfrm, all) /\ IsPlus(more1, left1, out1)
  BY <1>9, <1>10, <1>12, <1>14, ForwardIs
<1>16. /\ DOMAIN more1 = DOMAIN left1 \cup DOMAIN out1
       /\ \A e \in DOMAIN out1 : more1[e] = out1[e]
       /\ \A e \in DOMAIN left1 : e \notin DOMAIN out1 => more1[e] = left1[e]
  BY <1>15 DEF IsPlus
<1>17. more1 = Applied(<<RS1OffXfrm>>, all)
  BY <1>15, AppliedOf
<1>18. PICK args : IsPlus(args, defaults, more1)
  BY PlusIs
<1>19. /\ DOMAIN args = DOMAIN defaults \cup DOMAIN more1
       /\ \A e \in DOMAIN more1 : args[e] = more1[e]
       /\ \A e \in DOMAIN defaults : e \notin DOMAIN more1 => args[e] = defaults[e]
  BY <1>18 DEF IsPlus
<1>20. /\ "opcode" \in DOMAIN all /\ all["opcode"] = 3
       /\ "funct3" \in DOMAIN all /\ all["funct3"] = funct3
       /\ "rd" \in DOMAIN all /\ all["rd"] = given["rd"]
       /\ "rs1off" \in DOMAIN all /\ all["rs1off"] = given["rs1off"]
  BY <1>5, <1>6, <1>8
<1>21. /\ "opcode" \in DOMAIN more1 /\ more1["opcode"] = 3
       /\ "funct3" \in DOMAIN more1 /\ more1["funct3"] = funct3
       /\ "rd" \in DOMAIN more1 /\ more1["rd"] = given["rd"]
       /\ "imm" \in DOMAIN more1 /\ more1["imm"] = given["rs1off"][1]
       /\ "rs1" \in DOMAIN more1 /\ more1["rs1"] = given["rs1off"][2]
  BY <1>11, <1>13, <1>16, <1>20
<1>22. /\ DOMAIN args = layout /\ DOMAIN more1 \subseteq layout
       /\ DOMAIN more1 \cap DOMAIN given \cap (DOMAIN defaults \cup DOMAIN kwargs) = {}
  BY <1>5, <1>8, <1>11, <1>13, <1>16, <1>19, <1>21
<1>23. args["opcode"] = 3
  BY <1>5, <1>6, <1>21, <1>19
<1>24. args["rd"] = given["rd"]
  BY <1>5, <1>6, <1>21, <1>19
<1>25. args["funct3"] = funct3
  BY <1>5, <1>6, <1>21, <1>19
<1>26. args["rs1"] = given["rs1off"][2]
  BY <1>5, <1>6, <1>21, <1>19
<1>27. args["imm"] = given["rs1off"][1]
  BY <1>5, <1>6, <1>21, <1>19
<1>28. args = [e \in layout |-> args[e]]
  BY <1>18, <1>22 DEF IsPlus
<1>29. args = [opcode |-> 3, rd |-> given["rd"], funct3 |-> funct3, rs1 |-> given["rs1off"][2],
               imm |-> given["rs1off"][1]]
  BY <1>23, <1>24, <1>25, <1>26, <1>27, <1>28
<1>30. MakesWord(Made(args, IRanges), layout, IRanges, defaults, kwargs, given, more1)
  BY <1>18, <1>22 DEF MakesWord
<1>31. MakesWord(Made(args, IRanges), ToSet(insn.cls.layout), insn.cls.ranges,
                  insn.cls.defaults, insn.kwargs, given, more1)
  BY <1>3, <1>4, <1>30
<1>32. value(insn, given) = Made(args, IRanges)
  BY Zenon, <1>3, <1>7, <1>17, <1>31, ValueOf
<1> QED BY <1>2, <1>32, <1>29 DEF IWord

LEMMA FenceValue ==
  ASSUME NEW p, NEW given, DOMAIN given = {"pred", "succ"},
         given["pred"] # {} /\ given["succ"] # {}
  PROVE  value(Fence(p), given) =
           IWord(15, 0, 0, 0, fence_arg(given["succ"]) + 16 * fence_arg(given["pred"]) + 256 * p)
<1> DEFINE kwargs == [opcode |-> 15, funct3 |-> 0, rd |-> 0, rs1 |-> 0]
           defaults == [opcode |-> 19]
           layout == {"opcode", "rd", "funct3", "rs1", "imm"}
<1>1. PICK insn : insn = Insn(I, kwargs, <<FenceXfrm(p)>>, <<"pred", "succ">>)
  OBVIOUS
<1>2. insn = Fence(p)
  BY <1>1, FenceForm
<1>3. insn.cls = I /\ insn.kwargs = kwargs /\ insn.xfrms = <<FenceXfrm(p)>>
  BY <1>1, InsnParts
<1>4. ToSet(I.layout) = layout /\ I.ranges = IRanges /\ I.defaults = defaults
  BY Formats, IIs
<1>5. DOMAIN defaults = {"opcode"} /\ DOMAIN kwargs = {"opcode", "funct3", "rd", "rs1"}
  OBVIOUS
<1>6. /\ defaults["opcode"] = 19
      /\ kwargs["opcode"] = 15
      /\ kwargs["funct3"] = 0
      /\ kwargs["rd"] = 0
      /\ kwargs["rs1"] = 0
  OBVIOUS
<1> HIDE DEF kwargs, defaults
<1>7. PICK all : IsPlus(all, kwargs, given)
  BY PlusIs
<1>8. /\ DOMAIN all = DOMAIN kwargs \cup DOMAIN given
      /\ \A e \in DOMAIN given : all[e] = given[e]
      /\ \A e \in DOMAIN kwargs : e \notin DOMAIN given => all[e] = kwargs[e]
  BY <1>7 DEF IsPlus
<1>9. {"pred", "succ"} \subseteq DOMAIN all
  BY <1>5, <1>8
<1>10. PICK left1 : IsDrop(left1, all, {"pred", "succ"})
  BY DropIs
<1>11. /\ DOMAIN left1 = DOMAIN all \ {"pred", "succ"}
       /\ \A e \in DOMAIN all : e \notin {"pred", "succ"} => left1[e] = all[e]
  BY <1>10 DEF IsDrop
<1> DEFINE out1 == IF all["pred"] = {} \/ all["succ"] = {} THEN Assertion
          ELSE [imm |-> fence_arg(all["succ"]) + 16 * fence_arg(all["pred"]) + 256 * p]
<1>12. inputs_to_layout(FenceXfrm(p), all) = out1
  BY FenceForth
<1>13. /\ ~(all["pred"] = {} \/ all["succ"] = {}) =>
            /\ DOMAIN out1 = {"imm"}
            /\ out1["imm"] = fence_arg(all["succ"]) + 16 * fence_arg(all["pred"]) + 256 * p
       /\ ~(~(all["pred"] = {} \/ all["succ"] = {})) => DOMAIN out1 = {"refused"}
  BY DEF Assertion
<1> HIDE DEF out1
<1>14. ToSet(FenceXfrm(p).inputs) = {"pred", "succ"}
  BY XfrmInputs
<1>15. PICK more1 : more1 = Forward(FenceXfrm(p), all) /\ IsPlus(more1, left1, out1)
  BY <1>9, <1>10, <1>12, <1>14, ForwardIs
<1>16. /\ DOMAIN more1 = DOMAIN left1 \cup DOMAIN out1
       /\ \A e \in DOMAIN out1 : more1[e] = out1[e]
       /\ \A e \in DOMAIN left1 : e \notin DOMAIN out1 => more1[e] = left1[e]
  BY <1>15 DEF IsPlus
<1>17. more1 = Applied(<<FenceXfrm(p)>>, all)
  BY <1>15, AppliedOf
<1>18. PICK args : IsPlus(args, defaults, more1)
  BY PlusIs
<1>19. /\ DOMAIN args = DOMAIN defaults \cup DOMAIN more1
       /\ \A e \in DOMAIN more1 : args[e] = more1[e]
       /\ \A e \in DOMAIN defaults : e \notin DOMAIN more1 => args[e] = defaults[e]
  BY <1>18 DEF IsPlus
<1>20. /\ "opcode" \in DOMAIN all /\ all["opcode"] = 15
       /\ "funct3" \in DOMAIN all /\ all["funct3"] = 0
       /\ "rd" \in DOMAIN all /\ all["rd"] = 0
       /\ "rs1" \in DOMAIN all /\ all["rs1"] = 0
       /\ "pred" \in DOMAIN all /\ all["pred"] = given["pred"]
       /\ "succ" \in DOMAIN all /\ all["succ"] = given["succ"]
  BY <1>5, <1>6, <1>8
<1>21. ~(all["pred"] = {} \/ all["succ"] = {})
  BY <1>20
<1>22. /\ DOMAIN out1 = {"imm"}
       /\ out1["imm"] = fence_arg(all["succ"]) + 16 * fence_arg(all["pred"]) + 256 * p
  BY <1>13, <1>21
<1>23. /\ "opcode" \in DOMAIN more1 /\ more1["opcode"] = 15
       /\ "funct3" \in DOMAIN more1 /\ more1["funct3"] = 0
       /\ "rd" \in DOMAIN more1 /\ more1["rd"] = 0
       /\ "rs1" \in DOMAIN more1 /\ more1["rs1"] = 0
       /\ "imm" \in DOMAIN more1 /\ more1["imm"] = fence_arg(given["succ"]) +
            16 * fence_arg(given["pred"]) + 256 * p
  BY <1>11, <1>22, <1>16, <1>20
<1>24. /\ DOMAIN args = layout /\ DOMAIN more1 \subseteq layout
       /\ DOMAIN more1 \cap DOMAIN given \cap (DOMAIN defaults \cup DOMAIN kwargs) = {}
  BY <1>5, <1>8, <1>11, <1>13, <1>16, <1>22, <1>19, <1>23
<1>25. args["opcode"] = 15
  BY <1>5, <1>6, <1>23, <1>19
<1>26. args["rd"] = 0
  BY <1>5, <1>6, <1>23, <1>19
<1>27. args["funct3"] = 0
  BY <1>5, <1>6, <1>23, <1>19
<1>28. args["rs1"] = 0
  BY <1>5, <1>6, <1>23, <1>19
<1>29. args["imm"] = fence_arg(given["succ"]) + 16 * fence_arg(given["pred"]) + 256 * p
  BY <1>5, <1>6, <1>23, <1>19
<1>30. args = [e \in layout |-> args[e]]
  BY <1>18, <1>24 DEF IsPlus
<1>31. args = [opcode |-> 15, rd |-> 0, funct3 |-> 0, rs1 |-> 0,
               imm |-> fence_arg(given["succ"]) + 16 * fence_arg(given["pred"]) + 256 * p]
  BY <1>25, <1>26, <1>27, <1>28, <1>29, <1>30
<1>32. MakesWord(Made(args, IRanges), layout, IRanges, defaults, kwargs, given, more1)
  BY <1>18, <1>24 DEF MakesWord
<1>33. MakesWord(Made(args, IRanges), ToSet(insn.cls.layout), insn.cls.ranges,
                  insn.cls.defaults, insn.kwargs, given, more1)
  BY <1>3, <1>4, <1>32
<1>34. value(insn, given) = Made(args, IRanges)
  BY Zenon, <1>3, <1>7, <1>17, <1>33, ValueOf
<1> QED BY <1>2, <1>34, <1>31 DEF IWord

LEMMA SystemValue ==
  ASSUME NEW funct, NEW given, DOMAIN given = {}
  PROVE  value(System(funct), given) =
           IWord(115, 0, funct % 8, 0, funct \div 8)
<1> DEFINE kwargs == [opcode |-> 115, rd |-> 0, rs1 |-> 0, funct |-> funct]
           defaults == [opcode |-> 19]
           layout == {"opcode", "rd", "funct3", "rs1", "imm"}
<1>1. PICK insn : insn = Insn(I, kwargs, <<SystemXfrm>>, <<>>)
  OBVIOUS
<1>2. insn = System(funct)
  BY <1>1, SystemForm
<1>3. insn.cls = I /\ insn.kwargs = kwargs /\ insn.xfrms = <<SystemXfrm>>
  BY <1>1, InsnParts
<1>4. ToSet(I.layout) = layout /\ I.ranges = IRanges /\ I.defaults = defaults
  BY Formats, IIs
<1>5. DOMAIN defaults = {"opcode"} /\ DOMAIN kwargs = {"opcode", "rd", "rs1", "funct"}
  OBVIOUS
<1>6. /\ defaults["opcode"] = 19
      /\ kwargs["opcode"] = 115
      /\ kwargs["rd"] = 0
      /\ kwargs["rs1"] = 0
      /\ kwargs["funct"] = funct
  OBVIOUS
<1> HIDE DEF kwargs, defaults
<1>7. PICK all : IsPlus(all, kwargs, given)
  BY PlusIs
<1>8. /\ DOMAIN all = DOMAIN kwargs \cup DOMAIN given
      /\ \A e \in DOMAIN given : all[e] = given[e]
      /\ \A e \in DOMAIN kwargs : e \notin DOMAIN given => all[e] = kwargs[e]
  BY <1>7 DEF IsPlus
<1>9. {"funct"} \subseteq DOMAIN all
  BY <1>5, <1>8
<1>10. PICK left1 : IsDrop(left1, all, {"funct"})
  BY DropIs
<1>11. /\ DOMAIN left1 = DOMAIN all \ {"funct"}
       /\ \A e \in DOMAIN all : e \notin {"funct"} => left1[e] = all[e]
  BY <1>10 DEF IsDrop
<1> DEFINE out1 == [funct3 |-> all["funct"] % 8, imm |-> all["funct"] \div 8]
<1>12. inputs_to_layout(SystemXfrm, all) = out1
  BY SystemForth
<1>13. /\ DOMAIN out1 = {"funct3", "imm"}
       /\ out1["funct3"] = all["funct"] % 8
       /\ out1["imm"] = all["funct"] \div 8
  OBVIOUS
<1> HIDE DEF out1
<1>14. ToSet(SystemXfrm.inputs) = {"funct"}
  BY XfrmInputs
<1>15. PICK more1 : more1 = Forward(SystemXfrm, all) /\ IsPlus(more1, left1, out1)
  BY <1>9, <1>10, <1>12, <1>14, ForwardIs
<1>16. /\ DOMAIN more1 = DOMAIN left1 \cup DOMAIN out1
       /\ \A e \in DOMAIN out1 : more1[e] = out1[e]
       /\ \A e \in DOMAIN left1 : e \notin DOMAIN out1 => more1[e] = left1[e]
  BY <1>15 DEF IsPlus
<1>17. more1 = Applied(<<SystemXfrm>>, all)
  BY <1>15, AppliedOf
<1>18. PICK args : IsPlus(args, defaults, more1)
  BY PlusIs
<1>19. /\ DOMAIN args = DOMAIN defaults \cup DOMAIN more1
       /\ \A e \in DOMAIN more1 : args[e] = more1[e]
       /\ \A e \in DOMAIN defaults : e \notin DOMAIN more1 => args[e] = defaults[e]
  BY <1>18 DEF IsPlus
<1>20. /\ "opcode" \in DOMAIN all /\ all["opcode"] = 115
       /\ "rd" \in DOMAIN all /\ all["rd"] = 0
       /\ "rs1" \in DOMAIN all /\ all["rs1"] = 0
       /\ "funct" \in DOMAIN all /\ all["funct"] = funct
  BY <1>5, <1>6, <1>8
<1>21. /\ "opcode" \in DOMAIN more1 /\ more1["opcode"] = 115
       /\ "rd" \in DOMAIN more1 /\ more1["rd"] = 0
       /\ "rs1" \in DOMAIN more1 /\ more1["rs1"] = 0
       /\ "funct3" \in DOMAIN more1 /\ more1["funct3"] = funct % 8
       /\ "imm" \in DOMAIN more1 /\ more1["imm"] = funct \div 8
  BY <1>11, <1>13, <1>16, <1>20
<1>22. /\ DOMAIN args = layout /\ DOMAIN more1 \subseteq layout
       /\ DOMAIN more1 \cap DOMAIN given \cap (DOMAIN defaults \cup DOMAIN kwargs) = {}
  BY <1>5, <1>8, <1>11, <1>13, <1>16, <1>19, <1>21
<1>23. args["opcode"] = 115
  BY <1>5, <1>6, <1>21, <1>19
<1>24. args["rd"] = 0
  BY <1>5, <1>6, <1>21, <1>19
<1>25. args["funct3"] = funct % 8
  BY <1>5, <1>6, <1>21, <1>19
<1>26. args["rs1"] = 0
  BY <1>5, <1>6, <1>21, <1>19
<1>27. args["imm"] = funct \div 8
  BY <1>5, <1>6, <1>21, <1>19
<1>28. args = [e \in layout |-> args[e]]
  BY <1>18, <1>22 DEF IsPlus
<1>29. args = [opcode |-> 115, rd |-> 0, funct3 |-> funct % 8, rs1 |-> 0, imm |-> funct \div 8]
  BY <1>23, <1>24, <1>25, <1>26, <1>27, <1>28
<1>30. MakesWord(Made(args, IRanges), layout, IRanges, defaults, kwargs, given, more1)
  BY <1>18, <1>22 DEF MakesWord
<1>31. MakesWord(Made(args, IRanges), ToSet(insn.cls.layout), insn.cls.ranges,
                  insn.cls.defaults, insn.kwargs, given, more1)
  BY <1>3, <1>4, <1>30
<1>32. value(insn, given) = Made(args, IRanges)
  BY Zenon, <1>3, <1>7, <1>17, <1>31, ValueOf
<1> QED BY <1>2, <1>32, <1>29 DEF IWord

LEMMA StoreValue ==
  ASSUME NEW funct3, NEW given, DOMAIN given = {"rs2", "rs1off"}
  PROVE  value(Store(funct3), given) =
           SWord(35, (given["rs1off"][1] \div 1) % 32, funct3, given["rs1off"][2],
                 given["rs2"], (given["rs1off"][1] \div 32) % 128)
<1> DEFINE kwargs == [funct3 |-> funct3]
           defaults == [opcode |-> 35]
           layout == {"opcode", "imm4_0", "funct3", "rs1", "rs2", "imm11_5"}
<1>1. PICK insn : insn = Insn(S, kwargs, <<RS1OffXfrm, ImmXfrm(S)>>, <<"rs2", "rs1off">>)
  OBVIOUS
<1>2. insn = Store(funct3)
  BY <1>1, StoreForm
<1>3. insn.cls = S /\ insn.kwargs = kwargs /\ insn.xfrms = <<RS1OffXfrm, ImmXfrm(S)>>
  BY <1>1, InsnParts
<1>4. ToSet(S.layout) = layout /\ S.ranges = SRanges /\ S.defaults = defaults
  BY Formats, SIs
<1>5. DOMAIN defaults = {"opcode"} /\ DOMAIN kwargs = {"funct3"}
  OBVIOUS
<1>6. /\ defaults["opcode"] = 35
      /\ kwargs["funct3"] = funct3
  OBVIOUS
<1> HIDE DEF kwargs, defaults
<1>7. PICK all : IsPlus(all, kwargs, given)
  BY PlusIs
<1>8. /\ DOMAIN all = DOMAIN kwargs \cup DOMAIN given
      /\ \A e \in DOMAIN given : all[e] = given[e]
      /\ \A e \in DOMAIN kwargs : e \notin DOMAIN given => all[e] = kwargs[e]
  BY <1>7 DEF IsPlus
<1>9. {"rs1off"} \subseteq DOMAIN all
  BY <1>5, <1>8
<1>10. PICK left1 : IsDrop(left1, all, {"rs1off"})
  BY DropIs
<1>11. /\ DOMAIN left1 = DOMAIN all \ {"rs1off"}
       /\ \A e \in DOMAIN all : e \notin {"rs1off"} => left1[e] = all[e]
  BY <1>10 DEF IsDrop
<1> DEFINE out1 == [imm |-> all["rs1off"][1], rs1 |-> all["rs1off"][2]]
<1>12. inputs_to_layout(RS1OffXfrm, all) = out1
  BY RS1OffForth
<1>13. /\ DOMAIN out1 = {"imm", "rs1"}
       /\ out1["imm"] = all["rs1off"][1]
       /\ out1["rs1"] = all["rs1off"][2]
  OBVIOUS
<1> HIDE DEF out1
<1>14. ToSet(RS1OffXfrm.inputs) = {"rs1off"}
  BY XfrmInputs
<1>15. PICK more1 : more1 = Forward(RS1OffXfrm, all) /\ IsPlus(more1, left1, out1)
  BY <1>9, <1>10, <1>12, <1>14, ForwardIs
<1>16. /\ DOMAIN more1 = DOMAIN left1 \cup DOMAIN out1
       /\ \A e \in DOMAIN out1 : more1[e] = out1[e]
       /\ \A e \in DOMAIN left1 : e \notin DOMAIN out1 => more1[e] = left1[e]
  BY <1>15 DEF IsPlus
<1>17. {"imm"} \subseteq DOMAIN more1
  BY <1>5, <1>8, <1>11, <1>13, <1>16
<1>18. PICK left2 : IsDrop(left2, more1, {"imm"})
  BY DropIs
<1>19. /\ DOMAIN left2 = DOMAIN more1 \ {"imm"}
       /\ \A e \in DOMAIN more1 : e \notin {"imm"} => left2[e] = more1[e]
  BY <1>18 DEF IsDrop
<1> DEFINE out2 == [imm4_0 |-> (more1["imm"] \div 1) % 32,
      imm11_5 |-> (more1["imm"] \div 32) % 128]
<1>20. inputs_to_layout(ImmXfrm(S), more1) = out2
  BY ImmSForth
<1>21. /\ DOMAIN out2 = {"imm4_0", "imm11_5"}
       /\ out2["imm4_0"] = (more1["imm"] \div 1) % 32
       /\ out2["imm11_5"] = (more1["imm"] \div 32) % 128
  OBVIOUS
<1> HIDE DEF out2
<1>22. ToSet(ImmXfrm(S).inputs) = {"imm"}
  BY XfrmInputs
<1>23. PICK more2 : more2 = Forward(ImmXfrm(S), more1) /\ IsPlus(more2, left2, out2)
  BY <1>17, <1>18, <1>20, <1>22, ForwardIs
<1>24. /\ DOMAIN more2 = DOMAIN left2 \cup DOMAIN out2
       /\ \A e \in DOMAIN out2 : more2[e] = out2[e]
       /\ \A e \in DOMAIN left2 : e \notin DOMAIN out2 => more2[e] = left2[e]
  BY <1>23 DEF IsPlus
<1>25. more2 = Applied(<<RS1OffXfrm, ImmXfrm(S)>>, all)
  BY <1>15, <1>23, AppliedOf
<1>26. PICK args : IsPlus(args, defaults, more2)
  BY PlusIs
<1>27. /\ DOMAIN args = DOMAIN defaults \cup DOMAIN more2
       /\ \A e \in DOMAIN more2 : args[e] = more2[e]
       /\ \A e \in DOMAIN defaults : e \notin DOMAIN more2 => args[e] = defaults[e]
  BY <1>26 DEF IsPlus
<1>28. /\ "funct3" \in DOMAIN all /\ all["funct3"] = funct3
       /\ "rs2" \in DOMAIN all /\ all["rs2"] = given["rs2"]
       /\ "rs1off" \in DOMAIN all /\ all["rs1off"] = given["rs1off"]
  BY <1>5, <1>6, <1>8
<1>29. /\ "funct3" \in DOMAIN more1 /\ more1["funct3"] = funct3
       /\ "rs2" \in DOMAIN more1 /\ more1["rs2"] = given["rs2"]
       /\ "imm" \in DOMAIN more1 /\ more1["imm"] = given["rs1off"][1]
       /\ "rs1" \in DOMAIN more1 /\ more1["rs1"] = given["rs1off"][2]
  BY <1>11, <1>13, <1>16, <1>28
<1>30. /\ "funct3" \in DOMAIN more2 /\ more2["funct3"] = funct3
       /\ "rs2" \in DOMAIN more2 /\ more2["rs2"] = given["rs2"]
       /\ "rs1" \in DOMAIN more2 /\ more2["rs1"] = given["rs1off"][2]
       /\ "imm4_0" \in DOMAIN more2 /\ more2["imm4_0"] = (given["rs1off"][1] \div 1) % 32
       /\ "imm11_5" \in DOMAIN more2 /\ more2["imm11_5"] = (given["rs1off"][1] \div 32) % 128
  BY <1>19, <1>21, <1>24, <1>29
<1>31. /\ DOMAIN args = layout /\ DOMAIN more2 \subseteq layout
       /\ DOMAIN more2 \cap DOMAIN given \cap (DOMAIN defaults \cup DOMAIN kwargs) = {}
  BY <1>5, <1>8, <1>11, <1>13, <1>16, <1>19, <1>21, <1>24, <1>27, <1>30
<1>32. args["opcode"] = 35
  BY <1>5, <1>6, <1>30, <1>27, <1>8, <1>11, <1>13, <1>16, <1>19, <1>21, <1>24
<1>33. args["imm4_0"] = (given["rs1off"][1] \div 1) % 32
  BY <1>5, <1>6, <1>30, <1>27
<1>34. args["funct3"] = funct3
  BY <1>5, <1>6, <1>30, <1>27
<1>35. args["rs1"] = given["rs1off"][2]
  BY <1>5, <1>6, <1>30, <1>27
<1>36. args["rs2"] = given["rs2"]
  BY <1>5, <1>6, <1>30, <1>27
<1>37. args["imm11_5"] = (given["rs1off"][1] \div 32) % 128
  BY <1>5, <1>6, <1>30, <1>27
<1>38. args = [e \in layout |-> args[e]]
  BY <1>26, <1>31 DEF IsPlus
<1>39. args = [opcode |-> 35, imm4_0 |-> (given["rs1off"][1] \div 1) % 32, funct3 |-> funct3,
               rs1 |-> given["rs1off"][2], rs2 |-> given["rs2"],
               imm11_5 |-> (given["rs1off"][1] \div 32) % 128]
  BY <1>32, <1>33, <1>34, <1>35, <1>36, <1>37, <1>38
<1>40. MakesWord(Made(args, SRanges), layout, SRanges, defaults, kwargs, given, more2)
  BY <1>26, <1>31 DEF MakesWord
<1>41. MakesWord(Made(args, SRanges), ToSet(insn.cls.layout), insn.cls.ranges,
                  insn.cls.defaults, insn.kwargs, given, more2)
  BY <1>3, <1>4, <1>40
<1>42. value(insn, given) = Made(args, SRanges)
  BY Zenon, <1>3, <1>7, <1>25, <1>41, ValueOf
<1> QED BY <1>2, <1>42, <1>39 DEF SWord

LEMMA BranchValue ==
  ASSUME NEW funct3, NEW given, DOMAIN given = {"rs1", "rs2", "imm"}
  PROVE  value(Branch(funct3), given) =
           BWord(99, (given["imm"] \div 2048) % 2, (given["imm"] \div 2) % 16, funct3,
                 given["rs1"], given["rs2"], (given["imm"] \div 32) % 64,
                 (given["imm"] \div 4096) % 2)
<1> DEFINE kwargs == [funct3 |-> funct3]
           defaults == [opcode |-> 99]
           layout == {"opcode", "imm11", "imm4_1", "funct3", "rs1", "rs2", "imm10_5", "imm12"}
<1>1. PICK insn : insn = Insn(B, kwargs, <<ImmXfrm(B)>>, <<"rs1", "rs2", "imm">>)
  OBVIOUS
<1>2. insn = Branch(funct3)
  BY <1>1, BranchForm
<1>3. insn.cls = B /\ insn.kwargs = kwargs /\ insn.xfrms = <<ImmXfrm(B)>>
  BY <1>1, InsnParts
<1>4. ToSet(B.layout) = layout /\ B.ranges = BRanges /\ B.defaults = defaults
  BY Formats, BIs
<1>5. DOMAIN defaults = {"opcode"} /\ DOMAIN kwargs = {"funct3"}
  OBVIOUS
<1>6. /\ defaults["opcode"] = 99
      /\ kwargs["funct3"] = funct3
  OBVIOUS
<1> HIDE DEF kwargs, defaults
<1>7. PICK all : IsPlus(all, kwargs, given)
  BY PlusIs
<1>8. /\ DOMAIN all = DOMAIN kwargs \cup DOMAIN given
      /\ \A e \in DOMAIN given : all[e] = given[e]
      /\ \A e \in DOMAIN kwargs : e \notin DOMAIN given => all[e] = kwargs[e]
  BY <1>7 DEF IsPlus
<1>9. {"imm"} \subseteq DOMAIN all
  BY <1>5, <1>8
<1>10. PICK left1 : IsDrop(left1, all, {"imm"})
  BY DropIs
<1>11. /\ DOMAIN left1 = DOMAIN all \ {"imm"}
       /\ \A e \in DOMAIN all : e \notin {"imm"} => left1[e] = all[e]
  BY <1>10 DEF IsDrop
<1> DEFINE out1 == [imm11 |-> (all["imm"] \div 2048) % 2, imm4_1 |-> (all["imm"] \div 2) % 16,
      imm10_5 |-> (all["imm"] \div 32) % 64, imm12 |-> (all["imm"] \div 4096) % 2]
<1>12. inputs_to_layout(ImmXfrm(B), all) = out1
  BY ImmBForth
<1>13. /\ DOMAIN out1 = {"imm11", "imm4_1", "imm10_5", "imm12"}
       /\ out1["imm11"] = (all["imm"] \div 2048) % 2
       /\ out1["imm4_1"] = (all["imm"] \div 2) % 16
       /\ out1["imm10_5"] = (all["imm"] \div 32) % 64
       /\ out1["imm12"] = (all["imm"] \div 4096) % 2
  OBVIOUS
<1> HIDE DEF out1
<1>14. ToSet(ImmXfrm(B).inputs) = {"imm"}
  BY XfrmInputs
<1>15. PICK more1 : more1 = Forward(ImmXfrm(B), all) /\ IsPlus(more1, left1, out1)
  BY <1>9, <1>10, <1>12, <1>14, ForwardIs
<1>16. /\ DOMAIN more1 = DOMAIN left1 \cup DOMAIN out1
       /\ \A e \in DOMAIN out1 : more1[e] = out1[e]
       /\ \A e \in DOMAIN left1 : e \notin DOMAIN out1 => more1[e] = left1[e]
  BY <1>15 DEF IsPlus
<1>17. more1 = Applied(<<ImmXfrm(B)>>, all)
  BY <1>15, AppliedOf
<1>18. PICK args : IsPlus(args, defaults, more1)
  BY PlusIs
<1>19. /\ DOMAIN args = DOMAIN defaults \cup DOMAIN more1
       /\ \A e \in DOMAIN more1 : args[e] = more1[e]
       /\ \A e \in DOMAIN defaults : e \notin DOMAIN more1 => args[e] = defaults[e]
  BY <1>18 DEF IsPlus
<1>20. /\ "funct3" \in DOMAIN all /\ all["funct3"] = funct3
       /\ "rs1" \in DOMAIN all /\ all["rs1"] = given["rs1"]
       /\ "rs2" \in DOMAIN all /\ all["rs2"] = given["rs2"]
       /\ "imm" \in DOMAIN all /\ all["imm"] = given["imm"]
  BY <1>5, <1>6, <1>8
<1>21. /\ "funct3" \in DOMAIN more1 /\ more1["funct3"] = funct3
       /\ "rs1" \in DOMAIN more1 /\ more1["rs1"] = given["rs1"]
       /\ "rs2" \in DOMAIN more1 /\ more1["rs2"] = given["rs2"]
       /\ "imm11" \in DOMAIN more1 /\ more1["imm11"] = (given["imm"] \div 2048) % 2
       /\ "imm4_1" \in DOMAIN more1 /\ more1["imm4_1"] = (given["imm"] \div 2) % 16
       /\ "imm10_5" \in DOMAIN more1 /\ more1["imm10_5"] = (given["imm"] \div 32) % 64
       /\ "imm12" \in DOMAIN more1 /\ more1["imm12"] = (given["imm"] \div 4096) % 2
  BY <1>11, <1>13, <1>16, <1>20
<1>22. /\ DOMAIN args = layout /\ DOMAIN more1 \subseteq layout
       /\ DOMAIN more1 \cap DOMAIN given \cap (DOMAIN defaults \cup DOMAIN kwargs) = {}
  BY <1>5, <1>8, <1>11, <1>13, <1>16, <1>19, <1>21
<1>23. args["opcode"] = 99
  BY <1>5, <1>6, <1>21, <1>19, <1>8, <1>11, <1>13, <1>16
<1>24. args["imm11"] = (given["imm"] \div 2048) % 2
  BY <1>5, <1>6, <1>21, <1>19
<1>25. args["imm4_1"] = (given["imm"] \div 2) % 16
  BY <1>5, <1>6, <1>21, <1>19
<1>26. args["funct3"] = funct3
  BY <1>5, <1>6, <1>21, <1>19
<1>27. args["rs1"] = given["rs1"]
  BY <1>5, <1>6, <1>21, <1>19
<1>28. args["rs2"] = given["rs2"]
  BY <1>5, <1>6, <1>21, <1>19
<1>29. args["imm10_5"] = (given["imm"] \div 32) % 64
  BY <1>5, <1>6, <1>21, <1>19
<1>30. args["imm12"] = (given["imm"] \div 4096) % 2
  BY <1>5, <1>6, <1>21, <1>19
<1>31. args = [e \in layout |-> args[e]]
  BY <1>18, <1>22 DEF IsPlus
<1>32. args = [opcode |-> 99, imm11 |-> (given["imm"] \div 2048) % 2,
               imm4_1 |-> (given["imm"] \div 2) % 16, funct3 |-> funct3, rs1 |-> given["rs1"],
               rs2 |-> given["rs2"], imm10_5 |-> (given["imm"] \div 32) % 64,
               imm12 |-> (given["imm"] \div 4096) % 2]
  BY <1>23, <1>24, <1>25, <1>26, <1>27, <1>28, <1>29, <1>30, <1>31
<1>33. MakesWord(Made(args, BRanges), layout, BRanges, defaults, kwargs, given, more1)
  BY <1>18, <1>22 DEF MakesWord
<1>34. MakesWord(Made(args, BRanges), ToSet(insn.cls.layout), insn.cls.ranges,
                  insn.cls.defaults, insn.kwargs, given, more1)
  BY <1>3, <1>4, <1>33
<1>35. value(insn, given) = Made(args, BRanges)
  BY Zenon, <1>3, <1>7, <1>17, <1>34, ValueOf
<1> QED BY <1>2, <1>35, <1>32 DEF BWord

LEMMA UpperValue ==
  ASSUME NEW opcode, NEW given, DOMAIN given = {"rd", "imm"},
         given["imm"] \in -(2^20 - 1) .. 2^20 - 1
  PROVE  value(Upper(opcode), given) =
           UWord(opcode, given["rd"], given["imm"])
<1> DEFINE kwargs == [opcode |-> opcode]
           defaults == <<>>
           layout == {"opcode", "rd", "imm"}
<1>1. PICK insn : insn = Insn(U, kwargs, <<CheckXfrm>>, <<"rd", "imm">>)
  OBVIOUS
<1>2. insn = Upper(opcode)
  BY <1>1, UpperForm
<1>3. insn.cls = U /\ insn.kwargs = kwargs /\ insn.xfrms = <<CheckXfrm>>
  BY <1>1, InsnParts
<1>4. ToSet(U.layout) = layout /\ U.ranges = URanges /\ U.defaults = defaults
  BY Formats, UIs
<1>5. DOMAIN defaults = {} /\ DOMAIN kwargs = {"opcode"}
  OBVIOUS
<1>6. /\ kwargs["opcode"] = opcode
  OBVIOUS
<1> HIDE DEF kwargs, defaults
<1>7. PICK all : IsPlus(all, kwargs, given)
  BY PlusIs
<1>8. /\ DOMAIN all = DOMAIN kwargs \cup DOMAIN given
      /\ \A e \in DOMAIN given : all[e] = given[e]
      /\ \A e \in DOMAIN kwargs : e \notin DOMAIN given => all[e] = kwargs[e]
  BY <1>7 DEF IsPlus
<1>9. {"imm"} \subseteq DOMAIN all
  BY <1>5, <1>8
<1>10. PICK left1 : IsDrop(left1, all, {"imm"})
  BY DropIs
<1>11. /\ DOMAIN left1 = DOMAIN all \ {"imm"}
       /\ \A e \in DOMAIN all : e \notin {"imm"} => left1[e] = all[e]
  BY <1>10 DEF IsDrop
<1> DEFINE out1 == IF all["imm"] \in -(2^20 - 1) .. 2^20 - 1 THEN [imm |-> all["imm"]]
      ELSE Assertion
<1>12. inputs_to_layout(CheckXfrm, all) = out1
  BY CheckForth
<1>13. /\ all["imm"] \in -(2^20 - 1) .. 2^20 - 1 =>
            /\ DOMAIN out1 = {"imm"}
            /\ out1["imm"] = all["imm"]
       /\ ~(all["imm"] \in -(2^20 - 1) .. 2^20 - 1) => DOMAIN out1 = {"refused"}
  BY DEF Assertion
<1> HIDE DEF out1
<1>14. ToSet(CheckXfrm.inputs) = {"imm"}
  BY XfrmInputs
<1>15. PICK more1 : more1 = Forward(CheckXfrm, all) /\ IsPlus(more1, left1, out1)
  BY <1>9, <1>10, <1>12, <1>14, ForwardIs
<1>16. /\ DOMAIN more1 = DOMAIN left1 \cup DOMAIN out1
       /\ \A e \in DOMAIN out1 : more1[e] = out1[e]
       /\ \A e \in DOMAIN left1 : e \notin DOMAIN out1 => more1[e] = left1[e]
  BY <1>15 DEF IsPlus
<1>17. more1 = Applied(<<CheckXfrm>>, all)
  BY <1>15, AppliedOf
<1>18. PICK args : IsPlus(args, defaults, more1)
  BY PlusIs
<1>19. /\ DOMAIN args = DOMAIN defaults \cup DOMAIN more1
       /\ \A e \in DOMAIN more1 : args[e] = more1[e]
       /\ \A e \in DOMAIN defaults : e \notin DOMAIN more1 => args[e] = defaults[e]
  BY <1>18 DEF IsPlus
<1>20. /\ "opcode" \in DOMAIN all /\ all["opcode"] = opcode
       /\ "rd" \in DOMAIN all /\ all["rd"] = given["rd"]
       /\ "imm" \in DOMAIN all /\ all["imm"] = given["imm"]
  BY <1>5, <1>6, <1>8
<1>21. all["imm"] \in -(2^20 - 1) .. 2^20 - 1
  BY <1>20
<1>22. /\ DOMAIN out1 = {"imm"}
       /\ out1["imm"] = all["imm"]
  BY <1>13, <1>21
<1>23. /\ "opcode" \in DOMAIN more1 /\ more1["opcode"] = opcode
       /\ "rd" \in DOMAIN more1 /\ more1["rd"] = given["rd"]
       /\ "imm" \in DOMAIN more1 /\ more1["imm"] = given["imm"]
  BY <1>11, <1>22, <1>16, <1>20
<1>24. /\ DOMAIN args = layout /\ DOMAIN more1 \subseteq layout
       /\ DOMAIN more1 \cap DOMAIN given \cap (DOMAIN defaults \cup DOMAIN kwargs) = {}
  BY <1>5, <1>8, <1>11, <1>13, <1>16, <1>22, <1>19, <1>23
<1>25. args["opcode"] = opcode
  BY <1>5, <1>6, <1>23, <1>19
<1>26. args["rd"] = given["rd"]
  BY <1>5, <1>6, <1>23, <1>19
<1>27. args["imm"] = given["imm"]
  BY <1>5, <1>6, <1>23, <1>19
<1>28. args = [e \in layout |-> args[e]]
  BY <1>18, <1>24 DEF IsPlus
<1>29. args = [opcode |-> opcode, rd |-> given["rd"], imm |-> given["imm"]]
  BY <1>25, <1>26, <1>27, <1>28
<1>30. MakesWord(Made(args, URanges), layout, URanges, defaults, kwargs, given, more1)
  BY <1>18, <1>24 DEF MakesWord
<1>31. MakesWord(Made(args, URanges), ToSet(insn.cls.layout), insn.cls.ranges,
                  insn.cls.defaults, insn.kwargs, given, more1)
  BY <1>3, <1>4, <1>30
<1>32. value(insn, given) = Made(args, URanges)
  BY Zenon, <1>3, <1>7, <1>17, <1>31, ValueOf
<1> QED BY <1>2, <1>32, <1>29 DEF UWord

LEMMA JalrValue ==
  ASSUME NEW given, DOMAIN given = {"rd", "rs1", "imm"}
  PROVE  value(Jalr, given) =
           IWord(103, given["rd"], 0, given["rs1"], given["imm"])
<1> DEFINE kwargs == [opcode |-> 103, funct3 |-> 0]
           defaults == [opcode |-> 19]
           layout == {"opcode", "rd", "funct3", "rs1", "imm"}
<1>1. PICK insn : insn = Insn(I, kwargs, <<>>, <<"rd", "rs1", "imm">>)
  OBVIOUS
<1>2. insn = Jalr
  BY <1>1, JalrForm
<1>3. insn.cls = I /\ insn.kwargs = kwargs /\ insn.xfrms = <<>>
  BY <1>1, InsnParts
<1>4. ToSet(I.layout) = layout /\ I.ranges = IRanges /\ I.defaults = defaults
  BY Formats, IIs
<1>5. DOMAIN defaults = {"opcode"} /\ DOMAIN kwargs = {"opcode", "funct3"}
  OBVIOUS
<1>6. /\ defaults["opcode"] = 19
      /\ kwargs["opcode"] = 103
      /\ kwargs["funct3"] = 0
  OBVIOUS
<1> HIDE DEF kwargs, defaults
<1>7. PICK all : IsPlus(all, kwargs, given)
  BY PlusIs
<1>8. /\ DOMAIN all = DOMAIN kwargs \cup DOMAIN given
      /\ \A e \in DOMAIN given : all[e] = given[e]
      /\ \A e \in DOMAIN kwargs : e \notin DOMAIN given => all[e] = kwargs[e]
  BY <1>7 DEF IsPlus
<1>9. all = Applied(<<>>, all)
  BY AppliedOf
<1>10. PICK args : IsPlus(args, defaults, all)
  BY PlusIs
<1>11. /\ DOMAIN args = DOMAIN defaults \cup DOMAIN all
       /\ \A e \in DOMAIN all : args[e] = all[e]
       /\ \A e \in DOMAIN defaults : e \notin DOMAIN all => args[e] = defaults[e]
  BY <1>10 DEF IsPlus
<1>12. /\ "opcode" \in DOMAIN all /\ all["opcode"] = 103
       /\ "funct3" \in DOMAIN all /\ all["funct3"] = 0
       /\ "rd" \in DOMAIN all /\ all["rd"] = given["rd"]
       /\ "rs1" \in DOMAIN all /\ all["rs1"] = given["rs1"]
       /\ "imm" \in DOMAIN all /\ all["imm"] = given["imm"]
  BY <1>5, <1>6, <1>8
<1>13. /\ DOMAIN args = layout /\ DOMAIN all \subseteq layout
       /\ DOMAIN all \cap DOMAIN given \cap (DOMAIN defaults \cup DOMAIN kwargs) = {}
  BY <1>5, <1>8, <1>11, <1>12
<1>14. args["opcode"] = 103
  BY <1>5, <1>6, <1>12, <1>11
<1>15. args["rd"] = given["rd"]
  BY <1>5, <1>6, <1>12, <1>11
<1>16. args["funct3"] = 0
  BY <1>5, <1>6, <1>12, <1>11
<1>17. args["rs1"] = given["rs1"]
  BY <1>5, <1>6, <1>12, <1>11
<1>18. args["imm"] = given["imm"]
  BY <1>5, <1>6, <1>12, <1>11
<1>19. args = [e \in layout |-> args[e]]
  BY <1>10, <1>13 DEF IsPlus
<1>20. args = [opcode |-> 103, rd |-> given["rd"], funct3 |-> 0, rs1 |-> given["rs1"],
               imm |-> given["imm"]]
  BY <1>14, <1>15, <1>16, <1>17, <1>18, <1>19
<1>21. MakesWord(Made(args, IRanges), layout, IRanges, defaults, kwargs, given, all)
  BY <1>10, <1>13 DEF MakesWord
<1>22. MakesWord(Made(args, IRanges), ToSet(insn.cls.layout), insn.cls.ranges,
                  insn.cls.defaults, insn.kwargs, given, all)
  BY <1>3, <1>4, <1>21
<1>23. value(insn, given) = Made(args, IRanges)
  BY Zenon, <1>3, <1>7, <1>9, <1>22, ValueOf
<1> QED BY <1>2, <1>23, <1>20 DEF IWord

LEMMA JalValue ==
  ASSUME NEW given, DOMAIN given = {"rd", "imm"}
  PROVE  value(Jal, given) =
           JWord(111, given["rd"], (given["imm"] \div 4096) % 256,
                 (given["imm"] \div 2048) % 2, (given["imm"] \div 2) % 1024,
                 (given["imm"] \div 1048576) % 2)
<1> DEFINE kwargs == <<>>
           defaults == [opcode |-> 111]
           layout == {"opcode", "rd", "imm19_12", "imm11", "imm10_1", "imm20"}
<1>1. PICK insn : insn = Insn(J, kwargs, <<ImmXfrm(J)>>, <<"rd", "imm">>)
  OBVIOUS
<1>2. insn = Jal
  BY <1>1, JalForm
<1>3. insn.cls = J /\ insn.kwargs = kwargs /\ insn.xfrms = <<ImmXfrm(J)>>
  BY <1>1, InsnParts
<1>4. ToSet(J.layout) = layout /\ J.ranges = JRanges /\ J.defaults = defaults
  BY Formats, JIs
<1>5. DOMAIN defaults = {"opcode"} /\ DOMAIN kwargs = {}
  OBVIOUS
<1>6. /\ defaults["opcode"] = 111
  OBVIOUS
<1> HIDE DEF kwargs, defaults
<1>7. PICK all : IsPlus(all, kwargs, given)
  BY PlusIs
<1>8. /\ DOMAIN all = DOMAIN kwargs \cup DOMAIN given
      /\ \A e \in DOMAIN given : all[e] = given[e]
      /\ \A e \in DOMAIN kwargs : e \notin DOMAIN given => all[e] = kwargs[e]
  BY <1>7 DEF IsPlus
<1>9. {"imm"} \subseteq DOMAIN all
  BY <1>5, <1>8
<1>10. PICK left1 : IsDrop(left1, all, {"imm"})
  BY DropIs
<1>11. /\ DOMAIN left1 = DOMAIN all \ {"imm"}
       /\ \A e \in DOMAIN all : e \notin {"imm"} => left1[e] = all[e]
  BY <1>10 DEF IsDrop
<1> DEFINE out1 == [imm19_12 |-> (all["imm"] \div 4096) % 256,
      imm11 |-> (all["imm"] \div 2048) % 2, imm10_1 |-> (all["imm"] \div 2) % 1024,
      imm20 |-> (all["imm"] \div 1048576) % 2]
<1>12. inputs_to_layout(ImmXfrm(J), all) = out1
  BY ImmJForth
<1>13. /\ DOMAIN out1 = {"imm19_12", "imm11", "imm10_1", "imm20"}
       /\ out1["imm19_12"] = (all["imm"] \div 4096) % 256
       /\ out1["imm11"] = (all["imm"] \div 2048) % 2
       /\ out1["imm10_1"] = (all["imm"] \div 2) % 1024
       /\ out1["imm20"] = (all["imm"] \div 1048576) % 2
  OBVIOUS
<1> HIDE DEF out1
<1>14. ToSet(ImmXfrm(J).inputs) = {"imm"}
  BY XfrmInputs
<1>15. PICK more1 : more1 = Forward(ImmXfrm(J), all) /\ IsPlus(more1, left1, out1)
  BY <1>9, <1>10, <1>12, <1>14, ForwardIs
<1>16. /\ DOMAIN more1 = DOMAIN left1 \cup DOMAIN out1
       /\ \A e \in DOMAIN out1 : more1[e] = out1[e]
       /\ \A e \in DOMAIN left1 : e \notin DOMAIN out1 => more1[e] = left1[e]
  BY <1>15 DEF IsPlus
<1>17. more1 = Applied(<<ImmXfrm(J)>>, all)
  BY <1>15, AppliedOf
<1>18. PICK args : IsPlus(args, defaults, more1)
  BY PlusIs
<1>19. /\ DOMAIN args = DOMAIN defaults \cup DOMAIN more1
       /\ \A e \in DOMAIN more1 : args[e] = more1[e]
       /\ \A e \in DOMAIN defaults : e \notin DOMAIN more1 => args[e] = defaults[e]
  BY <1>18 DEF IsPlus
<1>20. /\ "rd" \in DOMAIN all /\ all["rd"] = given["rd"]
       /\ "imm" \in DOMAIN all /\ all["imm"] = given["imm"]
  BY <1>5, <1>6, <1>8
<1>21. /\ "rd" \in DOMAIN more1 /\ more1["rd"] = given["rd"]
       /\ "imm19_12" \in DOMAIN more1 /\ more1["imm19_12"] = (given["imm"] \div 4096) % 256
       /\ "imm11" \in DOMAIN more1 /\ more1["imm11"] = (given["imm"] \div 2048) % 2
       /\ "imm10_1" \in DOMAIN more1 /\ more1["imm10_1"] = (given["imm"] \div 2) % 1024
       /\ "imm20" \in DOMAIN more1 /\ more1["imm20"] = (given["imm"] \div 1048576) % 2
  BY <1>11, <1>13, <1>16, <1>20
<1>22. /\ DOMAIN args = layout /\ DOMAIN more1 \subseteq layout
       /\ DOMAIN more1 \cap DOMAIN given \cap (DOMAIN defaults \cup DOMAIN kwargs) = {}
  BY <1>5, <1>8, <1>11, <1>13, <1>16, <1>19, <1>21
<1>23. args["opcode"] = 111
  BY <1>5, <1>6, <1>21, <1>19, <1>8, <1>11, <1>13, <1>16
<1>24. args["rd"] = given["rd"]
  BY <1>5, <1>6, <1>21, <1>19
<1>25. args["imm19_12"] = (given["imm"] \div 4096) % 256
  BY <1>5, <1>6, <1>21, <1>19
<1>26. args["imm11"] = (given["imm"] \div 2048) % 2
  BY <1>5, <1>6, <1>21, <1>19
<1>27. args["imm10_1"] = (given["imm"] \div 2) % 1024
  BY <1>5, <1>6, <1>21, <1>19
<1>28. args["imm20"] = (given["imm"] \div 1048576) % 2
  BY <1>5, <1>6, <1>21, <1>19
<1>29. args = [e \in layout |-> args[e]]
  BY <1>18, <1>22 DEF IsPlus
<1>30. args = [opcode |-> 111, rd |-> given["rd"], imm19_12 |-> (given["imm"] \div 4096) % 256,
               imm11 |-> (given["imm"] \div 2048) % 2, imm10_1 |-> (given["imm"] \div 2) % 1024,
               imm20 |-> (given["imm"] \div 1048576) % 2]
  BY <1>23, <1>24, <1>25, <1>26, <1>27, <1>28, <1>29
<1>31. MakesWord(Made(args, JRanges), layout, JRanges, defaults, kwargs, given, more1)
  BY <1>18, <1>22 DEF MakesWord
<1>32. MakesWord(Made(args, JRanges), ToSet(insn.cls.layout), insn.cls.ranges,
                  insn.cls.defaults, insn.kwargs, given, more1)
  BY <1>3, <1>4, <1>31
<1>33. value(insn, given) = Made(args, JRanges)
  BY Zenon, <1>3, <1>7, <1>17, <1>32, ValueOf
<1> QED BY <1>2, <1>33, <1>30 DEF JWord

LEMMA FenceTSOValue ==
  ASSUME NEW given, DOMAIN given = {}
  PROVE  value(Insns.FENCE_TSO, given) =
           IWord(15, 0, 0, 0, 2099)
<1> DEFINE kwargs == [opcode |-> 15, funct3 |-> 0, rd |-> 0, rs1 |-> 0, pred |-> {"r", "w"},
      succ |-> {"r", "w"}]
           defaults == [opcode |-> 19]
           layout == {"opcode", "rd", "funct3", "rs1", "imm"}
<1>1. PICK insn : insn = Insn(I, kwargs, <<FenceXfrm(8)>>, <<>>)
  OBVIOUS
<1>2. insn = Insns.FENCE_TSO
  BY <1>1, FenceTSOForm
<1>3. insn.cls = I /\ insn.kwargs = kwargs /\ insn.xfrms = <<FenceXfrm(8)>>
  BY <1>1, InsnParts
<1>4. ToSet(I.layout) = layout /\ I.ranges = IRanges /\ I.defaults = defaults
  BY Formats, IIs
<1>5. DOMAIN defaults = {"opcode"} /\ DOMAIN kwargs =
        {"opcode", "funct3", "rd", "rs1", "pred", "succ"}
  OBVIOUS
<1>6. /\ defaults["opcode"] = 19
      /\ kwargs["opcode"] = 15
      /\ kwargs["funct3"] = 0
      /\ kwargs["rd"] = 0
      /\ kwargs["rs1"] = 0
      /\ kwargs["pred"] = {"r", "w"}
      /\ kwargs["succ"] = {"r", "w"}
  OBVIOUS
<1> HIDE DEF kwargs, defaults
<1>7. PICK all : IsPlus(all, kwargs, given)
  BY PlusIs
<1>8. /\ DOMAIN all = DOMAIN kwargs \cup DOMAIN given
      /\ \A e \in DOMAIN given : all[e] = given[e]
      /\ \A e \in DOMAIN kwargs : e \notin DOMAIN given => all[e] = kwargs[e]
  BY <1>7 DEF IsPlus
<1>9. {"pred", "succ"} \subseteq DOMAIN all
  BY <1>5, <1>8
<1>10. PICK left1 : IsDrop(left1, all, {"pred", "succ"})
  BY DropIs
<1>11. /\ DOMAIN left1 = DOMAIN all \ {"pred", "succ"}
       /\ \A e \in DOMAIN all : e \notin {"pred", "succ"} => left1[e] = all[e]
  BY <1>10 DEF IsDrop
<1> DEFINE out1 == IF all["pred"] = {} \/ all["succ"] = {} THEN Assertion
          ELSE [imm |-> fence_arg(all["succ"]) + 16 * fence_arg(all["pred"]) + 256 * 8]
<1>12. inputs_to_layout(FenceXfrm(8), all) = out1
  BY FenceForth
<1>13. /\ ~(all["pred"] = {} \/ all["succ"] = {}) =>
            /\ DOMAIN out1 = {"imm"}
            /\ out1["imm"] = fence_arg(all["succ"]) + 16 * fence_arg(all["pred"]) + 256 * 8
       /\ ~(~(all["pred"] = {} \/ all["succ"] = {})) => DOMAIN out1 = {"refused"}
  BY DEF Assertion
<1> HIDE DEF out1
<1>14. ToSet(FenceXfrm(8).inputs) = {"pred", "succ"}
  BY XfrmInputs
<1>15. PICK more1 : more1 = Forward(FenceXfrm(8), all) /\ IsPlus(more1, left1, out1)
  BY <1>9, <1>10, <1>12, <1>14, ForwardIs
<1>16. /\ DOMAIN more1 = DOMAIN left1 \cup DOMAIN out1
       /\ \A e \in DOMAIN out1 : more1[e] = out1[e]
       /\ \A e \in DOMAIN left1 : e \notin DOMAIN out1 => more1[e] = left1[e]
  BY <1>15 DEF IsPlus
<1>17. more1 = Applied(<<FenceXfrm(8)>>, all)
  BY <1>15, AppliedOf
<1>18. PICK args : IsPlus(args, defaults, more1)
  BY PlusIs
<1>19. /\ DOMAIN args = DOMAIN defaults \cup DOMAIN more1
       /\ \A e \in DOMAIN more1 : args[e] = more1[e]
       /\ \A e \in DOMAIN defaults : e \notin DOMAIN more1 => args[e] = defaults[e]
  BY <1>18 DEF IsPlus
<1>20. /\ "opcode" \in DOMAIN all /\ all["opcode"] = 15
       /\ "funct3" \in DOMAIN all /\ all["funct3"] = 0
       /\ "rd" \in DOMAIN all /\ all["rd"] = 0
       /\ "rs1" \in DOMAIN all /\ all["rs1"] = 0
       /\ "pred" \in DOMAIN all /\ all["pred"] = {"r", "w"}
       /\ "succ" \in DOMAIN all /\ all["succ"] = {"r", "w"}
  BY <1>5, <1>6, <1>8
<1>21. ~(all["pred"] = {} \/ all["succ"] = {})
  BY <1>20
<1>22. /\ DOMAIN out1 = {"imm"}
       /\ out1["imm"] = fence_arg(all["succ"]) + 16 * fence_arg(all["pred"]) + 256 * 8
  BY <1>13, <1>21
<1>23. /\ "opcode" \in DOMAIN more1 /\ more1["opcode"] = 15
       /\ "funct3" \in DOMAIN more1 /\ more1["funct3"] = 0
       /\ "rd" \in DOMAIN more1 /\ more1["rd"] = 0
       /\ "rs1" \in DOMAIN more1 /\ more1["rs1"] = 0
       /\ "imm" \in DOMAIN more1 /\ more1["imm"] = fence_arg({"r", "w"}) +
            16 * fence_arg({"r", "w"}) + 256 * 8
  BY <1>11, <1>22, <1>16, <1>20
<1>24. /\ DOMAIN args = layout /\ DOMAIN more1 \subseteq layout
       /\ DOMAIN more1 \cap DOMAIN given \cap (DOMAIN defaults \cup DOMAIN kwargs) = {}
  BY <1>5, <1>8, <1>11, <1>13, <1>16, <1>22, <1>19, <1>23
<1>25. args["opcode"] = 15
  BY <1>5, <1>6, <1>23, <1>19
<1>26. args["rd"] = 0
  BY <1>5, <1>6, <1>23, <1>19
<1>27. args["funct3"] = 0
  BY <1>5, <1>6, <1>23, <1>19
<1>28. args["rs1"] = 0
  BY <1>5, <1>6, <1>23, <1>19
<1>29. args["imm"] = 2099
  BY <1>5, <1>6, <1>23, <1>19, FencePower
<1>30. args = [e \in layout |-> args[e]]
  BY <1>18, <1>24 DEF IsPlus
<1>31. args = [opcode |-> 15, rd |-> 0, funct3 |-> 0, rs1 |-> 0, imm |-> 2099]
  BY <1>25, <1>26, <1>27, <1>28, <1>29, <1>30
<1>32. MakesWord(Made(args, IRanges), layout, IRanges, defaults, kwargs, given, more1)
  BY <1>18, <1>24 DEF MakesWord
<1>33. MakesWord(Made(args, IRanges), ToSet(insn.cls.layout), insn.cls.ranges,
                  insn.cls.defaults, insn.kwargs, given, more1)
  BY <1>3, <1>4, <1>32
<1>34. value(insn, given) = Made(args, IRanges)
  BY Zenon, <1>3, <1>7, <1>17, <1>33, ValueOf
<1> QED BY <1>2, <1>34, <1>31 DEF IWord

LEMMA SnezValue ==
  ASSUME NEW given, DOMAIN given = {"rd", "rs2"}
  PROVE  value(Insns.SNEZ, given) =
           RWord(51, given["rd"], 3, 0, given["rs2"], 0)
<1> DEFINE kwargs == [funct3 |-> 3, rs1 |-> Reg("zero")]
           defaults == [opcode |-> 51, funct7 |-> 0]
           layout == {"opcode", "rd", "funct3", "rs1", "rs2", "funct7"}
<1>1. PICK insn : insn = Insn(R, kwargs, <<>>, <<"rd", "rs2">>)
  OBVIOUS
<1>2. insn = Insns.SNEZ
  BY <1>1, SnezForm
<1>3. insn.cls = R /\ insn.kwargs = kwargs /\ insn.xfrms = <<>>
  BY <1>1, InsnParts
<1>4. ToSet(R.layout) = layout /\ R.ranges = RRanges /\ R.defaults = defaults
  BY Formats, RIs
<1>5. DOMAIN defaults = {"opcode", "funct7"} /\ DOMAIN kwargs = {"funct3", "rs1"}
  OBVIOUS
<1>6. /\ defaults["opcode"] = 51
      /\ defaults["funct7"] = 0
      /\ kwargs["funct3"] = 3
      /\ kwargs["rs1"] = 0
  BY RegValues
<1> HIDE DEF kwargs, defaults
<1>7. PICK all : IsPlus(all, kwargs, given)
  BY PlusIs
<1>8. /\ DOMAIN all = DOMAIN kwargs \cup DOMAIN given
      /\ \A e \in DOMAIN given : all[e] = given[e]
      /\ \A e \in DOMAIN kwargs : e \notin DOMAIN given => all[e] = kwargs[e]
  BY <1>7 DEF IsPlus
<1>9. all = Applied(<<>>, all)
  BY AppliedOf
<1>10. PICK args : IsPlus(args, defaults, all)
  BY PlusIs
<1>11. /\ DOMAIN args = DOMAIN defaults \cup DOMAIN all
       /\ \A e \in DOMAIN all : args[e] = all[e]
       /\ \A e \in DOMAIN defaults : e \notin DOMAIN all => args[e] = defaults[e]
  BY <1>10 DEF IsPlus
<1>12. /\ "funct3" \in DOMAIN all /\ all["funct3"] = 3
       /\ "rs1" \in DOMAIN all /\ all["rs1"] = 0
       /\ "rd" \in DOMAIN all /\ all["rd"] = given["rd"]
       /\ "rs2" \in DOMAIN all /\ all["rs2"] = given["rs2"]
  BY <1>5, <1>6, <1>8
<1>13. /\ DOMAIN args = layout /\ DOMAIN all \subseteq layout
       /\ DOMAIN all \cap DOMAIN given \cap (DOMAIN defaults \cup DOMAIN kwargs) = {}
  BY <1>5, <1>8, <1>11, <1>12
<1>14. args["opcode"] = 51
  BY <1>5, <1>6, <1>12, <1>11, <1>8
<1>15. args["rd"] = given["rd"]
  BY <1>5, <1>6, <1>12, <1>11
<1>16. args["funct3"] = 3
  BY <1>5, <1>6, <1>12, <1>11
<1>17. args["rs1"] = 0
  BY <1>5, <1>6, <1>12, <1>11
<1>18. args["rs2"] = given["rs2"]
  BY <1>5, <1>6, <1>12, <1>11
<1>19. args["funct7"] = 0
  BY <1>5, <1>6, <1>12, <1>11, <1>8
<1>20. args = [e \in layout |-> args[e]]
  BY <1>10, <1>13 DEF IsPlus
<1>21. args = [opcode |-> 51, rd |-> given["rd"], funct3 |-> 3, rs1 |-> 0, rs2 |-> given["rs2"],
               funct7 |-> 0]
  BY <1>14, <1>15, <1>16, <1>17, <1>18, <1>19, <1>20
<1>22. MakesWord(Made(args, RRanges), layout, RRanges, defaults, kwargs, given, all)
  BY <1>10, <1>13 DEF MakesWord
<1>23. MakesWord(Made(args, RRanges), ToSet(insn.cls.layout), insn.cls.ranges,
                  insn.cls.defaults, insn.kwargs, given, all)
  BY <1>3, <1>4, <1>22
<1>24. value(insn, given) = Made(args, RRanges)
  BY Zenon, <1>3, <1>7, <1>9, <1>23, ValueOf
<1> QED BY <1>2, <1>24, <1>21 DEF RWord

LEMMA RetValue ==
  ASSUME NEW given, DOMAIN given = {}
  PROVE  value(Insns.RET, given) =
           IWord(103, 0, 0, 1, 0)
<1> DEFINE kwargs == [opcode |-> 103, funct3 |-> 0, rd |-> Reg("zero"), rs1 |-> Reg("ra"),
      imm |-> 0]
           defaults == [opcode |-> 19]
           layout == {"opcode", "rd", "funct3", "rs1", "imm"}
<1>1. PICK insn : insn = Insn(I, kwargs, <<>>, <<>>)
  OBVIOUS
<1>2. insn = Insns.RET
  BY <1>1, RetForm
<1>3. insn.cls = I /\ insn.kwargs = kwargs /\ insn.xfrms = <<>>
  BY <1>1, InsnParts
<1>4. ToSet(I.layout) = layout /\ I.ranges = IRanges /\ I.defaults = defaults
  BY Formats, IIs
<1>5. DOMAIN defaults = {"opcode"} /\ DOMAIN kwargs = {"opcode", "funct3", "rd", "rs1", "imm"}
  OBVIOUS
<1>6. /\ defaults["opcode"] = 19
      /\ kwargs["opcode"] = 103
      /\ kwargs["funct3"] = 0
      /\ kwargs["rd"] = 0
      /\ kwargs["rs1"] = 1
      /\ kwargs["imm"] = 0
  BY RegValues
<1> HIDE DEF kwargs, defaults
<1>7. PICK all : IsPlus(all, kwargs, given)
  BY PlusIs
<1>8. /\ DOMAIN all = DOMAIN kwargs \cup DOMAIN given
      /\ \A e \in DOMAIN given : all[e] = given[e]
      /\ \A e \in DOMAIN kwargs : e \notin DOMAIN given => all[e] = kwargs[e]
  BY <1>7 DEF IsPlus
<1>9. all = Applied(<<>>, all)
  BY AppliedOf
<1>10. PICK args : IsPlus(args, defaults, all)
  BY PlusIs
<1>11. /\ DOMAIN args = DOMAIN defaults \cup DOMAIN all
       /\ \A e \in DOMAIN all : args[e] = all[e]
       /\ \A e \in DOMAIN defaults : e \notin DOMAIN all => args[e] = defaults[e]
  BY <1>10 DEF IsPlus
<1>12. /\ "opcode" \in DOMAIN all /\ all["opcode"] = 103
       /\ "funct3" \in DOMAIN all /\ all["funct3"] = 0
       /\ "rd" \in DOMAIN all /\ all["rd"] = 0
       /\ "rs1" \in DOMAIN all /\ all["rs1"] = 1
       /\ "imm" \in DOMAIN all /\ all["imm"] = 0
  BY <1>5, <1>6, <1>8
<1>13. /\ DOMAIN args = layout /\ DOMAIN all \subseteq layout
       /\ DOMAIN all \cap DOMAIN given \cap (DOMAIN defaults \cup DOMAIN kwargs) = {}
  BY <1>5, <1>8, <1>11, <1>12
<1>14. args["opcode"] = 103
  BY <1>5, <1>6, <1>12, <1>11
<1>15. args["rd"] = 0
  BY <1>5, <1>6, <1>12, <1>11
<1>16. args["funct3"] = 0
  BY <1>5, <1>6, <1>12, <1>11
<1>17. args["rs1"] = 1
  BY <1>5, <1>6, <1>12, <1>11
<1>18. args["imm"] = 0
  BY <1>5, <1>6, <1>12, <1>11
<1>19. args = [e \in layout |-> args[e]]
  BY <1>10, <1>13 DEF IsPlus
<1>20. args = [opcode |-> 103, rd |-> 0, funct3 |-> 0, rs1 |-> 1, imm |-> 0]
  BY <1>14, <1>15, <1>16, <1>17, <1>18, <1>19
<1>21. MakesWord(Made(args, IRanges), layout, IRanges, defaults, kwargs, given, all)
  BY <1>10, <1>13 DEF MakesWord
<1>22. MakesWord(Made(args, IRanges), ToSet(insn.cls.layout), insn.cls.ranges,
                  insn.cls.defaults, insn.kwargs, given, all)
  BY <1>3, <1>4, <1>21
<1>23. value(insn, given) = Made(args, IRanges)
  BY Zenon, <1>3, <1>7, <1>9, <1>22, ValueOf
<1> QED BY <1>2, <1>23, <1>20 DEF IWord

LEMMA MvValue ==
  ASSUME NEW given, DOMAIN given = {"rd", "rs1"}
  PROVE  value(Insns.MV, given) =
           IWord(19, given["rd"], 0, given["rs1"], 0)
<1> DEFINE kwargs == [funct3 |-> 0, imm |-> 0]
           defaults == [opcode |-> 19]
           layout == {"opcode", "rd", "funct3", "rs1", "imm"}
<1>1. PICK insn : insn = Insn(I, kwargs, <<>>, <<"rd", "rs1">>)
  OBVIOUS
<1>2. insn = Insns.MV
  BY <1>1, MvForm
<1>3. insn.cls = I /\ insn.kwargs = kwargs /\ insn.xfrms = <<>>
  BY <1>1, InsnParts
<1>4. ToSet(I.layout) = layout /\ I.ranges = IRanges /\ I.defaults = defaults
  BY Formats, IIs
<1>5. DOMAIN defaults = {"opcode"} /\ DOMAIN kwargs = {"funct3", "imm"}
  OBVIOUS
<1>6. /\ defaults["opcode"] = 19
      /\ kwargs["funct3"] = 0
      /\ kwargs["imm"] = 0
  OBVIOUS
<1> HIDE DEF kwargs, defaults
<1>7. PICK all : IsPlus(all, kwargs, given)
  BY PlusIs
<1>8. /\ DOMAIN all = DOMAIN kwargs \cup DOMAIN given
      /\ \A e \in DOMAIN given : all[e] = given[e]
      /\ \A e \in DOMAIN kwargs : e \notin DOMAIN given => all[e] = kwargs[e]
  BY <1>7 DEF IsPlus
<1>9. all = Applied(<<>>, all)
  BY AppliedOf
<1>10. PICK args : IsPlus(args, defaults, all)
  BY PlusIs
<1>11. /\ DOMAIN args = DOMAIN defaults \cup DOMAIN all
       /\ \A e \in DOMAIN all : args[e] = all[e]
       /\ \A e \in DOMAIN defaults : e \notin DOMAIN all => args[e] = defaults[e]
  BY <1>10 DEF IsPlus
<1>12. /\ "funct3" \in DOMAIN all /\ all["funct3"] = 0
       /\ "imm" \in DOMAIN all /\ all["imm"] = 0
       /\ "rd" \in DOMAIN all /\ all["rd"] = given["rd"]
       /\ "rs1" \in DOMAIN all /\ all["rs1"] = given["rs1"]
  BY <1>5, <1>6, <1>8
<1>13. /\ DOMAIN args = layout /\ DOMAIN all \subseteq layout
       /\ DOMAIN all \cap DOMAIN given \cap (DOMAIN defaults \cup DOMAIN kwargs) = {}
  BY <1>5, <1>8, <1>11, <1>12
<1>14. args["opcode"] = 19
  BY <1>5, <1>6, <1>12, <1>11, <1>8
<1>15. args["rd"] = given["rd"]
  BY <1>5, <1>6, <1>12, <1>11
<1>16. args["funct3"] = 0
  BY <1>5, <1>6, <1>12, <1>11
<1>17. args["rs1"] = given["rs1"]
  BY <1>5, <1>6, <1>12, <1>11
<1>18. args["imm"] = 0
  BY <1>5, <1>6, <1>12, <1>11
<1>19. args = [e \in layout |-> args[e]]
  BY <1>10, <1>13 DEF IsPlus
<1>20. args = [opcode |-> 19, rd |-> given["rd"], funct3 |-> 0, rs1 |-> given["rs1"], imm |-> 0]
  BY <1>14, <1>15, <1>16, <1>17, <1>18, <1>19
<1>21. MakesWord(Made(args, IRanges), layout, IRanges, defaults, kwargs, given, all)
  BY <1>10, <1>13 DEF MakesWord
<1>22. MakesWord(Made(args, IRanges), ToSet(insn.cls.layout), insn.cls.ranges,
                  insn.cls.defaults, insn.kwargs, given, all)
  BY <1>3, <1>4, <1>21
<1>23. value(insn, given) = Made(args, IRanges)
  BY Zenon, <1>3, <1>7, <1>9, <1>22, ValueOf
<1> QED BY <1>2, <1>23, <1>20 DEF IWord

LEMMA SeqzValue ==
  ASSUME NEW given, DOMAIN given = {"rd", "rs1"}
  PROVE  value(Insns.SEQZ, given) =
           IWord(19, given["rd"], 3, given["rs1"], 1)
<1> DEFINE kwargs == [funct3 |-> 3, imm |-> 1]
           defaults == [opcode |-> 19]
           layout == {"opcode", "rd", "funct3", "rs1", "imm"}
<1>1. PICK insn : insn = Insn(I, kwargs, <<>>, <<"rd", "rs1">>)
  OBVIOUS
<1>2. insn = Insns.SEQZ
  BY <1>1, SeqzForm
<1>3. insn.cls = I /\ insn.kwargs = kwargs /\ insn.xfrms = <<>>
  BY <1>1, InsnParts
<1>4. ToSet(I.layout) = layout /\ I.ranges = IRanges /\ I.defaults = defaults
  BY Formats, IIs
<1>5. DOMAIN defaults = {"opcode"} /\ DOMAIN kwargs = {"funct3", "imm"}
  OBVIOUS
<1>6. /\ defaults["opcode"] = 19
      /\ kwargs["funct3"] = 3
      /\ kwargs["imm"] = 1
  OBVIOUS
<1> HIDE DEF kwargs, defaults
<1>7. PICK all : IsPlus(all, kwargs, given)
  BY PlusIs
<1>8. /\ DOMAIN all = DOMAIN kwargs \cup DOMAIN given
      /\ \A e \in DOMAIN given : all[e] = given[e]
      /\ \A e \in DOMAIN kwargs : e \notin DOMAIN given => all[e] = kwargs[e]
  BY <1>7 DEF IsPlus
<1>9. all = Applied(<<>>, all)
  BY AppliedOf
<1>10. PICK args : IsPlus(args, defaults, all)
  BY PlusIs
<1>11. /\ DOMAIN args = DOMAIN defaults \cup DOMAIN all
       /\ \A e \in DOMAIN all : args[e] = all[e]
       /\ \A e \in DOMAIN defaults : e \notin DOMAIN all => args[e] = defaults[e]
  BY <1>10 DEF IsPlus
<1>12. /\ "funct3" \in DOMAIN all /\ all["funct3"] = 3
       /\ "imm" \in DOMAIN all /\ all["imm"] = 1
       /\ "rd" \in DOMAIN all /\ all["rd"] = given["rd"]
       /\ "rs1" \in DOMAIN all /\ all["rs1"] = given["rs1"]
  BY <1>5, <1>6, <1>8
<1>13. /\ DOMAIN args = layout /\ DOMAIN all \subseteq layout
       /\ DOMAIN all \cap DOMAIN given \cap (DOMAIN defaults \cup DOMAIN kwargs) = {}
  BY <1>5, <1>8, <1>11, <1>12
<1>14. args["opcode"] = 19
  BY <1>5, <1>6, <1>12, <1>11, <1>8
<1>15. args["rd"] = given["rd"]
  BY <1>5, <1>6, <1>12, <1>11
<1>16. args["funct3"] = 3
  BY <1>5, <1>6, <1>12, <1>11
<1>17. args["rs1"] = given["rs1"]
  BY <1>5, <1>6, <1>12, <1>11
<1>18. args["imm"] = 1
  BY <1>5, <1>6, <1>12, <1>11
<1>19. args = [e \in layout |-> args[e]]
  BY <1>10, <1>13 DEF IsPlus
<1>20. args = [opcode |-> 19, rd |-> given["rd"], funct3 |-> 3, rs1 |-> given["rs1"], imm |-> 1]
  BY <1>14, <1>15, <1>16, <1>17, <1>18, <1>19
<1>21. MakesWord(Made(args, IRanges), layout, IRanges, defaults, kwargs, given, all)
  BY <1>10, <1>13 DEF MakesWord
<1>22. MakesWord(Made(args, IRanges), ToSet(insn.cls.layout), insn.cls.ranges,
                  insn.cls.defaults, insn.kwargs, given, all)
  BY <1>3, <1>4, <1>21
<1>23. value(insn, given) = Made(args, IRanges)
  BY Zenon, <1>3, <1>7, <1>9, <1>22, ValueOf
<1> QED BY <1>2, <1>23, <1>20 DEF IWord

LEMMA NotValue ==
  ASSUME NEW given, DOMAIN given = {"rd", "rs1"}
  PROVE  value(Insns.NOT, given) =
           IWord(19, given["rd"], 4, given["rs1"], -1)
<1> DEFINE kwargs == [funct3 |-> 4, imm |-> -1]
           defaults == [opcode |-> 19]
           layout == {"opcode", "rd", "funct3", "rs1", "imm"}
<1>1. PICK insn : insn = Insn(I, kwargs, <<>>, <<"rd", "rs1">>)
  OBVIOUS
<1>2. insn = Insns.NOT
  BY <1>1, NotForm
<1>3. insn.cls = I /\ insn.kwargs = kwargs /\ insn.xfrms = <<>>
  BY <1>1, InsnParts
<1>4. ToSet(I.layout) = layout /\ I.ranges = IRanges /\ I.defaults = defaults
  BY Formats, IIs
<1>5. DOMAIN defaults = {"opcode"} /\ DOMAIN kwargs = {"funct3", "imm"}
  OBVIOUS
<1>6. /\ defaults["opcode"] = 19
      /\ kwargs["funct3"] = 4
      /\ kwargs["imm"] = -1
  OBVIOUS
<1> HIDE DEF kwargs, defaults
<1>7. PICK all : IsPlus(all, kwargs, given)
  BY PlusIs
<1>8. /\ DOMAIN all = DOMAIN kwargs \cup DOMAIN given
      /\ \A e \in DOMAIN given : all[e] = given[e]
      /\ \A e \in DOMAIN kwargs : e \notin DOMAIN given => all[e] = kwargs[e]
  BY <1>7 DEF IsPlus
<1>9. all = Applied(<<>>, all)
  BY AppliedOf
<1>10. PICK args : IsPlus(args, defaults, all)
  BY PlusIs
<1>11. /\ DOMAIN args = DOMAIN defaults \cup DOMAIN all
       /\ \A e \in DOMAIN all : args[e] = all[e]
       /\ \A e \in DOMAIN defaults : e \notin DOMAIN all => args[e] = defaults[e]
  BY <1>10 DEF IsPlus
<1>12. /\ "funct3" \in DOMAIN all /\ all["funct3"] = 4
       /\ "imm" \in DOMAIN all /\ all["imm"] = -1
       /\ "rd" \in DOMAIN all /\ all["rd"] = given["rd"]
       /\ "rs1" \in DOMAIN all /\ all["rs1"] = given["rs1"]
  BY <1>5, <1>6, <1>8
<1>13. /\ DOMAIN args = layout /\ DOMAIN all \subseteq layout
       /\ DOMAIN all \cap DOMAIN given \cap (DOMAIN defaults \cup DOMAIN kwargs) = {}
  BY <1>5, <1>8, <1>11, <1>12
<1>14. args["opcode"] = 19
  BY <1>5, <1>6, <1>12, <1>11, <1>8
<1>15. args["rd"] = given["rd"]
  BY <1>5, <1>6, <1>12, <1>11
<1>16. args["funct3"] = 4
  BY <1>5, <1>6, <1>12, <1>11
<1>17. args["rs1"] = given["rs1"]
  BY <1>5, <1>6, <1>12, <1>11
<1>18. args["imm"] = -1
  BY <1>5, <1>6, <1>12, <1>11
<1>19. args = [e \in layout |-> args[e]]
  BY <1>10, <1>13 DEF IsPlus
<1>20. args = [opcode |-> 19, rd |-> given["rd"], funct3 |-> 4, rs1 |-> given["rs1"], imm |-> -1]
  BY <1>14, <1>15, <1>16, <1>17, <1>18, <1>19
<1>21. MakesWord(Made(args, IRanges), layout, IRanges, defaults, kwargs, given, all)
  BY <1>10, <1>13 DEF MakesWord
<1>22. MakesWord(Made(args, IRanges), ToSet(insn.cls.layout), insn.cls.ranges,
                  insn.cls.defaults, insn.kwargs, given, all)
  BY <1>3, <1>4, <1>21
<1>23. value(insn, given) = Made(args, IRanges)
  BY Zenon, <1>3, <1>7, <1>9, <1>22, ValueOf
<1> QED BY <1>2, <1>23, <1>20 DEF IWord

LEMMA NopValue ==
  ASSUME NEW given, DOMAIN given = {}
  PROVE  value(Insns.NOP, given) =
           IWord(19, 0, 0, 0, 0)
<1> DEFINE kwargs == [funct3 |-> 0, rd |-> Reg("zero"), rs1 |-> Reg("zero"), imm |-> 0]
           defaults == [opcode |-> 19]
           layout == {"opcode", "rd", "funct3", "rs1", "imm"}
<1>1. PICK insn : insn = Insn(I, kwargs, <<>>, <<>>)
  OBVIOUS
<1>2. insn = Insns.NOP
  BY <1>1, NopForm
<1>3. insn.cls = I /\ insn.kwargs = kwargs /\ insn.xfrms = <<>>
  BY <1>1, InsnParts
<1>4. ToSet(I.layout) = layout /\ I.ranges = IRanges /\ I.defaults = defaults
  BY Formats, IIs
<1>5. DOMAIN defaults = {"opcode"} /\ DOMAIN kwargs = {"funct3", "rd", "rs1", "imm"}
  OBVIOUS
<1>6. /\ defaults["opcode"] = 19
      /\ kwargs["funct3"] = 0
      /\ kwargs["rd"] = 0
      /\ kwargs["rs1"] = 0
      /\ kwargs["imm"] = 0
  BY RegValues
<1> HIDE DEF kwargs, defaults
<1>7. PICK all : IsPlus(all, kwargs, given)
  BY PlusIs
<1>8. /\ DOMAIN all = DOMAIN kwargs \cup DOMAIN given
      /\ \A e \in DOMAIN given : all[e] = given[e]
      /\ \A e \in DOMAIN kwargs : e \notin DOMAIN given => all[e] = kwargs[e]
  BY <1>7 DEF IsPlus
<1>9. all = Applied(<<>>, all)
  BY AppliedOf
<1>10. PICK args : IsPlus(args, defaults, all)
  BY PlusIs
<1>11. /\ DOMAIN args = DOMAIN defaults \cup DOMAIN all
       /\ \A e \in DOMAIN all : args[e] = all[e]
       /\ \A e \in DOMAIN defaults : e \notin DOMAIN all => args[e] = defaults[e]
  BY <1>10 DEF IsPlus
<1>12. /\ "funct3" \in DOMAIN all /\ all["funct3"] = 0
       /\ "rd" \in DOMAIN all /\ all["rd"] = 0
       /\ "rs1" \in DOMAIN all /\ all["rs1"] = 0
       /\ "imm" \in DOMAIN all /\ all["imm"] = 0
  BY <1>5, <1>6, <1>8
<1>13. /\ DOMAIN args = layout /\ DOMAIN all \subseteq layout
       /\ DOMAIN all \cap DOMAIN given \cap (DOMAIN defaults \cup DOMAIN kwargs) = {}
  BY <1>5, <1>8, <1>11, <1>12
<1>14. args["opcode"] = 19
  BY <1>5, <1>6, <1>12, <1>11, <1>8
<1>15. args["rd"] = 0
  BY <1>5, <1>6, <1>12, <1>11
<1>16. args["funct3"] = 0
  BY <1>5, <1>6, <1>12, <1>11
<1>17. args["rs1"] = 0
  BY <1>5, <1>6, <1>12, <1>11
<1>18. args["imm"] = 0
  BY <1>5, <1>6, <1>12, <1>11
<1>19. args = [e \in layout |-> args[e]]
  BY <1>10, <1>13 DEF IsPlus
<1>20. args = [opcode |-> 19, rd |-> 0, funct3 |-> 0, rs1 |-> 0, imm |-> 0]
  BY <1>14, <1>15, <1>16, <1>17, <1>18, <1>19
<1>21. MakesWord(Made(args, IRanges), layout, IRanges, defaults, kwargs, given, all)
  BY <1>10, <1>13 DEF MakesWord
<1>22. MakesWord(Made(args, IRanges), ToSet(insn.cls.layout), insn.cls.ranges,
                  insn.cls.defaults, insn.kwargs, given, all)
  BY <1>3, <1>4, <1>21
<1>23. value(insn, given) = Made(args, IRanges)
  BY Zenon, <1>3, <1>7, <1>9, <1>22, ValueOf
<1> QED BY <1>2, <1>23, <1>20 DEF IWord

LEMMA JValue ==
  ASSUME NEW given, DOMAIN given = {"imm"}
  PROVE  value(Insns.J_, given) =
           JWord(111, 0, (given["imm"] \div 4096) % 256, (given["imm"] \div 2048) % 2,
                 (given["imm"] \div 2) % 1024, (given["imm"] \div 1048576) % 2)
<1> DEFINE kwargs == [rd |-> Reg("zero")]
           defaults == [opcode |-> 111]
           layout == {"opcode", "rd", "imm19_12", "imm11", "imm10_1", "imm20"}
<1>1. PICK insn : insn = Insn(J, kwargs, <<ImmXfrm(J)>>, <<"imm">>)
  OBVIOUS
<1>2. insn = Insns.J_
  BY <1>1, JForm
<1>3. insn.cls = J /\ insn.kwargs = kwargs /\ insn.xfrms = <<ImmXfrm(J)>>
  BY <1>1, InsnParts
<1>4. ToSet(J.layout) = layout /\ J.ranges = JRanges /\ J.defaults = defaults
  BY Formats, JIs
<1>5. DOMAIN defaults = {"opcode"} /\ DOMAIN kwargs = {"rd"}
  OBVIOUS
<1>6. /\ defaults["opcode"] = 111
      /\ kwargs["rd"] = 0
  BY RegValues
<1> HIDE DEF kwargs, defaults
<1>7. PICK all : IsPlus(all, kwargs, given)
  BY PlusIs
<1>8. /\ DOMAIN all = DOMAIN kwargs \cup DOMAIN given
      /\ \A e \in DOMAIN given : all[e] = given[e]
      /\ \A e \in DOMAIN kwargs : e \notin DOMAIN given => all[e] = kwargs[e]
  BY <1>7 DEF IsPlus
<1>9. {"imm"} \subseteq DOMAIN all
  BY <1>5, <1>8
<1>10. PICK left1 : IsDrop(left1, all, {"imm"})
  BY DropIs
<1>11. /\ DOMAIN left1 = DOMAIN all \ {"imm"}
       /\ \A e \in DOMAIN all : e \notin {"imm"} => left1[e] = all[e]
  BY <1>10 DEF IsDrop
<1> DEFINE out1 == [imm19_12 |-> (all["imm"] \div 4096) % 256,
      imm11 |-> (all["imm"] \div 2048) % 2, imm10_1 |-> (all["imm"] \div 2) % 1024,
      imm20 |-> (all["imm"] \div 1048576) % 2]
<1>12. inputs_to_layout(ImmXfrm(J), all) = out1
  BY ImmJForth
<1>13. /\ DOMAIN out1 = {"imm19_12", "imm11", "imm10_1", "imm20"}
       /\ out1["imm19_12"] = (all["imm"] \div 4096) % 256
       /\ out1["imm11"] = (all["imm"] \div 2048) % 2
       /\ out1["imm10_1"] = (all["imm"] \div 2) % 1024
       /\ out1["imm20"] = (all["imm"] \div 1048576) % 2
  OBVIOUS
<1> HIDE DEF out1
<1>14. ToSet(ImmXfrm(J).inputs) = {"imm"}
  BY XfrmInputs
<1>15. PICK more1 : more1 = Forward(ImmXfrm(J), all) /\ IsPlus(more1, left1, out1)
  BY <1>9, <1>10, <1>12, <1>14, ForwardIs
<1>16. /\ DOMAIN more1 = DOMAIN left1 \cup DOMAIN out1
       /\ \A e \in DOMAIN out1 : more1[e] = out1[e]
       /\ \A e \in DOMAIN left1 : e \notin DOMAIN out1 => more1[e] = left1[e]
  BY <1>15 DEF IsPlus
<1>17. more1 = Applied(<<ImmXfrm(J)>>, all)
  BY <1>15, AppliedOf
<1>18. PICK args : IsPlus(args, defaults, more1)
  BY PlusIs
<1>19. /\ DOMAIN args = DOMAIN defaults \cup DOMAIN more1
       /\ \A e \in DOMAIN more1 : args[e] = more1[e]
       /\ \A e \in DOMAIN defaults : e \notin DOMAIN more1 => args[e] = defaults[e]
  BY <1>18 DEF IsPlus
<1>20. /\ "rd" \in DOMAIN all /\ all["rd"] = 0
       /\ "imm" \in DOMAIN all /\ all["imm"] = given["imm"]
  BY <1>5, <1>6, <1>8
<1>21. /\ "rd" \in DOMAIN more1 /\ more1["rd"] = 0
       /\ "imm19_12" \in DOMAIN more1 /\ more1["imm19_12"] = (given["imm"] \div 4096) % 256
       /\ "imm11" \in DOMAIN more1 /\ more1["imm11"] = (given["imm"] \div 2048) % 2
       /\ "imm10_1" \in DOMAIN more1 /\ more1["imm10_1"] = (given["imm"] \div 2) % 1024
       /\ "imm20" \in DOMAIN more1 /\ more1["imm20"] = (given["imm"] \div 1048576) % 2
  BY <1>11, <1>13, <1>16, <1>20
<1>22. /\ DOMAIN args = layout /\ DOMAIN more1 \subseteq layout
       /\ DOMAIN more1 \cap DOMAIN given \cap (DOMAIN defaults \cup DOMAIN kwargs) = {}
  BY <1>5, <1>8, <1>11, <1>13, <1>16, <1>19, <1>21
<1>23. args["opcode"] = 111
  BY <1>5, <1>6, <1>21, <1>19, <1>8, <1>11, <1>13, <1>16
<1>24. args["rd"] = 0
  BY <1>5, <1>6, <1>21, <1>19
<1>25. args["imm19_12"] = (given["imm"] \div 4096) % 256
  BY <1>5, <1>6, <1>21, <1>19
<1>26. args["imm11"] = (given["imm"] \div 2048) % 2
  BY <1>5, <1>6, <1>21, <1>19
<1>27. args["imm10_1"] = (given["imm"] \div 2) % 1024
  BY <1>5, <1>6, <1>21, <1>19
<1>28. args["imm20"] = (given["imm"] \div 1048576) % 2
  BY <1>5, <1>6, <1>21, <1>19
<1>29. args = [e \in layout |-> args[e]]
  BY <1>18, <1>22 DEF IsPlus
<1>30. args = [opcode |-> 111, rd |-> 0, imm19_12 |-> (given["imm"] \div 4096) % 256,
               imm11 |-> (given["imm"] \div 2048) % 2, imm10_1 |-> (given["imm"] \div 2) % 1024,
               imm20 |-> (given["imm"] \div 1048576) % 2]
  BY <1>23, <1>24, <1>25, <1>26, <1>27, <1>28, <1>29
<1>31. MakesWord(Made(args, JRanges), layout, JRanges, defaults, kwargs, given, more1)
  BY <1>18, <1>22 DEF MakesWord
<1>32. MakesWord(Made(args, JRanges), ToSet(insn.cls.layout), insn.cls.ranges,
                  insn.cls.defaults, insn.kwargs, given, more1)
  BY <1>3, <1>4, <1>31
<1>33. value(insn, given) = Made(args, JRanges)
  BY Zenon, <1>3, <1>7, <1>17, <1>32, ValueOf
<1> QED BY <1>2, <1>33, <1>30 DEF JWord

\* The arguments that match a store are not those it asks for, and make the word as well.
LEMMA StoreImmValue ==
  ASSUME NEW funct3, NEW given, DOMAIN given = {"rs2", "rs1", "imm"}
  PROVE  value(Store(funct3), given) =
           SWord(35, (given["imm"] \div 1) % 32, funct3, given["rs1"], given["rs2"],
                 (given["imm"] \div 32) % 128)
<1> DEFINE kwargs == [funct3 |-> funct3]
           defaults == [opcode |-> 35]
           layout == {"opcode", "imm4_0", "funct3", "rs1", "rs2", "imm11_5"}
<1>1. PICK insn : insn = Insn(S, kwargs, <<RS1OffXfrm, ImmXfrm(S)>>, <<"rs2", "rs1off">>)
  OBVIOUS
<1>2. insn = Store(funct3)
  BY <1>1, StoreForm
<1>3. insn.cls = S /\ insn.kwargs = kwargs /\ insn.xfrms = <<RS1OffXfrm, ImmXfrm(S)>>
  BY <1>1, InsnParts
<1>4. ToSet(S.layout) = layout /\ S.ranges = SRanges /\ S.defaults = defaults
  BY Formats, SIs
<1>5. DOMAIN defaults = {"opcode"} /\ DOMAIN kwargs = {"funct3"}
  OBVIOUS
<1>6. /\ defaults["opcode"] = 35
      /\ kwargs["funct3"] = funct3
  OBVIOUS
<1> HIDE DEF kwargs, defaults
<1>7. PICK all : IsPlus(all, kwargs, given)
  BY PlusIs
<1>8. /\ DOMAIN all = DOMAIN kwargs \cup DOMAIN given
      /\ \A e \in DOMAIN given : all[e] = given[e]
      /\ \A e \in DOMAIN kwargs : e \notin DOMAIN given => all[e] = kwargs[e]
  BY <1>7 DEF IsPlus
<1>9. ~({"rs1off"} \subseteq DOMAIN all)
  BY <1>5, <1>8
<1>10. Forward(RS1OffXfrm, all) = all
  BY <1>9, XfrmInputs, ForwardNot
<1>11. {"imm"} \subseteq DOMAIN all
  BY <1>5, <1>8
<1>12. PICK left2 : IsDrop(left2, all, {"imm"})
  BY DropIs
<1>13. /\ DOMAIN left2 = DOMAIN all \ {"imm"}
       /\ \A e \in DOMAIN all : e \notin {"imm"} => left2[e] = all[e]
  BY <1>12 DEF IsDrop
<1> DEFINE out2 == [imm4_0 |-> (all["imm"] \div 1) % 32, imm11_5 |-> (all["imm"] \div 32) % 128]
<1>14. inputs_to_layout(ImmXfrm(S), all) = out2
  BY ImmSForth
<1>15. /\ DOMAIN out2 = {"imm4_0", "imm11_5"}
       /\ out2["imm4_0"] = (all["imm"] \div 1) % 32
       /\ out2["imm11_5"] = (all["imm"] \div 32) % 128
  OBVIOUS
<1> HIDE DEF out2
<1>16. ToSet(ImmXfrm(S).inputs) = {"imm"}
  BY XfrmInputs
<1>17. PICK more2 : more2 = Forward(ImmXfrm(S), all) /\ IsPlus(more2, left2, out2)
  BY <1>11, <1>12, <1>14, <1>16, ForwardIs
<1>18. /\ DOMAIN more2 = DOMAIN left2 \cup DOMAIN out2
       /\ \A e \in DOMAIN out2 : more2[e] = out2[e]
       /\ \A e \in DOMAIN left2 : e \notin DOMAIN out2 => more2[e] = left2[e]
  BY <1>17 DEF IsPlus
<1>19. more2 = Applied(<<RS1OffXfrm, ImmXfrm(S)>>, all)
  BY <1>10, <1>17, AppliedOf
<1>20. PICK args : IsPlus(args, defaults, more2)
  BY PlusIs
<1>21. /\ DOMAIN args = DOMAIN defaults \cup DOMAIN more2
       /\ \A e \in DOMAIN more2 : args[e] = more2[e]
       /\ \A e \in DOMAIN defaults : e \notin DOMAIN more2 => args[e] = defaults[e]
  BY <1>20 DEF IsPlus
<1>22. /\ "funct3" \in DOMAIN all /\ all["funct3"] = funct3
       /\ "rs2" \in DOMAIN all /\ all["rs2"] = given["rs2"]
       /\ "rs1" \in DOMAIN all /\ all["rs1"] = given["rs1"]
       /\ "imm" \in DOMAIN all /\ all["imm"] = given["imm"]
  BY <1>5, <1>6, <1>8
<1>23. /\ "funct3" \in DOMAIN more2 /\ more2["funct3"] = funct3
       /\ "rs2" \in DOMAIN more2 /\ more2["rs2"] = given["rs2"]
       /\ "rs1" \in DOMAIN more2 /\ more2["rs1"] = given["rs1"]
       /\ "imm4_0" \in DOMAIN more2 /\ more2["imm4_0"] = (given["imm"] \div 1) % 32
       /\ "imm11_5" \in DOMAIN more2 /\ more2["imm11_5"] = (given["imm"] \div 32) % 128
  BY <1>13, <1>15, <1>18, <1>22
<1>24. /\ DOMAIN args = layout /\ DOMAIN more2 \subseteq layout
       /\ DOMAIN more2 \cap DOMAIN given \cap (DOMAIN defaults \cup DOMAIN kwargs) = {}
  BY <1>5, <1>8, <1>13, <1>15, <1>18, <1>21, <1>23
<1>25. args["opcode"] = 35
  BY <1>5, <1>6, <1>23, <1>21, <1>8, <1>13, <1>15, <1>18
<1>26. args["imm4_0"] = (given["imm"] \div 1) % 32
  BY <1>5, <1>6, <1>23, <1>21
<1>27. args["funct3"] = funct3
  BY <1>5, <1>6, <1>23, <1>21
<1>28. args["rs1"] = given["rs1"]
  BY <1>5, <1>6, <1>23, <1>21
<1>29. args["rs2"] = given["rs2"]
  BY <1>5, <1>6, <1>23, <1>21
<1>30. args["imm11_5"] = (given["imm"] \div 32) % 128
  BY <1>5, <1>6, <1>23, <1>21
<1>31. args = [e \in layout |-> args[e]]
  BY <1>20, <1>24 DEF IsPlus
<1>32. args = [opcode |-> 35, imm4_0 |-> (given["imm"] \div 1) % 32, funct3 |-> funct3,
               rs1 |-> given["rs1"], rs2 |-> given["rs2"],
               imm11_5 |-> (given["imm"] \div 32) % 128]
  BY <1>25, <1>26, <1>27, <1>28, <1>29, <1>30, <1>31
<1>33. MakesWord(Made(args, SRanges), layout, SRanges, defaults, kwargs, given, more2)
  BY <1>20, <1>24 DEF MakesWord
<1>34. MakesWord(Made(args, SRanges), ToSet(insn.cls.layout), insn.cls.ranges,
                  insn.cls.defaults, insn.kwargs, given, more2)
  BY <1>3, <1>4, <1>33
<1>35. value(insn, given) = Made(args, SRanges)
  BY Zenon, <1>3, <1>7, <1>19, <1>34, ValueOf
<1> QED BY <1>2, <1>35, <1>32 DEF SWord
=============================================================================
