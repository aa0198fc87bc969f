--------------------------- MODULE SlabLayoutProofs ---------------------------
(***************************************************************************)
(* The arithmetic of a slab resource, for any number of slabs, any width   *)
(* of the bitmaps and any slab size.                                       *)
(***************************************************************************)
EXTENDS SlabLayout, TLAPS

\* Quotient and remainder.
LEMMA DivMod ==
  ASSUME NEW a \in Nat, NEW b \in Nat \ {0}
  PROVE  /\ a \div b \in Nat
         /\ a % b \in 0 .. b - 1
         /\ a = (a \div b) * b + (a % b)
  OBVIOUS

\* A later block of b starts behind the whole of an earlier one.
LEMMA Monotone ==
  ASSUME NEW i \in Nat, NEW j \in Nat, NEW b \in Nat, i < j
  PROVE  i * b + b <= j * b
<1> DEFINE k == j - (i + 1)
<1>1. k \in Nat /\ j = (i + 1) + k
  OBVIOUS
<1>2. j * b = (i + 1) * b + k * b
  BY <1>1
<1>3. k * b >= 0
  BY <1>1
<1>4. (i + 1) * b = i * b + b
  OBVIOUS
<1> QED BY <1>2, <1>3, <1>4, <1>1

\* Quotient and remainder are unique.
LEMMA DivUnique ==
  ASSUME NEW b \in Nat \ {0}, NEW i \in Nat, NEW j \in Nat,
         NEW r \in 0 .. b - 1, NEW m \in 0 .. b - 1, i * b + r = j * b + m
  PROVE  i = j /\ r = m
<1>0. i * b \in Nat /\ j * b \in Nat
  OBVIOUS
<1>1. ~(i < j)
  <2>1. SUFFICES ASSUME i < j PROVE FALSE
    OBVIOUS
  <2>2. i * b + b <= j * b
    BY <2>1, Monotone
  <2> QED BY <2>2, <1>0
<1>2. ~(j < i)
  <2>1. SUFFICES ASSUME j < i PROVE FALSE
    OBVIOUS
  <2>2. j * b + b <= i * b
    BY <2>1, Monotone
  <2> QED BY <2>2, <1>0
<1> QED BY <1>1, <1>2, <1>0

\* The constructor leaves slabs for the program and slabs for the bitmaps, the
\* bits in the latter are enough for the former, and with at least two bits in a
\* bitmap the header is no larger than the user region.
LEMMA DivisionOfSlabs ==
  ASSUME NEW total \in Nat \ {0, 1}, NEW bits \in Nat \ {0}, NEW per \in Nat \ {0}
  PROVE  /\ UserSlabs(total, bits, per) \in Nat \ {0}
         /\ BitmapSlabs(total, bits, per) \in Nat \ {0}
         /\ UserSlabs(total, bits, per) <= BitmapSlabs(total, bits, per) * (bits * per)
         /\ bits >= 2 => BitmapSlabs(total, bits, per) <= UserSlabs(total, bits, per)
<1> DEFINE k == bits * per
           k1 == k + 1
           n == total * bits * per
           u == n \div k1
           r == n % k1
           d == total - u
<1>1. k \in Nat \ {0} /\ (bits >= 2 => k >= 2)
  <2>1. PICK p \in Nat : per = p + 1
    <3>1. per - 1 \in Nat /\ per = (per - 1) + 1
      OBVIOUS
    <3> QED BY <3>1
  <2>2. k = bits * p + bits /\ bits * p \in Nat
    BY <2>1
  <2> QED BY <2>2
<1>2. n = total * k /\ n \in Nat
  OBVIOUS
<1>3. k1 \in Nat \ {0}
  BY <1>1
<1> HIDE DEF n, k
<1>4. u \in Nat /\ r \in 0 .. k1 - 1 /\ n = u * k1 + r
  BY <1>2, <1>3, DivMod
<1> HIDE DEF u, r
<1>5. u * k1 = u * k + u /\ u * k \in Nat
  BY <1>1, <1>4
<1>6. d * k = u + r
  <2>1. d * k = total * k - u * k
    BY <1>1, <1>4
  <2> QED BY <2>1, <1>1, <1>2, <1>4, <1>5
<1>7. r \in Nat /\ r <= k
  BY <1>1, <1>3, <1>4
<1>8. d \in Int
  BY <1>4
<1>9. u \in Nat \ {0}
  <2> SUFFICES ASSUME u = 0 PROVE FALSE
    BY <1>4
  <2>1. d = total /\ total * k = r
    BY <1>6, <1>7
  <2>2. 1 * k + k <= total * k
    BY <1>1, Monotone
  <2> QED BY <2>1, <2>2, <1>1, <1>7
<1> HIDE DEF d
<1>10. d \in Nat \ {0}
  <2> SUFFICES ASSUME d <= 0 PROVE FALSE
    BY <1>8
  <2>1. PICK e \in Nat : d = 0 - e
    <3>1. 0 - d \in Nat /\ d = 0 - (0 - d)
      BY <1>8
    <3> QED BY <3>1
  <2>2. d * k = 0 - e * k /\ e * k \in Nat
    BY <2>1, <1>1
  <2> QED BY <2>2, <1>6, <1>7, <1>9
<1>11. u <= d * k
  <2>1. d * k \in Nat
    BY <1>1, <1>10
  <2> QED BY <2>1, <1>6, <1>7, <1>9
<1>12. ASSUME bits >= 2 PROVE d <= u
  <2>1. CASE d = 1
    BY <2>1, <1>9
  <2>2. CASE d # 1
    <3>1. PICK e \in Nat \ {0} : d = e + 1
      <4>1. d - 1 \in Nat \ {0} /\ d = (d - 1) + 1
        BY <2>2, <1>10
      <4> QED BY <4>1
    <3>2. d * k = e * k + k /\ e * k \in Nat
      BY <3>1, <1>1
    <3>3. e * k <= u
      BY <3>2, <1>1, <1>6, <1>7, <1>9
    <3>4. e * k >= 2 * e
      <4>1. PICK f \in Nat : k = f + 2
        <5>1. k - 2 \in Nat /\ k = (k - 2) + 2
          BY <1>1, <1>12
        <5> QED BY <5>1
      <4>2. e * k = e * f + 2 * e /\ e * f \in Nat
        BY <4>1, <3>1
      <4> QED BY <4>2, <3>1
    <3> QED BY <3>1, <3>2, <3>3, <3>4, <1>9
  <2> QED BY <2>1, <2>2
<1>13. UserSlabs(total, bits, per) = u /\ BitmapSlabs(total, bits, per) = d
  BY DEF UserSlabs, BitmapSlabs, d, u, n, k
<1> QED BY <1>9, <1>10, <1>11, <1>12, <1>13 DEF k

\* The bitmaps have a bit for every user slab, none of them is without one,
\* and all of them have room in the header.
LEMMA BitmapsFit ==
  ASSUME NEW total \in Nat \ {0, 1}, NEW bits \in Nat \ {0}, NEW per \in Nat \ {0}
  PROVE  /\ Bitmaps(total, bits, per) \in Nat \ {0}
         /\ UserSlabs(total, bits, per) <= Bitmaps(total, bits, per) * bits
         /\ Bitmaps(total, bits, per) <= BitmapSlabs(total, bits, per) * per
<1> DEFINE u == UserSlabs(total, bits, per)
           d == BitmapSlabs(total, bits, per)
           v == u + bits - 1
           n == v \div bits
           r == v % bits
           dp == d * per
<1>1. u \in Nat \ {0} /\ d \in Nat \ {0} /\ u <= d * (bits * per)
  BY DivisionOfSlabs
<1>2. Bitmaps(total, bits, per) = n
  BY DEF Bitmaps, nextMultipleOf
<1> HIDE DEF u, d
<1>3. v \in Nat /\ v >= bits
  BY <1>1
<1> HIDE DEF v
<1>4. n \in Nat /\ r \in 0 .. bits - 1 /\ v = n * bits + r
  BY <1>3, DivMod
<1> HIDE DEF n, r
<1>5. n # 0
  BY <1>3, <1>4
<1>6. n * bits \in Nat
  BY <1>4
<1>7. u <= n * bits
  BY <1>1, <1>4, <1>6 DEF v
<1>8. dp \in Nat /\ d * (bits * per) = dp * bits /\ dp * bits \in Nat
  BY <1>1
<1> HIDE DEF dp
<1>9. ~(dp < n)
  <2> SUFFICES ASSUME dp < n PROVE FALSE
    OBVIOUS
  <2>1. dp * bits + bits <= n * bits
    BY <1>4, <1>8, Monotone
  <2> QED BY <2>1, <1>1, <1>4, <1>6, <1>8 DEF v
<1>10. n <= dp
  BY <1>4, <1>8, <1>9
<1> QED BY <1>2, <1>4, <1>5, <1>7, <1>10 DEF u, dp, d
=============================================================================
