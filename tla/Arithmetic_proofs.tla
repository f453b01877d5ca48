---------------------------- MODULE Arithmetic_proofs -------------------------
(* What Total promises for every n and every f: the facts the accounting       *)
(* proofs cite.  Total is a recursive function, so its values come from a      *)
(* CHOOSE; the first three lemmas show that the chosen function is the         *)
(* sequence of partial sums, by looking at the least index where it could not  *)
(* be (the library's induction rule takes an operator and is not used).        *)
EXTENDS Arithmetic, WellFoundedInduction, TLAPS

(* A set of naturals that is not empty has a least element. *)
LEMMA LeastNat ==
    ASSUME NEW T \in SUBSET Nat, T # {}
    PROVE  \E m \in T : \A k \in T : m <= k
<1>1. \E x \in T : \A y \in T : ~ (<<y, x>> \in OpToRel(<, Nat))
  BY NatLessThanWellFounded, WFMin
<1>2. PICK x \in T : \A y \in T : ~ (<<y, x>> \in OpToRel(<, Nat))
  BY <1>1
<1>3. \A y \in T : ~ (y < x)
  BY <1>2 DEF OpToRel
<1>. QED
  BY <1>3

(* g is the sequence of partial sums of f over 1 .. n *)
IsPartialSums(g, f, n) ==
    /\ g \in [0 .. n -> Nat]
    /\ g[0] = 0
    /\ \A i \in 1 .. n : g[i] = g[i - 1] + f[i]

(* One more term extends a sequence of partial sums. *)
LEMMA PartialSumsExtend ==
    ASSUME NEW n \in Nat, NEW f \in [1 .. n -> Nat], NEW m \in 1 .. n,
           NEW g, IsPartialSums(g, f, m - 1)
    PROVE  \E h : IsPartialSums(h, f, m)
<1>. DEFINE h == [i \in 0 .. m |-> IF i = m THEN g[m - 1] + f[m] ELSE g[i]]
<1>1. /\ g \in [0 .. (m - 1) -> Nat]
      /\ g[0] = 0
      /\ \A i \in 1 .. (m - 1) : g[i] = g[i - 1] + f[i]
  BY DEF IsPartialSums
<1>2. f[m] \in Nat /\ g[m - 1] \in Nat
  BY <1>1
<1>3. h \in [0 .. m -> Nat]
  <2>1. \A i \in 0 .. m : i # m => i \in 0 .. (m - 1)
    OBVIOUS
  <2>. QED BY <1>1, <1>2, <2>1
<1>4. h[0] = 0
  BY <1>1
<1>5. ASSUME NEW i \in 1 .. m PROVE h[i] = h[i - 1] + f[i]
  <2>1. i - 1 \in 0 .. m /\ i - 1 # m /\ i \in 0 .. m
    OBVIOUS
  <2>2. h[i - 1] = g[i - 1]
    BY <2>1
  <2>3. CASE i = m
    BY <2>1, <2>2, <2>3
  <2>4. CASE i # m
    <3>1. i \in 1 .. (m - 1)
      BY <2>4
    <3>. QED BY <1>1, <2>1, <2>2, <2>4, <3>1
  <2>. QED BY <2>3, <2>4
<1>6. IsPartialSums(h, f, m)
  <2>. HIDE DEF h
  <2>. QED BY <1>3, <1>4, <1>5 DEF IsPartialSums
<1>. QED BY <1>6

LEMMA PartialSumsExist ==
    ASSUME NEW n \in Nat, NEW f \in [1 .. n -> Nat]
    PROVE  \E g : IsPartialSums(g, f, n)
<1>. DEFINE Bad == {k \in 0 .. n : ~ \E g : IsPartialSums(g, f, k)}
<1>1. ASSUME Bad # {} PROVE FALSE
  <2>1. Bad \in SUBSET Nat
    OBVIOUS
  <2>2. PICK m \in Bad : \A k \in Bad : m <= k
    <3>. HIDE DEF Bad
    <3>. QED BY <1>1, <2>1, LeastNat
  <2>3. m \in 0 .. n /\ ~ \E g : IsPartialSums(g, f, m)
    OBVIOUS
  <2>4. m # 0
    <3>1. IsPartialSums([i \in 0 .. 0 |-> 0], f, 0)
      BY DEF IsPartialSums
    <3>. QED BY <2>3, <3>1
  <2>5. m \in 1 .. n /\ m - 1 \in 0 .. n
    BY <2>3, <2>4
  <2>6. m - 1 \notin Bad
    <3>. HIDE DEF Bad
    <3>. QED BY <2>2, <2>5
  <2>7. PICK g : IsPartialSums(g, f, m - 1)
    BY <2>5, <2>6
  <2>. QED BY <2>3, <2>5, <2>7, PartialSumsExtend
<1>2. n \in 0 .. n
  OBVIOUS
<1>. QED BY <1>1, <1>2

LEMMA PartialSumsAre ==
    ASSUME NEW n \in Nat, NEW f \in [1 .. n -> Nat]
    PROVE  IsPartialSums(PartialSums(f, n), f, n)
<1>. DEFINE Rec(t) == t = [i \in 0 .. n |-> IF i = 0 THEN 0 ELSE t[i - 1] + f[i]]
<1>1. PICK g : IsPartialSums(g, f, n)
  BY PartialSumsExist
<1>2. /\ g \in [0 .. n -> Nat]
      /\ g[0] = 0
      /\ \A i \in 1 .. n : g[i] = g[i - 1] + f[i]
  BY <1>1 DEF IsPartialSums
<1>3. Rec(g)
  BY <1>2
<1>. DEFINE s == CHOOSE t : Rec(t)
<1>4. Rec(s)
  <2>. HIDE DEF Rec
  <2>. QED BY <1>3
<1>5. PartialSums(f, n) = s
  BY DEF PartialSums
<1>. HIDE DEF s
<1>6. s[0] = 0 /\ \A i \in 1 .. n : s[i] = s[i - 1] + f[i]
  BY <1>4
<1>7. \A i \in 0 .. n : s[i] = g[i]
  <2>. DEFINE Bad == {i \in 0 .. n : s[i] # g[i]}
  <2>1. ASSUME Bad # {} PROVE FALSE
    <3>1. Bad \in SUBSET Nat
      OBVIOUS
    <3>2. PICK m \in Bad : \A k \in Bad : m <= k
      <4>. HIDE DEF Bad
      <4>. QED BY <2>1, <3>1, LeastNat
    <3>3. m \in 0 .. n /\ s[m] # g[m]
      OBVIOUS
    <3>4. m \in 1 .. n /\ m - 1 \in 0 .. n
      BY <1>2, <1>6, <3>3
    <3>5. m - 1 \notin Bad
      <4>. HIDE DEF Bad
      <4>. QED BY <3>2, <3>4
    <3>6. s[m - 1] = g[m - 1]
      BY <3>4, <3>5
    <3>. QED BY <1>2, <1>6, <3>3, <3>4, <3>6
  <2>. QED BY <2>1
<1>8. s = g
  <2>1. s = [i \in 0 .. n |-> s[i]]
    BY <1>4
  <2>. QED BY <1>2, <1>7, <2>1
<1>. QED BY <1>1, <1>5, <1>8

(* The unfolding of PartialSums, for the lemmas below. *)
LEMMA PartialSumsUnfold ==
    ASSUME NEW n \in Nat, NEW f \in [1 .. n -> Nat]
    PROVE  /\ PartialSums(f, n) \in [0 .. n -> Nat]
           /\ PartialSums(f, n)[0] = 0
           /\ \A i \in 1 .. n : PartialSums(f, n)[i] = PartialSums(f, n)[i - 1] + f[i]
  BY PartialSumsAre DEF IsPartialSums

(* A total of naturals is a natural. *)
LEMMA TotalNat ==
    ASSUME NEW n \in Nat, NEW f \in [1 .. n -> Nat]
    PROVE  Total(f, n) \in Nat
  BY PartialSumsUnfold DEF Total

(* If every term is zero, so is the total. *)
LEMMA TotalZero ==
    ASSUME NEW n \in Nat
    PROVE  Total([i \in 1 .. n |-> 0], n) = 0
<1>. DEFINE f == [i \in 1 .. n |-> 0]
<1>. DEFINE p == PartialSums(f, n)
<1>1. f \in [1 .. n -> Nat] /\ \A i \in 1 .. n : f[i] = 0
  OBVIOUS
<1>2. /\ p \in [0 .. n -> Nat]
      /\ p[0] = 0
      /\ \A i \in 1 .. n : p[i] = p[i - 1] + f[i]
  BY <1>1, PartialSumsUnfold
<1>. DEFINE Bad == {i \in 0 .. n : p[i] # 0}
<1>. HIDE DEF p, f
<1>3. ASSUME Bad # {} PROVE FALSE
  <2>1. Bad \in SUBSET Nat
    OBVIOUS
  <2>2. PICK m \in Bad : \A k \in Bad : m <= k
    <3>. HIDE DEF Bad
    <3>. QED BY <1>3, <2>1, LeastNat
  <2>3. m \in 1 .. n /\ m - 1 \in 0 .. n /\ p[m] # 0
    BY <1>2
  <2>4. m - 1 \notin Bad
    <3>. HIDE DEF Bad
    <3>. QED BY <2>2, <2>3
  <2>. QED BY <1>1, <1>2, <2>3, <2>4
<1>4. p[n] = 0
  BY <1>3
<1>. QED BY <1>4 DEF Total, p, f

(* Changing one term changes the total by the difference of the two values. *)
LEMMA TotalUpdate ==
    ASSUME NEW n \in Nat, NEW f \in [1 .. n -> Nat],
           NEW j \in 1 .. n, NEW v \in Nat
    PROVE  Total([f EXCEPT ![j] = v], n) = Total(f, n) - f[j] + v
<1>. DEFINE e == [f EXCEPT ![j] = v]
<1>. DEFINE p == PartialSums(f, n)
<1>. DEFINE q == PartialSums(e, n)
<1>1. e \in [1 .. n -> Nat] /\ e[j] = v /\ \A i \in 1 .. n : i # j => e[i] = f[i]
  OBVIOUS
<1>2. /\ p \in [0 .. n -> Nat]
      /\ p[0] = 0
      /\ \A i \in 1 .. n : p[i] = p[i - 1] + f[i]
  BY PartialSumsUnfold
<1>3. /\ q \in [0 .. n -> Nat]
      /\ q[0] = 0
      /\ \A i \in 1 .. n : q[i] = q[i - 1] + e[i]
  <2>. HIDE DEF e
  <2>. QED BY <1>1, PartialSumsUnfold
<1>. DEFINE Fits(i) == IF i < j THEN q[i] = p[i] ELSE q[i] = p[i] - f[j] + v
<1>. DEFINE Bad == {i \in 0 .. n : ~ Fits(i)}
<1>. HIDE DEF p, q, e
<1>4. ASSUME Bad # {} PROVE FALSE
  <2>1. Bad \in SUBSET Nat
    OBVIOUS
  <2>2. PICK m \in Bad : \A k \in Bad : m <= k
    <3>. HIDE DEF Bad
    <3>. QED BY <1>4, <2>1, LeastNat
  <2>3. m \in 0 .. n /\ ~ Fits(m)
    OBVIOUS
  <2>4. m # 0
    <3>1. Fits(0)
      BY <1>2, <1>3
    <3>. HIDE DEF Fits
    <3>. QED BY <2>3, <3>1
  <2>5. m \in 1 .. n /\ m - 1 \in 0 .. n
    BY <2>3, <2>4
  <2>6. Fits(m - 1)
    <3>1. m - 1 \notin Bad
      <4>. HIDE DEF Bad
      <4>. QED BY <2>2, <2>5
    <3>. HIDE DEF Fits
    <3>. QED BY <2>5, <3>1
  <2>7. /\ p[m - 1] \in Nat /\ q[m - 1] \in Nat
        /\ f[m] \in Nat /\ f[j] \in Nat
        /\ p[m] = p[m - 1] + f[m]
        /\ q[m] = q[m - 1] + e[m]
    BY <1>2, <1>3, <2>5
  <2>8. CASE m < j
    <3>1. e[m] = f[m]
      BY <1>1, <2>5, <2>8
    <3>. QED BY <2>3, <2>5, <2>6, <2>7, <2>8, <3>1
  <2>9. CASE m = j
    <3>1. e[m] = v
      BY <1>1, <2>9
    <3>. QED BY <2>3, <2>5, <2>6, <2>7, <2>9, <3>1
  <2>10. CASE m > j
    <3>1. e[m] = f[m]
      BY <1>1, <2>5, <2>10
    <3>. QED BY <2>3, <2>5, <2>6, <2>7, <2>10, <3>1
  <2>. QED BY <2>5, <2>8, <2>9, <2>10
<1>5. Fits(n) /\ ~ (n < j)
  <2>1. n \in 0 .. n
    OBVIOUS
  <2>. QED BY <1>4, <2>1
<1>6. q[n] = p[n] - f[j] + v
  BY <1>5
<1>. QED BY <1>6 DEF Total, p, q, e

(* No term exceeds the total. *)
LEMMA TermLeqTotal ==
    ASSUME NEW n \in Nat, NEW f \in [1 .. n -> Nat], NEW j \in 1 .. n
    PROVE  f[j] <= Total(f, n)
<1>. DEFINE e == [f EXCEPT ![j] = 0]
<1>1. e \in [1 .. n -> Nat]
  OBVIOUS
<1>2. Total(e, n) = Total(f, n) - f[j] + 0
  BY TotalUpdate
<1>3. Total(e, n) \in Nat /\ Total(f, n) \in Nat /\ f[j] \in Nat
  <2>. HIDE DEF e
  <2>. QED BY <1>1, TotalNat
<1>. QED BY <1>2, <1>3

-----------------------------------------------------------------------------
(* The quotient of naturals is a natural, and the divisor times it is no more   *)
(* than the dividend.                                                           *)
LEMMA DivFloor ==
    ASSUME NEW p \in Nat, NEW d \in Nat \ {0}
    PROVE  /\ p \div d \in Nat
           /\ d * (p \div d) <= p
           /\ p < d * (p \div d) + d
  OBVIOUS

LEMMA MulNat ==
    ASSUME NEW x \in Nat, NEW y \in Nat
    PROVE  x * y \in Nat
  OBVIOUS

LEMMA MulPos ==
    ASSUME NEW x \in Nat \ {0}, NEW y \in Nat \ {0}
    PROVE  x * y \in Nat \ {0}
  OBVIOUS

LEMMA MulMonotone ==
    ASSUME NEW x \in Nat, NEW y \in Nat, NEW z \in Nat, y <= z
    PROVE  x * y <= x * z
  OBVIOUS

(* A floored fraction is a natural. *)
LEMMA MulDivNat ==
    ASSUME NEW x \in Nat, NEW y \in Nat, NEW d \in Nat \ {0}
    PROVE  MulDiv(x, y, d) \in Nat
  BY MulNat, DivFloor DEF MulDiv

(* A floored proper fraction of x is at most x. *)
LEMMA MulDivLeq ==
    ASSUME NEW x \in Nat, NEW y \in Nat, NEW d \in Nat \ {0}, y <= d
    PROVE  MulDiv(x, y, d) <= x
<1>. DEFINE q == (x * y) \div d
<1>1. x * y \in Nat /\ q \in Nat /\ d * q <= x * y
  BY MulNat, DivFloor
<1>2. x * y <= x * d
  BY MulMonotone
<1>. HIDE DEF q
<1>3. CASE q <= x
  BY <1>3 DEF MulDiv, q
<1>4. CASE x + 1 <= q
  <2>1. d * (x + 1) <= d * q
    BY <1>1, <1>4, MulMonotone
  <2>2. d * (x + 1) = x * d + d
    OBVIOUS
  <2>3. x * d \in Nat /\ d * q \in Nat
    BY <1>1, MulNat
  <2>. QED BY <1>1, <1>2, <2>1, <2>2, <2>3
<1>. QED BY <1>1, <1>3, <1>4

-----------------------------------------------------------------------------
(* What is shared out in proportion to f, with floors, is at most the whole.    *)
LEMMA TotalShares ==
    ASSUME NEW n \in Nat, NEW f \in [1 .. n -> Nat], NEW x \in Nat,
           NEW d \in Nat \ {0}, Total(f, n) = d
    PROVE  /\ [i \in 1 .. n |-> (f[i] * x) \div d] \in [1 .. n -> Nat]
           /\ Total([i \in 1 .. n |-> (f[i] * x) \div d], n) <= x
<1>. DEFINE g == [i \in 1 .. n |-> (f[i] * x) \div d]
<1>. DEFINE p == PartialSums(f, n)
<1>. DEFINE q == PartialSums(g, n)
<1>1. \A i \in 1 .. n : f[i] * x \in Nat
  BY MulNat
<1>2. \A i \in 1 .. n : g[i] \in Nat /\ d * g[i] <= f[i] * x
  BY <1>1, DivFloor
<1>3. g \in [1 .. n -> Nat]
  BY <1>2
<1>4. /\ p \in [0 .. n -> Nat]
      /\ p[0] = 0
      /\ \A i \in 1 .. n : p[i] = p[i - 1] + f[i]
  BY PartialSumsUnfold
<1>5. /\ q \in [0 .. n -> Nat]
      /\ q[0] = 0
      /\ \A i \in 1 .. n : q[i] = q[i - 1] + g[i]
  <2>. HIDE DEF g
  <2>. QED BY <1>3, PartialSumsUnfold
<1>. DEFINE Fits(i) == d * q[i] <= p[i] * x
<1>. DEFINE Bad == {i \in 0 .. n : ~ Fits(i)}
<1>. HIDE DEF p, q, g
<1>6. ASSUME Bad # {} PROVE FALSE
  <2>1. Bad \in SUBSET Nat
    OBVIOUS
  <2>2. PICK m \in Bad : \A k \in Bad : m <= k
    <3>. HIDE DEF Bad
    <3>. QED BY <1>6, <2>1, LeastNat
  <2>3. m \in 0 .. n /\ ~ Fits(m)
    OBVIOUS
  <2>4. m # 0
    <3>1. Fits(0)
      BY <1>4, <1>5
    <3>. HIDE DEF Fits
    <3>. QED BY <2>3, <3>1
  <2>5. m \in 1 .. n /\ m - 1 \in 0 .. n
    BY <2>3, <2>4
  <2>6. Fits(m - 1)
    <3>1. m - 1 \notin Bad
      <4>. HIDE DEF Bad
      <4>. QED BY <2>2, <2>5
    <3>. HIDE DEF Fits
    <3>. QED BY <2>5, <3>1
  <2>7. PICK a, b, u, v :
          /\ a = p[m - 1] /\ b = f[m] /\ u = q[m - 1] /\ v = g[m]
    OBVIOUS
  <2>8. /\ a \in Nat /\ b \in Nat /\ u \in Nat /\ v \in Nat
        /\ p[m] = a + b /\ q[m] = u + v
        /\ d * u <= a * x
        /\ d * v <= b * x
    BY <1>2, <1>4, <1>5, <2>5, <2>6, <2>7
  <2>9. d * (u + v) = d * u + d * v /\ (a + b) * x = a * x + b * x
    BY <2>8
  <2>10. d * (u + v) <= (a + b) * x
    <3>1. d * u \in Nat /\ d * v \in Nat /\ a * x \in Nat /\ b * x \in Nat
      BY <2>8, MulNat
    <3>. QED BY <2>8, <2>9, <3>1
  <2>. QED BY <2>3, <2>8, <2>10
<1>7. Fits(n)
  <2>1. n \in 0 .. n
    OBVIOUS
  <2>. QED BY <1>6, <2>1
<1>8. p[n] = d /\ q[n] \in Nat
  BY <1>5 DEF Total, p
<1>9. d * q[n] <= d * x
  BY <1>7, <1>8
<1>10. q[n] <= x
  <2>1. CASE x + 1 <= q[n]
    <3>1. d * (x + 1) <= d * q[n]
      BY <1>8, <2>1, MulMonotone
    <3>2. d * (x + 1) = d * x + d
      OBVIOUS
    <3>3. d * x \in Nat /\ d * q[n] \in Nat
      BY <1>8, MulNat
    <3>. QED BY <1>9, <3>1, <3>2, <3>3
  <2>. QED BY <1>8, <2>1
<1>. QED BY <1>3, <1>10 DEF Total, q, g

(* The total of sums is the sum of the totals.                                  *)
LEMMA TotalSum ==
    ASSUME NEW n \in Nat, NEW f \in [1 .. n -> Nat], NEW g \in [1 .. n -> Nat],
           NEW h \in [1 .. n -> Nat], \A i \in 1 .. n : h[i] = f[i] + g[i]
    PROVE  Total(h, n) = Total(f, n) + Total(g, n)
<1>. DEFINE p == PartialSums(f, n)
<1>. DEFINE q == PartialSums(g, n)
<1>. DEFINE r == PartialSums(h, n)
<1>1. /\ p \in [0 .. n -> Nat] /\ p[0] = 0
      /\ \A i \in 1 .. n : p[i] = p[i - 1] + f[i]
  BY PartialSumsUnfold
<1>2. /\ q \in [0 .. n -> Nat] /\ q[0] = 0
      /\ \A i \in 1 .. n : q[i] = q[i - 1] + g[i]
  BY PartialSumsUnfold
<1>3. /\ r \in [0 .. n -> Nat] /\ r[0] = 0
      /\ \A i \in 1 .. n : r[i] = r[i - 1] + h[i]
  BY PartialSumsUnfold
<1>. DEFINE Bad == {i \in 0 .. n : r[i] # p[i] + q[i]}
<1>. HIDE DEF p, q, r
<1>4. ASSUME Bad # {} PROVE FALSE
  <2>1. Bad \in SUBSET Nat
    OBVIOUS
  <2>2. PICK m \in Bad : \A k \in Bad : m <= k
    <3>. HIDE DEF Bad
    <3>. QED BY <1>4, <2>1, LeastNat
  <2>3. m \in 0 .. n /\ r[m] # p[m] + q[m]
    OBVIOUS
  <2>4. m \in 1 .. n /\ m - 1 \in 0 .. n
    BY <1>1, <1>2, <1>3, <2>3
  <2>5. r[m - 1] = p[m - 1] + q[m - 1]
    <3>1. m - 1 \notin Bad
      <4>. HIDE DEF Bad
      <4>. QED BY <2>2, <2>4
    <3>. QED BY <2>4, <3>1
  <2>6. PICK a, b, u, v : a = p[m - 1] /\ b = q[m - 1] /\ u = f[m] /\ v = g[m]
    OBVIOUS
  <2>7. /\ a \in Nat /\ b \in Nat /\ u \in Nat /\ v \in Nat
        /\ p[m] = a + u /\ q[m] = b + v /\ r[m] = (a + b) + (u + v)
    BY <1>1, <1>2, <1>3, <2>4, <2>5, <2>6
  <2>. QED BY <2>3, <2>7
<1>5. r[n] = p[n] + q[n]
  <2>1. n \in 0 .. n
    OBVIOUS
  <2>. QED BY <1>4, <2>1
<1>. QED BY <1>5 DEF Total, p, q, r

(* A quotient grows with what is divided.                                       *)
LEMMA DivMonotone ==
    ASSUME NEW x \in Nat, NEW y \in Nat, NEW d \in Nat \ {0}, x <= y
    PROVE  x \div d <= y \div d
<1>. DEFINE a == x \div d
<1>. DEFINE b == y \div d
<1>1. /\ a \in Nat /\ d * a <= x
      /\ b \in Nat /\ y < d * b + d
  BY DivFloor
<1>. HIDE DEF a, b
<1>2. CASE b + 1 <= a
  <2>1. d * (b + 1) <= d * a
    BY <1>1, <1>2, MulMonotone
  <2>2. d * (b + 1) = d * b + d
    BY <1>1
  <2>3. d * b \in Nat /\ d * a \in Nat
    BY <1>1, MulNat
  <2>. QED BY <1>1, <2>1, <2>2, <2>3
<1>3. CASE a <= b
  BY <1>3 DEF a, b
<1>. QED BY <1>1, <1>2, <1>3

(* Two floored quotients together are at most the floored quotient of the sum.  *)
LEMMA DivSum ==
    ASSUME NEW x \in Nat, NEW y \in Nat, NEW d \in Nat \ {0}
    PROVE  (x \div d) + (y \div d) <= (x + y) \div d
<1>. DEFINE a == x \div d
<1>. DEFINE b == y \div d
<1>. DEFINE c == (x + y) \div d
<1>1. /\ a \in Nat /\ d * a <= x
      /\ b \in Nat /\ d * b <= y
  BY DivFloor
<1>2. c \in Nat /\ x + y < d * c + d
  <2>1. x + y \in Nat
    OBVIOUS
  <2>. QED BY <2>1, DivFloor
<1>. HIDE DEF a, b, c
<1>3. CASE c + 1 <= a + b
  <2>1. d * (c + 1) <= d * (a + b)
    BY <1>1, <1>2, <1>3, MulMonotone
  <2>2. d * (c + 1) = d * c + d /\ d * (a + b) = d * a + d * b
    BY <1>1, <1>2
  <2>3. d * a \in Nat /\ d * b \in Nat /\ d * c \in Nat
    BY <1>1, <1>2, MulNat
  <2>. QED BY <1>1, <1>2, <2>1, <2>2, <2>3
<1>4. CASE a + b <= c
  BY <1>4 DEF a, b, c
<1>. QED BY <1>1, <1>2, <1>3, <1>4

(* ... and less by no more than one. *)
LEMMA DivSumBelow ==
    ASSUME NEW x \in Nat, NEW y \in Nat, NEW d \in Nat \ {0}
    PROVE  (x + y) \div d <= (x \div d) + (y \div d) + 1
<1>. DEFINE a == x \div d
<1>. DEFINE b == y \div d
<1>. DEFINE c == (x + y) \div d
<1>1. /\ a \in Nat /\ x < d * a + d
      /\ b \in Nat /\ y < d * b + d
  BY DivFloor
<1>2. c \in Nat /\ d * c <= x + y
  <2>1. x + y \in Nat
    OBVIOUS
  <2>. QED BY <2>1, DivFloor
<1>. HIDE DEF a, b, c
<1>3. CASE a + b + 2 <= c
  <2>1. a + b + 2 \in Nat
    BY <1>1
  <2>2. d * (a + b + 2) <= d * c
    BY <1>2, <1>3, <2>1, MulMonotone
  <2>3. d * (a + b + 2) = d * a + d * b + d + d
    BY <1>1
  <2>4. d * a \in Nat /\ d * b \in Nat /\ d * c \in Nat
    BY <1>1, <1>2, MulNat
  <2>. QED BY <1>1, <1>2, <2>2, <2>3, <2>4
<1>4. CASE c <= a + b + 1
  BY <1>4 DEF a, b, c
<1>. QED BY <1>1, <1>2, <1>3, <1>4

(* The total of two families laid end to end is the sum of their totals.        *)
LEMMA TotalConcat ==
    ASSUME NEW n \in Nat, NEW m \in Nat,
           NEW f \in [1 .. n -> Nat], NEW g \in [1 .. m -> Nat],
           NEW h \in [1 .. n + m -> Nat],
           \A i \in 1 .. n : h[i] = f[i],
           \A i \in 1 .. m : h[n + i] = g[i]
    PROVE  Total(h, n + m) = Total(f, n) + Total(g, m)
<1>. DEFINE p == PartialSums(f, n)
<1>. DEFINE q == PartialSums(g, m)
<1>. DEFINE r == PartialSums(h, n + m)
<1>0. n + m \in Nat
  OBVIOUS
<1>1. /\ p \in [0 .. n -> Nat] /\ p[0] = 0
      /\ \A i \in 1 .. n : p[i] = p[i - 1] + f[i]
  BY PartialSumsUnfold
<1>2. /\ q \in [0 .. m -> Nat] /\ q[0] = 0
      /\ \A i \in 1 .. m : q[i] = q[i - 1] + g[i]
  BY PartialSumsUnfold
<1>3. /\ r \in [0 .. n + m -> Nat] /\ r[0] = 0
      /\ \A i \in 1 .. n + m : r[i] = r[i - 1] + h[i]
  BY <1>0, PartialSumsUnfold
<1>. DEFINE Low == {i \in 0 .. n : r[i] # p[i]}
<1>. DEFINE High == {i \in 0 .. m : r[n + i] # p[n] + q[i]}
<1>. HIDE DEF p, q, r
<1>4. ASSUME Low # {} PROVE FALSE
  <2>1. Low \in SUBSET Nat
    OBVIOUS
  <2>2. PICK k \in Low : \A l \in Low : k <= l
    <3>. HIDE DEF Low
    <3>. QED BY <1>4, <2>1, LeastNat
  <2>3. k \in 0 .. n /\ r[k] # p[k]
    OBVIOUS
  <2>4. k \in 1 .. n /\ k - 1 \in 0 .. n /\ k \in 1 .. n + m
    BY <1>1, <1>3, <2>3
  <2>5. r[k - 1] = p[k - 1]
    <3>1. k - 1 \notin Low
      <4>. HIDE DEF Low
      <4>. QED BY <2>2, <2>4
    <3>. QED BY <2>4, <3>1
  <2>6. r[k] = r[k - 1] + f[k] /\ p[k] = p[k - 1] + f[k]
    BY <1>1, <1>3, <2>4
  <2>. QED BY <2>3, <2>5, <2>6
<1>5. r[n] = p[n]
  <2>1. n \in 0 .. n
    OBVIOUS
  <2>. QED BY <1>4, <2>1
<1>6. ASSUME High # {} PROVE FALSE
  <2>1. High \in SUBSET Nat
    OBVIOUS
  <2>2. PICK k \in High : \A l \in High : k <= l
    <3>. HIDE DEF High
    <3>. QED BY <1>6, <2>1, LeastNat
  <2>3. k \in 0 .. m /\ r[n + k] # p[n] + q[k]
    OBVIOUS
  <2>4. p[n] \in Nat
    BY <1>1
  <2>5. k \in 1 .. m /\ k - 1 \in 0 .. m /\ n + k \in 1 .. n + m
    <3>1. k # 0
      <4>1. r[n + 0] = p[n] + q[0]
        BY <1>2, <1>5, <2>4
      <4>. QED BY <2>3, <4>1
    <3>. QED BY <2>3, <3>1
  <2>6. r[n + (k - 1)] = p[n] + q[k - 1]
    <3>1. k - 1 \notin High
      <4>. HIDE DEF High
      <4>. QED BY <2>2, <2>5
    <3>. QED BY <2>5, <3>1
  <2>7. PICK b, v : b = q[k - 1] /\ v = g[k]
    OBVIOUS
  <2>8. /\ b \in Nat /\ v \in Nat
        /\ q[k] = b + v
        /\ r[n + k] = (p[n] + b) + v
    <3>1. n + (k - 1) = (n + k) - 1
      BY <2>5
    <3>2. r[n + k] = r[(n + k) - 1] + h[n + k] /\ h[n + k] = v
      BY <1>3, <2>5, <2>7
    <3>3. b \in Nat /\ v \in Nat /\ q[k] = b + v
      BY <1>2, <2>5, <2>7
    <3>. QED BY <2>6, <2>7, <3>1, <3>2, <3>3
  <2>. QED BY <2>3, <2>4, <2>8
<1>7. r[n + m] = p[n] + q[m]
  <2>1. m \in 0 .. m
    OBVIOUS
  <2>. QED BY <1>6, <2>1
<1>. QED BY <1>7 DEF Total, p, q, r

(* A floored fraction of a positive x is less than x when the fraction is       *)
(* less than one.                                                               *)
LEMMA MulDivLess ==
    ASSUME NEW x \in Nat \ {0}, NEW y \in Nat, NEW d \in Nat \ {0}, y < d
    PROVE  MulDiv(x, y, d) < x
<1>. DEFINE q == (x * y) \div d
<1>1. x * y \in Nat /\ q \in Nat /\ d * q <= x * y
  BY MulNat, DivFloor
<1>2. x * (y + 1) <= x * d /\ x * (y + 1) = x * y + x /\ x * d \in Nat
  BY MulMonotone, MulNat
<1>. HIDE DEF q
<1>3. CASE q < x
  BY <1>3 DEF MulDiv, q
<1>4. CASE x <= q
  <2>1. d * x <= d * q /\ d * x = x * d /\ d * q \in Nat
    BY <1>1, <1>4, MulMonotone, MulNat
  <2>. QED BY <1>1, <1>2, <2>1
<1>. QED BY <1>1, <1>3, <1>4
=============================================================================
