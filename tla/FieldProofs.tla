----------------------------- MODULE FieldProofs -----------------------------
(***************************************************************************)
(* No limb of a field element outgrows the bound that its magnitude        *)
(* promises, for every width of the limbs.  The first half speaks of limbs *)
(* of any number and width (Shape); the second instantiates it for 10x26   *)
(* and for 5x52, with one lemma for each function of the library, and puts *)
(* the two together in FieldInv.                                           *)
(***************************************************************************)
EXTENDS Arithmetic, FiniteSetTheorems, WellFoundedInduction, TLAPS

\* Induction over the numbers, for a set.
LEMMA Induction ==
    ASSUME NEW X, 0 \in X, \A k \in Nat : k \in X => k + 1 \in X
    PROVE  \A k \in Nat : k \in X
  <1> DEFINE Y == Nat \ X
  <1>1. ASSUME Y # {} PROVE FALSE
    <2>1. \E x \in Y : \A y \in Y : ~ (<<y, x>> \in OpToRel(<, Nat))
      BY <1>1, NatLessThanWellFounded, WFMin
    <2>2. PICK x \in Y : \A y \in Y : ~ (y < x)
      BY <2>1 DEF OpToRel
    <2>3. x # 0 /\ x - 1 \in Nat
      BY <2>2
    <2>4. x - 1 \in X
      BY <2>2, <2>3
    <2> QED
      BY <2>2, <2>3, <2>4
  <1> QED
    BY <1>1

\* A product distributes over a sum, and its factors commute.
LEMMA Times ==
    ASSUME NEW a \in Int, NEW b \in Int, NEW c \in Int
    PROVE  (a + b) * c = a * c + b * c /\ c * a = a * c
  OBVIOUS

\* A product of numbers is a number.
LEMMA TimesNat ==
    ASSUME NEW a \in Nat, NEW b \in Nat
    PROVE  a * b \in Nat
  OBVIOUS

\* A larger factor gives a larger product.
LEMMA TimesMonotone ==
    ASSUME NEW a \in Nat, NEW b \in Nat, NEW c \in Nat, a <= b
    PROVE  a * c <= b * c
  <1>1. b = a + (b - a) /\ b - a \in Nat
    OBVIOUS
  <1>2. (a + (b - a)) * c = a * c + (b - a) * c
    BY <1>1, Times
  <1>3. a * c \in Nat /\ (b - a) * c \in Nat
    BY <1>1, TimesNat
  <1> QED
    BY <1>1, <1>2, <1>3

\* A number is its quotient times the divisor, and a remainder.
LEMMA DivMod ==
    ASSUME NEW x \in Nat, NEW b \in Nat \ {0}
    PROVE  /\ x \div b \in Nat /\ (x % b) \in 0 .. b - 1
           /\ x = b * (x \div b) + (x % b)
  OBVIOUS

\* The quotient and the remainder are the only ones.
LEMMA DivUnique ==
    ASSUME NEW b \in Nat \ {0}, NEW q \in Nat, NEW r \in 0 .. b - 1
    PROVE  (b * q + r) \div b = q /\ ((b * q + r) % b) = r
  OBVIOUS

\* A number below the divisor is its own remainder.
LEMMA SmallMod ==
    ASSUME NEW b \in Nat \ {0}, NEW x \in Nat, x < b
    PROVE  x % b = x /\ x \div b = 0
  OBVIOUS

\* f takes x0 through the steps G[1], G[2] ..
Runs(f, top, X, x0, G) ==
    /\ f \in [0 .. top -> X]
    /\ f[0] = x0 /\ \A k \in 1 .. top : f[k] = G[k][f[k - 1]]

\* A function that is defined by recursion over 0 .. top exists.
LEMMA Recursion ==
    ASSUME NEW top \in Nat, NEW X, NEW x0 \in X, NEW G \in [1 .. top -> [X -> X]]
    PROVE  \E f : Runs(f, top, X, x0, G)
  <1> DEFINE Good(f, k) == /\ f \in [0 .. k -> X] /\ f[0] = x0
                           /\ \A j \in 1 .. k : f[j] = G[j][f[j - 1]]
             Y == {k \in Nat : k <= top => \E f : Good(f, k)}
  <1>1. 0 \in Y
    <2> DEFINE f == [k \in 0 .. 0 |-> x0]
    <2>1. Good(f, 0)
      OBVIOUS
    <2> HIDE DEF Good, f
    <2> QED
      BY <2>1
  <1>2. ASSUME NEW k \in Nat, k \in Y PROVE k + 1 \in Y
    <2> SUFFICES ASSUME k + 1 <= top PROVE \E f : Good(f, k + 1)
      OBVIOUS
    <2>1. PICK f : Good(f, k)
      BY <1>2
    <2> DEFINE g == [j \in 0 .. k + 1 |-> IF j = k + 1 THEN G[k + 1][f[k]] ELSE f[j]]
    <2>2. k + 1 \in 1 .. top /\ f[k] \in X
      BY <2>1
    <2>3. G[k + 1][f[k]] \in X
      BY <2>2
    <2>4. g \in [0 .. k + 1 -> X] /\ g[0] = x0
      BY <2>1, <2>3
    <2>5. ASSUME NEW j \in 1 .. k + 1 PROVE g[j] = G[j][g[j - 1]]
      <3>1. CASE j = k + 1
        <4>1. j - 1 = k /\ g[k] = f[k] /\ g[j] = G[k + 1][f[k]]
          BY <3>1
        <4> QED
          BY <3>1, <4>1
      <3>2. CASE j # k + 1
        <4>1. j \in 1 .. k /\ g[j] = f[j] /\ g[j - 1] = f[j - 1]
          BY <3>2
        <4> QED
          BY <2>1, <4>1
      <3> QED
        BY <3>1, <3>2
    <2>6. Good(g, k + 1)
      BY <2>4, <2>5
    <2> HIDE DEF g, Good
    <2> QED
      BY <2>6
  <1> HIDE DEF Y
  <1>3. \A k \in Nat : k \in Y
    BY <1>1, <1>2, Induction
  <1>4. PICK f : Good(f, top)
    BY <1>3 DEF Y
  <1> QED
    BY <1>4 DEF Runs

\* The maximum of two magnitudes, as secp256k1_fe_cmov takes it.
LEMMA MaxOfTwo ==
    ASSUME NEW a \in Nat, NEW b \in Nat
    PROVE  Max({a, b}) = IF a >= b THEN a ELSE b
  <1>1. PICK c \in {a, b} : c = (IF a >= b THEN a ELSE b)
    OBVIOUS
  <1>2. \A y \in {a, b} : c >= y
    BY <1>1
  <1>3. Max({a, b}) \in {a, b} /\ \A y \in {a, b} : Max({a, b}) >= y
    BY <1>2 DEF Max
  <1> QED
    BY <1>1, <1>2, <1>3

-----------------------------------------------------------------------------
(* Carries.                                                                *)

\* s are the sums of Carried: t[i] with the carry of s[i-1].
IsCarry(s, t, w, bits, top) ==
    s = [i \in 0 .. top |->
            (t[i] + (IF i = 0 THEN 0 ELSE s[i - 1] \div 2^w)) % 2^bits]

\* What a limb's sum becomes with what is carried from the last one.
LEMMA SumsExist ==
    ASSUME NEW top \in Nat, NEW t \in [0 .. top -> Nat], NEW w, NEW bits,
           2^w \in Nat \ {0}, 2^bits \in Nat \ {0}
    PROVE  \E s : s \in [0 .. top -> Nat] /\ IsCarry(s, t, w, bits, top)
  <1>1. PICK b \in Nat \ {0} : b = 2^w
    OBVIOUS
  <1>2. PICK word \in Nat \ {0} : word = 2^bits
    OBVIOUS
  <1> DEFINE G == [i \in 1 .. top |-> [x \in Nat |-> (t[i] + (x \div b)) % word]]
  <1>3. \A x \in Nat : x \div b \in Nat
    BY DivMod
  <1>4. \A x \in Nat : x % word \in Nat
    OBVIOUS
  <1>5. G \in [1 .. top -> [Nat -> Nat]]
    <2>1. ASSUME NEW i \in 1 .. top, NEW x \in Nat PROVE (t[i] + (x \div b)) % word \in Nat
      <3>0. i \in 0 .. top
        OBVIOUS
      <3>1. x \div b \in Nat /\ t[i] \in Nat
        BY <1>3, <3>0
      <3>2. t[i] + (x \div b) \in Nat
        BY <3>1
      <3> QED
        BY <1>4, <3>2
    <2> QED
      BY <2>1
  <1>6. t[0] % word \in Nat
    OBVIOUS
  <1> HIDE DEF G
  <1>7. PICK s : Runs(s, top, Nat, t[0] % word, G)
    BY <1>5, <1>6, Recursion
  <1>8. s \in [0 .. top -> Nat] /\ s[0] = t[0] % word
    BY <1>7 DEF Runs
  <1>9. ASSUME NEW i \in 1 .. top PROVE s[i] = (t[i] + (s[i - 1] \div b)) % word
    <2>1. s[i] = G[i][s[i - 1]] /\ s[i - 1] \in Nat
      BY <1>7 DEF Runs
    <2> QED
      BY <2>1 DEF G
  <1>10. ASSUME NEW i \in 0 .. top
         PROVE  s[i] = (t[i] + (IF i = 0 THEN 0 ELSE s[i - 1] \div 2^w)) % 2^bits
    <2>1. CASE i = 0
      <3>1. t[0] + 0 = t[0]
        OBVIOUS
      <3> QED
        BY <1>2, <1>8, <2>1, <3>1
    <2>2. CASE i # 0
      BY <1>1, <1>2, <1>9, <2>2
    <2> QED
      BY <2>1, <2>2
  <1>11. IsCarry(s, t, w, bits, top)
    BY <1>8, <1>10 DEF IsCarry
  <1> QED
    BY <1>8, <1>11

\* b is the range of a limb of width w.
IsPower(b, w) == b = 2^w

Sums(s, t, top, b, word) ==
    /\ s \in [0 .. top -> Nat] /\ s[0] = t[0] % word
    /\ \A i \in 1 .. top : s[i] = (t[i] + (s[i - 1] \div b)) % word

Masked(s, top, b) == [i \in 0 .. top |-> IF i = top THEN s[i] ELSE s[i] % b]

\* What the carries of secp256k1_fe_normalize write: every limb keeps the low
\* bits of its sum, and the top limb keeps its whole sum.
LEMMA CarriedMeans ==
    ASSUME NEW top \in Nat, NEW t \in [0 .. top -> Nat], NEW w, NEW bits,
           NEW b \in Nat \ {0}, IsPower(b, w), NEW word \in Nat \ {0}, IsPower(word, bits)
    PROVE  \E s : Sums(s, t, top, b, word) /\ Carried(t, w, bits) = Masked(s, top, b)
  <1> DEFINE end == CHOOSE m \in DOMAIN t : m + 1 \notin DOMAIN t
             s == CHOOSE s : IsCarry(s, t, w, bits, end)
  <1>1. end = top
    <2>1. DOMAIN t = 0 .. top
      OBVIOUS
    <2>2. \A m \in 0 .. top : m + 1 \notin 0 .. top => m = top
      OBVIOUS
    <2>3. top \in 0 .. top /\ top + 1 \notin 0 .. top
      OBVIOUS
    <2> QED
      BY <2>1, <2>2, <2>3
  <1>2. Carried(t, w, bits) = [i \in 0 .. end |-> IF i = end THEN s[i] ELSE s[i] % 2^w]
    BY DEF Carried, IsCarry
  <1> HIDE DEF end
  <1>3. IsCarry(s, t, w, bits, end)
    <2>1. \E z : IsCarry(z, t, w, bits, end)
      BY <1>1, SumsExist DEF IsPower
    <2> QED
      BY <2>1
  <1> HIDE DEF s
  <1>4. IsCarry(s, t, w, bits, top)
    BY <1>1, <1>3
  <1>5. ASSUME NEW i \in 1 .. top PROVE s[i] = (t[i] + (s[i - 1] \div b)) % word
    <2>1. i # 0 /\ i \in 0 .. top
      OBVIOUS
    <2> QED
      BY <1>4, <2>1 DEF IsCarry, IsPower
  <1>6. s[0] = t[0] % word
    <2>1. t[0] + 0 = t[0] /\ 0 \in 0 .. top
      OBVIOUS
    <2> QED
      BY <1>4, <2>1 DEF IsCarry, IsPower
  <1>7. s \in [0 .. top -> Nat]
    <2>1. PICK z : z \in [0 .. top -> Nat] /\ IsCarry(z, t, w, bits, top)
      BY SumsExist DEF IsPower
    <2> DEFINE Y == {i \in Nat : i <= top => s[i] \in Nat}
    <2>2. 0 \in Y
      BY <1>6
    <2>3. ASSUME NEW i \in Nat, i \in Y PROVE i + 1 \in Y
      <3> SUFFICES ASSUME i + 1 <= top PROVE s[i + 1] \in Nat
        OBVIOUS
      <3>1. s[i] \in Nat /\ i + 1 \in 1 .. top /\ t[i + 1] \in Nat /\ (i + 1) - 1 = i
        BY <2>3
      <3>2. s[i + 1] = (t[i + 1] + (s[i] \div b)) % word
        BY <1>5, <3>1
      <3>3. s[i] \div b \in Nat
        BY <3>1, DivMod
      <3> HIDE DEF Y
      <3>4. PICK x \in Nat : x = s[i] \div b
        BY <3>3, Zenon
      <3>5. PICK y \in Nat : y = t[i + 1] + x
        BY <3>1
      <3>6. y % word \in Nat
        BY DivMod
      <3> QED
        BY <3>2, <3>4, <3>5, <3>6, Zenon
    <2> HIDE DEF Y
    <2>4. \A i \in Nat : i \in Y
      BY <2>2, <2>3, Induction
    <2>5. \A i \in 0 .. top : s[i] \in Nat
      BY <2>4 DEF Y
    <2> DEFINE e == [i \in 0 .. top |-> (t[i] + (IF i = 0 THEN 0 ELSE s[i - 1] \div 2^w)) % 2^bits]
    <2>6. s = e
      BY <1>4 DEF IsCarry
    <2>7. DOMAIN e = 0 .. top /\ e = [i \in 0 .. top |-> e[i]]
      OBVIOUS
    <2> HIDE DEF e
    <2> QED
      BY <2>5, <2>6, <2>7
  <1>8. Carried(t, w, bits) = [i \in 0 .. top |-> IF i = top THEN s[i] ELSE s[i] % b]
    BY <1>1, <1>2 DEF IsPower
  <1> QED
    BY <1>5, <1>6, <1>7, <1>8 DEF Sums, Masked

\* The carry out of a sum below k limbs is below k.
LEMMA Quotient ==
    ASSUME NEW x \in Nat, NEW b \in Nat \ {0}, NEW k \in Nat \ {0}, x < b * k
    PROVE  x \div b \in 0 .. k - 1
  <1>1. PICK q \in Nat : q = x \div b
    BY DivMod
  <1>2. PICK r \in 0 .. b - 1 : r = x % b
    BY DivMod
  <1>3. x = b * q + r
    BY <1>1, <1>2, DivMod
  <1>4. ASSUME q >= k PROVE FALSE
    <2>1. k * b <= q * b /\ k * b = b * k /\ q * b = b * q
      BY <1>4, TimesMonotone, Times
    <2>2. b * q \in Nat
      BY TimesNat
    <2> QED
      BY <1>3, <2>1, <2>2
  <1> QED
    BY <1>1, <1>4

\* The limbs leave room for carries below k.
CarryRoom(t, top, b, k, word) ==
    /\ b * k <= word /\ t[0] < b * k
    /\ \A i \in 1 .. top - 1 : t[i] + k - 1 < b * k
    /\ t[top] + k - 1 < word

\* u is what becomes of the limbs t when c[i] is carried into limb i.
Carrying(c, u, t, top, b, k) ==
    /\ c \in [0 .. top -> 0 .. k - 1] /\ c[0] = 0
    /\ \A i \in 0 .. top - 1 : c[i + 1] = (t[i] + c[i]) \div b
    /\ u = [i \in 0 .. top |-> IF i = top THEN t[i] + c[i] ELSE (t[i] + c[i]) % b]

\* Then no limb overflows its word.
LEMMA Carries ==
    ASSUME NEW top \in Nat, top > 0, NEW t \in [0 .. top -> Nat], NEW w, NEW bits,
           NEW b \in Nat \ {0}, IsPower(b, w), NEW word \in Nat \ {0}, IsPower(word, bits),
           NEW k \in Nat \ {0}, CarryRoom(t, top, b, k, word)
    PROVE  \E c : Carrying(c, Carried(t, w, bits), t, top, b, k)
  <1>3. \A x \in Nat : x < word => x % word = x
    BY SmallMod
  <1>11. PICK s : Sums(s, t, top, b, word) /\ Carried(t, w, bits) = Masked(s, top, b)
    BY CarriedMeans
  <1>1. /\ s \in [0 .. top -> Nat] /\ s[0] = t[0] % word
        /\ \A i \in 1 .. top : s[i] = (t[i] + (s[i - 1] \div b)) % word
    BY <1>11 DEF Sums
  <1>2. PICK bk \in Nat : bk = b * k
    BY TimesNat
  <1>0. /\ bk <= word /\ t[0] < bk
        /\ \A i \in 1 .. top - 1 : t[i] + k - 1 < bk
        /\ t[top] + k - 1 < word
    BY <1>2 DEF CarryRoom
  <1> DEFINE c == [i \in 0 .. top |-> IF i = 0 THEN 0 ELSE s[i - 1] \div b]
  <1>4. c = [i \in 0 .. top |-> c[i]] /\ c[0] = 0
    OBVIOUS
  <1>5. \A i \in 1 .. top : c[i] = s[i - 1] \div b
    OBVIOUS
  <1> HIDE DEF c
  <1> DEFINE Good(i) == c[i] \in 0 .. k - 1 /\ s[i] = t[i] + c[i] /\ (i < top => s[i] < bk)
             Y == {i \in Nat : i <= top => Good(i)}
  <1>6. 0 \in Y
    <2>1. t[0] \in Nat /\ t[0] < word
      BY <1>0
    <2>2. t[0] % word = t[0]
      BY <2>1, SmallMod
    <2>3. s[0] = t[0]
      BY <1>1, <2>2
    <2>4. c[0] = 0 /\ 0 \in 0 .. k - 1
      BY <1>4
    <2>5. s[0] = t[0] + c[0] /\ s[0] < bk
      BY <1>0, <2>1, <2>3, <2>4
    <2> QED
      BY <2>4, <2>5
  <1>7. ASSUME NEW i \in Nat, i \in Y PROVE i + 1 \in Y
    <2> SUFFICES ASSUME i + 1 <= top PROVE Good(i + 1)
      OBVIOUS
    <2>1. s[i] < bk /\ s[i] \in Nat
      BY <1>1, <1>7
    <2> HIDE DEF Good, Y
    <2>2. i + 1 \in 0 .. top /\ i + 1 \in 1 .. top /\ (i + 1) - 1 = i
      OBVIOUS
    <2>3. c[i + 1] = s[i] \div b /\ s[i + 1] = (t[i + 1] + (s[i] \div b)) % word
      BY <1>1, <1>5, <2>2
    <2>9. PICK z \in Nat : z = s[i] /\ z < b * k
      BY <1>2, <2>1
    <2>10. z \div b \in 0 .. k - 1
      BY <2>9, Quotient
    <2>4. c[i + 1] \in 0 .. k - 1
      BY <2>3, <2>9, <2>10
    <2>5. PICK x \in Nat : x = t[i + 1]
      BY <2>2
    <2>6. PICK y \in 0 .. k - 1 : y = c[i + 1]
      BY <2>4
    <2>7. x + y \in Nat /\ x + y < word /\ (i + 1 < top => x + y < bk)
      <3>1. CASE i + 1 = top
        <4>1. x = t[top] /\ ~ (i + 1 < top)
          BY <2>5, <3>1
        <4>2. x + k - 1 < word
          BY <1>0, <4>1
        <4>3. y \in Nat /\ y <= k - 1
          OBVIOUS
        <4> QED
          BY <4>1, <4>2, <4>3
      <3>2. CASE i + 1 # top
        <4>1. i + 1 \in 1 .. top - 1
          BY <2>2, <3>2
        <4>2. x + k - 1 < bk /\ bk <= word
          BY <1>0, <2>5, <4>1
        <4> QED
          BY <4>2
      <3> QED
        BY <3>1, <3>2
    <2>8. (x + y) % word = x + y
      BY <2>7, SmallMod
    <2> QED
      BY <2>3, <2>5, <2>6, <2>7, <2>8 DEF Good
  <1> HIDE DEF Y
  <1>8. \A i \in Nat : i \in Y
    BY <1>6, <1>7, Induction
  <1>9. \A i \in 0 .. top : c[i] \in 0 .. k - 1 /\ s[i] = t[i] + c[i]
    BY <1>8 DEF Y
  <1> HIDE DEF Good
  <1>10. c \in [0 .. top -> 0 .. k - 1]
    BY <1>4, <1>9
  <1>12. ASSUME NEW i \in 0 .. top - 1 PROVE c[i + 1] = (t[i] + c[i]) \div b
    <2>1. i \in 0 .. top /\ i + 1 \in 1 .. top /\ (i + 1) - 1 = i
      OBVIOUS
    <2> QED
      BY <1>5, <1>9, <2>1
  <1>13. Carried(t, w, bits)
           = [i \in 0 .. top |-> IF i = top THEN t[i] + c[i] ELSE (t[i] + c[i]) % b]
    BY <1>9, <1>11 DEF Masked
  <1> QED
    BY <1>4, <1>10, <1>12, <1>13 DEF Carrying

-----------------------------------------------------------------------------
(* Elements, whatever their representation.                                *)

\* A word has room for 2 * max full limbs.
Roomy(max, b, word) == (2 * max) * b <= word

\* Limbs below b, the top one below e, in words below `word'.  Limb i of p is
\* q[i]; d[i] is what 2^256 leaves in limb i modulo p, nothing from limb `low'
\* on.
Shape(top, b, e, word, max, low, q, d) ==
    /\ top \in Nat /\ top >= 4 /\ low \in 1 .. 2
    /\ b \in Nat /\ b >= 2 /\ max \in Nat /\ max >= 1
    /\ e \in Nat /\ 2 * max <= e /\ e <= b
    /\ word \in Nat /\ Roomy(max, b, word) /\ 2 * b <= word
    /\ q \in [0 .. top -> Nat] /\ d \in [0 .. top -> Nat]
    /\ q[0] + d[0] = b /\ d[0] >= 1 /\ 2 * d[0] <= b
    /\ \A i \in 1 .. top - 1 : q[i] + d[i] = b - 1 /\ 2 * d[i] <= b - 1
    /\ \A i \in low .. top - 1 : q[i] = b - 1
    /\ q[top] = e - 1

\* What the magnitude m promises.
Within(l, m, top, q) ==
    /\ l \in [0 .. top -> Nat]
    /\ \A i \in 0 .. top : l[i] <= (2 * m) * q[i]

\* Limbs after a pass of carries, and after the last one.
Tidy(l, top, b, e) ==
    /\ l \in [0 .. top -> Nat] /\ l[top] <= 2 * e - 2
    /\ \A i \in 0 .. top - 1 : l[i] <= b - 1

Canonical(l, top, b, e) ==
    /\ l \in [0 .. top -> Nat] /\ l[top] <= e - 1
    /\ \A i \in 0 .. top - 1 : l[i] <= b - 1

\* x times 2^256 is folded into l.
Adds(f, l, x, top, d) ==
    /\ f \in [0 .. top -> Nat] /\ f[top] = l[top]
    /\ \A i \in 0 .. top - 1 : f[i] = l[i] + x * d[i]

\* The bounds on the limbs of p that follow from the shape.
LEMMA ShapeNumbers ==
    ASSUME NEW top, NEW b, NEW e, NEW word, NEW max, NEW low, NEW q, NEW d,
           Shape(top, b, e, word, max, low, q, d)
    PROVE  /\ top \in Nat /\ top >= 4 /\ low \in 1 .. 2
           /\ b \in Nat \ {0} /\ b >= 2 /\ max \in Nat /\ max >= 1
           /\ e \in Nat \ {0} /\ e >= 2 /\ 2 * max <= e /\ e <= b
           /\ word \in Nat \ {0} /\ 2 * b <= word
           /\ \A i \in 0 .. top : q[i] \in Nat /\ d[i] \in Nat
           /\ \A i \in 0 .. top - 1 : q[i] + d[i] <= b /\ b - 1 <= 2 * q[i] /\ q[i] <= b - 1
           /\ q[top] = e - 1
  <1>0. /\ top \in Nat /\ top >= 4 /\ low \in 1 .. 2
        /\ b \in Nat /\ b >= 2 /\ max \in Nat /\ max >= 1
        /\ e \in Nat /\ 2 * max <= e /\ e <= b
        /\ word \in Nat /\ 2 * b <= word /\ q[top] = e - 1
        /\ q \in [0 .. top -> Nat] /\ d \in [0 .. top -> Nat]
    BY DEF Shape
  <1>1. b \in Nat \ {0} /\ e \in Nat \ {0} /\ e >= 2 /\ word \in Nat \ {0}
    BY <1>0
  <1>2. \A i \in 0 .. top : q[i] \in Nat /\ d[i] \in Nat
    BY <1>0
  <1>3. ASSUME NEW i \in 0 .. top - 1
        PROVE  q[i] + d[i] <= b /\ b - 1 <= 2 * q[i] /\ q[i] <= b - 1
    <2>0. i \in 0 .. top
      BY <1>0
    <2>4. PICK x \in Nat, y \in Nat : x = q[i] /\ y = d[i]
      BY <1>2, <2>0
    <2> SUFFICES x + y <= b /\ b - 1 <= 2 * x /\ x <= b - 1
      BY <2>4
    <2>1. CASE i = 0
      <3>1. q[0] + d[0] = b /\ d[0] >= 1 /\ 2 * d[0] <= b
        BY DEF Shape
      <3>2. x + y = b /\ y >= 1 /\ 2 * y <= b
        BY <2>1, <2>4, <3>1
      <3> QED
        BY <1>1, <3>2
    <2>2. CASE i # 0
      <3>1. i \in 1 .. top - 1
        BY <1>0, <2>2
      <3>2. q[i] + d[i] = b - 1 /\ 2 * d[i] <= b - 1
        BY <3>1 DEF Shape
      <3>3. x + y = b - 1 /\ 2 * y <= b - 1
        BY <2>4, <3>2
      <3> QED
        BY <1>1, <3>3
    <2> QED
      BY <2>1, <2>2
  <1> QED
    BY <1>0, <1>1, <1>2, <1>3

\* Limbs that are tidy are within magnitude 1.
LEMMA TidyIsWithin ==
    ASSUME NEW top, NEW b, NEW e, NEW word, NEW max, NEW low, NEW q, NEW d,
           Shape(top, b, e, word, max, low, q, d), NEW l, Tidy(l, top, b, e)
    PROVE  Within(l, 1, top, q)
  <1>1. ASSUME NEW i \in 0 .. top PROVE l[i] <= (2 * 1) * q[i]
    <2>1. CASE i = top
      <3>1. q[i] = e - 1 /\ l[i] <= 2 * e - 2 /\ e \in Nat
        BY <2>1, ShapeNumbers DEF Tidy
      <3> QED
        BY <3>1
    <2>2. CASE i # top
      <3>1. i \in 0 .. top - 1 /\ top \in Nat
        BY <2>2, ShapeNumbers
      <3>2. q[i] \in Nat /\ b \in Nat /\ b - 1 <= 2 * q[i] /\ l[i] <= b - 1 /\ l[i] \in Nat
        BY <3>1, ShapeNumbers DEF Tidy
      <3> QED
        BY <3>2
    <2> QED
      BY <2>1, <2>2
  <1> QED
    BY <1>1 DEF Within, Tidy

\* Limbs below b and e are limbs after a pass of carries.
LEMMA CanonicalIsTidy ==
    ASSUME NEW top, NEW b, NEW e, NEW word, NEW max, NEW low, NEW q, NEW d,
           Shape(top, b, e, word, max, low, q, d), NEW l, Canonical(l, top, b, e)
    PROVE  Tidy(l, top, b, e)
  <1>1. e \in Nat /\ e >= 2 /\ top \in Nat
    BY ShapeNumbers
  <1>2. l[top] \in Nat /\ l[top] <= e - 1
    BY <1>1 DEF Canonical
  <1>3. l[top] <= 2 * e - 2
    BY <1>1, <1>2
  <1> QED
    BY <1>3 DEF Canonical, Tidy

\* An element of magnitude 0 is zero, and of magnitude 1 as well.
LEMMA ZeroIsWithin ==
    ASSUME NEW top, NEW q \in [0 .. top -> Nat], NEW l, Within(l, 0, top, q)
    PROVE  Within(l, 1, top, q)
  <1>1. ASSUME NEW i \in 0 .. top PROVE l[i] <= (2 * 1) * q[i]
    <2>1. l[i] <= (2 * 0) * q[i] /\ l[i] \in Nat /\ q[i] \in Nat
      BY DEF Within
    <2> QED
      BY <2>1
  <1> QED
    BY <1>1 DEF Within

\* Once the top limb is cut and folded back, the limbs of a magnitude leave
\* room for their carries (the first pass of secp256k1_fe_normalize).
LEMMA FirstRoom ==
    ASSUME NEW top, NEW b, NEW e, NEW word, NEW max, NEW low, NEW q, NEW d,
           Shape(top, b, e, word, max, low, q, d),
           NEW m \in 1 .. max, NEW l, Within(l, m, top, q), NEW f,
           Adds(f, [l EXCEPT ![top] = @ % e], l[top] \div e, top, d)
    PROVE  CarryRoom(f, top, b, 2 * m, word) /\ f[top] <= e - 1
  <1>1. /\ top \in Nat /\ top >= 4 /\ b \in Nat \ {0} /\ b >= 2 /\ max \in Nat
        /\ e \in Nat \ {0} /\ e >= 2 /\ 2 * max <= e /\ e <= b
        /\ word \in Nat \ {0} /\ q[top] = e - 1
    BY ShapeNumbers
  <1>2. PICK k \in Nat \ {0} : k = 2 * m
    BY <1>1
  <1>3. k >= 2 /\ k <= e
    BY <1>1, <1>2
  <1>4. PICK bk \in Nat : bk = b * k
    BY <1>1, TimesNat
  <1>5. bk <= word
    <2>1. 2 * m <= 2 * max /\ 2 * max \in Nat
      BY <1>1
    <2>2. (2 * m) * b <= (2 * max) * b /\ (2 * m) * b = b * (2 * m)
      BY <1>1, <2>1, TimesMonotone, Times
    <2>3. (2 * max) * b <= word
      BY DEF Shape, Roomy
    <2>4. (2 * max) * b \in Nat
      BY <1>1, <2>1, TimesNat
    <2> QED
      BY <1>1, <1>2, <1>4, <2>2, <2>3, <2>4
  <1>6. l[top] \in Nat /\ top \in 0 .. top /\ DOMAIN l = 0 .. top
    BY <1>1 DEF Within
  <1>7. PICK x \in 0 .. k - 1 : x = l[top] \div e
    <2>1. l[top] <= k * (e - 1)
      BY <1>1, <1>2, <1>6 DEF Within
    <2>2. k * (e - 1) = k * e - k * 1 /\ k * e = e * k
      BY <1>1
    <2>3. l[top] < e * k
      <3> DEFINE y == e * k   z == k * (e - 1)
      <3>1. y \in Nat /\ z = y - k
        BY <1>1, <2>2, TimesNat
      <3> HIDE DEF y, z
      <3> QED
        BY <1>6, <2>1, <3>1 DEF y, z
    <2> QED
      BY <1>1, <1>6, <2>3, Quotient
  <1>8. f[top] \in 0 .. e - 1
    <2>1. [l EXCEPT ![top] = @ % e][top] = l[top] % e
      BY <1>6
    <2>2. f[top] = l[top] % e
      BY <2>1 DEF Adds
    <2>3. (l[top] % e) \in 0 .. e - 1
      BY <1>1, <1>6, DivMod
    <2> QED
      BY <2>2, <2>3
  <1>9. \A i \in 0 .. top - 1 : l[i] \in Nat /\ l[i] <= k * q[i] /\ f[i] = l[i] + x * d[i]
    <2>1. \A i \in 0 .. top - 1 : i \in 0 .. top /\ i # top
      BY <1>1
    <2>2. \A i \in 0 .. top - 1 : [l EXCEPT ![top] = @ % e][i] = l[i]
      BY <1>6, <2>1
    <2> QED
      BY <1>2, <1>7, <2>1, <2>2 DEF Within, Adds
  \* A limb that is at most k times q, with what x leaves in it.
  <1>10. ASSUME NEW a \in Nat, NEW u \in Nat, NEW v \in Nat, a <= k * u, u + v <= b
         PROVE  a + x * v + v <= bk
    <2>1. (x + 1) * v <= k * v /\ (x + 1) * v = x * v + 1 * v
      BY TimesMonotone, Times
    <2>2. (u + v) * k <= b * k /\ (u + v) * k = u * k + v * k /\ u * k = k * u /\ v * k = k * v
      BY <1>1, <1>10, TimesMonotone, Times
    <2> DEFINE xv == x * v   kv == k * v   ku == k * u
    <2>3. xv \in Nat /\ kv \in Nat /\ ku \in Nat
      BY TimesNat
    <2>4. xv + v <= kv /\ ku + kv <= bk /\ a <= ku
      BY <1>4, <1>10, <2>1, <2>2
    <2> HIDE DEF xv, kv, ku
    <2>5. a + xv + v <= bk
      BY <2>3, <2>4
    <2> QED
      BY <2>5 DEF xv
  <1>11. f[0] < bk
    <2>1. 0 \in 0 .. top - 1 /\ 0 \in 0 .. top
      BY <1>1
    <2>2. q[0] \in Nat /\ d[0] \in Nat /\ q[0] + d[0] = b /\ d[0] >= 1
      BY <2>1, ShapeNumbers DEF Shape
    <2>6. l[0] \in Nat /\ l[0] <= k * q[0] /\ q[0] + d[0] <= b
      BY <1>1, <1>9, <2>1, <2>2
    <2>3. l[0] + x * d[0] + d[0] <= bk
      BY <1>10, <2>2, <2>6
    <2> DEFINE y == x * d[0]
    <2>4. y \in Nat
      BY <2>2, TimesNat
    <2>5. f[0] = l[0] + y /\ l[0] + y + d[0] <= bk /\ l[0] \in Nat
      BY <1>9, <2>1, <2>3
    <2> HIDE DEF y
    <2> QED
      BY <2>2, <2>4, <2>5
  <1>12. ASSUME NEW i \in 1 .. top - 1 PROVE f[i] + k - 1 < bk
    <2>1. i \in 0 .. top - 1 /\ i \in 0 .. top
      BY <1>1
    <2>2. q[i] \in Nat /\ d[i] \in Nat /\ q[i] + d[i] = b - 1
      BY <2>1, ShapeNumbers DEF Shape
    <2>3. d[i] + 1 \in Nat /\ q[i] + (d[i] + 1) <= b
      BY <1>1, <2>2
    <2>4. l[i] + x * (d[i] + 1) + (d[i] + 1) <= bk
      BY <1>9, <1>10, <2>1, <2>2, <2>3
    <2>5. x * (d[i] + 1) = x * d[i] + x
      BY <2>2
    <2>6. PICK r \in Nat : l[i] + k * (d[i] + 1) <= bk /\ r = k * (d[i] + 1)
      <3>1. (q[i] + (d[i] + 1)) * k = q[i] * k + (d[i] + 1) * k
        BY <2>2, <2>3, Times
      <3>2. (q[i] + (d[i] + 1)) * k <= b * k
        BY <1>1, <2>2, <2>3, TimesMonotone
      <3>3. q[i] * k = k * q[i] /\ (d[i] + 1) * k = k * (d[i] + 1)
        BY <2>2, <2>3, Times
      <3>4. k * q[i] \in Nat /\ k * (d[i] + 1) \in Nat
        BY <2>2, <2>3, TimesNat
      <3>5. l[i] <= k * q[i] /\ l[i] \in Nat
        BY <1>9, <2>1
      <3> DEFINE y == k * q[i]   z == k * (d[i] + 1)
      <3>6. y \in Nat /\ z \in Nat /\ y + z <= bk /\ l[i] <= y
        BY <1>4, <3>1, <3>2, <3>3, <3>4, <3>5
      <3> HIDE DEF y, z
      <3>7. l[i] + z <= bk
        BY <3>5, <3>6
      <3> QED
        BY <3>6, <3>7 DEF z
    <2>7. x * d[i] <= (k - 1) * d[i] /\ (k - 1) * d[i] + d[i] = k * d[i] /\ r = k * d[i] + k
      <3>1. x <= k - 1 /\ k - 1 \in Nat
        OBVIOUS
      <3>2. ((k - 1) + 1) * d[i] = (k - 1) * d[i] + 1 * d[i] /\ (k - 1) + 1 = k
        BY <2>2, <3>1, Times
      <3>3. k * (d[i] + 1) = k * d[i] + k
        BY <2>2
      <3>4. x * d[i] <= (k - 1) * d[i]
        BY <2>2, <3>1, TimesMonotone
      <3> QED
        BY <2>2, <2>6, <3>2, <3>3, <3>4
    <2> DEFINE y == x * d[i]   z == (k - 1) * d[i]   w == k * d[i]
    <2>8. y \in Nat /\ z \in Nat /\ w \in Nat
      BY <2>2, TimesNat
    <2>9. y <= z /\ z + d[i] = w /\ r = w + k /\ l[i] + r <= bk /\ f[i] = l[i] + y
          /\ l[i] \in Nat
      BY <1>9, <2>1, <2>6, <2>7
    <2> HIDE DEF y, z, w
    <2> QED
      BY <2>2, <2>8, <2>9
  <1>13. f[top] + k - 1 < word
    <2>1. 2 * b <= word
      BY ShapeNumbers
    <2> QED
      BY <1>1, <1>3, <1>8, <2>1
  <1> QED
    BY <1>2, <1>4, <1>5, <1>8, <1>11, <1>12, <1>13 DEF CarryRoom

\* Limbs that agree one by one are the same.
LEMMA SameLimbs ==
    ASSUME NEW top \in Nat, NEW x \in [0 .. top -> Nat], NEW y \in [0 .. top -> Nat],
           \A i \in 0 .. top : x[i] = y[i]
    PROVE  x = y
  OBVIOUS

\* What a pass of carries writes.
LEMMA CarriedLimbs ==
    ASSUME NEW top \in Nat, top > 0, NEW f \in [0 .. top -> Nat], NEW b \in Nat \ {0},
           NEW k \in Nat \ {0}, NEW c, NEW u, Carrying(c, u, f, top, b, k)
    PROVE  /\ u \in [0 .. top -> Nat] /\ u[top] = f[top] + c[top] /\ c[top] \in 0 .. k - 1
           /\ \A i \in 0 .. top - 1 : u[i] = (f[i] + c[i]) % b /\ u[i] \in 0 .. b - 1
  <1>1. c \in [0 .. top -> 0 .. k - 1]
    BY DEF Carrying
  <1>2. \A i \in 0 .. top : c[i] \in 0 .. k - 1 /\ f[i] \in Nat /\ f[i] + c[i] \in Nat
    BY <1>1
  <1>3. \A i \in 0 .. top : (f[i] + c[i]) % b \in 0 .. b - 1
    BY <1>2, DivMod
  <1>4. u = [i \in 0 .. top |-> IF i = top THEN f[i] + c[i] ELSE (f[i] + c[i]) % b]
    BY DEF Carrying
  <1>5. u \in [0 .. top -> Nat]
    BY <1>2, <1>3, <1>4
  <1>6. u[top] = f[top] + c[top]
    BY <1>4
  <1>7. \A i \in 0 .. top - 1 : i \in 0 .. top /\ i # top
    OBVIOUS
  <1>8. \A i \in 0 .. top - 1 : u[i] = (f[i] + c[i]) % b
    BY <1>4, <1>7
  <1>9. \A i \in 0 .. top - 1 : u[i] \in 0 .. b - 1
    BY <1>3, <1>7, <1>8
  <1>10. c[top] \in 0 .. k - 1
    BY <1>1
  <1> QED
    BY <1>5, <1>6, <1>8, <1>9, <1>10

\* After the first pass of carries every limb but the top one is below b, and
\* the top one below 2 e - 1.
LEMMA FirstIsTidy ==
    ASSUME NEW top, NEW b, NEW e, NEW word, NEW max, NEW low, NEW q, NEW d,
           Shape(top, b, e, word, max, low, q, d),
           NEW m \in 1 .. max, NEW f \in [0 .. top -> Nat], f[top] <= e - 1,
           NEW c, NEW u, Carrying(c, u, f, top, b, 2 * m)
    PROVE  Tidy(u, top, b, e)
  <1>1. /\ top \in Nat /\ top > 0 /\ b \in Nat \ {0} /\ max \in Nat
        /\ e \in Nat /\ 2 * max <= e
    BY ShapeNumbers
  <1>2. PICK k \in Nat \ {0} : k = 2 * m /\ k <= e
    BY <1>1
  <1>3. Carrying(c, u, f, top, b, k)
    BY <1>2
  <1>4. /\ u \in [0 .. top -> Nat] /\ u[top] = f[top] + c[top] /\ c[top] \in 0 .. k - 1
        /\ \A i \in 0 .. top - 1 : u[i] = (f[i] + c[i]) % b /\ u[i] \in 0 .. b - 1
    BY <1>1, <1>3, CarriedLimbs
  <1>5. f[top] \in 0 .. e - 1
    BY <1>1
  <1>6. u[top] <= 2 * e - 2
    BY <1>1, <1>2, <1>4, <1>5
  <1> QED
    BY <1>4, <1>6 DEF Tidy

\* Where the top limb does not exceed its width nothing changes.
LEMMA NoFold ==
    ASSUME NEW top, NEW b, NEW e, NEW word, NEW max, NEW low, NEW q, NEW d,
           Shape(top, b, e, word, max, low, q, d), NEW l, Canonical(l, top, b, e)
    PROVE  l[top] \div e = 0 /\ [l EXCEPT ![top] = @ % e] = l
  <1>1. top \in Nat /\ e \in Nat \ {0} /\ l \in [0 .. top -> Nat] /\ l[top] <= e - 1
    BY ShapeNumbers DEF Canonical
  <1>2. l[top] \in Nat /\ l[top] < e
    BY <1>1
  <1>3. l[top] \div e = 0 /\ l[top] % e = l[top]
    BY <1>1, <1>2, SmallMod
  <1> QED
    BY <1>1, <1>3

\* Folding nothing changes no limb.
LEMMA AddsNothing ==
    ASSUME NEW top \in Nat, NEW d \in [0 .. top -> Nat], NEW l \in [0 .. top -> Nat],
           NEW f, Adds(f, l, 0, top, d)
    PROVE  f = l
  <1>1. ASSUME NEW i \in 0 .. top PROVE f[i] = l[i]
    <2>1. CASE i = top
      BY <2>1 DEF Adds
    <2>2. CASE i # top
      <3>1. i \in 0 .. top - 1
        BY <2>2
      <3>2. f[i] = l[i] + 0 * d[i] /\ l[i] \in Nat /\ d[i] \in Nat
        BY <3>1 DEF Adds
      <3> QED
        BY <3>2
    <2> QED
      BY <2>1, <2>2
  <1>2. f \in [0 .. top -> Nat]
    BY DEF Adds
  <1> QED
    BY <1>1, <1>2

\* Limbs that are carried already leave room for a carry.
LEMMA CanonicalRoom ==
    ASSUME NEW top, NEW b, NEW e, NEW word, NEW max, NEW low, NEW q, NEW d,
           Shape(top, b, e, word, max, low, q, d), NEW l, Canonical(l, top, b, e)
    PROVE  CarryRoom(l, top, b, 1, word)
  <1>1. /\ top \in Nat /\ top >= 4 /\ b \in Nat /\ b >= 2 /\ e \in Nat /\ e <= b
        /\ word \in Nat /\ 2 * b <= word
    BY ShapeNumbers
  <1>2. /\ l \in [0 .. top -> Nat] /\ l[top] <= e - 1
        /\ \A i \in 0 .. top - 1 : l[i] <= b - 1
    BY DEF Canonical
  <1>3. b * 1 = b
    BY <1>1
  <1>4. b <= word
    BY <1>1
  <1>5. \A i \in 0 .. top : l[i] \in Nat
    BY <1>2
  <1>6. l[0] < b
    <2>1. 0 \in 0 .. top /\ 0 \in 0 .. top - 1
      BY <1>1
    <2> QED
      BY <1>1, <1>2, <1>5, <2>1
  <1>7. \A i \in 1 .. top - 1 : l[i] + 1 - 1 < b
    <2>1. \A i \in 1 .. top - 1 : i \in 0 .. top /\ i \in 0 .. top - 1
      BY <1>1
    <2> QED
      BY <1>1, <1>2, <1>5, <2>1
  <1>8. l[top] + 1 - 1 < word
    <2>1. top \in 0 .. top
      BY <1>1
    <2> QED
      BY <1>1, <1>2, <1>5, <2>1
  <1> QED
    BY <1>3, <1>4, <1>6, <1>7, <1>8 DEF CarryRoom

\* A pass of carries leaves limbs that are carried already.
LEMMA CanonicalStays ==
    ASSUME NEW top, NEW b, NEW e, NEW word, NEW max, NEW low, NEW q, NEW d,
           Shape(top, b, e, word, max, low, q, d), NEW l, Canonical(l, top, b, e),
           NEW c, NEW u, Carrying(c, u, l, top, b, 1)
    PROVE  u = l
  <1>1. /\ top \in Nat /\ top > 0 /\ b \in Nat \ {0}
    BY ShapeNumbers
  <1>2. /\ l \in [0 .. top -> Nat]
        /\ \A i \in 0 .. top - 1 : l[i] <= b - 1
    BY DEF Canonical
  <1>3. /\ u \in [0 .. top -> Nat] /\ u[top] = l[top] + c[top] /\ c[top] \in 0 .. 1 - 1
        /\ \A i \in 0 .. top - 1 : u[i] = (l[i] + c[i]) % b /\ u[i] \in 0 .. b - 1
    <2>1. 1 \in Nat \ {0}
      OBVIOUS
    <2> QED
      BY <1>1, <1>2, <2>1, CarriedLimbs, Zenon
  <1>4. \A i \in 0 .. top : c[i] = 0 /\ l[i] \in Nat
    <2>1. c \in [0 .. top -> 0 .. 1 - 1]
      BY DEF Carrying
    <2> QED
      BY <1>2, <2>1
  <1>5. ASSUME NEW i \in 0 .. top PROVE u[i] = l[i]
    <2>1. CASE i = top
      BY <1>3, <1>4, <2>1
    <2>2. CASE i # top
      <3>1. i \in 0 .. top - 1
        BY <1>1, <2>2
      <3>2. l[i] + c[i] = l[i] /\ l[i] \in Nat /\ l[i] < b
        BY <1>1, <1>2, <1>4, <3>1
      <3>3. l[i] % b = l[i]
        BY <1>1, <3>2, SmallMod
      <3> QED
        BY <1>3, <3>1, <3>2, <3>3
    <2> QED
      BY <2>1, <2>2
  <1>6. u \in [0 .. top -> Nat] /\ l \in [0 .. top -> Nat]
    BY <1>2, <1>3
  <1> QED
    BY <1>1, <1>5, <1>6, SameLimbs

\* The second pass adds at most one fold.
LEMMA SecondRoom ==
    ASSUME NEW top, NEW b, NEW e, NEW word, NEW max, NEW low, NEW q, NEW d,
           Shape(top, b, e, word, max, low, q, d), NEW l, Tidy(l, top, b, e),
           NEW x \in 0 .. 1, NEW f, Adds(f, l, x, top, d)
    PROVE  CarryRoom(f, top, b, 2, word)
  <1>1. /\ top \in Nat /\ top >= 4 /\ b \in Nat /\ b >= 2 /\ e \in Nat /\ e <= b
        /\ word \in Nat /\ 2 * b <= word
        /\ \A i \in 0 .. top : q[i] \in Nat /\ d[i] \in Nat
    BY ShapeNumbers
  <1>2. /\ \A i \in 0 .. top : l[i] \in Nat
        /\ l[top] <= 2 * e - 2
        /\ \A i \in 0 .. top - 1 : l[i] <= b - 1
    BY DEF Tidy
  <1>3. b * 2 = 2 * b
    BY <1>1
  <1>4. \A i \in 0 .. top - 1 : f[i] <= l[i] + d[i]
    <2>1. ASSUME NEW i \in 0 .. top - 1 PROVE f[i] <= l[i] + d[i]
      <3>1. PICK y \in Nat, z \in Nat : y = l[i] /\ z = d[i]
        BY <1>1, <1>2
      <3>2. f[i] = y + x * z
        BY <3>1 DEF Adds
      <3>3. x * z <= z /\ x * z \in Nat
        <4>1. CASE x = 0
          BY <4>1
        <4>2. CASE x = 1
          BY <4>2
        <4> QED
          BY <4>1, <4>2
      <3> DEFINE xz == x * z
      <3> HIDE DEF xz
      <3>4. f[i] = y + xz /\ xz <= z /\ xz \in Nat
        BY <3>2, <3>3 DEF xz
      <3> QED
        BY <3>1, <3>4
    <2> QED
      BY <2>1
  <1>5. f \in [0 .. top -> Nat] /\ f[top] = l[top]
    BY DEF Adds
  <1>6. f[0] < 2 * b
    <2>1. 0 \in 0 .. top - 1 /\ 0 \in 0 .. top
      BY <1>1
    <2>2. q[0] + d[0] = b /\ d[0] >= 1 /\ 2 * d[0] <= b
      BY DEF Shape
    <2>3. f[0] \in Nat /\ l[0] \in Nat /\ d[0] \in Nat /\ l[0] <= b - 1 /\ f[0] <= l[0] + d[0]
      BY <1>1, <1>2, <1>4, <1>5, <2>1
    <2> QED
      BY <1>1, <2>2, <2>3
  <1>7. ASSUME NEW i \in 1 .. top - 1 PROVE f[i] + 2 - 1 < 2 * b
    <2>1. i \in 0 .. top - 1 /\ i \in 0 .. top
      BY <1>1
    <2>2. 2 * d[i] <= b - 1
      BY DEF Shape
    <2>3. f[i] \in Nat /\ l[i] \in Nat /\ d[i] \in Nat /\ l[i] <= b - 1 /\ f[i] <= l[i] + d[i]
      BY <1>1, <1>2, <1>4, <1>5, <2>1
    <2> QED
      BY <1>1, <2>2, <2>3
  <1>8. f[top] + 2 - 1 < word
    <2>1. top \in 0 .. top
      BY <1>1
    <2>2. l[top] \in Nat
      BY <1>2, <2>1
    <2> QED
      BY <1>1, <1>2, <1>5, <2>2
  <1> QED
    BY <1>1, <1>3, <1>6, <1>7, <1>8 DEF CarryRoom

\* Masking the top limb leaves carried limbs.
LEMMA LastIsCanonical ==
    ASSUME NEW top \in Nat, top > 0, NEW b \in Nat \ {0}, NEW e \in Nat \ {0},
           NEW u \in [0 .. top -> Nat], \A i \in 0 .. top - 1 : u[i] <= b - 1
    PROVE  /\ Canonical([u EXCEPT ![top] = @ % e], top, b, e)
           /\ [u EXCEPT ![top] = @ % e][top] = u[top] % e
           /\ \A i \in 0 .. top - 1 : [u EXCEPT ![top] = @ % e][i] = u[i]
  <1> DEFINE v == [u EXCEPT ![top] = @ % e]
  <1>1. top \in 0 .. top /\ u[top] \in Nat
    OBVIOUS
  <1>2. (u[top] % e) \in 0 .. e - 1
    BY <1>1, DivMod
  <1>3. v[top] = u[top] % e
    BY <1>1
  <1>4. \A i \in 0 .. top - 1 : i \in 0 .. top /\ i # top
    OBVIOUS
  <1>5. \A i \in 0 .. top - 1 : v[i] = u[i]
    BY <1>4
  <1>6. (u[top] % e) \in Nat
    BY <1>2
  <1>7. v \in [0 .. top -> Nat]
    BY <1>6
  <1> HIDE DEF v
  <1>8. v[top] <= e - 1
    BY <1>2, <1>3
  <1>9. Canonical(v, top, b, e)
    BY <1>5, <1>7, <1>8 DEF Canonical
  <1> QED
    BY <1>3, <1>5, <1>9 DEF v

\* What was at least p when it was folded is below it: its limbs from `low' on
\* are not all full.
LEMMA FullStops ==
    ASSUME NEW top, NEW b, NEW e, NEW word, NEW max, NEW low, NEW q, NEW d,
           Shape(top, b, e, word, max, low, q, d), NEW l, Tidy(l, top, b, e),
           NEW f, Adds(f, l, 1, top, d), NEW c, NEW u, Carrying(c, u, f, top, b, 2),
           \A i \in low .. top - 1 : d[i] = 0,
           \/ l[top] >= e
           \/ (\A i \in low .. top : l[i] = q[i]) /\ c[low] >= 1
    PROVE  \E i \in low .. top : [u EXCEPT ![top] = @ % e][i] # q[i]
  <1> DEFINE v == [u EXCEPT ![top] = @ % e]
  <1> SUFFICES \E i \in low .. top : v[i] # q[i]
    OBVIOUS
  <1>1. /\ top \in Nat /\ top > 0 /\ top >= 4 /\ b \in Nat \ {0} /\ b >= 2
        /\ e \in Nat \ {0} /\ e >= 2 /\ low \in 1 .. 2 /\ q[top] = e - 1
        /\ \A i \in 0 .. top : q[i] \in Nat /\ d[i] \in Nat
    BY ShapeNumbers
  <1>2. f \in [0 .. top -> Nat] /\ f[top] = l[top]
    BY DEF Adds
  <1>3. /\ u \in [0 .. top -> Nat] /\ u[top] = f[top] + c[top]
        /\ \A i \in 0 .. top - 1 : u[i] = (f[i] + c[i]) % b /\ u[i] \in 0 .. b - 1
    <2>1. 2 \in Nat \ {0}
      OBVIOUS
    <2>2. /\ u \in [0 .. top -> Nat] /\ u[top] = f[top] + c[top] /\ c[top] \in 0 .. 2 - 1
          /\ \A i \in 0 .. top - 1 : u[i] = (f[i] + c[i]) % b /\ u[i] \in 0 .. b - 1
      BY <1>1, <1>2, <2>1, CarriedLimbs
    <2> QED
      BY <2>2
  <1>4. /\ v[top] = u[top] % e
        /\ \A i \in 0 .. top - 1 : v[i] = u[i]
    <2>1. \A i \in 0 .. top - 1 : u[i] <= b - 1
      BY <1>1, <1>3
    <2> QED
      BY <1>1, <1>3, <2>1, LastIsCanonical
  <1> HIDE DEF v
  <1>5. c \in [0 .. top -> 0 .. 1] /\ \A i \in 0 .. top - 1 : c[i + 1] = (f[i] + c[i]) \div b
    BY DEF Carrying
  <1>6. \A i \in low .. top - 1 : f[i] = l[i] /\ l[i] \in 0 .. b - 1 /\ q[i] = b - 1
    <2>1. \A i \in low .. top - 1 : i \in 0 .. top - 1 /\ i \in 0 .. top
      BY <1>1
    <2>2. \A i \in low .. top - 1 : l[i] \in Nat /\ l[i] <= b - 1
      BY <2>1 DEF Tidy
    <2>3. \A i \in low .. top - 1 : f[i] = l[i] + 1 * 0
      BY <2>1 DEF Adds
    <2>4. \A i \in low .. top - 1 : q[i] = b - 1
      BY DEF Shape
    <2> QED
      BY <1>1, <2>2, <2>3, <2>4
  <1>7. \A i \in 0 .. top : c[i] \in 0 .. 1
    BY <1>5
  \* A carry out of a limb leaves it at zero.
  <1>8. ASSUME NEW i \in low .. top - 1, (f[i] + c[i]) \div b >= 1
        PROVE  v[i] # q[i]
    <2>1. i \in 0 .. top - 1 /\ i \in 0 .. top
      BY <1>1
    <2>2. PICK y \in 0 .. b - 1, z \in 0 .. 1 : y = f[i] /\ z = c[i]
      BY <1>6, <1>7, <2>1
    <2>3. y + z >= b
      <3>1. ASSUME y + z < b PROVE FALSE
        <4>0. y + z \in Nat
          BY <1>1
        <4>1. (y + z) \div b = 0
          BY <1>1, <3>1, <4>0, SmallMod
        <4> QED
          BY <1>8, <2>2, <4>1
      <3> QED
        BY <1>1, <3>1
    <2>4. y + z = b
      BY <1>1, <2>3
    <2>5. b % b = 0
      <3>1. b * 1 + 0 = b /\ 0 \in 0 .. b - 1
        BY <1>1
      <3> QED
        BY <1>1, <3>1, DivUnique
    <2>6. v[i] = 0
      BY <1>3, <1>4, <2>1, <2>2, <2>4, <2>5
    <2>7. q[i] = b - 1
      BY <1>6
    <2> QED
      BY <1>1, <2>6, <2>7
  <1>9. CASE l[top] >= e
    <2>1. top \in 0 .. top /\ top - 1 \in 0 .. top - 1 /\ top - 1 \in low .. top - 1
          /\ (top - 1) + 1 = top /\ top \in low .. top
      BY <1>1
    <2>2. PICK y \in Nat : y = l[top] /\ y <= 2 * e - 2 /\ y >= e
      BY <1>9, <2>1 DEF Tidy
    <2>3. PICK z \in 0 .. 1 : z = c[top]
      BY <1>7, <2>1
    <2>4. u[top] = y + z
      BY <1>2, <1>3, <2>2, <2>3
    <2>5. (y + z) % e = y + z - e
      <3>1. y + z - e \in 0 .. e - 1 /\ e * 1 + (y + z - e) = y + z
        BY <1>1, <2>2
      <3>2. (e * 1 + (y + z - e)) % e = y + z - e
        BY <1>1, <3>1, DivUnique
      <3> QED
        BY <3>1, <3>2
    <2>6. CASE v[top] # q[top]
      BY <2>1, <2>6
    <2>7. CASE v[top] = q[top]
      <3>1. z = 1
        BY <1>1, <1>4, <2>2, <2>4, <2>5, <2>7
      <3>2. (f[top - 1] + c[top - 1]) \div b >= 1
        <4>1. PICK j \in 0 .. top - 1 : j = top - 1 /\ j + 1 = top
          BY <2>1
        <4>2. c[j + 1] = (f[j] + c[j]) \div b
          BY <1>5
        <4>3. c[j + 1] = 1
          BY <2>3, <3>1, <4>1
        <4>4. (f[j] + c[j]) \div b >= 1
          BY <4>2, <4>3
        <4> QED
          BY <4>1, <4>4
      <3>3. v[top - 1] # q[top - 1]
        BY <1>8, <2>1, <3>2
      <3>4. top - 1 \in low .. top
        BY <1>1
      <3> QED
        BY <3>3, <3>4
    <2> QED
      BY <2>6, <2>7
  <1>10. CASE (\A i \in low .. top : l[i] = q[i]) /\ c[low] >= 1
    <2>1. low \in low .. top - 1 /\ low \in low .. top /\ low \in 0 .. top
      BY <1>1
    <2>2. f[low] = b - 1 /\ c[low] = 1
      BY <1>6, <1>7, <1>10, <2>1
    <2>3. (f[low] + c[low]) \div b = 1
      <3>1. b * 1 + 0 = b /\ 0 \in 0 .. b - 1 /\ f[low] + c[low] = b
        BY <1>1, <2>2
      <3> QED
        BY <1>1, <3>1, DivUnique
    <2> QED
      BY <1>8, <2>1, <2>3
  <1> QED
    BY <1>9, <1>10

-----------------------------------------------------------------------------
(* Numbers cut into bits.                                                  *)

\* s[j] is the number of the bits below j of r.
IsBitSum(s, r, v) ==
    s = [j \in 0 .. v |-> IF j = 0 THEN 0 ELSE s[j - 1] + r[j - 1] * 2^(j - 1)]

BitSum(s, r, v) ==
    /\ s \in [0 .. v -> Nat] /\ s[0] = 0
    /\ \A j \in 0 .. v - 1 : s[j + 1] = s[j] + r[j] * 2^j

\* The partial sums of the bits of a number exist.
LEMMA BitSumsExist ==
    ASSUME NEW v \in Nat, PowersOfTwo(v), NEW r \in [0 .. v - 1 -> 0 .. 1]
    PROVE  \E s : s \in [0 .. v -> Nat] /\ IsBitSum(s, r, v)
  <1> DEFINE a == [j \in 0 .. v - 1 |-> r[j] * 2^j]
  <1>1. ASSUME NEW j \in 0 .. v - 1 PROVE a[j] \in Nat /\ a[j] = r[j] * 2^j
    <2>1. j \in 0 .. v
      OBVIOUS
    <2>2. 2^j \in Nat
      BY <2>1 DEF PowersOfTwo
    <2>3. r[j] \in Nat
      OBVIOUS
    <2>4. r[j] * 2^j \in Nat
      BY <2>2, <2>3, TimesNat
    <2> QED
      BY <2>4
  <1> HIDE DEF a
  <1> DEFINE G == [j \in 1 .. v |-> [x \in Nat |-> x + a[j - 1]]]
  <1>2. \A j \in 1 .. v : j - 1 \in 0 .. v - 1
    OBVIOUS
  <1>3. ASSUME NEW j \in 1 .. v, NEW x \in Nat PROVE x + a[j - 1] \in Nat
    <2>1. a[j - 1] \in Nat
      BY <1>1, <1>2
    <2> QED
      BY <2>1
  <1>4. G \in [1 .. v -> [Nat -> Nat]]
    BY <1>3
  <1> HIDE DEF G
  <1>5. PICK s : Runs(s, v, Nat, 0, G)
    BY <1>4, Recursion
  <1>6. s \in [0 .. v -> Nat] /\ s[0] = 0
    BY <1>5 DEF Runs
  <1>7. ASSUME NEW j \in 0 .. v
        PROVE  s[j] = IF j = 0 THEN 0 ELSE s[j - 1] + r[j - 1] * 2^(j - 1)
    <2>1. CASE j = 0
      BY <1>6, <2>1
    <2>2. CASE j # 0
      <3>1. j \in 1 .. v /\ j - 1 \in 0 .. v /\ j - 1 \in 0 .. v - 1
        BY <2>2
      <3>2. s[j] = G[j][s[j - 1]] /\ s[j - 1] \in Nat
        BY <1>5, <1>6, <3>1 DEF Runs
      <3>3. s[j] = s[j - 1] + a[j - 1]
        BY <3>1, <3>2 DEF G
      <3> QED
        BY <1>1, <2>2, <3>1, <3>3
    <2> QED
      BY <2>1, <2>2
  <1>8. IsBitSum(s, r, v)
    BY <1>6, <1>7 DEF IsBitSum
  <1> QED
    BY <1>6, <1>8

\* OfBits is the last of the partial sums.
LEMMA OfBitsMeans ==
    ASSUME NEW v \in Nat, PowersOfTwo(v), NEW r \in [0 .. v - 1 -> 0 .. 1]
    PROVE  \E s : BitSum(s, r, v) /\ OfBits(r, v) = s[v]
  <1> DEFINE s == CHOOSE s : IsBitSum(s, r, v)
  <1>1. OfBits(r, v) = s[v]
    BY DEF OfBits, IsBitSum
  <1>2. PICK z : z \in [0 .. v -> Nat] /\ IsBitSum(z, r, v)
    BY BitSumsExist
  <1>3. IsBitSum(s, r, v)
    BY <1>2
  <1> HIDE DEF s
  <1>4. s = [j \in 0 .. v |-> s[j]] /\ s[0] = 0
    BY <1>3 DEF IsBitSum
  <1>5. ASSUME NEW j \in 0 .. v - 1 PROVE s[j + 1] = s[j] + r[j] * 2^j
    <2>1. j + 1 \in 0 .. v /\ j + 1 # 0 /\ (j + 1) - 1 = j
      OBVIOUS
    <2>2. s[j + 1] = s[(j + 1) - 1] + r[(j + 1) - 1] * 2^((j + 1) - 1)
      BY <1>3, <2>1 DEF IsBitSum
    <2> QED
      BY <2>1, <2>2
  <1> DEFINE Y == {j \in Nat : j <= v => s[j] \in Nat}
  <1>6. 0 \in Y
    BY <1>4
  <1>7. ASSUME NEW j \in Nat, j \in Y PROVE j + 1 \in Y
    <2> SUFFICES ASSUME j + 1 <= v PROVE s[j + 1] \in Nat
      OBVIOUS
    <2>1. j \in 0 .. v /\ j \in 0 .. v - 1 /\ s[j] \in Nat
      BY <1>7
    <2>2. r[j] \in Nat /\ 2^j \in Nat
      BY <2>1 DEF PowersOfTwo
    <2>3. r[j] * 2^j \in Nat
      BY <2>2, TimesNat
    <2>4. s[j + 1] = s[j] + r[j] * 2^j
      BY <1>5, <2>1
    <2> HIDE DEF Y
    <2> DEFINE x == r[j] * 2^j
    <2>5. x \in Nat /\ s[j + 1] = s[j] + x
      BY <2>3, <2>4
    <2> HIDE DEF x
    <2> QED
      BY <2>1, <2>5
  <1> HIDE DEF Y
  <1>8. \A j \in Nat : j \in Y
    BY <1>6, <1>7, Induction
  <1>9. \A j \in 0 .. v : s[j] \in Nat
    BY <1>8 DEF Y
  <1>10. s \in [0 .. v -> Nat]
    BY <1>4, <1>9
  <1> QED
    BY <1>1, <1>4, <1>5, <1>10 DEF BitSum

\* The power of two of a bit, and of the next one.
LEMMA NextPower ==
    ASSUME NEW v, NEW j \in Nat, j <= v, v \in Nat, PowersOfTwo(v)
    PROVE  2^j \in Nat \ {0} /\ 2^(j + 1) = 2 * 2^j
  <1>1. j \in 0 .. v
    OBVIOUS
  <1> QED
    BY <1>1 DEF PowersOfTwo

\* The bits from h on are zero: the number is below 2^h.
LEMMA BitsBelow ==
    ASSUME NEW v \in Nat, PowersOfTwo(v), NEW r \in [0 .. v - 1 -> 0 .. 1],
           NEW h \in 0 .. v, \A j \in h .. v - 1 : r[j] = 0
    PROVE  OfBits(r, v) \in 0 .. 2^h - 1
  <1>1. PICK s : BitSum(s, r, v) /\ OfBits(r, v) = s[v]
    BY OfBitsMeans
  <1>2. s \in [0 .. v -> Nat] /\ s[0] = 0
    BY <1>1 DEF BitSum
  <1>3. \A j \in 0 .. v - 1 : s[j + 1] = s[j] + r[j] * 2^j
    BY <1>1 DEF BitSum
  <1>4. \A j \in 0 .. v : s[j] \in Nat
    BY <1>2
  <1> DEFINE Y == {j \in Nat : j <= v => s[j] < 2^j /\ (j >= h => s[j] < 2^h)}
  <1>5. 0 \in Y
    <2>1. 2^0 = 1
      OBVIOUS
    <2>2. 0 >= h => h = 0
      OBVIOUS
    <2>3. s[0] < 2^0
      BY <1>2, <2>1
    <2>4. 0 >= h => s[0] < 2^h
      BY <2>2, <2>3
    <2> QED
      BY <2>3, <2>4
  <1>6. ASSUME NEW j \in Nat, j \in Y PROVE j + 1 \in Y
    <2> SUFFICES ASSUME j + 1 <= v
                 PROVE  s[j + 1] < 2^(j + 1) /\ (j + 1 >= h => s[j + 1] < 2^h)
      OBVIOUS
    <2>1. j \in 0 .. v - 1 /\ j \in 0 .. v /\ j <= v
      OBVIOUS
    <2>2. s[j] < 2^j /\ (j >= h => s[j] < 2^h)
      BY <1>6, <2>1
    <2> HIDE DEF Y
    <2>3. PICK x \in Nat : x = 2^j /\ 2^(j + 1) = 2 * x
      BY <2>1, NextPower
    <2>4. PICK y \in Nat : y = s[j]
      BY <1>4, <2>1
    <2>5. r[j] \in 0 .. 1
      BY <2>1
    <2>6. s[j + 1] = y + r[j] * x
      BY <1>3, <2>1, <2>3, <2>4
    <2>7. CASE r[j] = 0
      <3>1. s[j + 1] = y
        BY <2>3, <2>4, <2>6, <2>7
      <3>2. s[j + 1] < 2 * x
        BY <2>2, <2>3, <2>4, <3>1
      <3>3. CASE j >= h
        BY <2>2, <2>3, <2>4, <3>1, <3>2, <3>3
      <3>4. CASE j < h
        <4>1. j + 1 >= h => j + 1 = h
          BY <3>4
        <4> QED
          BY <2>3, <3>2, <4>1
      <3> QED
        BY <3>3, <3>4
    <2>8. CASE r[j] = 1
      <3>1. s[j + 1] = y + x
        BY <2>3, <2>4, <2>6, <2>8
      <3>2. s[j + 1] < 2 * x
        BY <2>2, <2>3, <2>4, <3>1
      <3>3. j < h
        <4>1. ASSUME j >= h PROVE FALSE
          <5>1. j \in h .. v - 1
            BY <2>1, <4>1
          <5> QED
            BY <2>8, <5>1
        <4> QED
          BY <4>1
      <3>4. j + 1 >= h => j + 1 = h
        BY <3>3
      <3> QED
        BY <2>3, <3>2, <3>4
    <2> QED
      BY <2>5, <2>7, <2>8
  <1> HIDE DEF Y
  <1>7. \A j \in Nat : j \in Y
    BY <1>5, <1>6, Induction
  <1>8. s[v] < 2^h /\ s[v] \in Nat /\ 2^h \in Nat
    <2>1. v <= v /\ v >= h /\ h <= v /\ h \in Nat /\ v \in 0 .. v
      OBVIOUS
    <2>2. s[v] < 2^h
      BY <1>7, <2>1 DEF Y
    <2>3. 2^h \in Nat
      BY <2>1, NextPower
    <2> QED
      BY <1>4, <2>1, <2>2, <2>3
  <1> QED
    BY <1>1, <1>8

\* Bit j of the number of the bits r is r[j].
LEMMA BitOfBits ==
    ASSUME NEW v \in Nat, PowersOfTwo(v), NEW r \in [0 .. v - 1 -> 0 .. 1],
           NEW j \in 0 .. v - 1
    PROVE  (OfBits(r, v) \div 2^j) % 2 = r[j]
  <1>1. PICK s : BitSum(s, r, v) /\ OfBits(r, v) = s[v]
    BY OfBitsMeans
  <1>2. s \in [0 .. v -> Nat] /\ s[0] = 0
    BY <1>1 DEF BitSum
  <1>3. \A i \in 0 .. v - 1 : s[i + 1] = s[i] + r[i] * 2^i
    BY <1>1 DEF BitSum
  <1>4. \A i \in 0 .. v : s[i] \in Nat
    BY <1>2
  <1>5. j \in Nat /\ j \in 0 .. v /\ j <= v /\ j + 1 <= v
    OBVIOUS
  <1>6. PICK x \in Nat \ {0} : x = 2^j /\ 2^(j + 1) = 2 * x
    BY <1>5, NextPower
  \* What is above bit j is a multiple of 2 * 2^j.
  <1> DEFINE Up(i) == \E a \in Nat, k \in Nat :
                         2^(j + 1 + i) = (2 * x) * k /\ s[j + 1 + i] = s[j + 1] + (2 * x) * a
             Y == {i \in Nat : j + 1 + i <= v => Up(i)}
  <1>7. 0 \in Y
    <2>1. j + 1 + 0 = j + 1 /\ j + 1 \in 0 .. v
      BY <1>5
    <2>2. s[j + 1] \in Nat
      BY <1>4, <2>1
    <2>3. 2^(j + 1) = (2 * x) * 1 /\ s[j + 1] = s[j + 1] + (2 * x) * 0
      BY <1>6, <2>2
    <2> QED
      BY <2>1, <2>3
  <1>8. ASSUME NEW i \in Nat, i \in Y PROVE i + 1 \in Y
    <2> SUFFICES ASSUME j + 1 + (i + 1) <= v PROVE Up(i + 1)
      OBVIOUS
    <2>1. j + 1 + i <= v
      BY <1>5
    <2>2. PICK a \in Nat, k \in Nat :
               2^(j + 1 + i) = (2 * x) * k /\ s[j + 1 + i] = s[j + 1] + (2 * x) * a
      BY <1>8, <2>1
    <2> HIDE DEF Y
    <2>3. PICK h \in Nat : h = j + 1 + i
      BY <1>5
    <2>4. h \in 0 .. v - 1 /\ h \in 0 .. v /\ h <= v /\ h + 1 = j + 1 + (i + 1)
      BY <1>5, <2>3
    <2>5. PICK z \in Nat : z = (2 * x) * k
      BY <1>6, TimesNat
    <2>6. 2^h = z /\ 2^(h + 1) = 2 * z
      BY <2>2, <2>3, <2>4, <2>5, NextPower
    <2>7. r[h] \in 0 .. 1
      BY <2>4
    <2>8. s[h + 1] = s[h] + r[h] * z
      BY <1>3, <2>4, <2>6
    <2>9. PICK y \in Nat : y = s[j + 1]
      BY <1>4, <1>5
    <2>10. s[h] = y + (2 * x) * a
      BY <2>2, <2>3, <2>9
    <2>11. s[h + 1] = y + (2 * x) * (a + r[h] * k) /\ a + r[h] * k \in Nat
      <3>1. CASE r[h] = 0
        <4>1. s[h + 1] = s[h] /\ a + r[h] * k = a
          <5>1. s[h] \in Nat
            BY <1>4, <2>4
          <5> QED
            BY <2>5, <2>8, <3>1, <5>1
        <4> QED
          BY <2>10, <4>1
      <3>2. CASE r[h] = 1
        <4>1. s[h + 1] = y + (2 * x) * a + (2 * x) * k
          BY <2>5, <2>8, <2>10, <3>2
        <4>2. (2 * x) * (a + k) = (2 * x) * a + (2 * x) * k
          OBVIOUS
        <4>3. (2 * x) * a \in Nat /\ (2 * x) * k \in Nat /\ a + 1 * k = a + k
          BY TimesNat
        <4> DEFINE m == (2 * x) * a   o == (2 * x) * k   u == (2 * x) * (a + k)
        <4>4. m \in Nat /\ o \in Nat /\ u = m + o /\ s[h + 1] = y + m + o
          BY <4>1, <4>2, <4>3
        <4> HIDE DEF m, o, u
        <4>5. s[h + 1] = y + u
          BY <4>4
        <4> QED
          BY <3>2, <4>3, <4>5 DEF u
      <3> QED
        BY <2>7, <3>1, <3>2
    <2>12. 2 * z = (2 * x) * (2 * k) /\ 2 * k \in Nat
      BY <2>5
    <2>13. PICK a1 \in Nat : a1 = a + r[h] * k
      BY <2>11
    <2>14. PICK k1 \in Nat : k1 = 2 * k
      BY <2>12
    <2>15. 2^(j + 1 + (i + 1)) = (2 * x) * k1 /\ s[j + 1 + (i + 1)] = s[j + 1] + (2 * x) * a1
      BY <2>4, <2>6, <2>9, <2>11, <2>12, <2>13, <2>14
    <2> QED
      BY <2>15
  <1> HIDE DEF Y
  <1>9. \A i \in Nat : i \in Y
    BY <1>7, <1>8, Induction
  <1> HIDE DEF Up
  <1>10. PICK a \in Nat : s[v] = s[j + 1] + (2 * x) * a
    <2>1. PICK i \in Nat : i = v - (j + 1) /\ j + 1 + i = v
      BY <1>5
    <2>2. Up(i)
      BY <1>9, <2>1 DEF Y
    <2> QED
      BY <2>1, <2>2 DEF Up
  <1>11. s[j] \in 0 .. x - 1
    <2> DEFINE Z == {i \in Nat : i <= v => s[i] < 2^i}
    <2>1. 0 \in Z
      <3>1. 2^0 = 1
        OBVIOUS
      <3> QED
        BY <1>2, <3>1
    <2>2. ASSUME NEW i \in Nat, i \in Z PROVE i + 1 \in Z
      <3> SUFFICES ASSUME i + 1 <= v PROVE s[i + 1] < 2^(i + 1)
        OBVIOUS
      <3>1. i \in 0 .. v - 1 /\ i \in 0 .. v /\ i <= v /\ s[i] < 2^i
        BY <2>2
      <3> HIDE DEF Z
      <3>2. PICK y \in Nat : y = 2^i /\ 2^(i + 1) = 2 * y
        BY <3>1, NextPower
      <3>3. r[i] \in 0 .. 1 /\ s[i] \in Nat /\ s[i + 1] = s[i] + r[i] * y
        BY <1>3, <1>4, <3>1, <3>2
      <3>4. CASE r[i] = 0
        BY <3>1, <3>2, <3>3, <3>4
      <3>5. CASE r[i] = 1
        BY <3>1, <3>2, <3>3, <3>5
      <3> QED
        BY <3>3, <3>4, <3>5
    <2> HIDE DEF Z
    <2>3. \A i \in Nat : i \in Z
      BY <2>1, <2>2, Induction
    <2>4. s[j] < x /\ s[j] \in Nat
      BY <1>4, <1>5, <1>6, <2>3 DEF Z
    <2> QED
      BY <1>6, <2>4
  <1>12. PICK y \in 0 .. x - 1 : y = s[j]
    BY <1>11
  <1>13. PICK t \in 0 .. 1 : t = r[j]
    OBVIOUS
  <1>14. s[v] = x * (2 * a + t) + y
    <2>1. s[j + 1] = y + t * x
      BY <1>3, <1>6, <1>12, <1>13
    <2>2. x * (2 * a + t) = (2 * x) * a + t * x
      <3>1. x * (2 * a + t) = x * (2 * a) + x * t
        OBVIOUS
      <3>2. x * (2 * a) = (2 * x) * a /\ x * t = t * x
        OBVIOUS
      <3> QED
        BY <3>1, <3>2
    <2>3. (2 * x) * a \in Nat /\ t * x \in Nat
      BY TimesNat
    <2> DEFINE m == (2 * x) * a   o == t * x   u == x * (2 * a + t)
    <2>4. m \in Nat /\ o \in Nat /\ u = m + o /\ s[v] = (y + o) + m
      BY <1>10, <2>1, <2>2, <2>3
    <2> HIDE DEF m, o, u
    <2>5. s[v] = u + y
      BY <2>4
    <2> QED
      BY <2>5 DEF u
  <1>15. PICK g \in Nat : g = 2 * a + t
    OBVIOUS
  <1>16. s[v] \div x = g
    BY <1>14, <1>15, DivUnique
  <1>17. g % 2 = t
    <2>1. g = 2 * a + t /\ t \in 0 .. 2 - 1 /\ 2 \in Nat \ {0}
      BY <1>15
    <2> QED
      BY <2>1, DivUnique
  <1> QED
    BY <1>1, <1>6, <1>13, <1>16, <1>17

\* The bits of a number below 2^v are those of the number.
LEMMA NumberOfItsBits ==
    ASSUME NEW v \in Nat, PowersOfTwo(v), NEW x \in Nat, x < 2^v,
           NEW r, r = [j \in 0 .. v - 1 |-> (x \div 2^j) % 2]
    PROVE  r \in [0 .. v - 1 -> 0 .. 1] /\ OfBits(r, v) = x
  <1>1. \A j \in 0 .. v - 1 : r[j] \in 0 .. 1 /\ r[j] = (x \div 2^j) % 2
    <2>1. ASSUME NEW j \in 0 .. v - 1 PROVE (x \div 2^j) % 2 \in 0 .. 1
      <3>1. j \in Nat /\ j <= v
        OBVIOUS
      <3>2. PICK y \in Nat \ {0} : y = 2^j
        BY <3>1, NextPower
      <3>3. PICK z \in Nat : z = x \div y
        BY <3>2, DivMod
      <3>4. z % 2 \in 0 .. 1
        OBVIOUS
      <3> QED
        BY <3>2, <3>3, <3>4
    <2> QED
      BY <2>1
  <1>2. r \in [0 .. v - 1 -> 0 .. 1]
    BY <1>1
  <1>3. PICK s : BitSum(s, r, v) /\ OfBits(r, v) = s[v]
    BY <1>2, OfBitsMeans
  <1>4. s \in [0 .. v -> Nat] /\ s[0] = 0
    BY <1>3 DEF BitSum
  <1>5. \A i \in 0 .. v - 1 : s[i + 1] = s[i] + r[i] * 2^i
    BY <1>3 DEF BitSum
  <1>6. \A i \in 0 .. v : s[i] \in Nat
    BY <1>4
  <1> DEFINE Y == {i \in Nat : i <= v => s[i] = x % 2^i}
  <1>7. 0 \in Y
    <2>1. 2^0 = 1 /\ x % 1 = 0
      OBVIOUS
    <2> QED
      BY <1>4, <2>1
  <1>8. ASSUME NEW i \in Nat, i \in Y PROVE i + 1 \in Y
    <2> SUFFICES ASSUME i + 1 <= v PROVE s[i + 1] = x % 2^(i + 1)
      OBVIOUS
    <2>1. i \in 0 .. v - 1 /\ i \in 0 .. v /\ i <= v /\ s[i] = x % 2^i
      BY <1>8
    <2> HIDE DEF Y
    <2>2. PICK y \in Nat \ {0} : y = 2^i /\ 2^(i + 1) = 2 * y
      BY <2>1, NextPower
    <2>12. PICK k \in Nat : k = x \div y
      BY <2>2, DivMod
    <2>13. PICK m \in 0 .. y - 1 : m = x % y
      BY <2>2, DivMod
    <2>3. k = x \div y /\ m = x % y /\ x = y * k + m
      BY <2>2, <2>12, <2>13, DivMod
    <2>4. PICK h \in Nat, t \in 0 .. 1 : h = k \div 2 /\ t = k % 2 /\ k = 2 * h + t
      OBVIOUS
    <2>5. r[i] = t /\ s[i] = m
      BY <1>1, <2>1, <2>2, <2>3, <2>4
    <2>6. s[i + 1] = m + t * y
      BY <1>5, <2>1, <2>2, <2>5
    <2>7. m + t * y \in 0 .. 2 * y - 1
      <3>1. CASE t = 0
        BY <3>1
      <3>2. CASE t = 1
        BY <3>2
      <3> QED
        BY <3>1, <3>2
    <2>8. x = (2 * y) * h + (m + t * y)
      <3>1. y * (2 * h + t) = y * (2 * h) + y * t /\ y * (2 * h) = (2 * y) * h /\ y * t = t * y
        OBVIOUS
      <3>2. (2 * y) * h \in Nat /\ t * y \in Nat
        BY TimesNat
      <3> DEFINE a == (2 * y) * h   o == t * y   u == y * k
      <3>3. a \in Nat /\ o \in Nat /\ u = a + o /\ x = u + m
        BY <2>3, <2>4, <3>1, <3>2
      <3> HIDE DEF a, o, u
      <3>4. x = a + (m + o)
        BY <3>3
      <3> QED
        BY <3>4 DEF a, o
    <2>9. PICK z \in 0 .. 2 * y - 1 : z = m + t * y
      BY <2>7
    <2>10. 2 * y \in Nat \ {0}
      BY <2>2
    <2>11. ((2 * y) * h + z) % (2 * y) = z
      BY <2>9, <2>10, DivUnique
    <2> QED
      BY <2>2, <2>6, <2>8, <2>9, <2>11
  <1> HIDE DEF Y
  <1>9. \A i \in Nat : i \in Y
    BY <1>7, <1>8, Induction
  <1>10. s[v] = x % 2^v
    BY <1>9 DEF Y
  <1>11. 2^v \in Nat \ {0}
    BY NextPower
  <1>12. x % 2^v = x
    BY <1>11, SmallMod
  <1> QED
    BY <1>2, <1>3, <1>10, <1>12

\* Limbs whose bits are read with LimbBit.
Readable(l, w, bits) ==
    \A i \in 0 .. bits - 1 : LimbBit(l, w, i) \in 0 .. 1

\* `bits' bits are n limbs of width v, of which the last holds h; m words of
\* width w have room for them.
Cut(bits, n, v, h) == bits = v * (n - 1) + h

Covers(m, w, bits) == bits <= m * w

\* The limbs that Regroup writes, the last of `n' holding `h' bits.
LEMMA RegroupedLimbs ==
    ASSUME NEW l, NEW w, NEW bits \in Nat, Readable(l, w, bits),
           NEW n \in Nat, n > 0, NEW v \in Nat, PowersOfTwo(v), NEW h \in 0 .. v,
           Cut(bits, n, v, h)
    PROVE  /\ Regroup(l, w, bits, n, v) \in [0 .. n - 1 -> Nat]
           /\ \A k \in 0 .. n - 1 : Regroup(l, w, bits, n, v)[k] \in 0 .. 2^v - 1
           /\ Regroup(l, w, bits, n, v)[n - 1] \in 0 .. 2^h - 1
  <1> DEFINE cut(k) == [j \in 0 .. v - 1 |->
                           IF k * v + j < bits THEN LimbBit(l, w, k * v + j) ELSE 0]
             g == Regroup(l, w, bits, n, v)
  <1>1. g = [k \in 0 .. n - 1 |-> OfBits(cut(k), v)]
    BY DEF Regroup
  <1>2. ASSUME NEW k \in 0 .. n - 1
        PROVE  /\ cut(k) \in [0 .. v - 1 -> 0 .. 1]
               /\ \A j \in 0 .. v - 1 : k * v + j >= bits => cut(k)[j] = 0
    <2>1. ASSUME NEW j \in 0 .. v - 1
          PROVE  (IF k * v + j < bits THEN LimbBit(l, w, k * v + j) ELSE 0) \in 0 .. 1
      <3>1. k * v \in Nat
        BY TimesNat
      <3>2. PICK i \in Nat : i = k * v + j
        BY <3>1
      <3>3. i < bits => i \in 0 .. bits - 1
        OBVIOUS
      <3> QED
        BY <3>2, <3>3 DEF Readable
    <2>2. ASSUME NEW j \in 0 .. v - 1, k * v + j >= bits
          PROVE  (IF k * v + j < bits THEN LimbBit(l, w, k * v + j) ELSE 0) = 0
      <3>1. k * v \in Nat
        BY TimesNat
      <3>2. PICK i \in Nat : i = k * v + j
        BY <3>1
      <3> QED
        BY <2>2, <3>2
    <2> QED
      BY <2>1, <2>2
  <1> HIDE DEF cut, g
  <1>3. ASSUME NEW k \in 0 .. n - 1 PROVE g[k] \in 0 .. 2^v - 1
    <2>1. v \in 0 .. v /\ \A j \in v .. v - 1 : cut(k)[j] = 0
      OBVIOUS
    <2>2. OfBits(cut(k), v) \in 0 .. 2^v - 1
      BY <1>2, <2>1, BitsBelow
    <2> QED
      BY <1>1, <2>2
  <1>4. g[n - 1] \in 0 .. 2^h - 1
    <2>1. n - 1 \in 0 .. n - 1
      OBVIOUS
    <2>2. ASSUME NEW j \in h .. v - 1 PROVE cut(n - 1)[j] = 0
      <3>1. j \in 0 .. v - 1 /\ (n - 1) * v = v * (n - 1) /\ v * (n - 1) \in Nat
        BY TimesNat
      <3>2. (n - 1) * v + j >= bits
        BY <3>1 DEF Cut
      <3> QED
        BY <1>2, <2>1, <3>1, <3>2
    <2>3. OfBits(cut(n - 1), v) \in 0 .. 2^h - 1
      BY <1>2, <2>1, <2>2, BitsBelow
    <2> QED
      BY <1>1, <2>1, <2>3
  <1>5. g \in [0 .. n - 1 -> Nat]
    BY <1>1, <1>3
  <1> QED
    BY <1>3, <1>4, <1>5 DEF g

\* Powers of two grow with the exponent.
LEMMA PowersGrow ==
    ASSUME NEW v \in Nat, PowersOfTwo(v), NEW i \in Nat, NEW j \in Nat, i <= j, j <= v
    PROVE  2^i <= 2^j
  <1> DEFINE X == {k \in Nat : i + k <= v => 2^i <= 2^(i + k)}
  <1>1. 0 \in X
    <2>0. i <= v
      OBVIOUS
    <2>1. 2^i \in Nat \ {0} /\ 2^(i + 1) = 2 * 2^i
      BY <2>0, NextPower
    <2>2. i + 0 = i
      OBVIOUS
    <2> QED
      BY <2>1, <2>2
  <1>2. ASSUME NEW k \in Nat, k \in X PROVE k + 1 \in X
    <2>1. SUFFICES ASSUME i + (k + 1) <= v PROVE 2^i <= 2^(i + (k + 1))
      OBVIOUS
    <2>2. i + k \in Nat /\ i + k <= v /\ i + (k + 1) = (i + k) + 1 /\ 2^i <= 2^(i + k)
      BY <1>2, <2>1
    <2>3. PICK n : n = i + k
      OBVIOUS
    <2>4. 2^n \in Nat \ {0} /\ 2^(n + 1) = 2 * 2^n /\ 2^i \in Nat
      <3>1. n \in Nat /\ n <= v /\ i <= v
        BY <2>2, <2>3
      <3>2. 2^n \in Nat \ {0} /\ 2^(n + 1) = 2 * 2^n
        BY <3>1, NextPower
      <3>3. 2^i \in Nat \ {0} /\ 2^(i + 1) = 2 * 2^i
        BY <3>1, NextPower
      <3> QED
        BY <3>2, <3>3
    <2>5. PICK a : a = 2^n
      OBVIOUS
    <2>6. a \in Nat /\ 2^(n + 1) = 2 * a /\ 2^i <= a
      BY <2>2, <2>3, <2>4, <2>5
    <2>7. 2^i <= 2^(n + 1)
      BY <2>4, <2>6
    <2> QED
      BY <2>2, <2>3, <2>7
  <1> HIDE DEF X
  <1>3. j - i \in Nat /\ \A k \in Nat : k \in X
    BY <1>1, <1>2, Induction
  <1>4. j - i \in X /\ i + (j - i) = j
    BY <1>3
  <1> QED
    BY <1>4 DEF X

\* A place behind n - 1 whole limbs and the h bits of the last.
LEMMA PastTheEnd ==
    ASSUME NEW x \in Nat, NEW y \in Nat, NEW v \in Nat, NEW h \in Nat, NEW j \in Nat,
           x + v <= y, j < v
    PROVE  x + j < y + h
  OBVIOUS

\* Limbs of width v that are cut into words of width w and put together again
\* are the same limbs, when they are canonical.
LEMMA RegroupBack ==
    ASSUME NEW n \in Nat, n > 0, NEW v \in Nat, v > 0, PowersOfTwo(v),
           NEW h \in 1 .. v, NEW bits \in Nat, Cut(bits, n, v, h),
           NEW w \in Nat, w > 0, PowersOfTwo(w), NEW m \in Nat, Covers(m, w, bits),
           NEW l \in [0 .. n - 1 -> Nat],
           \A i \in 0 .. n - 1 : l[i] < 2^v, l[n - 1] < 2^h
    PROVE  Regroup(Regroup(l, v, bits, m, w), w, bits, n, v) = l
  <1> DEFINE s == Regroup(l, v, bits, m, w)
  \* The place of bit i in the words, and in the limbs.
  <1>1. ASSUME NEW z \in Nat, z > 0, NEW c \in Nat, NEW i \in 0 .. bits - 1, Covers(c, z, bits)
        PROVE  i \div z \in 0 .. c - 1 /\ i % z \in 0 .. z - 1 /\ (i \div z) * z + (i % z) = i
    <2>1. z \in Nat \ {0} /\ i \in Nat
      BY <1>1
    <2>2. i \div z \in Nat /\ i % z \in 0 .. z - 1 /\ i = z * (i \div z) + (i % z)
      BY <2>1, DivMod
    <2>3. c \in Nat \ {0}
      <3>1. ASSUME c = 0 PROVE FALSE
        BY <1>1, <3>1 DEF Covers
      <3> QED
        BY <3>1
    <2>4. z * c = c * z /\ i < z * c
      <3>1. PICK x \in Nat : x = c * z /\ z * c = x
        BY TimesNat
      <3> QED
        BY <1>1, <3>1 DEF Covers
    <2>5. i \div z \in 0 .. c - 1
      BY <2>1, <2>3, <2>4, Quotient
    <2>6. PICK y \in Nat : y = i \div z
      BY <2>2, Zenon
    <2>7. y * z = z * y
      BY <2>6
    <2>8. (i \div z) * z + (i % z) = i
      BY <2>2, <2>6, <2>7
    <2> QED
      BY <2>2, <2>5, <2>8
  <1>2. Covers(n, v, bits)
    <2>1. PICK a \in Nat : a = n - 1
      OBVIOUS
    <2>2. n = a + 1 /\ (a + 1) * v = a * v + 1 * v /\ a * v = v * a
      BY <2>1, Times
    <2>3. v * a \in Nat
      BY TimesNat
    <2> DEFINE y == v * a
    <2>4. y \in Nat /\ n * v = y + v /\ bits = y + h
      BY <2>1, <2>2, <2>3 DEF Cut
    <2> HIDE DEF y
    <2>5. bits <= n * v
      BY <2>4
    <2> QED
      BY <2>5 DEF Covers
  <1>3. \A i \in 0 .. bits - 1 : LimbBit(l, v, i) \in 0 .. 1
    <2>1. ASSUME NEW i \in 0 .. bits - 1 PROVE LimbBit(l, v, i) \in 0 .. 1
      <3>1. i \div v \in 0 .. n - 1 /\ i % v \in 0 .. v - 1
        BY <1>1, <1>2
      <3>2. PICK y \in Nat \ {0} : y = 2^(i % v)
        <4>1. PICK j \in Nat : j = i % v /\ j <= v
          BY <3>1
        <4> QED
          BY <4>1, NextPower
      <3>3. PICK x \in Nat : x = l[i \div v] \div y
        BY <3>1, <3>2, DivMod
      <3>4. x % 2 \in 0 .. 1
        OBVIOUS
      <3> QED
        BY <3>2, <3>3, <3>4 DEF LimbBit
    <2> QED
      BY <2>1
  <1> DEFINE cut(k) == [j \in 0 .. w - 1 |->
                           IF k * w + j < bits THEN LimbBit(l, v, k * w + j) ELSE 0]
  <1>4. s = [k \in 0 .. m - 1 |-> OfBits(cut(k), w)]
    BY DEF Regroup
  <1>5. ASSUME NEW k \in Nat PROVE cut(k) \in [0 .. w - 1 -> 0 .. 1]
    <2>1. ASSUME NEW j \in 0 .. w - 1
          PROVE  (IF k * w + j < bits THEN LimbBit(l, v, k * w + j) ELSE 0) \in 0 .. 1
      <3>1. k * w \in Nat
        BY TimesNat
      <3>2. PICK i \in Nat : i = k * w + j
        BY <3>1
      <3>3. i < bits => i \in 0 .. bits - 1
        OBVIOUS
      <3> QED
        BY <1>3, <3>2, <3>3
    <2> QED
      BY <2>1
  <1>6. \A k \in Nat : \A j \in 0 .. w - 1 :
           k * w + j < bits => cut(k)[j] = LimbBit(l, v, k * w + j)
    OBVIOUS
  <1> HIDE DEF cut, s
  \* Every bit is found again.
  <1>7. ASSUME NEW i \in 0 .. bits - 1 PROVE LimbBit(s, w, i) = LimbBit(l, v, i)
    <2>1. i \div w \in 0 .. m - 1 /\ i % w \in 0 .. w - 1 /\ (i \div w) * w + (i % w) = i
      BY <1>1
    <2>2. PICK k \in 0 .. m - 1 : k = i \div w
      BY <2>1
    <2>3. PICK j \in 0 .. w - 1 : j = i % w
      BY <2>1
    <2>4. k * w + j = i
      BY <2>1, <2>2, <2>3
    <2>5. k \in Nat /\ cut(k) \in [0 .. w - 1 -> 0 .. 1]
      BY <1>5
    <2>6. (OfBits(cut(k), w) \div 2^j) % 2 = cut(k)[j]
      BY <2>5, BitOfBits
    <2>9. i < bits
      OBVIOUS
    <2>7. cut(k)[j] = LimbBit(l, v, i)
      BY <1>6, <2>4, <2>5, <2>9
    <2>8. s[k] = OfBits(cut(k), w)
      BY <1>4
    <2> QED
      BY <2>2, <2>3, <2>6, <2>7, <2>8 DEF LimbBit
  <1> DEFINE back(k) == [j \in 0 .. v - 1 |->
                            IF k * v + j < bits THEN LimbBit(s, w, k * v + j) ELSE 0]
  <1>8. Regroup(s, w, bits, n, v) = [k \in 0 .. n - 1 |-> OfBits(back(k), v)]
    BY DEF Regroup
  <1>9. ASSUME NEW k \in 0 .. n - 1
        PROVE  back(k) = [j \in 0 .. v - 1 |-> (l[k] \div 2^j) % 2]
    <2>1. ASSUME NEW j \in 0 .. v - 1
          PROVE  (IF k * v + j < bits THEN LimbBit(s, w, k * v + j) ELSE 0)
                   = (l[k] \div 2^j) % 2
      <3>1. k * v \in Nat /\ v * k = k * v
        BY TimesNat
      <3>7. PICK a \in Nat : a = k * v
        BY <3>1
      <3>8. PICK i \in Nat : i = a + j
        OBVIOUS
      <3>2. i = k * v + j
        BY <3>7, <3>8
      <3>6. v \in Nat \ {0} /\ k \in Nat /\ i = v * k + j
        BY <3>1, <3>2
      <3>3. i \div v = k /\ i % v = j
        BY <3>6, DivUnique
      <3>4. CASE i < bits
        <4>1. i \in 0 .. bits - 1
          BY <3>4
        <4>2. LimbBit(s, w, i) = LimbBit(l, v, i)
          BY <1>7, <4>1
        <4>3. LimbBit(l, v, i) = (l[k] \div 2^j) % 2
          BY <3>3 DEF LimbBit
        <4> QED
          BY <3>2, <3>4, <4>2, <4>3
      <3>5. CASE i >= bits
        <4>1. k = n - 1
          <5>1. ASSUME k # n - 1 PROVE FALSE
            <6>1. k + 1 <= n - 1 /\ k + 1 \in Nat /\ n - 1 \in Nat
              BY <5>1
            <6>2. (k + 1) * v <= (n - 1) * v /\ (k + 1) * v = k * v + 1 * v
                  /\ (n - 1) * v = v * (n - 1)
              BY <6>1, TimesMonotone, Times
            <6> DEFINE x == k * v   y == v * (n - 1)
            <6>3. x + v <= y /\ x \in Nat /\ y \in Nat /\ i = x + j /\ bits = y + h
              BY <3>1, <3>2, <6>1, <6>2, TimesNat DEF Cut
            <6> HIDE DEF x, y
            <6>4. j < v /\ j \in Nat /\ h \in Nat
              OBVIOUS
            <6>5. v \in Nat /\ x + j < y + h
              BY <6>3, <6>4, PastTheEnd, Zenon
            <6>6. i < bits
              BY <6>3, <6>5, Zenon
            <6> QED
              BY <3>5, <6>6
          <5> QED
            BY <5>1
        <4>2. j >= h
          <5>1. k * v = v * (n - 1)
            BY <3>1, <4>1
          <5> DEFINE y == v * (n - 1)
          <5>2. y \in Nat /\ i = y + j /\ bits = y + h
            BY <3>1, <3>2, <5>1 DEF Cut
          <5> HIDE DEF y
          <5> QED
            BY <3>5, <5>2
        <4>3. l[k] < 2^h /\ l[k] \in Nat
          BY <4>1
        \* a bit above the width of the top limb
        <4>4. l[k] < 2^j /\ 2^j \in Nat \ {0}
          <5>1. h \in Nat /\ 2^h \in Nat /\ h <= j /\ j \in Nat /\ j <= v
            BY <4>2, NextPower
          <5>6. 2^j \in Nat \ {0}
            BY <5>1, NextPower
          <5>7. 2^h <= 2^j
            BY <5>1, PowersGrow
          <5> QED
            BY <4>3, <5>1, <5>6, <5>7
        <4>5. l[k] \div 2^j = 0
          BY <4>3, <4>4, SmallMod
        <4> QED
          BY <3>2, <3>5, <4>5
      <3> QED
        BY <3>4, <3>5
    <2> QED
      BY <2>1
  <1>10. ASSUME NEW k \in 0 .. n - 1 PROVE OfBits(back(k), v) = l[k]
    <2>1. l[k] \in Nat /\ l[k] < 2^v
      OBVIOUS
    <2> HIDE DEF back
    <2> QED
      BY <1>9, <2>1, NumberOfItsBits
  <1> HIDE DEF back
  <1>11. Regroup(s, w, bits, n, v) = l
    BY <1>8, <1>10
  <1> QED
    BY <1>11 DEF s

-----------------------------------------------------------------------------
(* Sums of products.                                                       *)

Total(v, D) == MapThenSumSet(LAMBDA i : v[i], D)

IsTotal(g, v, D) ==
    g = [s \in SUBSET D |->
            IF s = {} THEN 0
            ELSE v[CHOOSE x \in s : TRUE] + g[s \ {CHOOSE x \in s : TRUE}]]

\* A sum over a finite set exists, defined subset by subset.
LEMMA TotalsExist ==
    ASSUME NEW D, IsFiniteSet(D), NEW v \in [D -> Nat]
    PROVE  \E g : g \in [SUBSET D -> Nat] /\ IsTotal(g, v, D)
  <1> DEFINE X == [SUBSET D -> Nat]
             top == Cardinality(D)
             more(h) == [s \in SUBSET D |->
                            IF s = {} THEN 0
                            ELSE v[CHOOSE x \in s : TRUE] + h[s \ {CHOOSE x \in s : TRUE}]]
             G == [k \in 1 .. top |-> [h \in X |-> more(h)]]
             zero == [s \in SUBSET D |-> 0]
  <1>1. top \in Nat
    BY FS_CardinalityType
  <1>2. zero \in X
    OBVIOUS
  <1>3. ASSUME NEW h \in X PROVE more(h) \in X
    <2>1. ASSUME NEW s \in SUBSET D, s # {}
          PROVE  v[CHOOSE x \in s : TRUE] + h[s \ {CHOOSE x \in s : TRUE}] \in Nat
      <3>1. PICK y \in s : y = CHOOSE x \in s : TRUE
        BY <2>1
      <3>2. v[y] \in Nat /\ h[s \ {y}] \in Nat
        OBVIOUS
      <3> QED
        BY <3>1, <3>2
    <2> QED
      BY <2>1
  <1> HIDE DEF X, top, more
  <1>4. G \in [1 .. top -> [X -> X]]
    BY <1>3
  <1> HIDE DEF zero
  <1>5. PICK f : Runs(f, top, X, zero, G)
    BY <1>1, <1>2, <1>4, Recursion
  <1>6. f \in [0 .. top -> X] /\ f[0] = zero
    BY <1>5 DEF Runs
  <1>7. ASSUME NEW k \in 1 .. top PROVE f[k] = more(f[k - 1])
    <2>1. k - 1 \in 0 .. top
      BY <1>1
    <2>2. f[k - 1] \in X /\ f[k] = G[k][f[k - 1]]
      BY <1>5, <1>6, <2>1 DEF Runs
    <2> QED
      BY <2>2
  <1> HIDE DEF G
  <1> DEFINE g == [s \in SUBSET D |-> f[Cardinality(s)][s]]
  <1>8. \A s \in SUBSET D : IsFiniteSet(s) /\ Cardinality(s) \in 0 .. top
    BY <1>1, FS_Subset, FS_CardinalityType DEF top
  <1>9. g \in [SUBSET D -> Nat]
    BY <1>6, <1>8 DEF X
  <1>10. ASSUME NEW s \in SUBSET D
         PROVE  g[s] = IF s = {} THEN 0
                       ELSE v[CHOOSE x \in s : TRUE] + g[s \ {CHOOSE x \in s : TRUE}]
    <2>1. CASE s = {}
      <3>1. Cardinality(s) = 0
        BY <2>1, FS_EmptySet
      <3>2. g[s] = 0
        BY <1>6, <3>1 DEF zero
      <3> QED
        BY <2>1, <3>2
    <2>2. CASE s # {}
      <3>1. PICK y \in s : y = CHOOSE x \in s : TRUE
        BY <2>2
      <3>2. IsFiniteSet(s) /\ s \ {y} \in SUBSET D
        BY <1>8
      <3>3. Cardinality(s \ {y}) = Cardinality(s) - 1
        BY <3>2, FS_RemoveElement
      <3>4. Cardinality(s) \in 0 .. top /\ Cardinality(s \ {y}) \in 0 .. top
        BY <1>8, <3>2
      <3>5. PICK k \in 1 .. top : k = Cardinality(s)
        BY <1>1, <3>3, <3>4
      <3>6. f[k] = more(f[k - 1])
        BY <1>7
      <3>7. f[k][s] = v[y] + f[k - 1][s \ {y}]
        BY <2>2, <3>1, <3>6 DEF more
      <3>8. g[s] = f[k][s] /\ g[s \ {y}] = f[k - 1][s \ {y}]
        BY <3>2, <3>3, <3>5
      <3> HIDE DEF g
      <3> QED
        BY <2>2, <3>1, <3>7, <3>8
    <2> QED
      BY <2>1, <2>2
  <1>11. g = [s \in SUBSET D |-> g[s]]
    OBVIOUS
  <1> HIDE DEF g
  <1>12. IsTotal(g, v, D)
    BY <1>10, <1>11 DEF IsTotal
  <1> QED
    BY <1>9, <1>12

Totals(g, v, D) ==
    /\ g \in [SUBSET D -> Nat] /\ g[{}] = 0
    /\ \A s \in SUBSET D : s # {} => \E x \in s : g[s] = v[x] + g[s \ {x}]

\* Total is the sum over its whole set.
LEMMA TotalMeans ==
    ASSUME NEW D, IsFiniteSet(D), NEW v \in [D -> Nat]
    PROVE  \E g : Totals(g, v, D) /\ Total(v, D) = g[D]
  <1> DEFINE g == CHOOSE g : IsTotal(g, v, D)
  <1>1. Total(v, D) = g[D]
    BY DEF Total, MapThenSumSet, MapThenFoldSet, IsTotal
  <1>2. PICK h : h \in [SUBSET D -> Nat] /\ IsTotal(h, v, D)
    BY TotalsExist
  <1>3. IsTotal(g, v, D)
    BY <1>2
  <1> HIDE DEF g
  <1>4. \A s \in SUBSET D :
           g[s] = IF s = {} THEN 0
                  ELSE v[CHOOSE x \in s : TRUE] + g[s \ {CHOOSE x \in s : TRUE}]
    BY <1>3 DEF IsTotal
  <1>5. g[{}] = 0
    BY <1>4
  <1>6. ASSUME NEW s \in SUBSET D, s # {} PROVE \E x \in s : g[s] = v[x] + g[s \ {x}]
    <2>1. PICK y \in s : y = CHOOSE x \in s : TRUE
      BY <1>6
    <2>2. g[s] = v[y] + g[s \ {y}]
      BY <1>4, <1>6, <2>1
    <2> QED
      BY <2>2
  <1> DEFINE Y == {k \in Nat : \A s \in SUBSET D : Cardinality(s) = k => g[s] \in Nat}
  <1>7. \A s \in SUBSET D : IsFiniteSet(s) /\ Cardinality(s) \in Nat
    BY FS_Subset, FS_CardinalityType
  <1>8. 0 \in Y
    <2>1. \A s \in SUBSET D : Cardinality(s) = 0 => s = {}
      BY <1>7, FS_EmptySet
    <2> QED
      BY <1>5, <2>1
  <1>9. ASSUME NEW k \in Nat, k \in Y PROVE k + 1 \in Y
    <2> SUFFICES ASSUME NEW s \in SUBSET D, Cardinality(s) = k + 1 PROVE g[s] \in Nat
      OBVIOUS
    <2>6. \A r \in SUBSET D : Cardinality(r) = k => g[r] \in Nat
      BY <1>9
    <2> HIDE DEF Y
    <2>7. Cardinality(s) # 0
      OBVIOUS
    <2>1. s # {}
      <3>1. Cardinality({}) = 0
        BY FS_EmptySet
      <3> QED
        BY <2>7, <3>1
    <2>2. PICK x \in s : g[s] = v[x] + g[s \ {x}]
      BY <1>6, <2>1
    <2>3. s \ {x} \in SUBSET D /\ IsFiniteSet(s)
      BY <1>7
    <2>8. Cardinality(s \ {x}) = Cardinality(s) - 1
      BY <2>3, FS_RemoveElement
    <2>4. Cardinality(s \ {x}) = k
      BY <2>8
    <2>5. g[s \ {x}] \in Nat /\ v[x] \in Nat
      BY <2>3, <2>4, <2>6
    <2> QED
      BY <2>2, <2>5
  <1> HIDE DEF Y
  <1>10. \A k \in Nat : k \in Y
    BY <1>8, <1>9, Induction
  <1>11. \A s \in SUBSET D : g[s] \in Nat
    BY <1>7, <1>10 DEF Y
  <1>12. g = [s \in SUBSET D |-> g[s]]
    BY <1>3 DEF IsTotal
  <1>13. g \in [SUBSET D -> Nat]
    BY <1>11, <1>12
  <1> QED
    BY <1>1, <1>5, <1>6, <1>13 DEF Totals

\* A sum is at most the number of its terms times the largest of them.
LEMMA TotalBound ==
    ASSUME NEW D, IsFiniteSet(D), NEW v \in [D -> Nat], NEW m \in Nat,
           \A i \in D : v[i] <= m
    PROVE  Total(v, D) \in Nat /\ Total(v, D) <= Cardinality(D) * m
  <1>9. PICK g : Totals(g, v, D) /\ Total(v, D) = g[D]
    BY TotalMeans
  <1>1. /\ Total(v, D) = g[D] /\ g[{}] = 0 /\ g \in [SUBSET D -> Nat]
        /\ \A s \in SUBSET D : s # {} => \E x \in s : g[s] = v[x] + g[s \ {x}]
    BY <1>9 DEF Totals
  <1> DEFINE Y == {k \in Nat : \A s \in SUBSET D : Cardinality(s) = k => g[s] <= k * m}
  <1>2. \A s \in SUBSET D : IsFiniteSet(s) /\ Cardinality(s) \in Nat
    BY FS_Subset, FS_CardinalityType
  <1>3. 0 \in Y
    <2>1. \A s \in SUBSET D : Cardinality(s) = 0 => s = {}
      BY <1>2, FS_EmptySet
    <2>2. 0 * m = 0 /\ g[{}] <= 0
      BY <1>1
    <2> QED
      BY <2>1, <2>2
  <1>4. ASSUME NEW k \in Nat, k \in Y PROVE k + 1 \in Y
    <2> SUFFICES ASSUME NEW s \in SUBSET D, Cardinality(s) = k + 1
                 PROVE  g[s] <= (k + 1) * m
      OBVIOUS
    <2>1. \A r \in SUBSET D : Cardinality(r) = k => g[r] <= k * m
      BY <1>4
    <2> HIDE DEF Y
    <2>2. Cardinality(s) # 0
      OBVIOUS
    <2>3. s # {}
      <3>1. Cardinality({}) = 0
        BY FS_EmptySet
      <3> QED
        BY <2>2, <3>1
    <2>4. PICK x \in s : g[s] = v[x] + g[s \ {x}]
      BY <1>1, <2>3
    <2>5. s \ {x} \in SUBSET D /\ IsFiniteSet(s)
      BY <1>2
    <2>6. Cardinality(s \ {x}) = Cardinality(s) - 1
      BY <2>5, FS_RemoveElement
    <2>7. Cardinality(s \ {x}) = k
      BY <2>6
    <2>8. PICK y \in Nat, z \in Nat : y = v[x] /\ z = g[s \ {x}]
      BY <1>1, <2>5
    <2>9. y <= m /\ z <= k * m /\ k * m \in Nat
      BY <2>1, <2>5, <2>7, <2>8, TimesNat
    <2>10. (k + 1) * m = k * m + 1 * m
      BY Times
    <2> DEFINE km == k * m
    <2>11. km \in Nat /\ z <= km /\ (k + 1) * m = km + m
      BY <2>9, <2>10
    <2> HIDE DEF km
    <2> QED
      BY <2>4, <2>8, <2>9, <2>11
  <1> HIDE DEF Y
  <1>5. \A k \in Nat : k \in Y
    BY <1>3, <1>4, Induction
  <1>6. D \in SUBSET D /\ Cardinality(D) \in Nat
    BY FS_CardinalityType
  <1>7. g[D] <= Cardinality(D) * m
    BY <1>5, <1>6 DEF Y
  <1>8. g[D] \in Nat
    BY <1>1, <1>6
  <1> QED
    BY <1>1, <1>7, <1>8

\* A sum of numbers is a number.
LEMMA TotalNat ==
    ASSUME NEW D, IsFiniteSet(D), NEW v \in [D -> Nat]
    PROVE  Total(v, D) \in Nat
  <1>1. PICK g : Totals(g, v, D) /\ Total(v, D) = g[D]
    BY TotalMeans
  <1>2. D \in SUBSET D /\ g \in [SUBSET D -> Nat]
    BY <1>1 DEF Totals
  <1> QED
    BY <1>1, <1>2

\* The sums of the model are totals.
MulSum(a, b, k, D) == MapThenSumSet(LAMBDA i : a[i] * b[k - i], D)

SqrSum(a, c, k, D) ==
    MapThenSumSet(LAMBDA i : IF 2 * i = k THEN a[i] * a[i] ELSE c[i] * a[k - i], D)

IsProducts(v, a, b, k, D) == v = [i \in D |-> a[i] * b[k - i]]

IsSquares(v, a, c, k, D) ==
    v = [i \in D |-> IF 2 * i = k THEN a[i] * a[i] ELSE c[i] * a[k - i]]

\* A column of a product is a sum of products of limbs.
LEMMA MulTotal ==
    ASSUME NEW a, NEW b, NEW k, NEW D, NEW v, IsProducts(v, a, b, k, D)
    PROVE  MulSum(a, b, k, D) = Total(v, D)
  BY DEF IsProducts, MulSum, Total, MapThenSumSet, MapThenFoldSet

\* A column of a square is a sum of products of limbs and doubled limbs.
LEMMA SqrTotal ==
    ASSUME NEW a, NEW c, NEW k, NEW D, NEW v, IsSquares(v, a, c, k, D)
    PROVE  SqrSum(a, c, k, D) = Total(v, D)
  BY DEF IsSquares, SqrSum, Total, MapThenSumSet, MapThenFoldSet

\* One column of a product.
LEMMA MulColumn ==
    ASSUME NEW top \in Nat, NEW a \in [0 .. top -> Nat], NEW b \in [0 .. top -> Nat],
           NEW k \in Int, NEW D, D = {i \in 0 .. top : k - i \in 0 .. top}
    PROVE  /\ MulSum(a, b, k, D) \in Nat
           /\ \A m \in Nat : (\A i \in D : a[i] * b[k - i] <= m) =>
                 MulSum(a, b, k, D) <= Cardinality(D) * m
  <1> DEFINE v == [i \in D |-> a[i] * b[k - i]]
  <1>2. IsFiniteSet(D)
    <2>1. D \in SUBSET (0 .. top) /\ IsFiniteSet(0 .. top)
      BY FS_Interval
    <2> QED
      BY <2>1, FS_Subset
  <1>3. ASSUME NEW i \in D PROVE a[i] * b[k - i] \in Nat
    <2>1. a[i] \in Nat /\ b[k - i] \in Nat
      OBVIOUS
    <2> QED
      BY <2>1, TimesNat
  <1>4. v \in [D -> Nat]
    BY <1>3
  <1>5. ASSUME NEW m \in Nat, \A i \in D : a[i] * b[k - i] <= m
        PROVE  Total(v, D) <= Cardinality(D) * m
    <2>1. \A i \in D : v[i] <= m
      BY <1>5
    <2> HIDE DEF v
    <2> QED
      BY <1>2, <1>4, <2>1, TotalBound
  <1> HIDE DEF v
  <1>6. Total(v, D) \in Nat
    BY <1>2, <1>4, TotalNat
  <1>8. IsProducts(v, a, b, k, D)
    BY DEF v, IsProducts
  <1>7. MulSum(a, b, k, D) = Total(v, D)
    BY <1>8, MulTotal
  <1> QED
    BY <1>5, <1>6, <1>7

\* One column of a square, where a limb of a factor may be doubled.
LEMMA SqrColumn ==
    ASSUME NEW top \in Nat, NEW a \in [0 .. top -> Nat], NEW c \in [0 .. top -> Nat],
           NEW k \in Int, NEW D, D = {i \in 0 .. top : k - i \in 0 .. top /\ 2 * i <= k}
    PROVE  /\ SqrSum(a, c, k, D) \in Nat
           /\ \A m \in Nat :
                 (\A i \in D : (IF 2 * i = k THEN a[i] * a[i] ELSE c[i] * a[k - i]) <= m) =>
                 SqrSum(a, c, k, D) <= Cardinality(D) * m
  <1> DEFINE at(i) == IF 2 * i = k THEN a[i] * a[i] ELSE c[i] * a[k - i]
             v == [i \in D |-> at(i)]
  <1>2. IsFiniteSet(D)
    <2>1. D \in SUBSET (0 .. top) /\ IsFiniteSet(0 .. top)
      BY FS_Interval
    <2> QED
      BY <2>1, FS_Subset
  <1>3. ASSUME NEW i \in D PROVE at(i) \in Nat
    <2>1. a[i] \in Nat /\ c[i] \in Nat /\ a[k - i] \in Nat
      OBVIOUS
    <2>2. a[i] * a[i] \in Nat /\ c[i] * a[k - i] \in Nat
      BY <2>1, TimesNat
    <2> QED
      BY <2>2
  <1>4. v \in [D -> Nat]
    BY <1>3
  <1>5. ASSUME NEW m \in Nat, \A i \in D : at(i) <= m
        PROVE  Total(v, D) <= Cardinality(D) * m
    <2> HIDE DEF at
    <2>1. \A i \in D : v[i] <= m
      BY <1>5
    <2> HIDE DEF v
    <2> QED
      BY <1>2, <1>4, <2>1, TotalBound
  <1>6. Total(v, D) \in Nat
    <2> HIDE DEF v
    <2> QED
      BY <1>2, <1>4, TotalNat
  <1>8. IsSquares(v, a, c, k, D)
    BY DEF IsSquares
  <1>7. SqrSum(a, c, k, D) = Total(v, D)
    <2> HIDE DEF v
    <2> QED
      BY <1>8, SqrTotal
  <1> HIDE DEF v
  <1> QED
    BY <1>5, <1>6, <1>7

-----------------------------------------------------------------------------
(* The passes of a normalisation.                                          *)

\* Is the value of l at least p?
Reaches(l, top, b, low, q, d) ==
    /\ \A i \in low .. top : l[i] = q[i]
    /\ IF low = 1 THEN l[0] + d[0] >= b
                  ELSE l[1] + d[1] + ((l[0] + d[0]) \div b) >= b

\* The first pass leaves tidy limbs, and canonical limbs as they are.
LEMMA FirstPassOver ==
    ASSUME NEW top, NEW b, NEW e, NEW word, NEW max, NEW low, NEW q, NEW d,
           Shape(top, b, e, word, max, low, q, d),
           NEW w, NEW bits, IsPower(b, w), IsPower(word, bits),
           NEW m \in 1 .. max, NEW l, Within(l, m, top, q), NEW f,
           Adds(f, [l EXCEPT ![top] = @ % e], l[top] \div e, top, d)
    PROVE  /\ Tidy(Carried(f, w, bits), top, b, e)
           /\ Canonical(l, top, b, e) => Carried(f, w, bits) = l
  <1>1. /\ top \in Nat /\ top > 0 /\ b \in Nat \ {0} /\ word \in Nat \ {0} /\ max \in Nat
    BY ShapeNumbers
  <1>0. d \in [0 .. top -> Nat]
    BY DEF Shape
  <1>2. f \in [0 .. top -> Nat]
    BY DEF Adds
  <1>3. Tidy(Carried(f, w, bits), top, b, e)
    <2>1. CarryRoom(f, top, b, 2 * m, word) /\ f[top] <= e - 1
      BY FirstRoom
    <2>2. 2 * m \in Nat \ {0}
      BY <1>1
    <2>3. PICK k : k \in Nat \ {0} /\ k = 2 * m
      BY <2>2
    <2>4. CarryRoom(f, top, b, k, word)
      BY <2>1, <2>3
    <2>5. PICK c : Carrying(c, Carried(f, w, bits), f, top, b, k)
      BY <1>1, <1>2, <2>3, <2>4, Carries
    <2>6. Carrying(c, Carried(f, w, bits), f, top, b, 2 * m)
      BY <2>3, <2>5
    <2> QED
      BY <1>2, <2>1, <2>6, FirstIsTidy
  <1>4. ASSUME Canonical(l, top, b, e)
        PROVE  Carried(f, w, bits) = l
    <2>1. l[top] \div e = 0 /\ [l EXCEPT ![top] = @ % e] = l
      BY <1>4, NoFold
    <2>2. l \in [0 .. top -> Nat]
      BY <1>4 DEF Canonical
    <2>3. Adds(f, l, 0, top, d)
      BY <2>1
    <2>4. f = l
      BY <1>0, <1>1, <2>2, <2>3, AddsNothing
    <2>5. CarryRoom(l, top, b, 1, word)
      BY <1>4, CanonicalRoom
    <2>6. 1 \in Nat \ {0}
      OBVIOUS
    <2>7. PICK c : Carrying(c, Carried(l, w, bits), l, top, b, 1)
      BY <1>1, <2>2, <2>5, <2>6, Carries
    <2>8. Carried(l, w, bits) = l
      BY <1>4, <2>7, CanonicalStays
    <2> QED
      BY <2>4, <2>8
  <1> QED
    BY <1>3, <1>4

\* Tidy limbs whose top limb does not exceed its width are canonical.
LEMMA TidyTop ==
    ASSUME NEW top, NEW b, NEW e, NEW word, NEW max, NEW low, NEW q, NEW d,
           Shape(top, b, e, word, max, low, q, d), NEW l, Tidy(l, top, b, e)
    PROVE  /\ l[top] \div e = 1 <=> l[top] >= e
           /\ l[top] < e => Canonical(l, top, b, e)
  <1>1. top \in Nat /\ e \in Nat \ {0} /\ e >= 2
    BY ShapeNumbers
  <1>2. l \in [0 .. top -> Nat] /\ l[top] \in Nat /\ l[top] <= 2 * e - 2
    BY <1>1 DEF Tidy
  <1>3. PICK x : x = l[top] \div e
    OBVIOUS
  <1>4. PICK y : y = l[top] % e
    OBVIOUS
  <1>5. x \in Nat /\ y \in 0 .. e - 1 /\ l[top] = e * x + y
    BY <1>1, <1>2, <1>3, <1>4, DivMod
  <1>6. ASSUME l[top] < e PROVE x = 0
    BY <1>1, <1>2, <1>3, <1>6, SmallMod
  <1>7. ASSUME l[top] >= e PROVE x = 1
    <2>1. l[top] - e \in 0 .. e - 1
      BY <1>1, <1>2, <1>7
    <2>2. PICK r : r = l[top] - e
      OBVIOUS
    <2>3. 1 \in Nat /\ l[top] = e * 1 + r /\ r \in 0 .. e - 1
      BY <1>1, <1>2, <2>1, <2>2
    <2>4. (e * 1 + r) \div e = 1
      BY <1>1, <2>3, DivUnique
    <2> QED
      BY <1>3, <2>3, <2>4
  <1>8. l[top] \div e = 1 <=> l[top] >= e
    BY <1>1, <1>2, <1>3, <1>6, <1>7
  <1>9. l[top] < e => Canonical(l, top, b, e)
    BY <1>1, <1>2 DEF Tidy, Canonical
  <1> QED
    BY <1>8, <1>9

\* r is what the second pass makes of u: the top limb keeps its width.
CutTop(r, u, top, e) == r = [u EXCEPT ![top] = @ % e]

\* x says whether p is subtracted from l.
Subtracts(x, l, top, b, e, low, q, d) ==
    x = 1 <=> (l[top] >= e \/ Reaches(l, top, b, low, q, d))

\* The second pass subtracts p where the value reaches it: what remains is
\* below p.
LEMMA SecondPassOver ==
    ASSUME NEW top, NEW b, NEW e, NEW word, NEW max, NEW low, NEW q, NEW d,
           Shape(top, b, e, word, max, low, q, d),
           NEW w, NEW bits, IsPower(b, w), IsPower(word, bits),
           NEW l, Tidy(l, top, b, e), NEW x \in 0 .. 1,
           Subtracts(x, l, top, b, e, low, q, d),
           NEW f, Adds(f, l, x, top, d),
           NEW r, CutTop(r, Carried(f, w, bits), top, e)
    PROVE  Canonical(r, top, b, e) /\ ~ Reaches(r, top, b, low, q, d)
  <1>1. /\ top \in Nat /\ top >= 4 /\ low \in 1 .. 2
        /\ b \in Nat \ {0} /\ b >= 2 /\ word \in Nat \ {0} /\ e \in Nat \ {0}
        /\ q[top] = e - 1
    BY ShapeNumbers
  <1>2. d \in [0 .. top -> Nat] /\ q \in [0 .. top -> Nat] /\ (\A i \in low .. top - 1 : d[i] = 0)
    <2>1. /\ q \in [0 .. top -> Nat] /\ d \in [0 .. top -> Nat]
          /\ (\A i \in 1 .. top - 1 : q[i] + d[i] = b - 1)
          /\ (\A i \in low .. top - 1 : q[i] = b - 1)
      BY DEF Shape
    <2>2. ASSUME NEW i \in low .. top - 1 PROVE d[i] = 0
      <3>1. i \in 1 .. top - 1 /\ i \in 0 .. top
        BY <1>1, <2>2
      <3>2. q[i] + d[i] = b - 1 /\ q[i] = b - 1 /\ d[i] \in Nat
        BY <2>1, <2>2, <3>1
      <3> QED
        BY <1>1, <3>2
    <2> QED
      BY <2>1, <2>2
  <1>3. f \in [0 .. top -> Nat] /\ l \in [0 .. top -> Nat]
    BY DEF Adds, Tidy
  <1>4. CarryRoom(f, top, b, 2, word)
    BY SecondRoom
  <1>5. 2 \in Nat \ {0}
    OBVIOUS
  <1>6. PICK u : u = Carried(f, w, bits)
    OBVIOUS
  <1>a. r = [u EXCEPT ![top] = @ % e]
    BY <1>6 DEF CutTop
  <1>b. x = 1 <=> (l[top] >= e \/ Reaches(l, top, b, low, q, d))
    BY DEF Subtracts
  <1>7. PICK c : Carrying(c, Carried(f, w, bits), f, top, b, 2)
    <2>1. top > 0
      BY <1>1
    <2> QED
      BY <1>1, <1>3, <1>4, <1>5, <2>1, Carries
  <1>8. Carrying(c, u, f, top, b, 2)
    BY <1>6, <1>7
  <1>9. /\ u \in [0 .. top -> Nat]
        /\ \A i \in 0 .. top - 1 : u[i] = (f[i] + c[i]) % b /\ u[i] \in 0 .. b - 1
    <2>1. top > 0
      BY <1>1
    <2>2. /\ u \in [0 .. top -> Nat] /\ u[top] = f[top] + c[top] /\ c[top] \in 0 .. 2 - 1
          /\ \A i \in 0 .. top - 1 : u[i] = (f[i] + c[i]) % b /\ u[i] \in 0 .. b - 1
      BY <1>1, <1>3, <1>5, <1>8, <2>1, CarriedLimbs
    <2> QED
      BY <2>2
  <1>10. Canonical(r, top, b, e)
    <2>1. top > 0 /\ (\A i \in 0 .. top - 1 : u[i] <= b - 1)
      BY <1>1, <1>9
    <2>2. Canonical([u EXCEPT ![top] = @ % e], top, b, e)
      BY <1>1, <1>9, <2>1, LastIsCanonical
    <2> QED
      BY <1>a, <2>2
  <1>11. CASE x = 1
    <2>1. Adds(f, l, 1, top, d)
      BY <1>11
    <2>2. \/ l[top] >= e
          \/ (\A i \in low .. top : l[i] = q[i]) /\ c[low] >= 1
      <3>1. CASE l[top] >= e
        BY <3>1
      <3>2. CASE Reaches(l, top, b, low, q, d)
        <4>1. \A i \in low .. top : l[i] = q[i]
          BY <3>2 DEF Reaches
        <4>2. c[0] = 0 /\ (\A i \in 0 .. top - 1 : c[i + 1] = (f[i] + c[i]) \div b)
          BY <1>8 DEF Carrying
        <4>3. f[0] = l[0] + d[0] /\ f[1] = l[1] + d[1]
          <5>1. f[0] = l[0] + 1 * d[0] /\ f[1] = l[1] + 1 * d[1]
            BY <1>1, <2>1 DEF Adds
          <5>2. d[0] \in Nat /\ d[1] \in Nat
            BY <1>1, <1>2
          <5> QED
            BY <5>1, <5>2
        <4>4. /\ f[0] \in Nat /\ f[1] \in Nat /\ c[0 + 1] = (f[0] + c[0]) \div b
              /\ c[1 + 1] = (f[1] + c[1]) \div b
          <5>1. 0 \in 0 .. top - 1 /\ 1 \in 0 .. top - 1 /\ 0 \in 0 .. top /\ 1 \in 0 .. top
            BY <1>1
          <5>2. f[0] \in Nat /\ f[1] \in Nat
            BY <1>3, <5>1
          <5>3. c[0 + 1] = (f[0] + c[0]) \div b
            BY <4>2, <5>1
          <5>4. c[1 + 1] = (f[1] + c[1]) \div b
            BY <4>2, <5>1
          <5> QED
            BY <5>2, <5>3, <5>4
        <4>5. c[1] = f[0] \div b /\ c[2] = (f[1] + c[1]) \div b
          BY <4>2, <4>4
        <4>6. c[1] \in Nat
          BY <1>1, <4>4, <4>5, DivMod
        <4>7. ASSUME NEW y \in Nat, y >= b PROVE y \div b >= 1
          <5>1. PICK n : n = y \div b
            OBVIOUS
          <5>2. PICK z : z = y % b
            OBVIOUS
          <5>3. n \in Nat /\ z \in 0 .. b - 1 /\ y = b * n + z
            BY <1>1, <5>1, <5>2, DivMod
          <5>4. n # 0
            BY <1>1, <4>7, <5>3
          <5> QED
            BY <5>1, <5>3, <5>4
        <4>8. CASE low = 1
          <5>1. f[0] >= b
            BY <3>2, <4>3, <4>8 DEF Reaches
          <5> QED
            BY <4>1, <4>4, <4>5, <4>7, <4>8, <5>1
        <4>9. CASE low = 2
          <5>1. f[1] + c[1] >= b
            BY <3>2, <4>3, <4>5, <4>9 DEF Reaches
          <5>2. f[1] + c[1] \in Nat
            BY <4>4, <4>6
          <5> QED
            BY <4>1, <4>5, <4>7, <4>9, <5>1, <5>2
        <4> QED
          BY <1>1, <4>8, <4>9
      <3> QED
        BY <1>11, <1>b, <3>1, <3>2
    <2>3. \E i \in low .. top : [u EXCEPT ![top] = @ % e][i] # q[i]
      <3>1. \A i \in low .. top - 1 : d[i] = 0
        BY <1>2
      <3>2. CASE l[top] >= e
        BY <1>8, <2>1, <3>1, <3>2, FullStops
      <3>3. CASE (\A i \in low .. top : l[i] = q[i]) /\ c[low] >= 1
        BY <1>8, <2>1, <3>1, <3>3, FullStops
      <3> QED
        BY <2>2, <3>2, <3>3
    <2>4. \E i \in low .. top : r[i] # q[i]
      BY <1>a, <2>3
    <2> QED
      BY <1>10, <2>4 DEF Reaches
  <1>12. CASE x = 0
    <2>1. ~ (l[top] >= e) /\ ~ Reaches(l, top, b, low, q, d)
      BY <1>12, <1>b
    <2>2. l[top] \in Nat
      BY <1>1, <1>3
    <2>3. Canonical(l, top, b, e)
      BY <1>1, <2>1, <2>2, TidyTop
    <2>4. Adds(f, l, 0, top, d)
      BY <1>12
    <2>5. f = l
      BY <1>1, <1>2, <1>3, <2>4, AddsNothing
    <2>6. CarryRoom(l, top, b, 1, word)
      BY <2>3, CanonicalRoom
    <2>7. PICK g : Carrying(g, Carried(l, w, bits), l, top, b, 1)
      <3>1. top > 0 /\ 1 \in Nat \ {0}
        BY <1>1
      <3> QED
        BY <1>1, <1>3, <2>6, <3>1, Carries
    <2>8. u = l
      BY <1>6, <2>3, <2>5, <2>7, CanonicalStays
    <2>9. [l EXCEPT ![top] = @ % e] = l
      BY <2>3, NoFold
    <2>10. r = l
      BY <1>a, <2>8, <2>9
    <2> QED
      BY <1>10, <2>1, <2>10
  <1> QED
    BY <1>11, <1>12

-----------------------------------------------------------------------------
(* The representation 10x26.                                               *)

\* The limbs of p, and what 2^256 leaves in each of them.
LimbsOfP == [i \in Limb |-> P(i)]
FoldOfP  == [i \in Limb |-> IF i = 0 THEN C0 ELSE IF i = 1 THEN C1 ELSE 0]

TenWithin(l, m)  == Within(l, m, Top, LimbsOfP)
TenTidy(l)       == Tidy(l, Top, B, TopB)
TenCanonical(l)  == Canonical(l, Top, B, TopB)
TenReaches(l)    == Reaches(l, Top, B, 2, LimbsOfP, FoldOfP)
TenRange         == 2^WordBits
TenShaped        == Shape(Top, B, TopB, TenRange, MaxMagnitude, 2, LimbsOfP, FoldOfP)

\* What the assumption on the constants says of the limbs of 10x26.
LEMMA TenNumbers ==
    /\ N \in Nat /\ N > 4 /\ Top \in Nat /\ Top >= 4 /\ Top = N - 1
    /\ B \in Nat \ {0} /\ B >= 2 /\ TopB \in Nat \ {0} /\ TopB <= B
    /\ C0 \in Nat /\ C0 >= 1 /\ 2 * C0 <= B /\ C1 \in Nat /\ 2 * C1 < B
    /\ MaxMagnitude \in Nat /\ MaxMagnitude >= 1 /\ 2 * MaxMagnitude <= TopB
    /\ TenRange \in Nat \ {0} /\ 2 * B <= TenRange /\ Roomy(MaxMagnitude, B, TenRange)
    /\ IsPower(B, W) /\ IsPower(TenRange, WordBits)
  <1>1. /\ N \in Nat /\ N > 4 /\ W \in Nat /\ T \in Nat /\ T < W /\ W < WordBits
        /\ WordBits \in Nat /\ PowersOfTwo(WordBits)
        /\ C0 \in Nat /\ C0 >= 1 /\ 2 * C0 <= B /\ C1 \in Nat /\ 2 * C1 < B
        /\ MaxMagnitude \in Nat /\ MaxMagnitude >= 1 /\ TopB >= 2 * MaxMagnitude
    BY Field10x26Assumption
  <1>2. Top \in Nat /\ Top >= 4 /\ Top = N - 1
    BY <1>1 DEF Top
  <1>3. 2^W \in Nat \ {0} /\ 2^T \in Nat \ {0} /\ 2^WordBits \in Nat \ {0}
    BY <1>1 DEF PowersOfTwo
  <1>4. 2^T <= 2^W
    BY <1>1, PowersGrow
  <1>5. B \in Nat \ {0} /\ TopB \in Nat \ {0} /\ TopB <= B /\ TenRange \in Nat \ {0}
    BY <1>3, <1>4 DEF B, TopB, TenRange
  <1>6. B >= 2 /\ 2 * MaxMagnitude <= TopB
    BY <1>1, <1>5
  <1>7. Roomy(MaxMagnitude, B, TenRange)
    BY Field10x26Assumption DEF Roomy, TenRange
  <1>8. 2 * B <= TenRange
    <2>1. 2 <= 2 * MaxMagnitude /\ 2 * MaxMagnitude \in Nat
      BY <1>1
    <2>2. PICK k \in Nat : k = 2 * MaxMagnitude /\ 2 <= k
      BY <2>1
    <2>3. 2 * B <= k * B
      BY <1>5, <2>2, TimesMonotone
    <2>4. k * B <= TenRange
      BY <1>7, <2>2 DEF Roomy
    <2>5. PICK a : a = k * B
      OBVIOUS
    <2>6. a \in Nat
      BY <1>5, <2>2, <2>5, TimesNat
    <2> QED
      BY <1>5, <2>3, <2>4, <2>5, <2>6
  <1>9. IsPower(B, W) /\ IsPower(TenRange, WordBits)
    BY DEF IsPower, B, TenRange
  <1> QED
    BY <1>1, <1>2, <1>5, <1>6, <1>7, <1>8, <1>9

\* The limbs of 10x26 have the shape the lemmas above assume.
LEMMA TenShape == TenShaped
  <1> USE TenNumbers
  <1>1. /\ P(0) = B - C0 /\ P(1) = B - 1 - C1 /\ P(Top) = TopB - 1
        /\ \A i \in 2 .. Top - 1 : P(i) = B - 1
    BY DEF P
  <1>2. LimbsOfP \in [0 .. Top -> Nat]
    <2>1. ASSUME NEW i \in Limb PROVE P(i) \in Nat
      <3>1. i = 0 \/ i = 1 \/ i = Top \/ i \in 2 .. Top - 1
        BY DEF Limb
      <3>2. B - C0 \in Nat /\ B - 1 - C1 \in Nat /\ TopB - 1 \in Nat /\ B - 1 \in Nat
        OBVIOUS
      <3> QED
        BY <1>1, <3>1, <3>2
    <2> QED
      BY <2>1 DEF LimbsOfP, Limb
  <1>3. FoldOfP \in [0 .. Top -> Nat]
    BY DEF FoldOfP, Limb
  <1>4. /\ LimbsOfP[0] = B - C0 /\ LimbsOfP[1] = B - 1 - C1 /\ LimbsOfP[Top] = TopB - 1
        /\ \A i \in 2 .. Top - 1 : LimbsOfP[i] = B - 1
    BY <1>1 DEF LimbsOfP, Limb
  <1>5. /\ FoldOfP[0] = C0 /\ FoldOfP[1] = C1
        /\ \A i \in 2 .. Top - 1 : FoldOfP[i] = 0
    BY DEF FoldOfP, Limb
  <1>6. \A i \in 1 .. Top - 1 : LimbsOfP[i] + FoldOfP[i] = B - 1 /\ 2 * FoldOfP[i] <= B - 1
    <2>1. ASSUME NEW i \in 1 .. Top - 1
          PROVE  LimbsOfP[i] + FoldOfP[i] = B - 1 /\ 2 * FoldOfP[i] <= B - 1
      <3>1. CASE i = 1
        BY <1>4, <1>5, <3>1
      <3>2. CASE i # 1
        <4>1. i \in 2 .. Top - 1
          BY <3>2
        <4> QED
          BY <1>4, <1>5, <4>1
      <3> QED
        BY <3>1, <3>2
    <2> QED
      BY <2>1
  <1>7. LimbsOfP[0] + FoldOfP[0] = B /\ FoldOfP[0] >= 1 /\ 2 * FoldOfP[0] <= B
    BY <1>4, <1>5
  <1>8. /\ B \in Nat /\ TopB \in Nat /\ TenRange \in Nat /\ 2 \in 1 .. 2
        /\ \A i \in 2 .. Top - 1 : LimbsOfP[i] = B - 1
    BY <1>4
  <1> QED
    BY <1>2, <1>3, <1>4, <1>6, <1>7, <1>8 DEF TenShaped, Shape

\* FeVerify, in the terms of this module.
LEMMA TenVerified ==
    ASSUME NEW a, NEW m \in 0 .. MaxMagnitude, a.magnitude = m, a.normalized \in BOOLEAN,
           TenWithin(a.n, m),
           a.normalized => TenCanonical(a.n) /\ ~ TenReaches(a.n) /\ m <= 1
    PROVE  FeVerify(a)
  <1> USE TenNumbers
  <1>1. /\ LimbsOfP \in [0 .. Top -> Nat] /\ LimbsOfP[Top] = TopB - 1
        /\ \A i \in 0 .. Top - 1 : LimbsOfP[i] <= B - 1
    <2>1. Shape(Top, B, TopB, TenRange, MaxMagnitude, 2, LimbsOfP, FoldOfP)
      BY TenShape DEF TenShaped
    <2>2. /\ \A i \in 0 .. Top : LimbsOfP[i] \in Nat /\ FoldOfP[i] \in Nat
          /\ \A i \in 0 .. Top - 1 : LimbsOfP[i] <= B - 1
          /\ LimbsOfP[Top] = TopB - 1
      BY <2>1, ShapeNumbers
    <2> QED
      BY <2>2 DEF LimbsOfP, Limb
  <1>2. a.n \in [0 .. Top -> Nat]
    BY DEF TenWithin, Within
  <1>3. CASE a.normalized = FALSE
    <2>1. \A i \in 0 .. Top : a.n[i] <= (2 * m) * LimbsOfP[i]
      BY DEF TenWithin, Within
    <2>2. PICK k : k = 2 * m
      OBVIOUS
    <2>3. k \in Nat
      BY <2>2
    <2>4. ASSUME NEW i \in Limb \ {Top} PROVE a.n[i] <= (B - 1) * k
      <3>1. i \in 0 .. Top - 1 /\ i \in 0 .. Top
        BY DEF Limb
      <3>2. a.n[i] <= k * LimbsOfP[i] /\ a.n[i] \in Nat /\ LimbsOfP[i] \in Nat /\ LimbsOfP[i] <= B - 1
        BY <1>1, <1>2, <2>1, <2>2, <3>1
      <3>3. LimbsOfP[i] * k <= (B - 1) * k /\ B - 1 \in Nat
        BY <2>3, <3>2, TimesMonotone
      <3>4. k * LimbsOfP[i] = LimbsOfP[i] * k
        BY <2>3, <3>2, Times
      <3>5. PICK y : y = LimbsOfP[i] * k
        OBVIOUS
      <3>6. PICK z : z = (B - 1) * k
        OBVIOUS
      <3>7. y \in Nat /\ z \in Nat
        BY <2>3, <3>2, <3>3, <3>5, <3>6, TimesNat
      <3> QED
        BY <3>2, <3>3, <3>4, <3>5, <3>6, <3>7
    <2>5. a.n[Top] <= (TopB - 1) * k
      <3>1. a.n[Top] <= k * (TopB - 1)
        BY <1>1, <2>1, <2>2
      <3>2. k * (TopB - 1) = (TopB - 1) * k
        BY <2>3, Times
      <3> QED
        BY <3>1, <3>2
    <2> QED
      BY <1>3, <2>2, <2>4, <2>5 DEF FeVerify
  <1>4. CASE a.normalized = TRUE
    <2>1. TenCanonical(a.n) /\ ~ TenReaches(a.n) /\ m <= 1
      BY <1>4
    <2>2. a.n[Top] <= TopB - 1 /\ (\A i \in 0 .. Top - 1 : a.n[i] <= B - 1)
      BY <2>1 DEF TenCanonical, Canonical
    <2>3. /\ \A i \in Limb \ {Top} : a.n[i] <= (B - 1) * 1
          /\ a.n[Top] <= (TopB - 1) * 1
      BY <2>2 DEF Limb
    <2>4. ASSUME \A i \in 2 .. Top : a.n[i] = P(i)
          PROVE  a.n[1] + C1 + ((a.n[0] + C0) \div B) <= B - 1
      <3>1. \A i \in 2 .. Top : a.n[i] = LimbsOfP[i]
        BY <2>4 DEF LimbsOfP, Limb
      <3>2. ~ (a.n[1] + FoldOfP[1] + ((a.n[0] + FoldOfP[0]) \div B) >= B)
        BY <2>1, <3>1 DEF TenReaches, Reaches
      <3>3. FoldOfP[1] = C1 /\ FoldOfP[0] = C0
        BY DEF FoldOfP, Limb
      <3>4. a.n[0] + C0 \in Nat /\ a.n[1] \in Nat
        <4>1. 0 \in 0 .. Top /\ 1 \in 0 .. Top
          OBVIOUS
        <4>2. a.n[0] \in Nat /\ a.n[1] \in Nat
          BY <1>2, <4>1
        <4> QED
          BY <4>2
      <3>5. PICK y : y = (a.n[0] + C0) \div B
        OBVIOUS
      <3>6. y \in Nat
        BY <3>4, <3>5, DivMod
      <3> QED
        BY <3>2, <3>3, <3>4, <3>5, <3>6
    <2> QED
      BY <1>4, <2>1, <2>3, <2>4 DEF FeVerify
  <1> QED
    BY <1>3, <1>4

\* Folding, limb by limb.
LEMMA AddsExists ==
    ASSUME NEW top \in Nat, NEW d \in [0 .. top -> Nat], NEW l \in [0 .. top -> Nat], NEW x \in Nat
    PROVE  \E f : Adds(f, l, x, top, d)
  <1> DEFINE f == [i \in 0 .. top |-> IF i = top THEN l[top] ELSE l[i] + x * d[i]]
  <1>1. ASSUME NEW i \in 0 .. top PROVE l[i] \in Nat /\ x * d[i] \in Nat
    BY TimesNat
  <1>2. f \in [0 .. top -> Nat]
    <2>1. ASSUME NEW i \in 0 .. top
          PROVE  (IF i = top THEN l[top] ELSE l[i] + x * d[i]) \in Nat
      <3>1. PICK y : y = x * d[i]
        OBVIOUS
      <3>2. y \in Nat /\ l[i] \in Nat /\ l[top] \in Nat
        BY <1>1, <3>1
      <3>3. l[i] + y \in Nat
        BY <3>2
      <3> QED
        BY <3>1, <3>2, <3>3
    <2> QED
      BY <2>1
  <1>3. f[top] = l[top] /\ (\A i \in 0 .. top - 1 : f[i] = l[i] + x * d[i])
    OBVIOUS
  <1> QED
    BY <1>2, <1>3 DEF Adds

\* Limbs with room for a carry fit their words.
LEMMA RoomIsWord ==
    ASSUME NEW top \in Nat, top >= 4, NEW f \in [0 .. top -> Nat], NEW b \in Nat,
           NEW k \in Nat \ {0}, NEW word \in Nat, CarryRoom(f, top, b, k, word)
    PROVE  f[0] < word /\ f[1] < word
  <1>1. PICK y : y = b * k
    OBVIOUS
  <1>2. y \in Nat /\ y <= word /\ f[0] < y /\ f[1] + k - 1 < y
    <2>1. 1 \in 1 .. top - 1
      OBVIOUS
    <2>2. y \in Nat
      BY <1>1, TimesNat
    <2> QED
      BY <1>1, <2>1, <2>2 DEF CarryRoom
  <1>3. f[0] \in Nat /\ f[1] \in Nat
    <2>1. 0 \in 0 .. top /\ 1 \in 0 .. top
      OBVIOUS
    <2> QED
      BY <2>1
  <1> QED
    BY <1>2, <1>3

\* Folded adds x times 2^256 modulo p (the multiples 0x3D1 and 64 of
\* secp256k1_fe_normalize).
LEMMA TenFolds ==
    ASSUME NEW t \in [0 .. Top -> Nat], NEW x \in Nat, NEW f, Adds(f, t, x, Top, FoldOfP),
           f[0] < TenRange, f[1] < TenRange
    PROVE  Folded(t, x) = f
  <1> USE TenNumbers
  <1>1. f \in [0 .. Top -> Nat]
    BY DEF Adds
  <1>2. /\ FoldOfP[0] = C0 /\ FoldOfP[1] = C1
        /\ \A i \in 2 .. Top - 1 : FoldOfP[i] = 0
    BY DEF FoldOfP, Limb
  <1>3. f[0] = t[0] + x * C0 /\ f[1] = t[1] + x * C1
    <2>1. 0 \in 0 .. Top - 1 /\ 1 \in 0 .. Top - 1
      OBVIOUS
    <2> QED
      BY <1>2, <2>1 DEF Adds
  <1>4. ASSUME NEW i \in 2 .. Top PROVE f[i] = t[i]
    <2>1. CASE i = Top
      BY <2>1 DEF Adds
    <2>2. CASE i # Top
      <3>1. i \in 0 .. Top - 1 /\ i \in 2 .. Top - 1 /\ i \in 0 .. Top
        BY <2>2
      <3>2. f[i] = t[i] + x * 0 /\ t[i] \in Nat
        BY <1>2, <3>1 DEF Adds
      <3> QED
        BY <3>2
    <2> QED
      BY <2>1, <2>2
  <1>5. PICK y : y = x * C0
    OBVIOUS
  <1>6. PICK z : z = x * C1
    OBVIOUS
  <1>7. y \in Nat /\ z \in Nat
    BY <1>5, <1>6, TimesNat
  <1>8. t[0] \in Nat /\ t[1] \in Nat
    <2>1. 0 \in 0 .. Top /\ 1 \in 0 .. Top
      OBVIOUS
    <2> QED
      BY <2>1
  <1>9. t[0] + y \in Nat /\ t[0] + y < TenRange /\ t[1] + z \in Nat /\ t[1] + z < TenRange /\ z < TenRange
    <2>1. f[0] = t[0] + y /\ f[1] = t[1] + z
      BY <1>3, <1>5, <1>6
    <2>2. t[0] + y < TenRange /\ t[1] + z < TenRange
      BY <2>1
    <2>3. TenRange \in Nat
      OBVIOUS
    <2> QED
      BY <1>7, <1>8, <2>2, <2>3
  <1>10. Word(z) = z /\ Word(t[0] + y) = t[0] + y /\ Word(t[1] + z) = t[1] + z
    <2>1. \A v \in Nat : v < TenRange => v % TenRange = v
      BY SmallMod
    <2> QED
      BY <1>7, <1>9, <2>1 DEF Word, TenRange
  <1>11. Folded(t, x) = [t EXCEPT ![0] = Word(t[0] + y), ![1] = Word(t[1] + Word(z))]
    <2>1. Folded(t, x) = [t EXCEPT ![0] = Word(@ + x * C0), ![1] = Word(@ + Word(x * C1))]
      BY DEF Folded
    <2>2. [t EXCEPT ![0] = Word(@ + x * C0), ![1] = Word(@ + Word(x * C1))]
            = [t EXCEPT ![0] = Word(t[0] + x * C0), ![1] = Word(t[1] + Word(x * C1))]
      OBVIOUS
    <2> QED
      BY <1>5, <1>6, <2>1, <2>2
  <1>12. Folded(t, x) = [t EXCEPT ![0] = f[0], ![1] = f[1]]
    BY <1>3, <1>5, <1>6, <1>10, <1>11
  <1>13. [t EXCEPT ![0] = f[0], ![1] = f[1]] = f
    <2>1. [t EXCEPT ![0] = f[0], ![1] = f[1]] \in [0 .. Top -> Nat]
      <3>1. f[0] \in Nat /\ f[1] \in Nat
        BY <1>3, <1>5, <1>6, <1>9
      <3> QED
        BY <3>1
    <2>2. ASSUME NEW i \in 0 .. Top
          PROVE  [t EXCEPT ![0] = f[0], ![1] = f[1]][i] = f[i]
      <3>1. CASE i = 0 \/ i = 1
        BY <3>1
      <3>2. CASE i # 0 /\ i # 1
        <4>1. i \in 2 .. Top
          BY <3>2
        <4> QED
          BY <1>4, <3>2, <4>1
      <3> QED
        BY <3>1, <3>2
    <2> QED
      BY <1>1, <2>1, <2>2, SameLimbs
  <1> QED
    BY <1>12, <1>13

\* AtLeastP, whose code compares the limbs one by one, says that the number
\* reaches p.
LEMMA TenReachesP ==
    ASSUME NEW l \in [0 .. Top -> Nat]
    PROVE  AtLeastP(l) <=> TenReaches(l)
  <1> USE TenNumbers
  <1>1. FoldOfP[0] = C0 /\ FoldOfP[1] = C1
    BY DEF FoldOfP, Limb
  <1>2. (\A i \in 2 .. Top : l[i] = P(i)) <=> (\A i \in 2 .. Top : l[i] = LimbsOfP[i])
    <2>1. ASSUME NEW i \in 2 .. Top PROVE LimbsOfP[i] = P(i)
      <3>1. i \in 0 .. Top
        OBVIOUS
      <3> QED
        BY <3>1 DEF LimbsOfP, Limb
    <2> QED
      BY <2>1
  <1>3. l[0] \in Nat /\ l[1] \in Nat
    <2>1. 0 \in 0 .. Top /\ 1 \in 0 .. Top
      OBVIOUS
    <2> QED
      BY <2>1
  <1>4. PICK y : y = (l[0] + C0) \div B
    OBVIOUS
  <1>5. y \in Nat
    <2>1. l[0] + C0 \in Nat
      BY <1>3
    <2> QED
      BY <1>4, <2>1, DivMod
  <1>6. l[1] + C1 + y > B - 1 <=> l[1] + C1 + y >= B
    BY <1>3, <1>5
  <1>7. AtLeastP(l) <=> (\A i \in 2 .. Top : l[i] = LimbsOfP[i]) /\ l[1] + C1 + y >= B
    BY <1>2, <1>4, <1>6 DEF AtLeastP
  <1>8. TenReaches(l) <=> (\A i \in 2 .. Top : l[i] = LimbsOfP[i]) /\ l[1] + C1 + y >= B
    BY <1>1, <1>4 DEF TenReaches, Reaches
  <1> QED
    BY <1>7, <1>8

\* The first pass of a normalization of 10x26.
LEMMA TenFirstPass ==
    ASSUME NEW m \in 0 .. MaxMagnitude, NEW l, TenWithin(l, m)
    PROVE  /\ TenTidy(FirstPass(l))
           /\ TenCanonical(l) => FirstPass(l) = l
  <1> USE TenNumbers
  <1>1. Shape(Top, B, TopB, TenRange, MaxMagnitude, 2, LimbsOfP, FoldOfP)
    BY TenShape DEF TenShaped
  <1>2. LimbsOfP \in [0 .. Top -> Nat] /\ FoldOfP \in [0 .. Top -> Nat]
    BY <1>1 DEF Shape
  <1>3. l \in [0 .. Top -> Nat]
    BY DEF TenWithin, Within
  <1>4. PICK g \in 1 .. MaxMagnitude : Within(l, g, Top, LimbsOfP)
    <2>1. CASE m = 0
      <3>1. Within(l, 0, Top, LimbsOfP)
        BY <2>1 DEF TenWithin
      <3>2. Within(l, 1, Top, LimbsOfP)
        BY <1>2, <3>1, ZeroIsWithin
      <3> QED
        BY <3>2
    <2>2. CASE m # 0
      <3>1. m \in 1 .. MaxMagnitude
        BY <2>2
      <3> QED
        BY <3>1 DEF TenWithin
    <2> QED
      BY <2>1, <2>2
  <1>5. PICK t : t = [l EXCEPT ![Top] = @ % TopB]
    OBVIOUS
  <1>6. PICK x : x = l[Top] \div TopB
    OBVIOUS
  <1>7. x \in Nat /\ t \in [0 .. Top -> Nat]
    <2>1. l[Top] \in Nat
      BY <1>3
    <2>2. l[Top] \div TopB \in Nat /\ (l[Top] % TopB) \in 0 .. TopB - 1
      BY <2>1, DivMod
    <2>3. l[Top] % TopB \in Nat
      BY <2>2
    <2> QED
      BY <1>3, <1>5, <1>6, <2>2, <2>3
  <1>8. PICK f : Adds(f, t, x, Top, FoldOfP)
    BY <1>2, <1>7, AddsExists
  <1>9. Adds(f, [l EXCEPT ![Top] = @ % TopB], l[Top] \div TopB, Top, FoldOfP)
    BY <1>5, <1>6, <1>8
  <1>10. CarryRoom(f, Top, B, 2 * g, TenRange)
    BY <1>1, <1>4, <1>9, FirstRoom
  <1>11. f[0] < TenRange /\ f[1] < TenRange
    <2>1. 2 * g \in Nat \ {0} /\ f \in [0 .. Top -> Nat]
      BY <1>8 DEF Adds
    <2> QED
      BY <1>10, <2>1, RoomIsWord
  <1>12. FirstPass(l) = Carried(f, W, WordBits)
    <2>1. Folded(t, x) = f
      BY <1>7, <1>8, <1>11, TenFolds
    <2> QED
      BY <1>5, <1>6, <2>1 DEF FirstPass
  <1>13. /\ Tidy(Carried(f, W, WordBits), Top, B, TopB)
         /\ Canonical(l, Top, B, TopB) => Carried(f, W, WordBits) = l
    BY <1>1, <1>4, <1>9, FirstPassOver
  <1> QED
    BY <1>12, <1>13 DEF TenTidy, TenCanonical

\* The second pass of a normalization of 10x26: the result is below p.
LEMMA TenSecondPass ==
    ASSUME NEW l, TenTidy(l), NEW x \in 0 .. 1,
           x = 1 <=> (l[Top] \div TopB = 1 \/ AtLeastP(l)),
           NEW r, r = [Carried(Folded(l, x), W, WordBits) EXCEPT ![Top] = @ % TopB]
    PROVE  TenCanonical(r) /\ ~ TenReaches(r)
  <1> USE TenNumbers
  <1>1. Shape(Top, B, TopB, TenRange, MaxMagnitude, 2, LimbsOfP, FoldOfP)
    BY TenShape DEF TenShaped
  <1>2. FoldOfP \in [0 .. Top -> Nat]
    BY <1>1 DEF Shape
  <1>3. Tidy(l, Top, B, TopB) /\ l \in [0 .. Top -> Nat]
    BY DEF TenTidy, Tidy
  <1>4. PICK f : Adds(f, l, x, Top, FoldOfP)
    <2>1. x \in Nat
      OBVIOUS
    <2> QED
      BY <1>2, <1>3, <2>1, AddsExists
  <1>5. CarryRoom(f, Top, B, 2, TenRange)
    BY <1>1, <1>3, <1>4, SecondRoom
  <1>6. f[0] < TenRange /\ f[1] < TenRange
    <2>1. 2 \in Nat \ {0} /\ f \in [0 .. Top -> Nat]
      BY <1>4 DEF Adds
    <2> QED
      BY <1>5, <2>1, RoomIsWord
  <1>7. Folded(l, x) = f
    <2>1. x \in Nat
      OBVIOUS
    <2> QED
      BY <1>3, <1>4, <1>6, <2>1, TenFolds
  <1>8. CutTop(r, Carried(f, W, WordBits), Top, TopB)
    BY <1>7 DEF CutTop
  <1>9. Subtracts(x, l, Top, B, TopB, 2, LimbsOfP, FoldOfP)
    <2>1. l[Top] \div TopB = 1 <=> l[Top] >= TopB
      BY <1>1, <1>3, TidyTop
    <2>2. AtLeastP(l) <=> Reaches(l, Top, B, 2, LimbsOfP, FoldOfP)
      BY <1>3, TenReachesP DEF TenReaches
    <2> QED
      BY <2>1, <2>2 DEF Subtracts
  <1>10. IsPower(B, W) /\ IsPower(TenRange, WordBits)
    BY TenNumbers
  <1> HIDE TenNumbers
  <1>11. Canonical(r, Top, B, TopB) /\ ~ Reaches(r, Top, B, 2, LimbsOfP, FoldOfP)
    BY <1>1, <1>3, <1>4, <1>8, <1>9, <1>10, SecondPassOver
  <1> QED
    BY <1>11 DEF TenCanonical, TenReaches

-----------------------------------------------------------------------------
(* Elements of either representation.                                      *)

\* What is true of an element that a call may be given.
Element(a, top, b, e, max, low, q, d) ==
    /\ a \in [n : [0 .. top -> Nat], magnitude : Nat, normalized : BOOLEAN]
    /\ a.magnitude \in 0 .. max /\ Within(a.n, a.magnitude, top, q)
    /\ a.normalized =>
          /\ a.magnitude <= 1
          /\ Canonical(a.n, top, b, e) /\ ~ Reaches(a.n, top, b, low, q, d)

Made3(l, m, z) == [n |-> l, magnitude |-> m, normalized |-> z]

\* Carried limbs below p are a normalized element of magnitude 1.
LEMMA NormalElement ==
    ASSUME NEW top, NEW b, NEW e, NEW word, NEW max, NEW low, NEW q, NEW d,
           Shape(top, b, e, word, max, low, q, d),
           NEW l, Canonical(l, top, b, e), ~ Reaches(l, top, b, low, q, d)
    PROVE  Element(Made3(l, 1, TRUE), top, b, e, max, low, q, d)
  <1>1. max \in Nat /\ max >= 1
    BY ShapeNumbers
  <1>2. Within(l, 1, top, q)
    BY CanonicalIsTidy, TidyIsWithin
  <1>3. l \in [0 .. top -> Nat]
    BY DEF Canonical
  <1>4. 1 \in 0 .. max /\ 1 \in Nat
    BY <1>1
  <1> QED
    BY <1>2, <1>3, <1>4 DEF Element, Made3

\* Limbs after a pass of carries are an element of magnitude 1.
LEMMA WeakElement ==
    ASSUME NEW top, NEW b, NEW e, NEW word, NEW max, NEW low, NEW q, NEW d,
           Shape(top, b, e, word, max, low, q, d), NEW l, Tidy(l, top, b, e)
    PROVE  Element(Made3(l, 1, FALSE), top, b, e, max, low, q, d)
  <1>1. max \in Nat /\ max >= 1
    BY ShapeNumbers
  <1>2. Within(l, 1, top, q)
    BY TidyIsWithin
  <1>3. l \in [0 .. top -> Nat]
    BY DEF Tidy
  <1>4. 1 \in 0 .. max /\ 1 \in Nat
    BY <1>1
  <1> QED
    BY <1>2, <1>3, <1>4 DEF Element, Made3

\* A small number in limb 0.
IsSmall(l, x, top) == l = [i \in 0 .. top |-> IF i = 0 THEN x ELSE 0]

\* A small number is carried, and below p.
LEMMA SmallElement ==
    ASSUME NEW top, NEW b, NEW e, NEW word, NEW max, NEW low, NEW q, NEW d,
           Shape(top, b, e, word, max, low, q, d),
           NEW x \in 0 .. b - 1, NEW l, IsSmall(l, x, top)
    PROVE  Canonical(l, top, b, e) /\ ~ Reaches(l, top, b, low, q, d)
  <1>1. /\ top \in Nat /\ top >= 4 /\ b \in Nat \ {0} /\ e \in Nat /\ e >= 2
        /\ low \in 1 .. 2 /\ q[top] = e - 1
    BY ShapeNumbers
  <1>2. /\ l \in [0 .. top -> Nat] /\ l[top] = 0
        /\ \A i \in 0 .. top : l[i] = IF i = 0 THEN x ELSE 0
    BY <1>1 DEF IsSmall
  <1>3. Canonical(l, top, b, e)
    BY <1>1, <1>2 DEF Canonical
  <1>4. top \in low .. top /\ l[top] # q[top]
    BY <1>1, <1>2
  <1> QED
    BY <1>3, <1>4 DEF Reaches

\* Zero is an element of magnitude 0.
LEMMA ClearElement ==
    ASSUME NEW top, NEW b, NEW e, NEW word, NEW max, NEW low, NEW q, NEW d,
           Shape(top, b, e, word, max, low, q, d), NEW l, IsSmall(l, 0, top)
    PROVE  Element(Made3(l, 0, TRUE), top, b, e, max, low, q, d)
  <1>1. /\ top \in Nat /\ top >= 4 /\ b \in Nat \ {0} /\ max \in Nat
        /\ \A i \in 0 .. top : q[i] \in Nat /\ d[i] \in Nat
    BY ShapeNumbers
  <1>2. 0 \in 0 .. b - 1
    BY <1>1
  <1>3. Canonical(l, top, b, e) /\ ~ Reaches(l, top, b, low, q, d)
    BY <1>2, SmallElement
  <1>4. Within(l, 0, top, q)
    <2>1. l \in [0 .. top -> Nat]
      BY <1>3 DEF Canonical
    <2>2. ASSUME NEW i \in 0 .. top PROVE l[i] <= (2 * 0) * q[i]
      BY <1>1, <2>2 DEF IsSmall
    <2> QED
      BY <2>1, <2>2 DEF Within
  <1>5. 0 \in 0 .. max /\ 0 \in Nat /\ 0 <= 1 /\ l \in [0 .. top -> Nat]
    BY <1>1, <1>3 DEF Canonical
  <1> QED
    BY <1>3, <1>4, <1>5 DEF Element, Made3

\* Limbs within a magnitude fit their words.
LEMMA WithinFits ==
    ASSUME NEW top, NEW b, NEW e, NEW word, NEW max, NEW low, NEW q, NEW d,
           Shape(top, b, e, word, max, low, q, d),
           NEW m \in 0 .. max, NEW i \in 0 .. top, NEW v \in Nat, v <= (2 * m) * q[i]
    PROVE  v < word
  <1>1. /\ top \in Nat /\ b \in Nat \ {0} /\ max \in Nat /\ max >= 1 /\ word \in Nat
        /\ e \in Nat /\ e <= b /\ q[top] = e - 1
        /\ \A j \in 0 .. top : q[j] \in Nat /\ d[j] \in Nat
        /\ \A j \in 0 .. top - 1 : q[j] <= b - 1
    BY ShapeNumbers
  <1>2. Roomy(max, b, word)
    BY DEF Shape
  <1>3. q[i] \in Nat /\ q[i] <= b - 1
    <2>1. CASE i = top
      BY <1>1, <2>1
    <2>2. CASE i # top
      <3>1. i \in 0 .. top - 1
        BY <1>1, <2>2
      <3> QED
        BY <1>1, <3>1
    <2> QED
      BY <2>1, <2>2
  <1>4. PICK k \in Nat : k = 2 * m
    OBVIOUS
  <1>5. PICK g \in Nat : g = 2 * max
    BY <1>1
  <1>6. k <= g /\ g >= 2
    BY <1>1, <1>4, <1>5
  <1>7. PICK z \in Nat : z = b - 1
    BY <1>1
  <1>8. v <= k * q[i]
    BY <1>4
  <1>9. k * q[i] <= g * q[i]
    BY <1>3, <1>4, <1>5, <1>6, TimesMonotone
  <1>10. g * q[i] = q[i] * g /\ g * q[i] \in Nat /\ k * q[i] \in Nat
    BY <1>3, <1>4, <1>5, Times, TimesNat
  <1>11. q[i] * g <= z * g /\ z * g \in Nat
    BY <1>3, <1>5, <1>7, TimesMonotone, TimesNat
  <1>12. g * b = z * g + g
    <2>1. b = z + 1
      BY <1>1, <1>7
    <2>2. (z + 1) * g = z * g + 1 * g
      BY <1>5, <1>7, Times
    <2>3. g * b = b * g
      BY <1>1, <1>5, Times
    <2> QED
      BY <1>5, <2>1, <2>2, <2>3
  <1>13. g * b <= word
    BY <1>2, <1>5 DEF Roomy
  <1>14. PICK s : s = z * g
    OBVIOUS
  <1>15. PICK r : r = g * q[i]
    OBVIOUS
  <1>16. PICK y : y = k * q[i]
    OBVIOUS
  <1>17. s \in Nat /\ r \in Nat /\ y \in Nat /\ v <= y /\ y <= r /\ r <= s /\ s + g <= word
    BY <1>8, <1>9, <1>10, <1>11, <1>12, <1>13, <1>14, <1>15, <1>16
  <1> QED
    BY <1>1, <1>5, <1>6, <1>17

\* Limbs within a magnitude are within a larger one.
LEMMA WithinGrows ==
    ASSUME NEW top \in Nat, NEW q \in [0 .. top -> Nat], NEW m \in Nat, NEW k \in Nat, m <= k,
           NEW l, Within(l, m, top, q)
    PROVE  Within(l, k, top, q)
  <1>1. ASSUME NEW i \in 0 .. top PROVE l[i] <= (2 * k) * q[i]
    <2>1. l[i] <= (2 * m) * q[i] /\ l[i] \in Nat /\ q[i] \in Nat
      BY DEF Within
    <2>2. PICK x \in Nat : x = 2 * m
      OBVIOUS
    <2>3. PICK y \in Nat : y = 2 * k
      OBVIOUS
    <2>4. x <= y
      BY <2>2, <2>3
    <2>5. x * q[i] <= y * q[i] /\ x * q[i] \in Nat /\ y * q[i] \in Nat
      BY <2>1, <2>2, <2>3, <2>4, TimesMonotone, TimesNat
    <2>6. l[i] <= x * q[i]
      BY <2>1, <2>2
    <2>7. PICK u : u = x * q[i]
      OBVIOUS
    <2>8. PICK v : v = y * q[i]
      OBVIOUS
    <2>9. u \in Nat /\ v \in Nat /\ l[i] <= u /\ u <= v
      BY <2>5, <2>6, <2>7, <2>8
    <2>10. l[i] <= v
      BY <2>1, <2>9
    <2> QED
      BY <2>3, <2>8, <2>10
  <1> QED
    BY <1>1 DEF Within

\* The limbs that negate, mul_int, add and cmov write.
IsNegated(r, l, m, top, q, word) ==
    r = [i \in 0 .. top |-> (q[i] * 2 * (m + 1) - l[i]) % word]
IsScaled(r, l, k, top, word) == r = [i \in 0 .. top |-> (l[i] * k) % word]
IsAdded(r, l, g, top, word)  == r = [i \in 0 .. top |-> (l[i] + g[i]) % word]
IsChosen(r, l, g, flag, top) == r = [i \in 0 .. top |-> IF flag = 1 THEN g[i] ELSE l[i]]

IsWrapped(r, v, top, word) == r = [i \in 0 .. top |-> v[i] % word]

\* Limbs that fit their words, one by one.
LEMMA FittingLimbs ==
    ASSUME NEW top, NEW b, NEW e, NEW word, NEW max, NEW low, NEW q, NEW d,
           Shape(top, b, e, word, max, low, q, d),
           NEW m \in 0 .. max, NEW v \in [0 .. top -> Nat],
           \A i \in 0 .. top : v[i] <= (2 * m) * q[i],
           NEW r, IsWrapped(r, v, top, word)
    PROVE  r = v /\ Within(r, m, top, q)
  <1>1. top \in Nat /\ word \in Nat \ {0}
    BY ShapeNumbers
  <1>2. ASSUME NEW i \in 0 .. top PROVE v[i] % word = v[i]
    <2>1. v[i] \in Nat /\ v[i] <= (2 * m) * q[i]
      OBVIOUS
    <2>2. v[i] < word
      BY <2>1, WithinFits
    <2> QED
      BY <1>1, <2>1, <2>2, SmallMod
  <1>3. r = v
    BY <1>2 DEF IsWrapped
  <1> QED
    BY <1>3 DEF Within

\* A multiple of p less an element of magnitude m: no limb of the difference is
\* negative or outgrows its word, and the magnitude is m + 1.
LEMMA NegatedElement ==
    ASSUME NEW top, NEW b, NEW e, NEW word, NEW max, NEW low, NEW q, NEW d,
           Shape(top, b, e, word, max, low, q, d),
           NEW a, Element(a, top, b, e, max, low, q, d), a.magnitude < max,
           NEW r, IsNegated(r, a.n, a.magnitude, top, q, word)
    PROVE  Element(Made3(r, a.magnitude + 1, FALSE), top, b, e, max, low, q, d)
  <1>1. top \in Nat /\ max \in Nat /\ (\A i \in 0 .. top : q[i] \in Nat /\ d[i] \in Nat)
    BY ShapeNumbers
  <1>2. PICK l : l = a.n
    OBVIOUS
  <1>3. PICK m : m = a.magnitude
    OBVIOUS
  <1>4. m \in 0 .. max /\ Within(l, m, top, q) /\ m < max
    BY <1>2, <1>3 DEF Element
  <1>5. m + 1 \in 0 .. max /\ m + 1 \in Nat /\ m \in Nat
    BY <1>1, <1>4
  <1>6. PICK n : n = m + 1
    OBVIOUS
  <1>7. n \in 0 .. max /\ n \in Nat /\ m <= n
    BY <1>5, <1>6
  <1>8. DEFINE v == [i \in 0 .. top |-> (2 * n) * q[i] - l[i]]
  <1>9. ASSUME NEW i \in 0 .. top
        PROVE  /\ (2 * n) * q[i] - l[i] \in Nat
               /\ (2 * n) * q[i] - l[i] <= (2 * n) * q[i]
               /\ q[i] * 2 * (m + 1) - l[i] = (2 * n) * q[i] - l[i]
    <2>1. l \in [0 .. top -> Nat] /\ l[i] <= (2 * m) * q[i]
      BY <1>4 DEF Within
    <2>2. l[i] \in Nat /\ q[i] \in Nat
      BY <1>1, <2>1
    <2>3. PICK x \in Nat : x = 2 * m
      BY <1>5
    <2>4. PICK y \in Nat : y = 2 * n
      BY <1>7
    <2>5. x <= y
      BY <1>5, <1>7, <2>3, <2>4
    <2>6. x * q[i] <= y * q[i] /\ x * q[i] \in Nat /\ y * q[i] \in Nat
      BY <2>2, <2>3, <2>4, <2>5, TimesMonotone, TimesNat
    <2>7. PICK s : s = x * q[i]
      OBVIOUS
    <2>8. PICK t : t = y * q[i]
      OBVIOUS
    <2>9. s \in Nat /\ t \in Nat /\ s <= t /\ l[i] <= s
      BY <2>1, <2>3, <2>6, <2>7, <2>8
    <2>10. t - l[i] \in Nat /\ t - l[i] <= t
      BY <2>2, <2>9
    <2>11. q[i] * 2 * (m + 1) = y * q[i]
      <3>1. q[i] * 2 \in Int /\ q[i] \in Int /\ n \in Int
        BY <1>7, <2>2
      <3>2. PICK z : z = q[i] * n
        OBVIOUS
      <3>3. z \in Int
        BY <1>7, <2>2, <3>2, TimesNat
      <3>4. q[i] * 2 = q[i] + q[i]
        BY <2>2
      <3>5. (q[i] + q[i]) * n = q[i] * n + q[i] * n
        BY <3>1, Times
      <3>6. q[i] * 2 * n = z + z
        BY <3>2, <3>4, <3>5
      <3>7. y = n + n
        BY <1>7, <2>4
      <3>8. (n + n) * q[i] = n * q[i] + n * q[i] /\ n * q[i] = q[i] * n
        BY <3>1, Times
      <3>9. y * q[i] = z + z
        BY <3>2, <3>7, <3>8
      <3> QED
        BY <1>6, <3>6, <3>9
    <2> QED
      BY <2>4, <2>8, <2>10, <2>11
  <1>10. v \in [0 .. top -> Nat] /\ (\A i \in 0 .. top : v[i] <= (2 * n) * q[i])
    BY <1>9
  <1>11. IsWrapped(r, v, top, word)
    <2>1. r = [i \in 0 .. top |-> (q[i] * 2 * (m + 1) - l[i]) % word]
      BY <1>2, <1>3 DEF IsNegated
    <2> QED
      BY <1>9, <2>1 DEF IsWrapped
  <1> HIDE DEF v
  <1>12. r = v /\ Within(r, n, top, q)
    BY <1>7, <1>10, <1>11, FittingLimbs
  <1>13. r \in [0 .. top -> Nat]
    BY <1>10, <1>12
  <1> QED
    BY <1>3, <1>6, <1>7, <1>12, <1>13 DEF Element, Made3

\* Multiplying every limb multiplies the magnitude.
LEMMA ScaledElement ==
    ASSUME NEW top, NEW b, NEW e, NEW word, NEW max, NEW low, NEW q, NEW d,
           Shape(top, b, e, word, max, low, q, d),
           NEW a, Element(a, top, b, e, max, low, q, d),
           NEW k \in Nat, a.magnitude * k <= max,
           NEW r, IsScaled(r, a.n, k, top, word)
    PROVE  Element(Made3(r, a.magnitude * k, FALSE), top, b, e, max, low, q, d)
  <1>1. top \in Nat /\ max \in Nat /\ (\A i \in 0 .. top : q[i] \in Nat /\ d[i] \in Nat)
    BY ShapeNumbers
  <1>2. PICK l : l = a.n
    OBVIOUS
  <1>3. PICK m : m = a.magnitude
    OBVIOUS
  <1>4. m \in 0 .. max /\ Within(l, m, top, q)
    BY <1>2, <1>3 DEF Element
  <1>5. PICK n : n = m * k
    OBVIOUS
  <1>6. m \in Nat
    BY <1>4
  <1>7. n \in Nat
    BY <1>5, <1>6, TimesNat
  <1>8. n \in 0 .. max
    BY <1>1, <1>3, <1>5, <1>7
  <1>9. DEFINE v == [i \in 0 .. top |-> l[i] * k]
  <1>10. ASSUME NEW i \in 0 .. top
         PROVE  l[i] * k \in Nat /\ l[i] * k <= (2 * n) * q[i]
    <2>1. l \in [0 .. top -> Nat] /\ l[i] <= (2 * m) * q[i]
      BY <1>4 DEF Within
    <2>2. l[i] \in Nat /\ q[i] \in Nat
      BY <1>1, <2>1
    <2>3. PICK x \in Nat : x = m * q[i]
      BY <1>6, <2>2, TimesNat
    <2>4. (2 * m) * q[i] = x + x
      <3>1. 2 * m = m + m
        BY <1>6
      <3>2. (m + m) * q[i] = m * q[i] + m * q[i]
        BY <1>6, <2>2, Times
      <3> QED
        BY <2>3, <3>1, <3>2
    <2>5. PICK y \in Nat : y = x + x
      BY <2>3
    <2>6. l[i] * k <= y * k
      BY <2>1, <2>2, <2>4, <2>5, TimesMonotone
    <2>7. (2 * n) * q[i] = y * k
      <3>1. y * k = x * k + x * k
        BY <2>3, <2>5, Times
      <3>2. x * k = n * q[i]
        <4>1. (m * q[i]) * k = m * (q[i] * k)
          BY <1>6, <2>2
        <4>2. q[i] * k = k * q[i]
          BY <2>2, Times
        <4>3. m * (k * q[i]) = (m * k) * q[i]
          BY <1>6, <2>2
        <4> QED
          BY <1>5, <2>3, <4>1, <4>2, <4>3
      <3>3. 2 * n = n + n
        BY <1>7
      <3>4. (n + n) * q[i] = n * q[i] + n * q[i]
        BY <1>7, <2>2, Times
      <3> QED
        BY <3>1, <3>2, <3>3, <3>4
    <2>8. l[i] * k \in Nat
      BY <2>2, TimesNat
    <2> QED
      BY <2>6, <2>7, <2>8
  <1>11. v \in [0 .. top -> Nat] /\ (\A i \in 0 .. top : v[i] <= (2 * n) * q[i])
    BY <1>10
  <1>12. IsWrapped(r, v, top, word)
    BY <1>2 DEF IsScaled, IsWrapped
  <1> HIDE DEF v
  <1>13. r = v /\ Within(r, n, top, q)
    BY <1>8, <1>11, <1>12, FittingLimbs
  <1>14. r \in [0 .. top -> Nat]
    BY <1>11, <1>13
  <1> QED
    BY <1>3, <1>5, <1>7, <1>8, <1>13, <1>14 DEF Element, Made3

\* Adding limb by limb adds the magnitudes.
LEMMA AddedElement ==
    ASSUME NEW top, NEW b, NEW e, NEW word, NEW max, NEW low, NEW q, NEW d,
           Shape(top, b, e, word, max, low, q, d),
           NEW a, Element(a, top, b, e, max, low, q, d),
           NEW c, Element(c, top, b, e, max, low, q, d),
           a.magnitude + c.magnitude <= max,
           NEW r, IsAdded(r, a.n, c.n, top, word)
    PROVE  Element(Made3(r, a.magnitude + c.magnitude, FALSE), top, b, e, max, low, q, d)
  <1>1. top \in Nat /\ max \in Nat /\ (\A i \in 0 .. top : q[i] \in Nat /\ d[i] \in Nat)
    BY ShapeNumbers
  <1>2. PICK l : l = a.n
    OBVIOUS
  <1>3. PICK m : m = a.magnitude
    OBVIOUS
  <1>4. PICK g : g = c.n
    OBVIOUS
  <1>5. PICK k : k = c.magnitude
    OBVIOUS
  <1>6. /\ m \in 0 .. max /\ Within(l, m, top, q)
        /\ k \in 0 .. max /\ Within(g, k, top, q)
    BY <1>2, <1>3, <1>4, <1>5 DEF Element
  <1>7. PICK n : n = m + k
    OBVIOUS
  <1>8. m \in Nat /\ k \in Nat /\ n \in Nat /\ n \in 0 .. max
    BY <1>1, <1>3, <1>5, <1>6, <1>7
  <1>9. DEFINE v == [i \in 0 .. top |-> l[i] + g[i]]
  <1>10. ASSUME NEW i \in 0 .. top
         PROVE  l[i] + g[i] \in Nat /\ l[i] + g[i] <= (2 * n) * q[i]
    <2>1. /\ l \in [0 .. top -> Nat] /\ l[i] <= (2 * m) * q[i]
          /\ g \in [0 .. top -> Nat] /\ g[i] <= (2 * k) * q[i]
      BY <1>6 DEF Within
    <2>2. l[i] \in Nat /\ g[i] \in Nat /\ q[i] \in Nat
      BY <1>1, <2>1
    <2>3. PICK x \in Nat : x = 2 * m
      BY <1>8
    <2>4. PICK y \in Nat : y = 2 * k
      BY <1>8
    <2>5. 2 * n = x + y
      BY <1>7, <1>8, <2>3, <2>4
    <2>6. (x + y) * q[i] = x * q[i] + y * q[i]
      BY <2>2, <2>3, <2>4, Times
    <2>7. PICK s : s = x * q[i]
      OBVIOUS
    <2>8. PICK t : t = y * q[i]
      OBVIOUS
    <2>9. s \in Nat /\ t \in Nat
      BY <2>2, <2>3, <2>4, <2>7, <2>8, TimesNat
    <2>10. l[i] <= s /\ g[i] <= t /\ (2 * n) * q[i] = s + t
      BY <2>1, <2>3, <2>4, <2>5, <2>6, <2>7, <2>8
    <2>11. l[i] + g[i] \in Nat /\ l[i] + g[i] <= s + t
      BY <2>2, <2>9, <2>10
    <2> QED
      BY <2>10, <2>11
  <1>11. v \in [0 .. top -> Nat] /\ (\A i \in 0 .. top : v[i] <= (2 * n) * q[i])
    BY <1>10
  <1>12. IsWrapped(r, v, top, word)
    BY <1>2, <1>4 DEF IsAdded, IsWrapped
  <1> HIDE DEF v
  <1>13. r = v /\ Within(r, n, top, q)
    BY <1>8, <1>11, <1>12, FittingLimbs
  <1>14. r \in [0 .. top -> Nat]
    BY <1>11, <1>13
  <1> QED
    BY <1>3, <1>5, <1>7, <1>8, <1>13, <1>14 DEF Element, Made3

\* The element a conditional move leaves has the larger of the magnitudes.
LEMMA ChosenElement ==
    ASSUME NEW top, NEW b, NEW e, NEW word, NEW max, NEW low, NEW q, NEW d,
           Shape(top, b, e, word, max, low, q, d),
           NEW a, Element(a, top, b, e, max, low, q, d),
           NEW c, Element(c, top, b, e, max, low, q, d), NEW flag,
           NEW r, IsChosen(r, a.n, c.n, flag, top)
    PROVE  Element(Made3(r, Max({a.magnitude, c.magnitude}), a.normalized /\ c.normalized),
                   top, b, e, max, low, q, d)
  <1>1. /\ top \in Nat /\ max \in Nat /\ q \in [0 .. top -> Nat]
    <2>1. top \in Nat /\ max \in Nat
      BY ShapeNumbers
    <2>2. q \in [0 .. top -> Nat]
      BY DEF Shape
    <2> QED
      BY <2>1, <2>2
  <1>2. PICK m : m = a.magnitude
    OBVIOUS
  <1>3. PICK k : k = c.magnitude
    OBVIOUS
  <1>4. PICK n : n = Max({m, k})
    OBVIOUS
  <1>5. PICK z : z = (a.normalized /\ c.normalized)
    OBVIOUS
  <1>6. /\ m \in 0 .. max /\ Within(a.n, m, top, q) /\ a.normalized \in BOOLEAN
        /\ k \in 0 .. max /\ Within(c.n, k, top, q) /\ c.normalized \in BOOLEAN
        /\ a.n \in [0 .. top -> Nat] /\ c.n \in [0 .. top -> Nat]
    BY <1>2, <1>3 DEF Element
  <1>7. m \in Nat /\ k \in Nat
    BY <1>6
  <1>8. n = IF m >= k THEN m ELSE k
    BY <1>4, <1>7, MaxOfTwo
  <1>9. n \in Nat /\ n \in 0 .. max /\ m <= n /\ k <= n
    BY <1>6, <1>7, <1>8
  <1>10. PICK l \in {a.n, c.n} : r = l
    <2>1. CASE flag = 1
      <3>1. r = [i \in 0 .. top |-> c.n[i]]
        BY <2>1 DEF IsChosen
      <3>2. r = c.n
        BY <1>6, <3>1
      <3> QED
        BY <3>2
    <2>2. CASE flag # 1
      <3>1. r = [i \in 0 .. top |-> a.n[i]]
        BY <2>2 DEF IsChosen
      <3>2. r = a.n
        BY <1>6, <3>1
      <3> QED
        BY <3>2
    <2> QED
      BY <2>1, <2>2
  <1>11. Within(r, n, top, q) /\ r \in [0 .. top -> Nat]
    <2>1. Within(a.n, n, top, q)
      BY <1>1, <1>6, <1>7, <1>9, WithinGrows
    <2>2. Within(c.n, n, top, q)
      BY <1>1, <1>6, <1>7, <1>9, WithinGrows
    <2> QED
      BY <1>6, <1>10, <2>1, <2>2
  <1>12. ASSUME z PROVE n <= 1 /\ Canonical(r, top, b, e) /\ ~ Reaches(r, top, b, low, q, d)
    <2>1. a.normalized /\ c.normalized
      BY <1>5, <1>12
    <2>2. m <= 1 /\ k <= 1
      BY <1>2, <1>3, <2>1 DEF Element
    <2>3. /\ Canonical(a.n, top, b, e) /\ ~ Reaches(a.n, top, b, low, q, d)
          /\ Canonical(c.n, top, b, e) /\ ~ Reaches(c.n, top, b, low, q, d)
      BY <2>1 DEF Element
    <2> QED
      BY <1>8, <1>10, <2>2, <2>3
  <1>13. z \in BOOLEAN
    BY <1>5, <1>6
  <1>14. Element(Made3(r, n, z), top, b, e, max, low, q, d)
    BY <1>9, <1>11, <1>12, <1>13 DEF Element, Made3
  <1> QED
    BY <1>2, <1>3, <1>4, <1>5, <1>14

-----------------------------------------------------------------------------
(* Bytes and storage.                                                      *)

\* The bits of m limbs of width w can be read.
LEMMA ReadableLimbs ==
    ASSUME NEW w \in Nat, w > 0, PowersOfTwo(w), NEW m \in Nat, NEW bits \in Nat,
           Covers(m, w, bits), NEW l \in [0 .. m - 1 -> Nat]
    PROVE  Readable(l, w, bits)
  <1>1. ASSUME NEW i \in 0 .. bits - 1 PROVE LimbBit(l, w, i) \in 0 .. 1
    <2>1. w \in Nat \ {0} /\ i \in Nat
      OBVIOUS
    <2>2. i \div w \in Nat /\ i % w \in 0 .. w - 1
      BY <2>1, DivMod
    <2>3. m \in Nat \ {0}
      <3>1. ASSUME m = 0 PROVE FALSE
        BY <3>1 DEF Covers
      <3> QED
        BY <3>1
    <2>4. i < w * m
      <3>1. PICK x \in Nat : x = m * w /\ w * m = x
        BY TimesNat
      <3> QED
        BY <3>1 DEF Covers
    <2>5. i \div w \in 0 .. m - 1
      BY <2>1, <2>3, <2>4, Quotient
    <2>6. PICK y \in Nat \ {0} : y = 2^(i % w)
      <3>1. PICK j \in Nat : j = i % w /\ j <= w
        BY <2>2
      <3> QED
        BY <3>1, NextPower
    <2>7. PICK x \in Nat : x = l[i \div w] \div y
      BY <2>5, <2>6, DivMod
    <2>8. x % 2 \in 0 .. 1
      OBVIOUS
    <2> QED
      BY <2>6, <2>7, <2>8 DEF LimbBit
  <1> QED
    BY <1>1 DEF Readable

\* Narrower limbs have their powers of two as well.
LEMMA PowersBelow ==
    ASSUME NEW v \in Nat, PowersOfTwo(v), NEW w \in Nat, w <= v
    PROVE  PowersOfTwo(w)
  <1>1. ASSUME NEW i \in 0 .. w PROVE 2^i \in Nat \ {0} /\ 2^(i + 1) = 2 * 2^i
    <2>1. i \in Nat /\ i <= v
      BY <1>1
    <2> QED
      BY <2>1, NextPower
  <1> QED
    BY <1>1 DEF PowersOfTwo

\* The bytes the library reads are numbers.
LEMMA ByteArrays ==
    ASSUME NEW x \in Nat
    PROVE  ByteArray(x) \in [0 .. Bytes - 1 -> Nat]
  <1>1. ASSUME NEW k \in 0 .. Bytes - 1
        PROVE  (x \div 2^(ByteBits * k)) % 2^ByteBits \in Nat
    <2>1. PICK y \in Nat \ {0} : y = 2^(ByteBits * k)
      BY Field10x26Assumption
    <2>2. PICK z \in Nat \ {0} : z = 2^ByteBits
      <3>1. ByteBits \in Nat /\ WordBits \in Nat /\ ByteBits <= WordBits /\ PowersOfTwo(WordBits)
        BY Field10x26Assumption
      <3>2. 2^ByteBits \in Nat \ {0} /\ 2^(ByteBits + 1) = 2 * 2^ByteBits
        BY <3>1, NextPower
      <3> QED
        BY <3>2
    <2>3. PICK u \in Nat : u = x \div y
      BY <2>1, DivMod
    <2>4. u % z \in 0 .. z - 1
      BY <2>2, <2>3, DivMod
    <2>5. u % z \in Nat
      BY <2>2, <2>4
    <2> QED
      BY <2>1, <2>2, <2>3, <2>5
  <1> QED
    BY <1>1 DEF ByteArray, ToLimbs

\* As many words as the bits need.
LEMMA EnoughWords ==
    ASSUME NEW w \in Nat \ {0}, NEW bits \in Nat
    PROVE  (bits + w - 1) \div w \in Nat /\ Covers((bits + w - 1) \div w, w, bits)
  <1>1. bits + w - 1 \in Nat
    OBVIOUS
  <1>2. PICK x : x = (bits + w - 1) \div w
    OBVIOUS
  <1>3. PICK y : y = (bits + w - 1) % w
    OBVIOUS
  <1>4. x \in Nat /\ y \in 0 .. w - 1 /\ bits + w - 1 = w * x + y
    BY <1>1, <1>2, <1>3, DivMod
  <1>5. PICK z \in Nat : z = w * x
    BY <1>4, TimesNat
  <1>6. x * w = z
    BY <1>4, <1>5, Times
  <1>7. bits <= z
    BY <1>4, <1>5
  <1> QED
    BY <1>2, <1>4, <1>6, <1>7 DEF Covers

\* Canonical limbs come back from their storage as they went there.
LEMMA StoredAndBack ==
    ASSUME NEW top, NEW b, NEW e, NEW word, NEW max, NEW low, NEW q, NEW d,
           Shape(top, b, e, word, max, low, q, d),
           NEW v \in Nat, PowersOfTwo(v), IsPower(b, v), NEW h \in 1 .. v, IsPower(e, h),
           NEW w \in Nat \ {0}, PowersOfTwo(w),
           NEW n \in Nat, n = top + 1, NEW bits \in Nat, Cut(bits, n, v, h),
           NEW l, Canonical(l, top, b, e)
    PROVE  Regroup(Regroup(l, v, bits, (bits + w - 1) \div w, w), w, bits, n, v) = l
  <1>1. top \in Nat /\ b \in Nat \ {0} /\ e \in Nat \ {0} /\ e <= b
    BY ShapeNumbers
  <1>2. l \in [0 .. n - 1 -> Nat]
    <2>1. n - 1 = top
      BY <1>1
    <2> QED
      BY <2>1 DEF Canonical
  <1>3. \A i \in 0 .. n - 1 : l[i] < 2^v
    <2>1. ASSUME NEW i \in 0 .. n - 1 PROVE l[i] < b
      <3>1. l[i] \in Nat /\ l[top] \in Nat
        BY <1>1, <1>2
      <3>2. CASE i = top
        <4>1. l[top] <= e - 1
          BY DEF Canonical
        <4> QED
          BY <1>1, <3>1, <3>2, <4>1
      <3>3. CASE i # top
        <4>1. i \in 0 .. top - 1
          BY <1>1, <3>3
        <4>2. l[i] <= b - 1
          BY <4>1 DEF Canonical
        <4> QED
          BY <1>1, <3>1, <4>2
      <3> QED
        BY <3>2, <3>3
    <2> QED
      BY <2>1 DEF IsPower
  <1>4. l[n - 1] < 2^h
    <2>1. l[top] <= e - 1 /\ l \in [0 .. top -> Nat] /\ n - 1 = top
      BY <1>1 DEF Canonical
    <2>2. l[top] < e
      BY <1>1, <2>1
    <2> QED
      BY <2>1, <2>2 DEF IsPower
  <1>5. PICK m \in Nat : m = (bits + w - 1) \div w /\ Covers(m, w, bits)
    BY EnoughWords
  <1>6. n > 0 /\ v > 0 /\ w > 0 /\ w \in Nat
    BY <1>1
  <1>7. Regroup(Regroup(l, v, bits, m, w), w, bits, n, v) = l
    BY <1>2, <1>3, <1>4, <1>5, <1>6, RegroupBack, SMTT(60)
  <1> QED
    BY <1>5, <1>7

\* What cmov leaves in a storage is one of the two.
LEMMA StorageChosen ==
    ASSUME NEW m \in Nat, NEW x, NEW y, NEW flag, DOMAIN x = 0 .. m - 1, DOMAIN y = 0 .. m - 1,
           x = [i \in 0 .. m - 1 |-> x[i]], y = [i \in 0 .. m - 1 |-> y[i]]
    PROVE  [i \in DOMAIN x |-> IF flag = 1 THEN y[i] ELSE x[i]] = IF flag = 1 THEN y ELSE x
  <1>1. CASE flag = 1
    BY <1>1
  <1>2. CASE flag # 1
    BY <1>2
  <1> QED
    BY <1>1, <1>2

-----------------------------------------------------------------------------
(* The operations of 10x26, but for products.                              *)

TenElement(a) == Element(a, Top, B, TopB, MaxMagnitude, 2, LimbsOfP, FoldOfP)
TenRecord     == [n : [0 .. Top -> Nat], magnitude : Nat, normalized : BOOLEAN]

\* The parts of an element of 10x26.
LEMMA TenParts ==
    ASSUME NEW a, TenElement(a)
    PROVE  /\ a \in TenRecord /\ a.n \in [0 .. Top -> Nat] /\ a.magnitude \in 0 .. MaxMagnitude
           /\ a.magnitude \in Nat /\ a.normalized \in BOOLEAN
           /\ TenWithin(a.n, a.magnitude)
           /\ a.normalized => a.magnitude <= 1 /\ TenCanonical(a.n) /\ ~ TenReaches(a.n)
  BY DEF TenElement, Element, TenRecord, TenWithin, TenCanonical, TenReaches

\* Every element passes the library's own check.
LEMMA TenElementsVerify ==
    ASSUME NEW a, TenElement(a)
    PROVE  FeVerify(a)
  <1>1. PICK m \in 0 .. MaxMagnitude : m = a.magnitude
    BY TenParts
  <1>2. /\ a.normalized \in BOOLEAN /\ TenWithin(a.n, m)
        /\ a.normalized => TenCanonical(a.n) /\ ~ TenReaches(a.n) /\ m <= 1
    BY <1>1, TenParts
  <1> QED
    BY <1>1, <1>2, TenVerified

\* NormalElement, for 10x26.
LEMMA TenNormal ==
    ASSUME NEW l, TenCanonical(l), ~ TenReaches(l)
    PROVE  TenElement(Made3(l, 1, TRUE))
  <1>1. Shape(Top, B, TopB, TenRange, MaxMagnitude, 2, LimbsOfP, FoldOfP)
    BY TenShape DEF TenShaped
  <1>2. Canonical(l, Top, B, TopB) /\ ~ Reaches(l, Top, B, 2, LimbsOfP, FoldOfP)
    BY DEF TenCanonical, TenReaches
  <1> QED
    BY <1>1, <1>2, NormalElement DEF TenElement

\* WeakElement, for 10x26.
LEMMA TenWeak ==
    ASSUME NEW l, TenTidy(l)
    PROVE  TenElement(Made3(l, 1, FALSE))
  <1>1. Shape(Top, B, TopB, TenRange, MaxMagnitude, 2, LimbsOfP, FoldOfP)
    BY TenShape DEF TenShaped
  <1>2. Tidy(l, Top, B, TopB)
    BY DEF TenTidy
  <1> QED
    BY <1>1, <1>2, WeakElement DEF TenElement

\* secp256k1_fe_normalize, _normalize_var and _normalize_weak.
LEMMA TenNormalizes ==
    ASSUME NEW a, TenElement(a)
    PROVE  /\ TenElement(FeNormalize(a)) /\ FeNormalize(a).magnitude = 1 /\ FeNormalize(a).normalized
           /\ TenElement(FeNormalizeVar(a)) /\ FeNormalizeVar(a).magnitude = 1
           /\ FeNormalizeVar(a).normalized
           /\ TenElement(FeNormalizeWeak(a)) /\ FeNormalizeWeak(a).magnitude = 1
           /\ FeNormalizeWeak(a).normalized = a.normalized
  <1>1. PICK t : t = FirstPass(a.n)
    OBVIOUS
  <1>2. TenTidy(t) /\ (TenCanonical(a.n) => t = a.n)
    BY <1>1, TenFirstPass, TenParts
  <1>3. t \in [0 .. Top -> Nat]
    BY <1>2 DEF TenTidy, Tidy
  <1>4. ASSUME NEW x \in 0 .. 1, x = 1 <=> (t[Top] \div TopB = 1 \/ AtLeastP(t)), NEW r,
               r = [Carried(Folded(t, x), W, WordBits) EXCEPT ![Top] = @ % TopB]
        PROVE  TenElement(Made3(r, 1, TRUE))
    <2>1. TenCanonical(r) /\ ~ TenReaches(r)
      BY <1>2, <1>4, TenSecondPass
    <2> QED
      BY <2>1, TenNormal
  <1>5. TenElement(FeNormalize(a)) /\ FeNormalize(a).magnitude = 1 /\ FeNormalize(a).normalized
    <2>1. PICK x : x = IF t[Top] \div TopB = 1 \/ AtLeastP(t) THEN 1 ELSE 0
      OBVIOUS
    <2>2. x \in 0 .. 1 /\ (x = 1 <=> (t[Top] \div TopB = 1 \/ AtLeastP(t)))
      BY <2>1
    <2>3. PICK r : r = [Carried(Folded(t, x), W, WordBits) EXCEPT ![Top] = @ % TopB]
      OBVIOUS
    <2>4. TenElement(Made3(r, 1, TRUE))
      BY <1>4, <2>2, <2>3
    <2>5. FeNormalize(a) = Made3(r, 1, TRUE)
      BY <1>1, <2>1, <2>3 DEF FeNormalize, Made3
    <2> QED
      BY <2>4, <2>5 DEF Made3
  <1>6. /\ TenElement(FeNormalizeVar(a)) /\ FeNormalizeVar(a).magnitude = 1
        /\ FeNormalizeVar(a).normalized
    <2>1. CASE t[Top] \div TopB = 1 \/ AtLeastP(t)
      <3>1. PICK r : r = [Carried(Folded(t, 1), W, WordBits) EXCEPT ![Top] = @ % TopB]
        OBVIOUS
      <3>2. 1 \in 0 .. 1 /\ (1 = 1 <=> (t[Top] \div TopB = 1 \/ AtLeastP(t)))
        BY <2>1
      <3>3. TenElement(Made3(r, 1, TRUE))
        BY <1>4, <3>1, <3>2
      <3>4. FeNormalizeVar(a) = Made3(r, 1, TRUE)
        BY <1>1, <2>1, <3>1 DEF FeNormalizeVar, Made3
      <3> QED
        BY <3>3, <3>4 DEF Made3
    <2>2. CASE ~ (t[Top] \div TopB = 1 \/ AtLeastP(t))
      <3>1. ~ TenReaches(t)
        BY <1>3, <2>2, TenReachesP
      <3>2. TenCanonical(t)
        <4>1. Shape(Top, B, TopB, TenRange, MaxMagnitude, 2, LimbsOfP, FoldOfP)
          BY TenShape DEF TenShaped
        <4>2. Tidy(t, Top, B, TopB)
          BY <1>2 DEF TenTidy
        <4>3. /\ t[Top] \div TopB = 1 <=> t[Top] >= TopB
              /\ t[Top] < TopB => Canonical(t, Top, B, TopB)
          BY <4>1, <4>2, TidyTop
        <4>4. t[Top] \in Nat /\ TopB \in Nat
          BY <1>3, TenNumbers
        <4> QED
          BY <2>2, <4>3, <4>4 DEF TenCanonical
      <3>3. FeNormalizeVar(a) = Made3(t, 1, TRUE)
        BY <1>1, <2>2 DEF FeNormalizeVar, Made3
      <3>4. TenElement(Made3(t, 1, TRUE))
        BY <3>1, <3>2, TenNormal
      <3> QED
        BY <3>3, <3>4 DEF Made3
    <2> QED
      BY <2>1, <2>2
  <1>7. /\ TenElement(FeNormalizeWeak(a)) /\ FeNormalizeWeak(a).magnitude = 1
        /\ FeNormalizeWeak(a).normalized = a.normalized
    <2>1. FeNormalizeWeak(a) = [a EXCEPT !.n = t, !.magnitude = 1]
      BY <1>1 DEF FeNormalizeWeak
    <2>2. a \in TenRecord /\ a.normalized \in BOOLEAN
      BY TenParts
    <2>3. FeNormalizeWeak(a) = Made3(t, 1, a.normalized)
      BY <2>1, <2>2 DEF TenRecord, Made3
    <2>4. TenElement(Made3(t, 1, a.normalized))
      <3>1. CASE a.normalized = TRUE
        <4>1. TenCanonical(a.n) /\ ~ TenReaches(a.n)
          BY <3>1, TenParts
        <4>2. TenCanonical(t) /\ ~ TenReaches(t)
          BY <1>2, <4>1
        <4>3. TenElement(Made3(t, 1, TRUE))
          BY <4>2, TenNormal
        <4> QED
          BY <3>1, <4>3
      <3>2. CASE a.normalized = FALSE
        <4>1. TenElement(Made3(t, 1, FALSE))
          BY <1>2, TenWeak
        <4> QED
          BY <3>2, <4>1
      <3> QED
        BY <2>2, <3>1, <3>2
    <2> QED
      BY <2>3, <2>4 DEF Made3
  <1> QED
    BY <1>5, <1>6, <1>7

\* secp256k1_fe_set_int.
LEMMA TenSetInt ==
    ASSUME NEW x \in 0 .. B - 1
    PROVE  TenElement(FeSetInt(x)) /\ FeSetInt(x).magnitude = 1 /\ FeSetInt(x).normalized
  <1>1. Shape(Top, B, TopB, TenRange, MaxMagnitude, 2, LimbsOfP, FoldOfP)
    BY TenShape DEF TenShaped
  <1>2. PICK l : l = [i \in Limb |-> IF i = 0 THEN x ELSE 0]
    OBVIOUS
  <1>3. IsSmall(l, x, Top)
    BY <1>2 DEF IsSmall, Limb
  <1>4. Canonical(l, Top, B, TopB) /\ ~ Reaches(l, Top, B, 2, LimbsOfP, FoldOfP)
    BY <1>1, <1>3, SmallElement
  <1>5. TenElement(Made3(l, 1, TRUE))
    BY <1>4, TenNormal DEF TenCanonical, TenReaches
  <1>6. FeSetInt(x) = Made3(l, 1, TRUE)
    BY <1>2 DEF FeSetInt, Made3
  <1> QED
    BY <1>5, <1>6 DEF Made3

\* secp256k1_fe_clear.
LEMMA TenClears ==
    TenElement(FeClear) /\ FeClear.magnitude = 0 /\ FeClear.normalized
  <1>1. Shape(Top, B, TopB, TenRange, MaxMagnitude, 2, LimbsOfP, FoldOfP)
    BY TenShape DEF TenShaped
  <1>2. PICK l : l = [i \in Limb |-> 0]
    OBVIOUS
  <1>3. IsSmall(l, 0, Top)
    BY <1>2 DEF IsSmall, Limb
  <1>4. TenElement(Made3(l, 0, TRUE))
    BY <1>1, <1>3, ClearElement DEF TenElement
  <1>5. FeClear = Made3(l, 0, TRUE)
    BY <1>2 DEF FeClear, Made3
  <1> QED
    BY <1>4, <1>5 DEF Made3

\* secp256k1_fe_negate.
LEMMA TenNegates ==
    ASSUME NEW a, TenElement(a), a.magnitude < MaxMagnitude
    PROVE  /\ TenElement(FeNegate(a, a.magnitude))
           /\ FeNegate(a, a.magnitude).magnitude = a.magnitude + 1
           /\ FeNegate(a, a.magnitude).normalized = FALSE
  <1>1. Shape(Top, B, TopB, TenRange, MaxMagnitude, 2, LimbsOfP, FoldOfP)
    BY TenShape DEF TenShaped
  <1>2. PICK r : r = [i \in Limb |-> Word(P(i) * 2 * (a.magnitude + 1) - a.n[i])]
    OBVIOUS
  <1>3. IsNegated(r, a.n, a.magnitude, Top, LimbsOfP, TenRange)
    <2>1. \A i \in Limb : LimbsOfP[i] = P(i)
      BY DEF LimbsOfP
    <2>2. r = [i \in Limb |-> (LimbsOfP[i] * 2 * (a.magnitude + 1) - a.n[i]) % TenRange]
      BY <1>2, <2>1 DEF Word, TenRange
    <2> QED
      BY <2>2 DEF IsNegated, Limb
  <1>4. TenElement(Made3(r, a.magnitude + 1, FALSE))
    BY <1>1, <1>3, NegatedElement DEF TenElement
  <1>5. FeNegate(a, a.magnitude) = Made3(r, a.magnitude + 1, FALSE)
    BY <1>2 DEF FeNegate, Made3
  <1> QED
    BY <1>4, <1>5 DEF Made3

\* secp256k1_fe_mul_int.
LEMMA TenScales ==
    ASSUME NEW a, TenElement(a), NEW k \in Nat, a.magnitude * k <= MaxMagnitude
    PROVE  /\ TenElement(FeMulInt(a, k)) /\ FeMulInt(a, k).magnitude = a.magnitude * k
           /\ FeMulInt(a, k).normalized = FALSE
  <1>1. Shape(Top, B, TopB, TenRange, MaxMagnitude, 2, LimbsOfP, FoldOfP)
    BY TenShape DEF TenShaped
  <1>2. PICK r : r = [i \in Limb |-> Word(a.n[i] * k)]
    OBVIOUS
  <1>3. IsScaled(r, a.n, k, Top, TenRange)
    BY <1>2 DEF IsScaled, Limb, Word, TenRange
  <1>4. TenElement(Made3(r, a.magnitude * k, FALSE))
    BY <1>1, <1>3, ScaledElement DEF TenElement
  <1>5. FeMulInt(a, k) = Made3(r, a.magnitude * k, FALSE)
    BY <1>2 DEF FeMulInt, Made3
  <1> QED
    BY <1>4, <1>5 DEF Made3

\* secp256k1_fe_add.
LEMMA TenAdds ==
    ASSUME NEW a, TenElement(a), NEW c, TenElement(c),
           a.magnitude + c.magnitude <= MaxMagnitude
    PROVE  /\ TenElement(FeAdd(a, c)) /\ FeAdd(a, c).magnitude = a.magnitude + c.magnitude
           /\ FeAdd(a, c).normalized = FALSE
  <1>1. Shape(Top, B, TopB, TenRange, MaxMagnitude, 2, LimbsOfP, FoldOfP)
    BY TenShape DEF TenShaped
  <1>2. PICK r : r = [i \in Limb |-> Word(a.n[i] + c.n[i])]
    OBVIOUS
  <1>3. IsAdded(r, a.n, c.n, Top, TenRange)
    BY <1>2 DEF IsAdded, Limb, Word, TenRange
  <1>4. TenElement(Made3(r, a.magnitude + c.magnitude, FALSE))
    BY <1>1, <1>3, AddedElement DEF TenElement
  <1>5. FeAdd(a, c) = Made3(r, a.magnitude + c.magnitude, FALSE)
    BY <1>2 DEF FeAdd, Made3
  <1> QED
    BY <1>4, <1>5 DEF Made3

\* secp256k1_fe_cmov.
LEMMA TenMoves ==
    ASSUME NEW a, TenElement(a), NEW c, TenElement(c), NEW flag
    PROVE  /\ TenElement(FeCMov(a, c, flag))
           /\ FeCMov(a, c, flag).magnitude = Max({a.magnitude, c.magnitude})
           /\ FeCMov(a, c, flag).normalized = (a.normalized /\ c.normalized)
  <1>1. Shape(Top, B, TopB, TenRange, MaxMagnitude, 2, LimbsOfP, FoldOfP)
    BY TenShape DEF TenShaped
  <1>2. PICK r : r = [i \in Limb |-> IF flag = 1 THEN c.n[i] ELSE a.n[i]]
    OBVIOUS
  <1>3. IsChosen(r, a.n, c.n, flag, Top)
    BY <1>2 DEF IsChosen, Limb
  <1>4. TenElement(Made3(r, Max({a.magnitude, c.magnitude}), a.normalized /\ c.normalized))
    BY <1>1, <1>3, ChosenElement DEF TenElement
  <1>5. FeCMov(a, c, flag) = Made3(r, Max({a.magnitude, c.magnitude}), a.normalized /\ c.normalized)
    BY <1>2 DEF FeCMov, Made3
  <1> QED
    BY <1>4, <1>5 DEF Made3

\* The number of bits of p.
TenBits == W * Top + T

\* The bits of an element cut evenly into limbs, and into bytes.
LEMMA TenCut ==
    /\ TenBits \in Nat /\ Cut(TenBits, N, W, T) /\ W \in Nat /\ W > 0 /\ PowersOfTwo(W)
    /\ T \in 1 .. W /\ IsPower(TopB, T) /\ WordBits \in Nat \ {0} /\ PowersOfTwo(WordBits)
    /\ Covers(Bytes, ByteBits, TenBits) /\ Bytes \in Nat
    /\ ByteBits \in Nat /\ ByteBits > 0 /\ PowersOfTwo(ByteBits)
  <1>1. /\ W \in Nat /\ T \in Nat /\ T < W /\ WordBits \in Nat /\ W < WordBits
        /\ PowersOfTwo(WordBits) /\ Bytes \in Nat /\ ByteBits \in Nat
        /\ ByteBits \in 1 .. WordBits
    BY Field10x26Assumption
  <1>2. Bytes * ByteBits >= TenBits
    BY Field10x26Assumption DEF TenBits
  <1>3. Top = N - 1 /\ Top \in Nat
    BY TenNumbers
  <1>4. TenBits \in Nat
    <2>1. PICK z \in Nat : z = W * Top
      BY <1>1, <1>3, TimesNat
    <2>2. z + T \in Nat
      BY <1>1, <2>1
    <2> QED
      BY <2>1, <2>2 DEF TenBits
  <1>5. Cut(TenBits, N, W, T)
    BY <1>3 DEF Cut, TenBits
  <1>6. T # 0
    <2>1. TopB >= 2 /\ TopB = 2^T
      <3>1. TopB \in Nat /\ 2 * MaxMagnitude <= TopB /\ MaxMagnitude \in Nat /\ MaxMagnitude >= 1
        BY TenNumbers
      <3> QED
        BY <3>1 DEF TopB
    <2>2. ASSUME T = 0 PROVE FALSE
      <3>1. 2^0 = 1
        OBVIOUS
      <3>2. 2^T = 2^0
        BY <2>2
      <3>3. TopB = 1
        BY <2>1, <3>1, <3>2
      <3> QED
        BY <2>1, <3>3
    <2> QED
      BY <2>2
  <1>7. PowersOfTwo(W) /\ PowersOfTwo(ByteBits)
    BY <1>1, PowersBelow
  <1>8. Covers(Bytes, ByteBits, TenBits)
    BY <1>2 DEF Covers
  <1>9. IsPower(TopB, T)
    BY DEF IsPower, TopB
  <1> QED
    BY <1>1, <1>4, <1>5, <1>6, <1>7, <1>8, <1>9

\* The limbs that set_b32 writes.
LEMMA TenBytesRead ==
    ASSUME NEW x \in Nat
    PROVE  TenCanonical(Regroup(ByteArray(x), ByteBits, TenBits, N, W))
  <1>1. Readable(ByteArray(x), ByteBits, TenBits)
    BY TenCut, ByteArrays, ReadableLimbs
  <1>2. N \in Nat /\ N > 0 /\ T \in 0 .. W /\ Top = N - 1 /\ Top \in Nat /\ B \in Nat /\ TopB \in Nat
    BY TenCut, TenNumbers
  <1>3. PICK l : l = Regroup(ByteArray(x), ByteBits, TenBits, N, W)
    OBVIOUS
  <1>4. /\ l \in [0 .. N - 1 -> Nat] /\ (\A k \in 0 .. N - 1 : l[k] \in 0 .. 2^W - 1)
        /\ l[N - 1] \in 0 .. 2^T - 1
    BY <1>1, <1>2, <1>3, TenCut, RegroupedLimbs
  <1>5. /\ l \in [0 .. Top -> Nat] /\ (\A k \in 0 .. Top : l[k] \in 0 .. B - 1)
        /\ l[Top] \in 0 .. TopB - 1
    BY <1>2, <1>4 DEF B, TopB
  <1>6. l[Top] <= TopB - 1 /\ (\A k \in 0 .. Top - 1 : l[k] <= B - 1)
    BY <1>2, <1>5
  <1> QED
    BY <1>3, <1>5, <1>6 DEF TenCanonical, Canonical

\* secp256k1_fe_set_b32: an element, unless the bytes hold p or more.
LEMMA TenSetsB32 ==
    ASSUME NEW x, x.ten \in Nat, NEW a \in TenRecord
    PROVE  /\ FeSetB32(a, ByteArray(x.ten)).r \in TenRecord
           /\ TakenAs10(x) =>
                 /\ TenElement(FeSetB32(a, ByteArray(x.ten)).r)
                 /\ FeSetB32(a, ByteArray(x.ten)).r.magnitude = 1
                 /\ FeSetB32(a, ByteArray(x.ten)).r.normalized
  <1>1. PICK l : l = Regroup(ByteArray(x.ten), ByteBits, TenBits, N, W)
    OBVIOUS
  <1>2. TenCanonical(l)
    BY <1>1, TenBytesRead
  <1>3. l \in [0 .. Top -> Nat]
    BY <1>2 DEF TenCanonical, Canonical
  <1>4. FeSetB32(a, ByteArray(x.ten)) =
           IF AtLeastP(l) THEN [ok |-> FALSE, r |-> [a EXCEPT !.n = l]]
                          ELSE [ok |-> TRUE, r |-> Made3(l, 1, TRUE)]
    BY <1>1 DEF FeSetB32, TenBits, Made3
  <1>5. TakenAs10(x) <=> ~ AtLeastP(l)
    <2>1. FeSetB32(FeClear, ByteArray(x.ten)) =
             IF AtLeastP(l) THEN [ok |-> FALSE, r |-> [FeClear EXCEPT !.n = l]]
                            ELSE [ok |-> TRUE, r |-> Made3(l, 1, TRUE)]
      BY <1>1 DEF FeSetB32, TenBits, Made3
    <2>2. CASE AtLeastP(l)
      BY <2>1, <2>2 DEF TakenAs10
    <2>3. CASE ~ AtLeastP(l)
      BY <2>1, <2>3 DEF TakenAs10
    <2> QED
      BY <2>2, <2>3
  <1>6. CASE AtLeastP(l)
    <2>1. FeSetB32(a, ByteArray(x.ten)).r = [a EXCEPT !.n = l]
      BY <1>4, <1>6
    <2>2. [a EXCEPT !.n = l] \in TenRecord
      BY <1>3 DEF TenRecord
    <2> QED
      BY <1>5, <1>6, <2>1, <2>2
  <1>7. CASE ~ AtLeastP(l)
    <2>1. FeSetB32(a, ByteArray(x.ten)).r = Made3(l, 1, TRUE)
      BY <1>4, <1>7
    <2>2. ~ TenReaches(l)
      BY <1>3, <1>7, TenReachesP
    <2>3. TenElement(Made3(l, 1, TRUE))
      BY <1>2, <2>2, TenNormal
    <2>4. Made3(l, 1, TRUE) \in TenRecord
      BY <2>3, TenParts
    <2> QED
      BY <2>1, <2>3, <2>4 DEF Made3
  <1> QED
    BY <1>6, <1>7

\* secp256k1_fe_to_storage, _storage_cmov and _from_storage give an element
\* back.
LEMMA TenStores ==
    ASSUME NEW a, TenElement(a), a.normalized, NEW c, TenElement(c), c.normalized, NEW flag
    PROVE  LET f == FeFromStorage(FeStorageCMov(FeToStorage(a), FeToStorage(c), flag))
           IN  TenElement(f) /\ f.magnitude = 1 /\ f.normalized
  <1>1. PICK f : f = FeFromStorage(FeStorageCMov(FeToStorage(a), FeToStorage(c), flag))
    OBVIOUS
  <1>2. PICK m : m = (TenBits + WordBits - 1) \div WordBits
    OBVIOUS
  <1>3. m \in Nat
    BY <1>2, TenCut, EnoughWords
  <1>4. StorageWords = m
    BY <1>2 DEF StorageWords, TenBits
  <1>5. PICK x : x = FeToStorage(a)
    OBVIOUS
  <1>6. PICK y : y = FeToStorage(c)
    OBVIOUS
  <1>7. x = Regroup(a.n, W, TenBits, m, WordBits) /\ y = Regroup(c.n, W, TenBits, m, WordBits)
    BY <1>4, <1>5, <1>6 DEF FeToStorage, TenBits
  <1>8. /\ DOMAIN x = 0 .. m - 1 /\ DOMAIN y = 0 .. m - 1
        /\ x = [i \in 0 .. m - 1 |-> x[i]] /\ y = [i \in 0 .. m - 1 |-> y[i]]
    BY <1>7 DEF Regroup
  <1>9. FeStorageCMov(x, y, flag) = IF flag = 1 THEN y ELSE x
    BY <1>3, <1>8, StorageChosen DEF FeStorageCMov
  <1>10. ASSUME NEW l, TenCanonical(l)
         PROVE  Regroup(Regroup(l, W, TenBits, m, WordBits), WordBits, TenBits, N, W) = l
    <2>1. Shape(Top, B, TopB, TenRange, MaxMagnitude, 2, LimbsOfP, FoldOfP)
      BY TenShape DEF TenShaped
    <2>2. Canonical(l, Top, B, TopB)
      BY <1>10 DEF TenCanonical
    <2>3. N \in Nat /\ N = Top + 1 /\ IsPower(B, W)
      BY TenNumbers
    <2>4. Regroup(Regroup(l, W, TenBits, (TenBits + WordBits - 1) \div WordBits, WordBits),
                  WordBits, TenBits, N, W) = l
      BY <2>1, <2>2, <2>3, TenCut, StoredAndBack
    <2> QED
      BY <1>2, <2>4
  <1>11. TenCanonical(a.n) /\ ~ TenReaches(a.n) /\ TenCanonical(c.n) /\ ~ TenReaches(c.n)
    BY TenParts
  <1>12. PICK l \in {a.n, c.n} : f = Made3(l, 1, TRUE)
    <2>1. f = Made3(Regroup(IF flag = 1 THEN y ELSE x, WordBits, TenBits, N, W), 1, TRUE)
      BY <1>1, <1>5, <1>6, <1>9 DEF FeFromStorage, Made3, TenBits
    <2>2. CASE flag = 1
      <3>1. f = Made3(Regroup(y, WordBits, TenBits, N, W), 1, TRUE)
        BY <2>1, <2>2
      <3>2. f = Made3(c.n, 1, TRUE)
        BY <1>7, <1>10, <1>11, <3>1
      <3> QED
        BY <3>2
    <2>3. CASE flag # 1
      <3>1. f = Made3(Regroup(x, WordBits, TenBits, N, W), 1, TRUE)
        BY <2>1, <2>3
      <3>2. f = Made3(a.n, 1, TRUE)
        BY <1>7, <1>10, <1>11, <3>1
      <3> QED
        BY <3>2
    <2> QED
      BY <2>2, <2>3
  <1>13. TenElement(Made3(l, 1, TRUE))
    BY <1>11, <1>12, TenNormal
  <1> QED
    BY <1>1, <1>12, <1>13 DEF Made3

-----------------------------------------------------------------------------
(* The products of 10x26.                                                  *)

\* A larger number has a larger quotient.
LEMMA DivMonotone ==
    ASSUME NEW x \in Nat, NEW y \in Nat, x <= y, NEW b \in Nat \ {0}
    PROVE  x \div b <= y \div b
  <1>1. PICK u : u = x \div b
    OBVIOUS
  <1>2. PICK r : r = x % b
    OBVIOUS
  <1>3. PICK v : v = y \div b
    OBVIOUS
  <1>4. PICK s : s = y % b
    OBVIOUS
  <1>5. u \in Nat /\ r \in 0 .. b - 1 /\ x = b * u + r
    BY <1>1, <1>2, DivMod
  <1>6. v \in Nat /\ s \in 0 .. b - 1 /\ y = b * v + s
    BY <1>3, <1>4, DivMod
  <1>7. ASSUME v + 1 <= u PROVE FALSE
    <2>1. (v + 1) * b <= u * b
      BY <1>5, <1>6, <1>7, TimesMonotone
    <2>2. (v + 1) * b = v * b + 1 * b /\ b * v = v * b /\ b * u = u * b
      BY <1>5, <1>6, Times
    <2>3. PICK m \in Nat : m = v * b
      BY <1>6, TimesNat
    <2>4. PICK n \in Nat : n = u * b
      BY <1>5, TimesNat
    <2>5. m + b <= n /\ x = n + r /\ y = m + s
      BY <1>5, <1>6, <2>1, <2>2, <2>3, <2>4
    <2> QED
      BY <1>5, <1>6, <2>5
  <1> QED
    BY <1>1, <1>3, <1>5, <1>6, <1>7

\* A product grows with its factors.
LEMMA ProductBelow ==
    ASSUME NEW a \in Nat, NEW b \in Nat, NEW c \in Nat, NEW d \in Nat, a <= b, c <= d
    PROVE  a * c \in Nat /\ b * d \in Nat /\ a * c <= b * d
  <1>1. a * c <= b * c
    BY TimesMonotone
  <1>2. c * b <= d * b
    BY TimesMonotone
  <1>3. b * c = c * b /\ d * b = b * d
    BY Times
  <1>4. PICK u \in Nat : u = a * c
    BY TimesNat
  <1>5. PICK v \in Nat : v = b * d
    BY TimesNat
  <1>6. PICK w \in Nat : w = c * b
    BY TimesNat
  <1>7. u <= w /\ w <= v
    BY <1>1, <1>2, <1>3, <1>4, <1>5, <1>6
  <1>8. u <= v
    BY <1>7
  <1> QED
    BY <1>4, <1>5, <1>8

\* Reducing to a width never makes a number larger.
LEMMA ModBelow ==
    ASSUME NEW x \in Nat, NEW b \in Nat \ {0}
    PROVE  x % b \in Nat /\ x % b <= x /\ x % b < b
  <1>1. PICK u : u = x \div b
    OBVIOUS
  <1>2. PICK r : r = x % b
    OBVIOUS
  <1>3. u \in Nat /\ r \in 0 .. b - 1 /\ x = b * u + r
    BY <1>1, <1>2, DivMod
  <1>4. PICK m \in Nat : m = b * u
    BY <1>3, TimesNat
  <1>5. r <= x /\ r \in Nat /\ r < b
    BY <1>3, <1>4
  <1> QED
    BY <1>2, <1>5

\* The limbs of a factor: x bounds the low ones, y the top one.
Bounded(l, top, x, y) ==
    /\ l \in [0 .. top -> Nat] /\ l[top] <= y
    /\ \A i \in 0 .. top - 1 : l[i] <= x

\* Limbs within a magnitude, bounded as the columns of a product need it.
LEMMA WithinIsBounded ==
    ASSUME NEW top, NEW b, NEW e, NEW word, NEW max, NEW low, NEW q, NEW d,
           Shape(top, b, e, word, max, low, q, d),
           NEW m \in Nat, NEW k \in Nat, k <= m, NEW l, Within(l, k, top, q)
    PROVE  Bounded(l, top, (2 * m) * (b - 1), (2 * m) * (e - 1))
  <1>1. /\ top \in Nat /\ b \in Nat \ {0} /\ e \in Nat \ {0}
        /\ \A i \in 0 .. top : q[i] \in Nat /\ d[i] \in Nat
        /\ \A i \in 0 .. top - 1 : q[i] <= b - 1
        /\ q[top] = e - 1
    BY ShapeNumbers
  <1>2. q \in [0 .. top -> Nat]
    BY DEF Shape
  <1>3. Within(l, m, top, q)
    BY <1>1, <1>2, WithinGrows
  <1>4. l \in [0 .. top -> Nat] /\ (\A i \in 0 .. top : l[i] <= (2 * m) * q[i])
    BY <1>3 DEF Within
  <1>5. PICK n \in Nat : n = 2 * m
    OBVIOUS
  <1>6. l[top] <= n * (e - 1)
    BY <1>1, <1>4, <1>5
  <1>7. ASSUME NEW i \in 0 .. top - 1 PROVE l[i] <= n * (b - 1)
    <2>1. i \in 0 .. top /\ q[i] \in Nat /\ b - 1 \in Nat /\ q[i] <= b - 1 /\ l[i] \in Nat
      BY <1>1, <1>4
    <2>2. n * q[i] \in Nat /\ n * (b - 1) \in Nat /\ n * q[i] <= n * (b - 1)
      BY <2>1, ProductBelow
    <2>3. PICK u : u = n * q[i]
      OBVIOUS
    <2>4. PICK v : v = n * (b - 1)
      OBVIOUS
    <2>5. l[i] <= u /\ u <= v /\ u \in Nat /\ v \in Nat
      BY <1>4, <1>5, <2>1, <2>2, <2>3, <2>4
    <2>6. l[i] <= v
      BY <2>1, <2>5
    <2> QED
      BY <2>4, <2>6
  <1> QED
    BY <1>4, <1>5, <1>6, <1>7 DEF Bounded

\* The columns of a product: the two highest are small.
Columns(col, last2, top, x, y) ==
    /\ col \in [0 .. last2 -> Nat]
    /\ col[2 * top - 1] <= 2 * x * y /\ col[2 * top] <= y * y

\* The two highest columns of a product, which hold one or two products.
LEMMA MulHigh ==
    ASSUME NEW top \in Nat, top >= 1, NEW a, NEW b, NEW x \in Nat, NEW y \in Nat,
           Bounded(a, top, x, y), Bounded(b, top, x, y), NEW k \in Int, NEW D,
           D = {i \in 0 .. top : k - i \in 0 .. top}
    PROVE  /\ k = 2 * top - 1 => MulSum(a, b, k, D) <= 2 * x * y
           /\ k = 2 * top => MulSum(a, b, k, D) <= y * y
  <1>1. /\ a \in [0 .. top -> Nat] /\ a[top] <= y /\ (\A i \in 0 .. top - 1 : a[i] <= x)
        /\ b \in [0 .. top -> Nat] /\ b[top] <= y /\ (\A i \in 0 .. top - 1 : b[i] <= x)
    BY DEF Bounded
  <1>2. \A m \in Nat : (\A i \in D : a[i] * b[k - i] <= m) =>
           MulSum(a, b, k, D) <= Cardinality(D) * m
    BY <1>1, MulColumn
  <1>3. ASSUME k = 2 * top - 1 PROVE MulSum(a, b, k, D) <= 2 * x * y
    <2>1. D = {top - 1, top}
      BY <1>3
    <2>2. Cardinality(D) = 2
      <3>1. IsFiniteSet({}) /\ Cardinality({}) = 0
        BY FS_EmptySet
      <3>2. IsFiniteSet({top}) /\ Cardinality({top}) = 1
        BY FS_Singleton
      <3>3. PICK g : g = {top} \cup {top - 1}
        OBVIOUS
      <3>4. top - 1 \notin {top} /\ g = D
        BY <2>1, <3>3
      <3>5. Cardinality(g) = 1 + 1
        BY <3>2, <3>3, <3>4, FS_AddElement
      <3>6. Cardinality(D) = Cardinality(g)
        BY <3>4
      <3> QED
        BY <3>5, <3>6
    <2>3. PICK m \in Nat : m = x * y
      BY TimesNat
    <2>4. ASSUME NEW i \in D PROVE a[i] * b[k - i] <= m
      <3>1. CASE i = top
        <4>1. k - i = top - 1 /\ top - 1 \in 0 .. top - 1 /\ top \in 0 .. top /\ top - 1 \in 0 .. top
          BY <1>3, <3>1
        <4>2. a[top] \in Nat /\ b[top - 1] \in Nat /\ a[top] <= y /\ b[top - 1] <= x
          BY <1>1, <4>1
        <4>3. a[top] * b[top - 1] <= y * x
          BY <4>2, ProductBelow
        <4>4. y * x = x * y
          BY Times
        <4> QED
          BY <2>3, <3>1, <4>1, <4>3, <4>4
      <3>2. CASE i = top - 1
        <4>1. k - i = top /\ top - 1 \in 0 .. top - 1 /\ top \in 0 .. top /\ top - 1 \in 0 .. top
          BY <1>3, <3>2
        <4>2. b[top] \in Nat /\ a[top - 1] \in Nat /\ b[top] <= y /\ a[top - 1] <= x
          BY <1>1, <4>1
        <4>3. a[top - 1] * b[top] <= x * y
          BY <4>2, ProductBelow
        <4> QED
          BY <2>3, <3>2, <4>1, <4>3
      <3> QED
        BY <2>1, <3>1, <3>2
    <2>5. MulSum(a, b, k, D) <= 2 * m
      BY <1>2, <2>2, <2>3, <2>4
    <2>6. 2 * x * y = 2 * m
      <3>1. 2 * x = x + x
        OBVIOUS
      <3>2. (x + x) * y = x * y + x * y
        BY Times
      <3> QED
        BY <2>3, <3>1, <3>2
    <2> QED
      BY <2>5, <2>6
  <1>4. ASSUME k = 2 * top PROVE MulSum(a, b, k, D) <= y * y
    <2>1. D = {top}
      BY <1>4
    <2>2. Cardinality(D) = 1
      BY <2>1, FS_Singleton
    <2>3. PICK m \in Nat : m = y * y
      BY TimesNat
    <2>4. ASSUME NEW i \in D PROVE a[i] * b[k - i] <= m
      <3>1. i = top /\ k - i = top /\ top \in 0 .. top
        BY <1>4, <2>1
      <3>2. b[top] \in Nat /\ a[top] \in Nat /\ b[top] <= y /\ a[top] <= y
        BY <1>1, <3>1
      <3>3. a[top] * b[top] <= y * y
        BY <3>2, ProductBelow
      <3> QED
        BY <2>3, <3>1, <3>3
    <2>5. MulSum(a, b, k, D) <= 1 * m
      BY <1>2, <2>2, <2>3, <2>4
    <2> QED
      BY <2>3, <2>5
  <1> QED
    BY <1>3, <1>4

\* c is a with limbs that may be doubled.
Doubled(c, a, top) ==
    /\ c \in [0 .. top -> Nat]
    /\ \A i \in 0 .. top : c[i] <= 2 * a[i]

\* The two highest columns of a square.
LEMMA SqrHigh ==
    ASSUME NEW top \in Nat, top >= 1, NEW a, NEW c, NEW x \in Nat, NEW y \in Nat,
           Bounded(a, top, x, y), Doubled(c, a, top), NEW k \in Int, NEW D,
           D = {i \in 0 .. top : k - i \in 0 .. top /\ 2 * i <= k}
    PROVE  /\ k = 2 * top - 1 => SqrSum(a, c, k, D) <= 2 * x * y
           /\ k = 2 * top => SqrSum(a, c, k, D) <= y * y
  <1>1. /\ a \in [0 .. top -> Nat] /\ a[top] <= y /\ (\A i \in 0 .. top - 1 : a[i] <= x)
        /\ c \in [0 .. top -> Nat] /\ (\A i \in 0 .. top : c[i] <= 2 * a[i])
    BY DEF Bounded, Doubled
  <1>2. \A m \in Nat :
           (\A i \in D : (IF 2 * i = k THEN a[i] * a[i] ELSE c[i] * a[k - i]) <= m) =>
           SqrSum(a, c, k, D) <= Cardinality(D) * m
    BY <1>1, SqrColumn
  <1>3. ASSUME k = 2 * top - 1 PROVE SqrSum(a, c, k, D) <= 2 * x * y
    <2>1. D = {top - 1}
      <3>1. ASSUME NEW i \in D PROVE i = top - 1
        BY <1>3
      <3>2. top - 1 \in 0 .. top /\ k - (top - 1) = top /\ top \in 0 .. top /\ 2 * (top - 1) <= k
        BY <1>3
      <3>3. top - 1 \in D
        BY <3>2
      <3> QED
        BY <3>1, <3>3
    <2>2. Cardinality(D) = 1
      BY <2>1, FS_Singleton
    <2>3. PICK n \in Nat : n = 2 * x
      OBVIOUS
    <2>4. PICK m \in Nat : m = n * y
      BY <2>3, TimesNat
    <2>5. ASSUME NEW i \in D
          PROVE  (IF 2 * i = k THEN a[i] * a[i] ELSE c[i] * a[k - i]) <= m
      <3>1. /\ i = top - 1 /\ k - i = top /\ 2 * i # k
            /\ top - 1 \in 0 .. top - 1 /\ top \in 0 .. top /\ top - 1 \in 0 .. top
        BY <1>3, <2>1
      <3>2. /\ a[top] \in Nat /\ a[top - 1] \in Nat /\ a[top] <= y /\ a[top - 1] <= x
            /\ c[top - 1] \in Nat /\ c[top - 1] <= 2 * a[top - 1]
        BY <1>1, <3>1
      <3>3. c[top - 1] <= n
        BY <2>3, <3>2
      <3>4. c[top - 1] * a[top] <= n * y
        BY <3>2, <3>3, ProductBelow
      <3> QED
        BY <2>4, <3>1, <3>4
    <2>6. SqrSum(a, c, k, D) <= 1 * m
      BY <1>2, <2>2, <2>4, <2>5
    <2>7. 2 * x * y = m
      BY <2>3, <2>4
    <2> QED
      BY <2>4, <2>6, <2>7
  <1>4. ASSUME k = 2 * top PROVE SqrSum(a, c, k, D) <= y * y
    <2>1. D = {top}
      BY <1>4
    <2>2. Cardinality(D) = 1
      BY <2>1, FS_Singleton
    <2>3. PICK m \in Nat : m = y * y
      BY TimesNat
    <2>4. ASSUME NEW i \in D
          PROVE  (IF 2 * i = k THEN a[i] * a[i] ELSE c[i] * a[k - i]) <= m
      <3>1. i = top /\ 2 * i = k /\ top \in 0 .. top
        BY <1>4, <2>1
      <3>2. a[top] \in Nat /\ a[top] <= y
        BY <1>1, <3>1
      <3>3. a[top] * a[top] <= y * y
        BY <3>2, ProductBelow
      <3> QED
        BY <2>3, <3>1, <3>3
    <2>5. SqrSum(a, c, k, D) <= 1 * m
      BY <1>2, <2>2, <2>3, <2>4
    <2> QED
      BY <2>3, <2>5
  <1> QED
    BY <1>3, <1>4

AccRange == 2^AccBits
FullLimb == AccRange \div B            \* what is carried out of an accumulator, at most
R2       == R1 * 2^S

\* The constants of the reduction are numbers.
LEMMA TenWeights ==
    /\ AccRange \in Nat \ {0} /\ FullLimb \in Nat /\ R0 \in Nat /\ R1 \in Nat /\ R2 \in Nat
    /\ B \in Nat \ {0} /\ TopB \in Nat \ {0} /\ C0 \in Nat /\ C1 \in Nat /\ B - 1 \in Nat
    /\ N \in Nat /\ N > 4 /\ Top \in Nat /\ Top = N - 1
  <1>1. AccRange \in Nat \ {0}
    BY Field10x26Assumption DEF AccRange
  <1>2. FullLimb \in Nat
    BY <1>1, TenNumbers, DivMod DEF FullLimb
  <1>3. S \in Nat /\ S <= WordBits /\ WordBits \in Nat /\ PowersOfTwo(WordBits)
    BY Field10x26Assumption DEF S
  <1>4. PICK z \in Nat : z = 2^S
    BY <1>3, NextPower
  <1>5. C0 \in Nat /\ C1 \in Nat
    BY TenNumbers
  <1>6. R0 \in Nat /\ R1 \in Nat
    BY <1>4, <1>5, TimesNat DEF R0, R1
  <1>7. R2 \in Nat
    BY <1>4, <1>6, TimesNat DEF R2
  <1> QED
    BY <1>1, <1>2, <1>5, <1>6, <1>7, TenNumbers

\* An accumulator never holds more than what is written to it.
LEMMA AccBelow ==
    ASSUME NEW x \in Nat
    PROVE  Acc(x) \in Nat /\ Acc(x) <= x /\ Acc(x) \div B \in Nat /\ Acc(x) \div B <= FullLimb
           /\ Acc(x) \div B <= x \div B /\ Acc(x) % B \in 0 .. B - 1
  <1>1. PICK r : r = Acc(x)
    OBVIOUS
  <1>2. r \in Nat /\ r <= x /\ r < AccRange
    BY <1>1, TenWeights, ModBelow DEF Acc, AccRange
  <1>3. r <= AccRange /\ AccRange \in Nat
    BY <1>2, TenWeights
  <1>4. r \div B <= FullLimb
    BY <1>2, <1>3, TenWeights, DivMonotone DEF FullLimb
  <1>5. r \div B <= x \div B
    BY <1>2, TenWeights, DivMonotone
  <1>6. r \div B \in Nat /\ r % B \in 0 .. B - 1
    BY <1>2, TenWeights, DivMod
  <1> QED
    BY <1>1, <1>2, <1>4, <1>5, <1>6

TenState == [d : Nat, t : 0 .. B - 1, c : Nat]

\* A step of the reduction.
LEMMA TenStep ==
    ASSUME NEW col \in [0 .. 2 * N - 2 -> Nat], NEW st \in TenState, NEW k \in 0 .. N - 2
    PROVE  /\ MulStep(col, st, k) \in TenState
           /\ MulStep(col, st, k).d <= FullLimb
           /\ MulStep(col, st, k).d <= (st.d + col[N + k]) \div B
           /\ MulStep(col, st, k).c <= FullLimb + (B - 1) * R1
  <1>1. N \in Nat /\ N > 4 /\ R0 \in Nat /\ R1 \in Nat /\ B - 1 \in Nat /\ FullLimb \in Nat
    BY TenWeights
  <1>2. col[N + k] \in Nat /\ col[k] \in Nat /\ st.d \in Nat /\ st.c \in Nat
    <2>1. N + k \in 0 .. 2 * N - 2 /\ k \in 0 .. 2 * N - 2
      BY <1>1
    <2> QED
      BY <2>1 DEF TenState
  <1>3. PICK g \in Nat : g = st.d + col[N + k]
    BY <1>2
  <1>4. PICK d : d = Acc(g)
    OBVIOUS
  <1>5. d \in Nat /\ d \div B \in Nat /\ d \div B <= FullLimb /\ d \div B <= g \div B /\ d % B \in 0 .. B - 1
    BY <1>3, <1>4, AccBelow
  <1>6. PICK u : u = d % B
    OBVIOUS
  <1>7. u \in Nat /\ u <= B - 1
    BY <1>1, <1>5, <1>6
  <1>8. PICK v \in Nat : v = u * R0
    BY <1>1, <1>7, TimesNat
  <1>9. PICK h \in Nat : h = Acc(st.c + col[k])
    <2>1. st.c + col[k] \in Nat
      BY <1>2
    <2> QED
      BY <2>1, AccBelow
  <1>10. PICK c : c = Acc(h + v)
    OBVIOUS
  <1>11. c \in Nat /\ c \div B \in Nat /\ c \div B <= FullLimb /\ c % B \in 0 .. B - 1
    <2>1. h + v \in Nat
      OBVIOUS
    <2> QED
      BY <1>10, <2>1, AccBelow
  <1>12. PICK w : w = u * R1
    OBVIOUS
  <1>13. PICK m : m = (B - 1) * R1
    OBVIOUS
  <1>14. w \in Nat /\ m \in Nat /\ w <= m
    BY <1>1, <1>7, <1>12, <1>13, TimesNat, TimesMonotone
  <1>15. PICK y \in Nat : y = c \div B
    BY <1>11
  <1>16. PICK z : z = Acc(y + w)
    OBVIOUS
  <1>17. z \in Nat /\ z <= y + w
    <2>1. y + w \in Nat
      BY <1>14
    <2> QED
      BY <1>16, <2>1, AccBelow
  <1>18. z <= FullLimb + m
    BY <1>1, <1>11, <1>14, <1>15, <1>17
  <1>19. MulStep(col, st, k) = [d |-> d \div B, t |-> c % B, c |-> z]
    BY <1>3, <1>4, <1>6, <1>8, <1>9, <1>10, <1>12, <1>15, <1>16 DEF MulStep
  <1>20. [d |-> d \div B, t |-> c % B, c |-> z] \in TenState
    BY <1>5, <1>11, <1>17 DEF TenState
  <1> QED
    BY <1>3, <1>5, <1>13, <1>18, <1>19, <1>20

TenStart(col) == [d |-> Acc(col[Top]) \div B, t |-> 0, c |-> 0]

\* s are the states of the reduction.
TenRun(s, col) ==
    s = [k \in -1 .. N - 2 |->
            IF k = -1 THEN [d |-> Acc(col[Top]) \div B, t |-> 0, c |-> 0]
                      ELSE MulStep(col, s[k - 1], k)]

\* The steps of the reduction of 10x26 can be taken one after the other.
LEMMA TenRunExists ==
    ASSUME NEW col \in [0 .. 2 * N - 2 -> Nat]
    PROVE  \E s : TenRun(s, col)
  <1>1. N \in Nat /\ N > 4 /\ B \in Nat /\ B - 1 \in Nat /\ Top \in Nat /\ Top = N - 1
    BY TenWeights
  <1>2. TenStart(col) \in TenState
    <2>1. Top \in 0 .. 2 * N - 2
      BY <1>1
    <2>2. Acc(col[Top]) \div B \in Nat
      BY <2>1, AccBelow
    <2>3. 0 \in 0 .. B - 1
      BY <1>1
    <2> QED
      BY <2>2, <2>3 DEF TenStart, TenState
  <1> DEFINE G == [k \in 1 .. N - 1 |-> [st \in TenState |-> MulStep(col, st, k - 1)]]
  <1>3. G \in [1 .. N - 1 -> [TenState -> TenState]]
    <2>1. ASSUME NEW k \in 1 .. N - 1, NEW st \in TenState PROVE MulStep(col, st, k - 1) \in TenState
      <3>1. k - 1 \in 0 .. N - 2
        BY <1>1
      <3> QED
        BY <3>1, TenStep
    <2> QED
      BY <2>1
  <1>4. N - 1 \in Nat
    BY <1>1
  <1> HIDE DEF G
  <1>5. PICK f : Runs(f, N - 1, TenState, TenStart(col), G)
    BY <1>2, <1>3, <1>4, Recursion
  <1>6. /\ f \in [0 .. N - 1 -> TenState] /\ f[0] = TenStart(col)
        /\ \A k \in 1 .. N - 1 : f[k] = G[k][f[k - 1]]
    BY <1>5 DEF Runs
  <1> DEFINE s == [k \in -1 .. N - 2 |-> f[k + 1]]
  <1>7. ASSUME NEW k \in -1 .. N - 2
        PROVE  f[k + 1] = IF k = -1 THEN TenStart(col) ELSE MulStep(col, s[k - 1], k)
    <2>1. CASE k = -1
      <3>1. k + 1 = 0
        BY <2>1
      <3> QED
        BY <1>6, <2>1, <3>1
    <2>2. CASE k # -1
      <3>1. k + 1 \in 1 .. N - 1 /\ k - 1 \in -1 .. N - 2 /\ (k - 1) + 1 = k /\ (k + 1) - 1 = k
            /\ k \in 0 .. N - 1
        BY <1>1, <2>2
      <3>2. s[k - 1] = f[k] /\ f[k] \in TenState
        BY <1>6, <3>1
      <3>3. f[k + 1] = G[k + 1][f[k]]
        BY <1>6, <3>1
      <3>4. G[k + 1][f[k]] = MulStep(col, f[k], k)
        BY <3>1, <3>2 DEF G
      <3> QED
        BY <2>2, <3>2, <3>3, <3>4
    <2> QED
      BY <2>1, <2>2
  <1>8. s = [k \in -1 .. N - 2 |-> IF k = -1 THEN TenStart(col) ELSE MulStep(col, s[k - 1], k)]
    BY <1>7
  <1> HIDE DEF s
  <1>9. TenRun(s, col)
    BY <1>8 DEF TenRun, TenStart
  <1> QED
    BY <1>9

\* What the walk leaves in d, at most.
TenLeft(x, y) == ((FullLimb + 2 * x * y) \div B + y * y) \div B

\* After every step the accumulators are small: d holds a carry, c a carry and a
\* multiple of R1.
LEMMA TenRunBounds ==
    ASSUME NEW col, NEW x \in Nat, NEW y \in Nat, Columns(col, 2 * N - 2, Top, x, y),
           NEW s, TenRun(s, col)
    PROVE  /\ \A k \in 0 .. N - 2 : s[k] \in TenState
           /\ s[N - 2].d <= TenLeft(x, y) /\ TenLeft(x, y) \in Nat
           /\ s[N - 2].c <= FullLimb + (B - 1) * R1
  <1>1. /\ N \in Nat /\ N > 4 /\ B \in Nat \ {0} /\ B - 1 \in Nat /\ Top \in Nat /\ Top = N - 1
        /\ FullLimb \in Nat /\ R1 \in Nat
    BY TenWeights
  <1>2. /\ col \in [0 .. 2 * N - 2 -> Nat]
        /\ col[2 * Top - 1] <= 2 * x * y /\ col[2 * Top] <= y * y
    BY DEF Columns
  <1>3. s[-1] \in TenState
    <2>1. Top \in 0 .. 2 * N - 2 /\ -1 \in -1 .. N - 2
      BY <1>1
    <2>2. Acc(col[Top]) \div B \in Nat
      BY <1>2, <2>1, AccBelow
    <2>3. 0 \in 0 .. B - 1
      BY <1>1
    <2>4. s[-1] = [d |-> Acc(col[Top]) \div B, t |-> 0, c |-> 0]
      BY <2>1 DEF TenRun
    <2> QED
      BY <2>2, <2>3, <2>4 DEF TenState
  <1>4. ASSUME NEW k \in 0 .. N - 2 PROVE s[k] = MulStep(col, s[k - 1], k)
    <2>1. k \in -1 .. N - 2 /\ k # -1
      BY <1>1
    <2> QED
      BY <2>1 DEF TenRun
  <1> DEFINE X == {j \in Nat : j <= N - 1 => s[j - 1] \in TenState}
  <1>5. 0 \in X
    BY <1>3
  <1>6. ASSUME NEW j \in Nat, j \in X PROVE j + 1 \in X
    <2>1. SUFFICES ASSUME j + 1 <= N - 1 PROVE s[(j + 1) - 1] \in TenState
      OBVIOUS
    <2>2. j \in 0 .. N - 2 /\ (j + 1) - 1 = j /\ s[j - 1] \in TenState
      BY <1>1, <1>6, <2>1
    <2>3. MulStep(col, s[j - 1], j) \in TenState
      BY <1>2, <2>2, TenStep
    <2> QED
      BY <1>4, <2>2, <2>3
  <1> HIDE DEF X
  <1>7. \A j \in Nat : j \in X
    BY <1>5, <1>6, Induction
  <1>8. ASSUME NEW k \in 0 .. N - 2
        PROVE  s[k] \in TenState /\ s[k - 1] \in TenState
    <2>1. k + 1 \in Nat /\ k \in Nat /\ k + 1 <= N - 1 /\ k <= N - 1 /\ (k + 1) - 1 = k
      BY <1>1
    <2>2. k + 1 \in X /\ k \in X
      BY <1>7, <2>1
    <2> QED
      BY <2>1, <2>2 DEF X
  <1>9. ASSUME NEW k \in 0 .. N - 2
        PROVE  /\ s[k].d \in Nat /\ s[k].d <= FullLimb
               /\ s[k].d <= (s[k - 1].d + col[N + k]) \div B
               /\ s[k].c <= FullLimb + (B - 1) * R1
    <2>1. s[k] = MulStep(col, s[k - 1], k) /\ s[k - 1] \in TenState
      BY <1>4, <1>8
    <2>2. /\ MulStep(col, s[k - 1], k) \in TenState
          /\ MulStep(col, s[k - 1], k).d <= FullLimb
          /\ MulStep(col, s[k - 1], k).d <= (s[k - 1].d + col[N + k]) \div B
          /\ MulStep(col, s[k - 1], k).c <= FullLimb + (B - 1) * R1
      BY <1>2, <2>1, TenStep
    <2>3. s[k].d \in Nat
      BY <1>8 DEF TenState
    <2> QED
      BY <2>1, <2>2, <2>3
  <1>10. PICK m \in Nat : m = 2 * x * y
    BY TimesNat
  <1>11. PICK n \in Nat : n = y * y
    BY TimesNat
  <1>12. PICK a : a = s[N - 4].d
    OBVIOUS
  <1>13. PICK b : b = s[N - 3].d
    OBVIOUS
  <1>14. PICK c : c = s[N - 2].d
    OBVIOUS
  <1>15. /\ a \in Nat /\ a <= FullLimb
         /\ b \in Nat /\ b <= (a + col[2 * N - 3]) \div B
         /\ c \in Nat /\ c <= (b + col[2 * N - 2]) \div B
    <2>1. /\ N - 4 \in 0 .. N - 2 /\ N - 3 \in 0 .. N - 2 /\ N - 2 \in 0 .. N - 2
          /\ (N - 3) - 1 = N - 4 /\ (N - 2) - 1 = N - 3
          /\ N + (N - 3) = 2 * N - 3 /\ N + (N - 2) = 2 * N - 2
      BY <1>1
    <2>2. a \in Nat /\ a <= FullLimb
      BY <1>9, <1>12, <2>1
    <2>3. b \in Nat /\ b <= (s[(N - 3) - 1].d + col[N + (N - 3)]) \div B
      BY <1>9, <1>13, <2>1
    <2>4. c \in Nat /\ c <= (s[(N - 2) - 1].d + col[N + (N - 2)]) \div B
      BY <1>9, <1>14, <2>1
    <2> QED
      BY <1>12, <1>13, <2>1, <2>2, <2>3, <2>4
  <1>16. /\ col[2 * N - 3] \in Nat /\ col[2 * N - 3] <= m
         /\ col[2 * N - 2] \in Nat /\ col[2 * N - 2] <= n
    <2>1. /\ 2 * Top - 1 = 2 * N - 3 /\ 2 * Top = 2 * N - 2
          /\ 2 * N - 3 \in 0 .. 2 * N - 2 /\ 2 * N - 2 \in 0 .. 2 * N - 2
      BY <1>1
    <2>2. col[2 * N - 3] \in Nat /\ col[2 * N - 2] \in Nat
      BY <1>2, <2>1
    <2>3. col[2 * N - 3] <= m /\ col[2 * N - 2] <= n
      BY <1>2, <1>10, <1>11, <2>1
    <2> QED
      BY <2>2, <2>3
  <1>17. PICK g \in Nat : g = (FullLimb + m) \div B
    <2>1. FullLimb + m \in Nat
      BY <1>1
    <2> QED
      BY <1>1, <2>1, DivMod
  <1>18. b <= g
    <2>1. PICK u \in Nat : u = a + col[2 * N - 3]
      BY <1>15, <1>16
    <2>2. PICK v \in Nat : v = FullLimb + m
      BY <1>1
    <2>3. u <= v
      BY <1>1, <1>15, <1>16, <2>1, <2>2
    <2>4. u \div B <= v \div B /\ u \div B \in Nat /\ b <= u \div B
      BY <1>1, <1>15, <2>1, <2>3, DivMonotone, DivMod
    <2> QED
      BY <1>15, <1>17, <2>2, <2>4
  <1>19. PICK h \in Nat : h = (g + n) \div B
    <2>1. g + n \in Nat
      OBVIOUS
    <2> QED
      BY <1>1, <2>1, DivMod
  <1>20. c <= h
    <2>1. PICK u \in Nat : u = b + col[2 * N - 2]
      BY <1>15, <1>16
    <2>2. PICK v \in Nat : v = g + n
      OBVIOUS
    <2>3. u <= v
      BY <1>15, <1>16, <1>18, <2>1, <2>2
    <2>4. u \div B <= v \div B /\ u \div B \in Nat /\ c <= u \div B
      BY <1>1, <1>15, <2>1, <2>3, DivMonotone, DivMod
    <2> QED
      BY <1>15, <1>19, <2>2, <2>4
  <1>21. TenLeft(x, y) = h
    BY <1>10, <1>11, <1>17, <1>19 DEF TenLeft
  <1>22. s[N - 2].c <= FullLimb + (B - 1) * R1
    <2>1. N - 2 \in 0 .. N - 2
      BY <1>1
    <2> QED
      BY <1>9, <2>1
  <1> QED
    BY <1>8, <1>14, <1>20, <1>21, <1>22

\* The room that LastCarryFits grants when d is what is left.
TenRoom(d) ==
    LET c9 == FullLimb + (B - 1) * R1 + d * R0 + B - 1
        c  == c9 \div TopB + d * R2
    IN  (c * C0 + B - 1) \div B + c * C1 + B - 1 < B * B

\* LastCarryFits, in the terms of the steps.
LEMMA TenFitsRoom ==
    ASSUME NEW x, NEW y, LastCarryFits(x, y)
    PROVE  TenRoom(TenLeft(x, y))
  BY DEF LastCarryFits, TenRoom, TenLeft, FullLimb, AccRange, R2

\* What the end of the multiplication writes.
TenWritten(t, d0, d1, c9, x2) ==
    [i \in Limb |-> CASE i = 0   -> d0 % B
                      [] i = 1   -> d1 % B
                      [] i = 2   -> x2
                      [] i = Top -> c9 % TopB
                      [] OTHER   -> t[i]]

TenCarries(t, st, t9, c9, c, d0, d1, x2) ==
    /\ c9 = Acc(st.c + Acc(st.d * R0 + t9)) /\ c = Acc(c9 \div TopB + st.d * R2)
    /\ d0 = Acc(c * C0 + t[0]) /\ d1 = Acc(d0 \div B + c * C1 + t[1])
    /\ x2 = Word(d1 \div B + t[2])

\* The limbs secp256k1_fe_mul_inner writes after the last step.
LEMMA TenWrites ==
    ASSUME NEW t, NEW st, NEW t9, NEW c9, NEW c, NEW d0, NEW d1, NEW x2,
           TenCarries(t, st, t9, c9, c, d0, d1, x2)
    PROVE  MulFinish(t, st, t9) = TenWritten(t, d0, d1, c9, x2)
  <1> DEFINE e9 == Acc(st.c + Acc(st.d * R0 + t9))
             e  == Acc(e9 \div TopB + st.d * (R1 * 2^S))
             e0 == Acc(e * C0 + t[0])
             e1 == Acc(e0 \div B + e * C1 + t[1])
             e2 == Word(e1 \div B + t[2])
  <1>1. MulFinish(t, st, t9) = TenWritten(t, e0, e1, e9, e2)
    BY DEF MulFinish, TenWritten
  <1>2. e9 = c9
    BY DEF TenCarries
  <1> HIDE DEF e9
  <1>3. e = c
    BY <1>2 DEF TenCarries, R2
  <1> HIDE DEF e
  <1>4. e0 = d0
    BY <1>3 DEF TenCarries
  <1> HIDE DEF e0
  <1>5. e1 = d1
    BY <1>3, <1>4 DEF TenCarries
  <1> HIDE DEF e1
  <1>6. e2 = x2
    BY <1>5 DEF TenCarries
  <1> HIDE DEF e2
  <1> QED
    BY <1>1, <1>2, <1>4, <1>5, <1>6

\* The carries of the two low limbs stop at limb 2.
LEMMA TenFinish ==
    ASSUME NEW t \in [0 .. N - 2 -> 0 .. B - 1], NEW st \in TenState, NEW t9 \in 0 .. B - 1,
           NEW left \in Nat, st.d <= left, st.c <= FullLimb + (B - 1) * R1, TenRoom(left)
    PROVE  Within(MulFinish(t, st, t9), 1, Top, LimbsOfP)
  <1>1. /\ N \in Nat /\ N > 4 /\ B \in Nat \ {0} /\ B - 1 \in Nat /\ Top \in Nat /\ Top = N - 1
        /\ TopB \in Nat \ {0} /\ FullLimb \in Nat /\ R0 \in Nat /\ R1 \in Nat /\ R2 \in Nat
        /\ C0 \in Nat /\ C1 \in Nat
    BY TenWeights
  <1>2. st.d \in Nat /\ st.c \in Nat
    BY DEF TenState
  <1>3. PICK m \in Nat : m = (B - 1) * R1
    BY <1>1, TimesNat
  <1>4. PICK f \in Nat : f = st.d * R0
    BY <1>1, <1>2, TimesNat
  <1>5. PICK g \in Nat : g = left * R0
    BY <1>1, TimesNat
  <1>6. f <= g
    BY <1>1, <1>2, <1>4, <1>5, TimesMonotone
  <1>7. PICK q9 \in Nat : q9 = FullLimb + m + g + B - 1
    BY <1>1
  <1>8. PICK a \in Nat : a = Acc(f + t9) /\ a <= f + t9
    <2>1. f + t9 \in Nat
      OBVIOUS
    <2> QED
      BY <2>1, AccBelow
  <1>9. PICK c9 \in Nat : c9 = Acc(st.c + a) /\ c9 <= q9
    <2>1. st.c + a \in Nat
      BY <1>2
    <2>2. Acc(st.c + a) \in Nat /\ Acc(st.c + a) <= st.c + a
      BY <2>1, AccBelow
    <2>3. st.c + a <= q9
      BY <1>1, <1>2, <1>3, <1>6, <1>7, <1>8
    <2> QED
      BY <1>2, <2>2, <2>3
  <1>10. PICK h \in Nat : h = st.d * R2
    BY <1>1, <1>2, TimesNat
  <1>11. PICK i9 \in Nat : i9 = left * R2
    BY <1>1, TimesNat
  <1>12. h <= i9
    BY <1>1, <1>2, <1>10, <1>11, TimesMonotone
  <1>13. PICK j \in Nat : j = c9 \div TopB
    BY <1>1, <1>9, DivMod
  <1>14. PICK k \in Nat : k = q9 \div TopB
    BY <1>1, DivMod
  <1>15. j <= k
    BY <1>1, <1>9, <1>13, <1>14, DivMonotone
  <1>16. PICK w \in Nat : w = k + i9
    OBVIOUS
  <1>17. PICK c \in Nat : c = Acc(j + h) /\ c <= w
    <2>1. j + h \in Nat
      OBVIOUS
    <2>2. Acc(j + h) \in Nat /\ Acc(j + h) <= j + h
      BY <2>1, AccBelow
    <2> QED
      BY <1>12, <1>15, <1>16, <2>2
  <1>18. PICK u0 \in Nat : u0 = c * C0
    BY <1>1, TimesNat
  <1>19. PICK v0 \in Nat : v0 = w * C0
    BY <1>1, TimesNat
  <1>20. PICK u1 \in Nat : u1 = c * C1
    BY <1>1, TimesNat
  <1>21. PICK v1 \in Nat : v1 = w * C1
    BY <1>1, TimesNat
  <1>22. u0 <= v0 /\ u1 <= v1
    BY <1>1, <1>17, <1>18, <1>19, <1>20, <1>21, TimesMonotone
  <1>23. /\ t[0] \in 0 .. B - 1 /\ t[1] \in 0 .. B - 1 /\ t[2] \in 0 .. B - 1
         /\ \A i \in 3 .. N - 2 : t[i] \in 0 .. B - 1
    <2>1. 0 \in 0 .. N - 2 /\ 1 \in 0 .. N - 2 /\ 2 \in 0 .. N - 2 /\ (\A i \in 3 .. N - 2 : i \in 0 .. N - 2)
      BY <1>1
    <2> QED
      BY <2>1
  <1>24. PICK d0 \in Nat : d0 = Acc(u0 + t[0])
    <2>1. u0 + t[0] \in Nat
      BY <1>23
    <2> QED
      BY <2>1, AccBelow
  <1>25. PICK r : r = (v0 + B - 1) \div B
    OBVIOUS
  <1>26. d0 \div B \in Nat /\ d0 \div B <= r /\ r \in Nat /\ d0 % B \in 0 .. B - 1
    <2>1. PICK y \in Nat : y = u0 + t[0]
      BY <1>23
    <2>2. PICK z \in Nat : z = v0 + B - 1
      BY <1>1
    <2>3. y <= z
      BY <1>1, <1>22, <1>23, <2>1, <2>2
    <2>4. y \div B <= z \div B /\ z \div B \in Nat /\ y \div B \in Nat
      BY <1>1, <2>3, DivMonotone, DivMod
    <2>5. d0 \div B \in Nat /\ d0 \div B <= y \div B /\ d0 % B \in 0 .. B - 1
      BY <1>24, <2>1, AccBelow
    <2> QED
      BY <1>25, <2>2, <2>4, <2>5
  <1>27. PICK e0 \in Nat : e0 = d0 \div B
    BY <1>26
  <1>28. PICK d1 \in Nat : d1 = Acc(e0 + u1 + t[1]) /\ d1 <= e0 + u1 + t[1]
    <2>1. e0 + u1 + t[1] \in Nat
      BY <1>23
    <2> QED
      BY <2>1, AccBelow
  <1>29. d1 < B * B
    <2>1. r + v1 + B - 1 < B * B
      <3>1. FullLimb + (B - 1) * R1 + left * R0 + B - 1 = q9
        BY <1>3, <1>5, <1>7
      <3>2. q9 \div TopB + left * R2 = w
        BY <1>11, <1>14, <1>16
      <3>3. (w * C0 + B - 1) \div B + w * C1 + B - 1 < B * B
        BY <3>1, <3>2 DEF TenRoom
      <3> QED
        BY <1>19, <1>21, <1>25, <3>3
    <2>2. PICK z \in Nat : z = B * B
      BY <1>1, TimesNat
    <2>3. d1 <= r + v1 + B - 1
      BY <1>1, <1>22, <1>23, <1>26, <1>27, <1>28
    <2>4. r + v1 + B - 1 \in Nat
      BY <1>1, <1>26
    <2> QED
      BY <2>1, <2>2, <2>3, <2>4
  <1>30. d1 \div B \in 0 .. B - 1 /\ d1 % B \in 0 .. B - 1
    BY <1>1, <1>29, Quotient, DivMod
  <1>31. PICK x2 \in Nat : x2 = Word(d1 \div B + t[2]) /\ x2 <= 2 * (B - 1)
    <2>1. PICK y \in Nat : y = d1 \div B + t[2] /\ y <= 2 * (B - 1)
      BY <1>1, <1>23, <1>30
    <2>2. 2^WordBits \in Nat \ {0}
      BY TenNumbers DEF TenRange
    <2>3. Word(y) \in Nat /\ Word(y) <= y
      BY <2>1, <2>2, ModBelow DEF Word
    <2>4. 2 * (B - 1) \in Nat
      BY <1>1
    <2> QED
      BY <2>1, <2>3, <2>4
  <1>32. c9 % TopB \in 0 .. TopB - 1
    BY <1>1, <1>9, DivMod
  <1>33. PICK l : l = MulFinish(t, st, t9)
    OBVIOUS
  <1>34. l = [i \in Limb |-> CASE i = 0   -> d0 % B
                               [] i = 1   -> d1 % B
                               [] i = 2   -> x2
                               [] i = Top -> c9 % TopB
                               [] OTHER   -> t[i]]
    <2>1. c9 = Acc(st.c + Acc(st.d * R0 + t9)) /\ c = Acc(c9 \div TopB + st.d * R2)
      BY <1>4, <1>8, <1>9, <1>10, <1>13, <1>17
    <2>2. d0 = Acc(c * C0 + t[0]) /\ d1 = Acc(d0 \div B + c * C1 + t[1])
      BY <1>18, <1>20, <1>24, <1>27, <1>28
    <2>b. x2 = Word(d1 \div B + t[2])
      BY <1>31
    <2>a. TenCarries(t, st, t9, c9, c, d0, d1, x2)
      BY <2>1, <2>2, <2>b DEF TenCarries
    <2>3. MulFinish(t, st, t9) = TenWritten(t, d0, d1, c9, x2)
      BY <2>a, TenWrites
    <2>4. l = TenWritten(t, d0, d1, c9, x2)
      BY <1>33, <2>3
    <2> QED
      BY <2>4 DEF TenWritten
  <1>35. /\ \A i \in 0 .. Top - 1 : LimbsOfP[i] \in Nat /\ B - 1 <= 2 * LimbsOfP[i]
         /\ LimbsOfP[2] = B - 1 /\ LimbsOfP[Top] = TopB - 1
    <2>1. Shape(Top, B, TopB, TenRange, MaxMagnitude, 2, LimbsOfP, FoldOfP)
      BY TenShape DEF TenShaped
    <2>2. /\ \A i \in 0 .. Top : LimbsOfP[i] \in Nat /\ FoldOfP[i] \in Nat
          /\ \A i \in 0 .. Top - 1 : B - 1 <= 2 * LimbsOfP[i]
          /\ LimbsOfP[Top] = TopB - 1
      BY <2>1, ShapeNumbers
    <2>3. LimbsOfP[2] = B - 1
      <3>1. 2 \in 2 .. Top - 1
        BY <1>1
      <3> QED
        BY <2>1, <3>1 DEF Shape
    <2>4. \A i \in 0 .. Top - 1 : i \in 0 .. Top
      BY <1>1
    <2> QED
      BY <2>2, <2>3, <2>4
  <1>36. ASSUME NEW i \in 0 .. Top
         PROVE  l[i] \in Nat /\ l[i] <= (2 * 1) * LimbsOfP[i]
    <2>1. CASE i = Top
      <3>1. l[i] = c9 % TopB
        BY <1>1, <1>34, <2>1 DEF Limb
      <3> QED
        BY <1>1, <1>32, <1>35, <2>1, <3>1
    <2>2. CASE i = 2
      <3>1. l[i] = x2
        BY <1>1, <1>34, <2>2 DEF Limb
      <3> QED
        BY <1>1, <1>31, <1>35, <2>2, <3>1
    <2>3. CASE i # 2 /\ i # Top
      <3>1. l[i] \in 0 .. B - 1
        <4>1. CASE i = 0
          <5>1. l[i] = d0 % B
            BY <1>1, <1>34, <4>1 DEF Limb
          <5> QED
            BY <1>26, <5>1
        <4>2. CASE i = 1
          <5>1. l[i] = d1 % B
            BY <1>1, <1>34, <4>2 DEF Limb
          <5> QED
            BY <1>30, <5>1
        <4>3. CASE i # 0 /\ i # 1
          <5>1. l[i] = t[i]
            BY <1>1, <1>34, <2>3, <4>3 DEF Limb
          <5>2. i \in 3 .. N - 2
            BY <1>1, <2>3, <4>3
          <5> QED
            BY <1>23, <5>1, <5>2
        <4> QED
          BY <4>1, <4>2, <4>3
      <3>2. i \in 0 .. Top - 1
        BY <1>1, <2>3
      <3>3. LimbsOfP[i] \in Nat /\ B - 1 <= 2 * LimbsOfP[i]
        BY <1>35, <3>2
      <3> QED
        BY <1>1, <3>1, <3>3
    <2> QED
      BY <2>1, <2>2, <2>3
  <1>37. l \in [0 .. Top -> Nat]
    <2>1. l = [i \in Limb |-> l[i]]
      BY <1>34
    <2> QED
      BY <1>36, <2>1 DEF Limb
  <1>38. Within(l, 1, Top, LimbsOfP)
    BY <1>36, <1>37 DEF Within
  <1> QED
    BY <1>33, <1>38

\* A reduction leaves limbs of magnitude 1.
LEMMA TenReduces ==
    ASSUME NEW col, NEW x \in Nat, NEW y \in Nat, Columns(col, 2 * N - 2, Top, x, y),
           LastCarryFits(x, y)
    PROVE  Within(MulReduce(col), 1, Top, LimbsOfP)
  <1> DEFINE s == CHOOSE s : TenRun(s, col)
             t == [k \in 0 .. N - 2 |-> s[k].t]
             t9 == Acc(col[Top]) % B
  <1>1. MulReduce(col) = MulFinish(t, s[N - 2], t9)
    BY DEF MulReduce, TenRun
  <1>2. col \in [0 .. 2 * N - 2 -> Nat]
    BY DEF Columns
  <1>3. TenRun(s, col)
    <2>1. \E z : TenRun(z, col)
      BY <1>2, TenRunExists
    <2> QED
      BY <2>1
  <1> HIDE DEF s
  <1>4. /\ \A k \in 0 .. N - 2 : s[k] \in TenState
        /\ s[N - 2].d <= TenLeft(x, y) /\ TenLeft(x, y) \in Nat
        /\ s[N - 2].c <= FullLimb + (B - 1) * R1
    BY <1>3, TenRunBounds
  <1>5. t \in [0 .. N - 2 -> 0 .. B - 1]
    BY <1>4 DEF TenState
  <1>6. t9 \in 0 .. B - 1
    <2>1. Top \in 0 .. 2 * N - 2
      BY TenWeights
    <2>2. col[Top] \in Nat
      BY <1>2, <2>1
    <2> QED
      BY <2>2, AccBelow
  <1>7. s[N - 2] \in TenState
    <2>1. N - 2 \in 0 .. N - 2
      BY TenWeights
    <2> QED
      BY <1>4, <2>1
  <1> HIDE DEF t, t9
  <1>8. TenRoom(TenLeft(x, y))
    BY TenFitsRoom
  <1>9. Within(MulFinish(t, s[N - 2], t9), 1, Top, LimbsOfP)
    BY <1>4, <1>5, <1>6, <1>7, <1>8, TenFinish
  <1> QED
    BY <1>1, <1>9

\* The columns of a product of bounded limbs.
LEMMA TenMulColumns ==
    ASSUME NEW a, NEW b, NEW x \in Nat, NEW y \in Nat,
           Bounded(a, Top, x, y), Bounded(b, Top, x, y)
    PROVE  Columns(MulColumns(a, b), 2 * N - 2, Top, x, y)
  <1>1. Top \in Nat /\ Top >= 1 /\ 2 * Top = 2 * N - 2 /\ N \in Nat /\ N > 4
    BY TenWeights
  <1>2. a \in [0 .. Top -> Nat] /\ b \in [0 .. Top -> Nat]
    BY DEF Bounded
  <1> DEFINE D(k) == {i \in 0 .. Top : k - i \in 0 .. Top}
  <1>3. MulColumns(a, b) = [k \in 0 .. 2 * N - 2 |-> MulSum(a, b, k, D(k))]
    BY DEF MulColumns, MulSum, Limb
  <1>4. ASSUME NEW k \in 0 .. 2 * N - 2
        PROVE  /\ MulSum(a, b, k, D(k)) \in Nat
               /\ k = 2 * Top - 1 => MulSum(a, b, k, D(k)) <= 2 * x * y
               /\ k = 2 * Top => MulSum(a, b, k, D(k)) <= y * y
    <2>1. k \in Int
      BY <1>1
    <2>2. MulSum(a, b, k, D(k)) \in Nat
      BY <1>1, <1>2, <2>1, MulColumn
    <2>3. /\ k = 2 * Top - 1 => MulSum(a, b, k, D(k)) <= 2 * x * y
          /\ k = 2 * Top => MulSum(a, b, k, D(k)) <= y * y
      BY <1>1, <2>1, MulHigh
    <2> QED
      BY <2>2, <2>3
  <1>5. 2 * Top - 1 \in 0 .. 2 * N - 2 /\ 2 * Top \in 0 .. 2 * N - 2
    BY <1>1
  <1> HIDE DEF D
  <1>6. MulColumns(a, b) \in [0 .. 2 * N - 2 -> Nat]
    BY <1>3, <1>4
  <1>7. MulColumns(a, b)[2 * Top - 1] <= 2 * x * y
    BY <1>3, <1>4, <1>5
  <1>8. MulColumns(a, b)[2 * Top] <= y * y
    BY <1>3, <1>4, <1>5
  <1> QED
    BY <1>6, <1>7, <1>8 DEF Columns

\* The sums of a square, with the doubling in its word.
TenSqrSum(a, k, D) ==
    MapThenSumSet(LAMBDA i : IF 2 * i = k THEN a[i] * a[i]
                             ELSE Word(a[i] * 2) * a[k - i], D)
IsTenSquares(v, a, k, D) ==
    v = [i \in D |-> IF 2 * i = k THEN a[i] * a[i] ELSE Word(a[i] * 2) * a[k - i]]

\* A column of the square of 10x26 is a sum of products.
LEMMA TenSqrTotal ==
    ASSUME NEW a, NEW k, NEW D, NEW v, IsTenSquares(v, a, k, D)
    PROVE  TenSqrSum(a, k, D) = Total(v, D)
  BY DEF IsTenSquares, TenSqrSum, Total, MapThenSumSet, MapThenFoldSet

\* The doubled limbs.
TenDoubled(a) == [i \in 0 .. Top |-> Word(a[i] * 2)]

\* Doubling a limb cannot make it more than twice as large.
LEMMA TenDoubles ==
    ASSUME NEW a \in [0 .. Top -> Nat]
    PROVE  Doubled(TenDoubled(a), a, Top)
  <1>1. ASSUME NEW i \in 0 .. Top PROVE Word(a[i] * 2) \in Nat /\ Word(a[i] * 2) <= 2 * a[i]
    <2>1. PICK x \in Nat : x = a[i] * 2 /\ x = 2 * a[i]
      OBVIOUS
    <2>2. 2^WordBits \in Nat \ {0}
      BY TenNumbers DEF TenRange
    <2>3. Word(x) \in Nat /\ Word(x) <= x
      BY <2>1, <2>2, ModBelow DEF Word
    <2> QED
      BY <2>1, <2>3
  <1> QED
    BY <1>1 DEF Doubled, TenDoubled

\* The columns of a square of bounded limbs.
LEMMA TenSqrColumns ==
    ASSUME NEW a, NEW x \in Nat, NEW y \in Nat, Bounded(a, Top, x, y)
    PROVE  Columns(SqrColumns(a), 2 * N - 2, Top, x, y)
  <1>1. Top \in Nat /\ Top >= 1 /\ 2 * Top = 2 * N - 2 /\ N \in Nat /\ N > 4
    BY TenWeights
  <1>2. a \in [0 .. Top -> Nat]
    BY DEF Bounded
  <1>3. PICK c : c = TenDoubled(a)
    OBVIOUS
  <1>4. Doubled(c, a, Top)
    BY <1>2, <1>3, TenDoubles
  <1>5. c \in [0 .. Top -> Nat]
    BY <1>4 DEF Doubled
  <1> DEFINE D(k) == {i \in 0 .. Top : k - i \in 0 .. Top /\ 2 * i <= k}
  <1>6. SqrColumns(a) = [k \in 0 .. 2 * N - 2 |-> TenSqrSum(a, k, D(k))]
    BY DEF SqrColumns, TenSqrSum, Limb
  <1>7. ASSUME NEW k \in 0 .. 2 * N - 2
        PROVE  TenSqrSum(a, k, D(k)) = SqrSum(a, c, k, D(k))
    <2> DEFINE v == [i \in D(k) |-> IF 2 * i = k THEN a[i] * a[i] ELSE c[i] * a[k - i]]
    <2>1. IsSquares(v, a, c, k, D(k))
      BY DEF IsSquares
    <2>2. ASSUME NEW i \in D(k) PROVE c[i] = Word(a[i] * 2)
      BY <1>3 DEF TenDoubled
    <2>3. IsTenSquares(v, a, k, D(k))
      BY <2>2 DEF IsTenSquares
    <2> HIDE DEF v, D
    <2>4. SqrSum(a, c, k, D(k)) = Total(v, D(k))
      BY <2>1, SqrTotal
    <2>5. TenSqrSum(a, k, D(k)) = Total(v, D(k))
      BY <2>3, TenSqrTotal
    <2> QED
      BY <2>4, <2>5
  <1>8. ASSUME NEW k \in 0 .. 2 * N - 2
        PROVE  /\ SqrSum(a, c, k, D(k)) \in Nat
               /\ k = 2 * Top - 1 => SqrSum(a, c, k, D(k)) <= 2 * x * y
               /\ k = 2 * Top => SqrSum(a, c, k, D(k)) <= y * y
    <2>1. k \in Int
      BY <1>1
    <2>2. SqrSum(a, c, k, D(k)) \in Nat
      BY <1>1, <1>2, <1>5, <2>1, SqrColumn
    <2>3. /\ k = 2 * Top - 1 => SqrSum(a, c, k, D(k)) <= 2 * x * y
          /\ k = 2 * Top => SqrSum(a, c, k, D(k)) <= y * y
      BY <1>1, <1>4, <2>1, SqrHigh
    <2> QED
      BY <2>2, <2>3
  <1>9. 2 * Top - 1 \in 0 .. 2 * N - 2 /\ 2 * Top \in 0 .. 2 * N - 2
    BY <1>1
  <1> HIDE DEF D
  <1>10. SqrColumns(a) \in [0 .. 2 * N - 2 -> Nat]
    BY <1>6, <1>7, <1>8
  <1>11. SqrColumns(a)[2 * Top - 1] <= 2 * x * y
    BY <1>6, <1>7, <1>8, <1>9
  <1>12. SqrColumns(a)[2 * Top] <= y * y
    BY <1>6, <1>7, <1>8, <1>9
  <1> QED
    BY <1>10, <1>11, <1>12 DEF Columns

\* A product is an element again, if its factors have room for it.
LEMMA TenMultiplies ==
    ASSUME NEW a, TenElement(a), a.magnitude <= MulMagnitude,
           NEW b, TenElement(b), b.magnitude <= MulMagnitude
    PROVE  /\ TenElement(FeMul(a, b)) /\ FeMul(a, b).magnitude = 1
           /\ FeMul(a, b).normalized = FALSE
           /\ TenElement(FeSqr(a)) /\ FeSqr(a).magnitude = 1 /\ FeSqr(a).normalized = FALSE
  <1>1. Shape(Top, B, TopB, TenRange, MaxMagnitude, 2, LimbsOfP, FoldOfP)
    BY TenShape DEF TenShaped
  <1>2. MulMagnitude \in Nat
    BY FieldElementAssumption
  <1>3. PICK x : x = 2 * MulMagnitude * (B - 1)
    OBVIOUS
  <1>4. PICK y : y = 2 * MulMagnitude * (TopB - 1)
    OBVIOUS
  <1>5. x \in Nat /\ y \in Nat
    <2>1. 2 * MulMagnitude \in Nat /\ B - 1 \in Nat /\ TopB - 1 \in Nat
      BY <1>2, TenNumbers
    <2> QED
      BY <1>3, <1>4, <2>1, TimesNat
  <1>6. LastCarryFits(x, y)
    BY <1>3, <1>4, FieldElementAssumption
  <1>7. ASSUME NEW z, TenElement(z), z.magnitude <= MulMagnitude
        PROVE  Bounded(z.n, Top, x, y)
    <2>1. z.magnitude \in Nat /\ Within(z.n, z.magnitude, Top, LimbsOfP)
      BY <1>7, TenParts DEF TenWithin
    <2>2. Bounded(z.n, Top, (2 * MulMagnitude) * (B - 1), (2 * MulMagnitude) * (TopB - 1))
      BY <1>1, <1>2, <1>7, <2>1, WithinIsBounded
    <2> QED
      BY <1>3, <1>4, <2>2
  <1>8. Bounded(a.n, Top, x, y) /\ Bounded(b.n, Top, x, y)
    BY <1>7
  <1>9. ASSUME NEW l, Within(l, 1, Top, LimbsOfP)
        PROVE  TenElement(Made3(l, 1, FALSE))
    <2>1. l \in [0 .. Top -> Nat]
      BY <1>9 DEF Within
    <2>2. 1 \in 0 .. MaxMagnitude /\ 1 \in Nat
      BY TenNumbers
    <2> QED
      BY <1>9, <2>1, <2>2 DEF TenElement, Element, Made3
  <1>10. Within(FeMulInner(a.n, b.n), 1, Top, LimbsOfP)
    BY <1>5, <1>6, <1>8, TenMulColumns, TenReduces DEF FeMulInner
  <1>11. Within(FeSqrInner(a.n), 1, Top, LimbsOfP)
    BY <1>5, <1>6, <1>8, TenSqrColumns, TenReduces DEF FeSqrInner
  <1>12. FeMul(a, b) = Made3(FeMulInner(a.n, b.n), 1, FALSE) /\ FeSqr(a) = Made3(FeSqrInner(a.n), 1, FALSE)
    BY DEF FeMul, FeSqr, Made3
  <1>13. TenElement(FeMul(a, b)) /\ TenElement(FeSqr(a))
    BY <1>9, <1>10, <1>11, <1>12
  <1> QED
    BY <1>12, <1>13 DEF Made3

-----------------------------------------------------------------------------
(* The representation 5x52.                                                *)

FiveLimb  == 0 .. 4
FiveLimbs == [i \in FiveLimb |-> Five!P(i)]
FiveFold  == [i \in FiveLimb |-> IF i = 0 THEN C5 ELSE 0]

FiveWithin(l, m)  == Within(l, m, 4, FiveLimbs)
FiveTidy(l)       == Tidy(l, 4, Five!B, Five!TopB)
FiveCanonical(l)  == Canonical(l, 4, Five!B, Five!TopB)
FiveReaches(l)    == Reaches(l, 4, Five!B, 1, FiveLimbs, FiveFold)
FiveRange         == 2^WordBits5
FiveShaped        == Shape(4, Five!B, Five!TopB, FiveRange, MaxMagnitude, 1, FiveLimbs, FiveFold)

\* The instance names the operators on limbs anew.
LEMMA FiveOperators ==
    /\ \A v : Five!PowersOfTwo(v) <=> PowersOfTwo(v)
    /\ \A t, w, k : Five!Carried(t, w, k) = Carried(t, w, k)
    /\ \A l, w, k, n, v : Five!Regroup(l, w, k, n, v) = Regroup(l, w, k, n, v)
  <1>1. \A v : Five!PowersOfTwo(v) <=> PowersOfTwo(v)
    BY DEF Five!PowersOfTwo, PowersOfTwo
  <1>2. \A t, w, k : Five!Carried(t, w, k) = Carried(t, w, k)
    BY DEF Five!Carried, Carried
  <1>3. \A l, w, k, n, v : Five!Regroup(l, w, k, n, v) = Regroup(l, w, k, n, v)
    BY DEF Five!Regroup, Regroup, Five!OfBits, OfBits, Five!LimbBit, LimbBit
  <1> QED
    BY <1>1, <1>2, <1>3

\* What the assumption on the constants says of the limbs of 5x52.
LEMMA FiveNumbers ==
    /\ Five!B \in Nat \ {0} /\ Five!B >= 2 /\ Five!TopB \in Nat \ {0} /\ Five!TopB <= Five!B
    /\ C5 \in Nat /\ C5 >= 1 /\ 2 * C5 <= Five!B
    /\ MaxMagnitude \in Nat /\ MaxMagnitude >= 1 /\ 2 * MaxMagnitude <= Five!TopB
    /\ FiveRange \in Nat \ {0} /\ 2 * Five!B <= FiveRange
    /\ Roomy(MaxMagnitude, Five!B, FiveRange)
    /\ IsPower(Five!B, W5) /\ IsPower(FiveRange, WordBits5)
  <1>1. /\ W5 \in Nat /\ T5 \in Nat /\ T5 < W5 /\ W5 < WordBits5
        /\ WordBits5 \in Nat /\ PowersOfTwo(WordBits5)
        /\ C5 \in Nat /\ C5 >= 1 /\ 2 * C5 <= Five!B
        /\ MaxMagnitude \in Nat /\ MaxMagnitude >= 1 /\ Five!TopB >= 2 * MaxMagnitude
    <2>1. Five!Field5x52Assumption
      BY FieldElementAssumption
    <2>2. PowersOfTwo(WordBits5)
      BY <2>1, FiveOperators DEF Five!Field5x52Assumption
    <2> QED
      BY <2>1, <2>2 DEF Five!Field5x52Assumption
  <1>2. 2^W5 \in Nat \ {0} /\ 2^T5 \in Nat \ {0} /\ 2^WordBits5 \in Nat \ {0}
    BY <1>1 DEF PowersOfTwo
  <1>3. 2^T5 <= 2^W5
    BY <1>1, PowersGrow
  <1>4. /\ Five!B \in Nat \ {0} /\ Five!TopB \in Nat \ {0} /\ Five!TopB <= Five!B
        /\ FiveRange \in Nat \ {0}
    BY <1>2, <1>3 DEF Five!B, Five!TopB, FiveRange
  <1>5. Five!B >= 2 /\ 2 * MaxMagnitude <= Five!TopB
    BY <1>1, <1>4
  <1>6. Roomy(MaxMagnitude, Five!B, FiveRange)
    BY FieldElementAssumption DEF Five!Field5x52Assumption, Roomy, FiveRange
  <1>7. 2 * Five!B <= FiveRange
    <2>1. 2 <= 2 * MaxMagnitude /\ 2 * MaxMagnitude \in Nat
      BY <1>1
    <2>2. PICK k \in Nat : k = 2 * MaxMagnitude /\ 2 <= k
      BY <2>1
    <2>3. 2 * Five!B <= k * Five!B
      BY <1>4, <2>2, TimesMonotone
    <2>4. k * Five!B <= FiveRange
      BY <1>6, <2>2 DEF Roomy
    <2>5. PICK a : a = k * Five!B
      OBVIOUS
    <2>6. a \in Nat
      BY <1>4, <2>2, <2>5, TimesNat
    <2> QED
      BY <1>4, <2>3, <2>4, <2>5, <2>6
  <1>8. IsPower(Five!B, W5) /\ IsPower(FiveRange, WordBits5)
    BY DEF IsPower, Five!B, FiveRange
  <1> QED
    BY <1>1, <1>4, <1>5, <1>6, <1>7, <1>8

\* The limbs of 5x52 have the shape the generic lemmas assume.
LEMMA FiveShape == FiveShaped
  <1>1. /\ Five!B \in Nat \ {0} /\ Five!B >= 2 /\ Five!TopB \in Nat \ {0} /\ Five!TopB <= Five!B
        /\ C5 \in Nat /\ C5 >= 1 /\ 2 * C5 <= Five!B
        /\ MaxMagnitude \in Nat /\ MaxMagnitude >= 1 /\ 2 * MaxMagnitude <= Five!TopB
        /\ FiveRange \in Nat /\ 2 * Five!B <= FiveRange
        /\ Roomy(MaxMagnitude, Five!B, FiveRange)
    BY FiveNumbers
  <1>2. /\ Five!P(0) = Five!B - C5 /\ Five!P(4) = Five!TopB - 1
        /\ \A i \in 1 .. 3 : Five!P(i) = Five!B - 1
    BY DEF Five!P
  <1>3. /\ FiveLimbs[0] = Five!B - C5 /\ FiveLimbs[4] = Five!TopB - 1
        /\ \A i \in 1 .. 3 : FiveLimbs[i] = Five!B - 1
    BY <1>2 DEF FiveLimbs, FiveLimb
  <1>4. FiveLimbs \in [0 .. 4 -> Nat]
    <2>1. ASSUME NEW i \in 0 .. 4 PROVE FiveLimbs[i] \in Nat
      <3>1. i = 0 \/ i = 4 \/ i \in 1 .. 3
        OBVIOUS
      <3>2. Five!B - C5 \in Nat /\ Five!TopB - 1 \in Nat /\ Five!B - 1 \in Nat
        BY <1>1
      <3> QED
        BY <1>3, <3>1, <3>2
    <2> QED
      BY <2>1 DEF FiveLimbs, FiveLimb
  <1>5. FiveFold \in [0 .. 4 -> Nat] /\ FiveFold[0] = C5 /\ (\A i \in 1 .. 3 : FiveFold[i] = 0)
    BY <1>1 DEF FiveFold, FiveLimb
  <1>6. \A i \in 1 .. 4 - 1 : FiveLimbs[i] + FiveFold[i] = Five!B - 1 /\ 2 * FiveFold[i] <= Five!B - 1
    BY <1>1, <1>3, <1>5
  <1>7. FiveLimbs[0] + FiveFold[0] = Five!B /\ FiveFold[0] >= 1 /\ 2 * FiveFold[0] <= Five!B
    BY <1>1, <1>3, <1>5
  <1>8. \A i \in 1 .. 4 - 1 : FiveLimbs[i] = Five!B - 1
    BY <1>3
  <1>9. 4 \in Nat /\ 4 >= 4 /\ 1 \in 1 .. 2 /\ Five!B \in Nat /\ Five!TopB \in Nat
    BY <1>1
  <1> QED
    BY <1>1, <1>3, <1>4, <1>5, <1>6, <1>7, <1>8, <1>9 DEF FiveShaped, Shape

\* Folded adds x times 2^256 modulo p (the multiple 0x1000003D1).
LEMMA FiveFolds ==
    ASSUME NEW t \in [0 .. 4 -> Nat], NEW x \in Nat, NEW f, Adds(f, t, x, 4, FiveFold),
           f[0] < FiveRange
    PROVE  Five!Folded(t, x) = f
  <1>0. C5 \in Nat /\ FiveRange \in Nat \ {0}
    BY FiveNumbers
  <1>1. f \in [0 .. 4 -> Nat] /\ f[4] = t[4] /\ (\A i \in 0 .. 3 : f[i] = t[i] + x * FiveFold[i])
    BY DEF Adds
  <1>2. FiveFold[0] = C5 /\ (\A i \in 1 .. 3 : FiveFold[i] = 0)
    BY DEF FiveFold, FiveLimb
  <1>3. PICK y : y = x * C5
    OBVIOUS
  <1>4. y \in Nat
    BY <1>0, <1>3, TimesNat
  <1>5. f[0] = t[0] + y /\ t[0] \in Nat /\ t[0] + y \in Nat
    BY <1>1, <1>2, <1>3, <1>4
  <1>6. ASSUME NEW i \in 1 .. 4 PROVE f[i] = t[i]
    <2>1. CASE i = 4
      BY <1>1, <2>1
    <2>2. CASE i # 4
      <3>1. i \in 0 .. 3 /\ i \in 1 .. 3 /\ i \in 0 .. 4
        BY <2>2
      <3>2. f[i] = t[i] + x * 0 /\ t[i] \in Nat
        BY <1>1, <1>2, <3>1
      <3> QED
        BY <3>2
    <2> QED
      BY <2>1, <2>2
  <1>7. y < FiveRange /\ t[0] + y < FiveRange
    BY <1>0, <1>4, <1>5
  <1>8. Five!Word(y) = y /\ Five!Word(t[0] + y) = t[0] + y
    <2>1. \A v \in Nat : v < FiveRange => v % FiveRange = v
      BY <1>0, SmallMod
    <2> QED
      BY <1>4, <1>5, <1>7, <2>1 DEF Five!Word, FiveRange
  <1>9. Five!Folded(t, x) = [t EXCEPT ![0] = Five!Word(t[0] + Five!Word(y))]
    <2>1. Five!Folded(t, x) = [t EXCEPT ![0] = Five!Word(@ + Five!Word(x * C5))]
      BY DEF Five!Folded
    <2>2. [t EXCEPT ![0] = Five!Word(@ + Five!Word(x * C5))]
            = [t EXCEPT ![0] = Five!Word(t[0] + Five!Word(x * C5))]
      OBVIOUS
    <2> QED
      BY <1>3, <2>1, <2>2
  <1>10. Five!Folded(t, x) = [t EXCEPT ![0] = f[0]]
    BY <1>5, <1>8, <1>9
  <1>11. [t EXCEPT ![0] = f[0]] = f
    <2>1. [t EXCEPT ![0] = f[0]] \in [0 .. 4 -> Nat]
      BY <1>5
    <2>2. ASSUME NEW i \in 0 .. 4 PROVE [t EXCEPT ![0] = f[0]][i] = f[i]
      <3>1. CASE i = 0
        BY <3>1
      <3>2. CASE i # 0
        BY <1>6, <3>2
      <3> QED
        BY <3>1, <3>2
    <2> QED
      BY <1>1, <2>1, <2>2, SameLimbs
  <1> QED
    BY <1>10, <1>11

\* AtLeastP says that the number reaches p.
LEMMA FiveReachesP ==
    ASSUME NEW l \in [0 .. 4 -> Nat]
    PROVE  Five!AtLeastP(l) <=> FiveReaches(l)
  <1>1. FiveFold[0] = C5 /\ Five!P(0) = Five!B - C5 /\ C5 \in Nat /\ Five!B \in Nat
    BY FiveNumbers DEF FiveFold, FiveLimb, Five!P
  <1>2. (\A i \in 1 .. 4 : l[i] = Five!P(i)) <=> (\A i \in 1 .. 4 : l[i] = FiveLimbs[i])
    <2>1. ASSUME NEW i \in 1 .. 4 PROVE FiveLimbs[i] = Five!P(i)
      BY DEF FiveLimbs, FiveLimb
    <2> QED
      BY <2>1
  <1>3. l[0] \in Nat
    OBVIOUS
  <1>4. l[0] >= Five!P(0) <=> l[0] + C5 >= Five!B
    BY <1>1, <1>3
  <1> QED
    BY <1>1, <1>2, <1>4 DEF Five!AtLeastP, FiveReaches, Reaches

\* FeVerify, in the terms of this module.
LEMMA FiveVerified ==
    ASSUME NEW a, NEW m \in 0 .. MaxMagnitude, a.magnitude = m, a.normalized \in BOOLEAN,
           FiveWithin(a.n, m),
           a.normalized => FiveCanonical(a.n) /\ ~ FiveReaches(a.n) /\ m <= 1
    PROVE  Five!FeVerify(a)
  <1>1. Shape(4, Five!B, Five!TopB, FiveRange, MaxMagnitude, 1, FiveLimbs, FiveFold)
    BY FiveShape DEF FiveShaped
  <1>2. /\ Five!B \in Nat \ {0} /\ Five!TopB \in Nat \ {0} /\ C5 \in Nat /\ MaxMagnitude \in Nat
    BY FiveNumbers
  <1>3. PICK l : l = a.n
    OBVIOUS
  <1>4. l \in [0 .. 4 -> Nat] /\ (\A i \in 0 .. 4 : l[i] <= (2 * m) * FiveLimbs[i])
    BY <1>3 DEF FiveWithin, Within
  <1>5. CASE a.normalized = FALSE
    <2>1. m \in Nat /\ m <= m
      BY <1>2
    <2>2. Within(l, m, 4, FiveLimbs)
      BY <1>3 DEF FiveWithin
    <2>3. Bounded(l, 4, (2 * m) * (Five!B - 1), (2 * m) * (Five!TopB - 1))
      BY <1>1, <2>1, <2>2, WithinIsBounded
    <2>4. /\ l[4] <= (2 * m) * (Five!TopB - 1)
          /\ \A i \in 0 .. 3 : l[i] <= (2 * m) * (Five!B - 1)
      BY <2>3 DEF Bounded
    <2>5. /\ (2 * m) * (Five!TopB - 1) = (Five!TopB - 1) * (2 * m)
          /\ (2 * m) * (Five!B - 1) = (Five!B - 1) * (2 * m)
      <3>1. 2 * m \in Int /\ Five!TopB - 1 \in Int /\ Five!B - 1 \in Int
        BY <1>2
      <3> QED
        BY <3>1, Times
    <2>6. /\ \A i \in 0 .. 3 : a.n[i] <= (Five!B - 1) * (2 * m)
          /\ a.n[4] <= (Five!TopB - 1) * (2 * m)
      BY <1>3, <2>4, <2>5
    <2> QED
      BY <1>5, <2>6 DEF Five!FeVerify
  <1>6. CASE a.normalized = TRUE
    <2>1. FiveCanonical(a.n) /\ ~ FiveReaches(a.n) /\ m <= 1
      BY <1>6
    <2>2. l[4] <= Five!TopB - 1 /\ (\A i \in 0 .. 3 : l[i] <= Five!B - 1)
      BY <1>3, <2>1 DEF FiveCanonical, Canonical
    <2>3. a.n[4] <= (Five!TopB - 1) * 1 /\ (\A i \in 0 .. 3 : a.n[i] <= (Five!B - 1) * 1)
      BY <1>2, <1>3, <2>2
    <2>4. ~ Five!AtLeastP(l)
      BY <1>3, <1>4, <2>1, FiveReachesP
    <2>5. l[0] \in Nat /\ Five!P(0) \in Int
      <3>1. Five!P(0) = Five!B - C5
        BY DEF Five!P
      <3> QED
        BY <1>2, <1>4, <3>1
    <2>6. (\A i \in 1 .. 4 : a.n[i] = Five!P(i)) => a.n[0] < Five!P(0)
      BY <1>3, <2>4, <2>5 DEF Five!AtLeastP
    <2> QED
      BY <1>6, <2>1, <2>3, <2>6 DEF Five!FeVerify
  <1> QED
    BY <1>5, <1>6

\* The first pass of a normalization of 5x52.
LEMMA FiveFirstPass ==
    ASSUME NEW m \in 0 .. MaxMagnitude, NEW l, FiveWithin(l, m)
    PROVE  /\ FiveTidy(Five!FirstPass(l))
           /\ FiveCanonical(l) => Five!FirstPass(l) = l
  <1> USE FiveNumbers
  <1>1. Shape(4, Five!B, Five!TopB, FiveRange, MaxMagnitude, 1, FiveLimbs, FiveFold)
    BY FiveShape DEF FiveShaped
  <1>2. FiveLimbs \in [0 .. 4 -> Nat] /\ FiveFold \in [0 .. 4 -> Nat]
    BY <1>1 DEF Shape
  <1>3. l \in [0 .. 4 -> Nat]
    BY DEF FiveWithin, Within
  <1>4. PICK g \in 1 .. MaxMagnitude : Within(l, g, 4, FiveLimbs)
    <2>1. CASE m = 0
      <3>1. Within(l, 0, 4, FiveLimbs)
        BY <2>1 DEF FiveWithin
      <3>2. Within(l, 1, 4, FiveLimbs)
        BY <1>2, <3>1, ZeroIsWithin
      <3> QED
        BY <3>2
    <2>2. CASE m # 0
      <3>1. m \in 1 .. MaxMagnitude
        BY <2>2
      <3> QED
        BY <3>1 DEF FiveWithin
    <2> QED
      BY <2>1, <2>2
  <1>5. PICK t : t = [l EXCEPT ![4] = @ % Five!TopB]
    OBVIOUS
  <1>6. PICK x : x = l[4] \div Five!TopB
    OBVIOUS
  <1>7. x \in Nat /\ t \in [0 .. 4 -> Nat]
    <2>1. l[4] \in Nat
      BY <1>3
    <2>2. l[4] \div Five!TopB \in Nat /\ (l[4] % Five!TopB) \in 0 .. Five!TopB - 1
      BY <2>1, DivMod
    <2>3. l[4] % Five!TopB \in Nat
      BY <2>2
    <2> QED
      BY <1>3, <1>5, <1>6, <2>2, <2>3
  <1>8. PICK f : Adds(f, t, x, 4, FiveFold)
    BY <1>2, <1>7, AddsExists
  <1>9. Adds(f, [l EXCEPT ![4] = @ % Five!TopB], l[4] \div Five!TopB, 4, FiveFold)
    BY <1>5, <1>6, <1>8
  <1>10. CarryRoom(f, 4, Five!B, 2 * g, FiveRange)
    BY <1>1, <1>4, <1>9, FirstRoom
  <1>11. f[0] < FiveRange /\ f[1] < FiveRange
    <2>1. 2 * g \in Nat \ {0} /\ f \in [0 .. 4 -> Nat]
      BY <1>8 DEF Adds
    <2>2. 4 \in Nat /\ 4 >= 4 /\ Five!B \in Nat /\ FiveRange \in Nat
      OBVIOUS
    <2> QED
      BY <1>10, <2>1, <2>2, RoomIsWord
  <1>12. Five!FirstPass(l) = Carried(f, W5, WordBits5)
    <2>1. Five!Folded(t, x) = f
      BY <1>7, <1>8, <1>11, FiveFolds
    <2> QED
      BY <1>5, <1>6, <2>1, FiveOperators DEF Five!FirstPass
  <1>13. /\ Tidy(Carried(f, W5, WordBits5), 4, Five!B, Five!TopB)
         /\ Canonical(l, 4, Five!B, Five!TopB) => Carried(f, W5, WordBits5) = l
    BY <1>1, <1>4, <1>9, FirstPassOver
  <1> QED
    BY <1>12, <1>13 DEF FiveTidy, FiveCanonical

\* The second pass of a normalization of 5x52: the result is below p.
LEMMA FiveSecondPass ==
    ASSUME NEW l, FiveTidy(l), NEW x \in 0 .. 1,
           x = 1 <=> (l[4] \div Five!TopB = 1 \/ Five!AtLeastP(l)),
           NEW r, r = [Carried(Five!Folded(l, x), W5, WordBits5) EXCEPT ![4] = @ % Five!TopB]
    PROVE  FiveCanonical(r) /\ ~ FiveReaches(r)
  <1> USE FiveNumbers
  <1>1. Shape(4, Five!B, Five!TopB, FiveRange, MaxMagnitude, 1, FiveLimbs, FiveFold)
    BY FiveShape DEF FiveShaped
  <1>2. FiveFold \in [0 .. 4 -> Nat]
    BY <1>1 DEF Shape
  <1>3. Tidy(l, 4, Five!B, Five!TopB) /\ l \in [0 .. 4 -> Nat]
    BY DEF FiveTidy, Tidy
  <1>4. PICK f : Adds(f, l, x, 4, FiveFold)
    <2>1. x \in Nat
      OBVIOUS
    <2> QED
      BY <1>2, <1>3, <2>1, AddsExists
  <1>5. CarryRoom(f, 4, Five!B, 2, FiveRange)
    BY <1>1, <1>3, <1>4, SecondRoom
  <1>6. f[0] < FiveRange /\ f[1] < FiveRange
    <2>1. 2 \in Nat \ {0} /\ f \in [0 .. 4 -> Nat]
      BY <1>4 DEF Adds
    <2>2. 4 \in Nat /\ 4 >= 4 /\ Five!B \in Nat /\ FiveRange \in Nat
      OBVIOUS
    <2> QED
      BY <1>5, <2>1, <2>2, RoomIsWord
  <1>7. Five!Folded(l, x) = f
    <2>1. x \in Nat
      OBVIOUS
    <2> QED
      BY <1>3, <1>4, <1>6, <2>1, FiveFolds
  <1>8. CutTop(r, Carried(f, W5, WordBits5), 4, Five!TopB)
    BY <1>7 DEF CutTop
  <1>9. Subtracts(x, l, 4, Five!B, Five!TopB, 1, FiveLimbs, FiveFold)
    <2>1. l[4] \div Five!TopB = 1 <=> l[4] >= Five!TopB
      BY <1>1, <1>3, TidyTop
    <2>2. Five!AtLeastP(l) <=> Reaches(l, 4, Five!B, 1, FiveLimbs, FiveFold)
      BY <1>3, FiveReachesP DEF FiveReaches
    <2> QED
      BY <2>1, <2>2 DEF Subtracts
  <1>10. IsPower(Five!B, W5) /\ IsPower(FiveRange, WordBits5)
    BY FiveNumbers
  <1> HIDE FiveNumbers
  <1>11. Canonical(r, 4, Five!B, Five!TopB) /\ ~ Reaches(r, 4, Five!B, 1, FiveLimbs, FiveFold)
    BY <1>1, <1>3, <1>4, <1>8, <1>9, <1>10, SecondPassOver
  <1> QED
    BY <1>11 DEF FiveCanonical, FiveReaches

-----------------------------------------------------------------------------
(* The operations of 5x52, but for products.                              *)

FiveElement(a) == Element(a, 4, Five!B, Five!TopB, MaxMagnitude, 1, FiveLimbs, FiveFold)
FiveRecord     == [n : [0 .. 4 -> Nat], magnitude : Nat, normalized : BOOLEAN]

\* The parts of an element of 5x52.
LEMMA FiveParts ==
    ASSUME NEW a, FiveElement(a)
    PROVE  /\ a \in FiveRecord /\ a.n \in [0 .. 4 -> Nat] /\ a.magnitude \in 0 .. MaxMagnitude
           /\ a.magnitude \in Nat /\ a.normalized \in BOOLEAN
           /\ FiveWithin(a.n, a.magnitude)
           /\ a.normalized => a.magnitude <= 1 /\ FiveCanonical(a.n) /\ ~ FiveReaches(a.n)
  BY DEF FiveElement, Element, FiveRecord, FiveWithin, FiveCanonical, FiveReaches

\* Every element passes the library's own check.
LEMMA FiveElementsVerify ==
    ASSUME NEW a, FiveElement(a)
    PROVE  Five!FeVerify(a)
  <1>1. PICK m \in 0 .. MaxMagnitude : m = a.magnitude
    BY FiveParts
  <1>2. /\ a.normalized \in BOOLEAN /\ FiveWithin(a.n, m)
        /\ a.normalized => FiveCanonical(a.n) /\ ~ FiveReaches(a.n) /\ m <= 1
    BY <1>1, FiveParts
  <1> QED
    BY <1>1, <1>2, FiveVerified

\* NormalElement, for 5x52.
LEMMA FiveNormal ==
    ASSUME NEW l, FiveCanonical(l), ~ FiveReaches(l)
    PROVE  FiveElement(Made3(l, 1, TRUE))
  <1>1. Shape(4, Five!B, Five!TopB, FiveRange, MaxMagnitude, 1, FiveLimbs, FiveFold)
    BY FiveShape DEF FiveShaped
  <1>2. Canonical(l, 4, Five!B, Five!TopB) /\ ~ Reaches(l, 4, Five!B, 1, FiveLimbs, FiveFold)
    BY DEF FiveCanonical, FiveReaches
  <1> QED
    BY <1>1, <1>2, NormalElement DEF FiveElement

\* WeakElement, for 5x52.
LEMMA FiveWeak ==
    ASSUME NEW l, FiveTidy(l)
    PROVE  FiveElement(Made3(l, 1, FALSE))
  <1>1. Shape(4, Five!B, Five!TopB, FiveRange, MaxMagnitude, 1, FiveLimbs, FiveFold)
    BY FiveShape DEF FiveShaped
  <1>2. Tidy(l, 4, Five!B, Five!TopB)
    BY DEF FiveTidy
  <1> QED
    BY <1>1, <1>2, WeakElement DEF FiveElement

\* secp256k1_fe_normalize, _normalize_var and _normalize_weak of 5x52.
LEMMA FiveNormalizes ==
    ASSUME NEW a, FiveElement(a)
    PROVE  /\ FiveElement(Five!FeNormalize(a)) /\ Five!FeNormalize(a).magnitude = 1 /\ Five!FeNormalize(a).normalized
           /\ FiveElement(Five!FeNormalizeVar(a)) /\ Five!FeNormalizeVar(a).magnitude = 1
           /\ Five!FeNormalizeVar(a).normalized
           /\ FiveElement(Five!FeNormalizeWeak(a)) /\ Five!FeNormalizeWeak(a).magnitude = 1
           /\ Five!FeNormalizeWeak(a).normalized = a.normalized
  <1>1. PICK t : t = Five!FirstPass(a.n)
    OBVIOUS
  <1>2. FiveTidy(t) /\ (FiveCanonical(a.n) => t = a.n)
    BY <1>1, FiveFirstPass, FiveParts
  <1>3. t \in [0 .. 4 -> Nat]
    BY <1>2 DEF FiveTidy, Tidy
  <1>4. ASSUME NEW x \in 0 .. 1, x = 1 <=> (t[4] \div Five!TopB = 1 \/ Five!AtLeastP(t)), NEW r,
               r = [Carried(Five!Folded(t, x), W5, WordBits5) EXCEPT ![4] = @ % Five!TopB]
        PROVE  FiveElement(Made3(r, 1, TRUE))
    <2>1. FiveCanonical(r) /\ ~ FiveReaches(r)
      BY <1>2, <1>4, FiveSecondPass
    <2> QED
      BY <2>1, FiveNormal
  <1>5. FiveElement(Five!FeNormalize(a)) /\ Five!FeNormalize(a).magnitude = 1 /\ Five!FeNormalize(a).normalized
    <2>1. PICK x : x = IF t[4] \div Five!TopB = 1 \/ Five!AtLeastP(t) THEN 1 ELSE 0
      OBVIOUS
    <2>2. x \in 0 .. 1 /\ (x = 1 <=> (t[4] \div Five!TopB = 1 \/ Five!AtLeastP(t)))
      BY <2>1
    <2>3. PICK r : r = [Carried(Five!Folded(t, x), W5, WordBits5) EXCEPT ![4] = @ % Five!TopB]
      OBVIOUS
    <2>4. FiveElement(Made3(r, 1, TRUE))
      BY <1>4, <2>2, <2>3
    <2>5. Five!FeNormalize(a) = Made3(r, 1, TRUE)
      BY <1>1, <2>1, <2>3, FiveOperators DEF Five!FeNormalize, Made3
    <2> QED
      BY <2>4, <2>5 DEF Made3
  <1>6. /\ FiveElement(Five!FeNormalizeVar(a)) /\ Five!FeNormalizeVar(a).magnitude = 1
        /\ Five!FeNormalizeVar(a).normalized
    <2>1. CASE t[4] \div Five!TopB = 1 \/ Five!AtLeastP(t)
      <3>1. PICK r : r = [Carried(Five!Folded(t, 1), W5, WordBits5) EXCEPT ![4] = @ % Five!TopB]
        OBVIOUS
      <3>2. 1 \in 0 .. 1 /\ (1 = 1 <=> (t[4] \div Five!TopB = 1 \/ Five!AtLeastP(t)))
        BY <2>1
      <3>3. FiveElement(Made3(r, 1, TRUE))
        BY <1>4, <3>1, <3>2
      <3>4. Five!FeNormalizeVar(a) = Made3(r, 1, TRUE)
        BY <1>1, <2>1, <3>1, FiveOperators DEF Five!FeNormalizeVar, Made3
      <3> QED
        BY <3>3, <3>4 DEF Made3
    <2>2. CASE ~ (t[4] \div Five!TopB = 1 \/ Five!AtLeastP(t))
      <3>1. ~ FiveReaches(t)
        BY <1>3, <2>2, FiveReachesP
      <3>2. FiveCanonical(t)
        <4>1. Shape(4, Five!B, Five!TopB, FiveRange, MaxMagnitude, 1, FiveLimbs, FiveFold)
          BY FiveShape DEF FiveShaped
        <4>2. Tidy(t, 4, Five!B, Five!TopB)
          BY <1>2 DEF FiveTidy
        <4>3. /\ t[4] \div Five!TopB = 1 <=> t[4] >= Five!TopB
              /\ t[4] < Five!TopB => Canonical(t, 4, Five!B, Five!TopB)
          BY <4>1, <4>2, TidyTop
        <4>4. t[4] \in Nat /\ Five!TopB \in Nat
          BY <1>3, FiveNumbers
        <4> QED
          BY <2>2, <4>3, <4>4 DEF FiveCanonical
      <3>3. Five!FeNormalizeVar(a) = Made3(t, 1, TRUE)
        BY <1>1, <2>2 DEF Five!FeNormalizeVar, Made3
      <3>4. FiveElement(Made3(t, 1, TRUE))
        BY <3>1, <3>2, FiveNormal
      <3> QED
        BY <3>3, <3>4 DEF Made3
    <2> QED
      BY <2>1, <2>2
  <1>7. /\ FiveElement(Five!FeNormalizeWeak(a)) /\ Five!FeNormalizeWeak(a).magnitude = 1
        /\ Five!FeNormalizeWeak(a).normalized = a.normalized
    <2>1. Five!FeNormalizeWeak(a) = [a EXCEPT !.n = t, !.magnitude = 1]
      BY <1>1 DEF Five!FeNormalizeWeak
    <2>2. a \in FiveRecord /\ a.normalized \in BOOLEAN
      BY FiveParts
    <2>3. Five!FeNormalizeWeak(a) = Made3(t, 1, a.normalized)
      BY <2>1, <2>2 DEF FiveRecord, Made3
    <2>4. FiveElement(Made3(t, 1, a.normalized))
      <3>1. CASE a.normalized = TRUE
        <4>1. FiveCanonical(a.n) /\ ~ FiveReaches(a.n)
          BY <3>1, FiveParts
        <4>2. FiveCanonical(t) /\ ~ FiveReaches(t)
          BY <1>2, <4>1
        <4>3. FiveElement(Made3(t, 1, TRUE))
          BY <4>2, FiveNormal
        <4> QED
          BY <3>1, <4>3
      <3>2. CASE a.normalized = FALSE
        <4>1. FiveElement(Made3(t, 1, FALSE))
          BY <1>2, FiveWeak
        <4> QED
          BY <3>2, <4>1
      <3> QED
        BY <2>2, <3>1, <3>2
    <2> QED
      BY <2>3, <2>4 DEF Made3
  <1> QED
    BY <1>5, <1>6, <1>7

\* secp256k1_fe_set_int of 5x52.
LEMMA FiveSetInt ==
    ASSUME NEW x \in 0 .. Five!B - 1
    PROVE  FiveElement(Five!FeSetInt(x)) /\ Five!FeSetInt(x).magnitude = 1 /\ Five!FeSetInt(x).normalized
  <1>1. Shape(4, Five!B, Five!TopB, FiveRange, MaxMagnitude, 1, FiveLimbs, FiveFold)
    BY FiveShape DEF FiveShaped
  <1>2. PICK l : l = [i \in FiveLimb |-> IF i = 0 THEN x ELSE 0]
    OBVIOUS
  <1>3. IsSmall(l, x, 4)
    BY <1>2 DEF IsSmall, FiveLimb
  <1>4. Canonical(l, 4, Five!B, Five!TopB) /\ ~ Reaches(l, 4, Five!B, 1, FiveLimbs, FiveFold)
    BY <1>1, <1>3, SmallElement
  <1>5. FiveElement(Made3(l, 1, TRUE))
    BY <1>4, FiveNormal DEF FiveCanonical, FiveReaches
  <1>6. Five!FeSetInt(x) = Made3(l, 1, TRUE)
    BY <1>2 DEF Five!FeSetInt, Five!Limb, FiveLimb, Made3
  <1> QED
    BY <1>5, <1>6 DEF Made3

\* secp256k1_fe_clear of 5x52.
LEMMA FiveClears ==
    FiveElement(Five!FeClear) /\ Five!FeClear.magnitude = 0 /\ Five!FeClear.normalized
  <1>1. Shape(4, Five!B, Five!TopB, FiveRange, MaxMagnitude, 1, FiveLimbs, FiveFold)
    BY FiveShape DEF FiveShaped
  <1>2. PICK l : l = [i \in FiveLimb |-> 0]
    OBVIOUS
  <1>3. IsSmall(l, 0, 4)
    BY <1>2 DEF IsSmall, FiveLimb
  <1>4. FiveElement(Made3(l, 0, TRUE))
    BY <1>1, <1>3, ClearElement DEF FiveElement
  <1>5. Five!FeClear = Made3(l, 0, TRUE)
    BY <1>2 DEF Five!FeClear, Five!Limb, FiveLimb, Made3
  <1> QED
    BY <1>4, <1>5 DEF Made3

\* secp256k1_fe_negate of 5x52.
LEMMA FiveNegates ==
    ASSUME NEW a, FiveElement(a), a.magnitude < MaxMagnitude
    PROVE  /\ FiveElement(Five!FeNegate(a, a.magnitude))
           /\ Five!FeNegate(a, a.magnitude).magnitude = a.magnitude + 1
           /\ Five!FeNegate(a, a.magnitude).normalized = FALSE
  <1>1. Shape(4, Five!B, Five!TopB, FiveRange, MaxMagnitude, 1, FiveLimbs, FiveFold)
    BY FiveShape DEF FiveShaped
  <1>2. PICK r : r = [i \in FiveLimb |-> Five!Word(Five!P(i) * 2 * (a.magnitude + 1) - a.n[i])]
    OBVIOUS
  <1>3. IsNegated(r, a.n, a.magnitude, 4, FiveLimbs, FiveRange)
    <2>1. \A i \in FiveLimb : FiveLimbs[i] = Five!P(i)
      BY DEF FiveLimbs
    <2>2. r = [i \in FiveLimb |-> (FiveLimbs[i] * 2 * (a.magnitude + 1) - a.n[i]) % FiveRange]
      BY <1>2, <2>1 DEF Five!Word, FiveRange
    <2> QED
      BY <2>2 DEF IsNegated, FiveLimb
  <1>4. FiveElement(Made3(r, a.magnitude + 1, FALSE))
    BY <1>1, <1>3, NegatedElement DEF FiveElement
  <1>5. Five!FeNegate(a, a.magnitude) = Made3(r, a.magnitude + 1, FALSE)
    BY <1>2 DEF Five!FeNegate, Five!Limb, FiveLimb, Made3
  <1> QED
    BY <1>4, <1>5 DEF Made3

\* secp256k1_fe_mul_int of 5x52.
LEMMA FiveScales ==
    ASSUME NEW a, FiveElement(a), NEW k \in Nat, a.magnitude * k <= MaxMagnitude
    PROVE  /\ FiveElement(Five!FeMulInt(a, k)) /\ Five!FeMulInt(a, k).magnitude = a.magnitude * k
           /\ Five!FeMulInt(a, k).normalized = FALSE
  <1>1. Shape(4, Five!B, Five!TopB, FiveRange, MaxMagnitude, 1, FiveLimbs, FiveFold)
    BY FiveShape DEF FiveShaped
  <1>2. PICK r : r = [i \in FiveLimb |-> Five!Word(a.n[i] * k)]
    OBVIOUS
  <1>3. IsScaled(r, a.n, k, 4, FiveRange)
    BY <1>2 DEF IsScaled, FiveLimb, Five!Word, FiveRange
  <1>4. FiveElement(Made3(r, a.magnitude * k, FALSE))
    BY <1>1, <1>3, ScaledElement DEF FiveElement
  <1>5. Five!FeMulInt(a, k) = Made3(r, a.magnitude * k, FALSE)
    BY <1>2 DEF Five!FeMulInt, Five!Limb, FiveLimb, Made3
  <1> QED
    BY <1>4, <1>5 DEF Made3

\* secp256k1_fe_add of 5x52.
LEMMA FiveAdds ==
    ASSUME NEW a, FiveElement(a), NEW c, FiveElement(c),
           a.magnitude + c.magnitude <= MaxMagnitude
    PROVE  /\ FiveElement(Five!FeAdd(a, c)) /\ Five!FeAdd(a, c).magnitude = a.magnitude + c.magnitude
           /\ Five!FeAdd(a, c).normalized = FALSE
  <1>1. Shape(4, Five!B, Five!TopB, FiveRange, MaxMagnitude, 1, FiveLimbs, FiveFold)
    BY FiveShape DEF FiveShaped
  <1>2. PICK r : r = [i \in FiveLimb |-> Five!Word(a.n[i] + c.n[i])]
    OBVIOUS
  <1>3. IsAdded(r, a.n, c.n, 4, FiveRange)
    BY <1>2 DEF IsAdded, FiveLimb, Five!Word, FiveRange
  <1>4. FiveElement(Made3(r, a.magnitude + c.magnitude, FALSE))
    BY <1>1, <1>3, AddedElement DEF FiveElement
  <1>5. Five!FeAdd(a, c) = Made3(r, a.magnitude + c.magnitude, FALSE)
    BY <1>2 DEF Five!FeAdd, Five!Limb, FiveLimb, Made3
  <1> QED
    BY <1>4, <1>5 DEF Made3

\* secp256k1_fe_cmov of 5x52.
LEMMA FiveMoves ==
    ASSUME NEW a, FiveElement(a), NEW c, FiveElement(c), NEW flag
    PROVE  /\ FiveElement(Five!FeCMov(a, c, flag))
           /\ Five!FeCMov(a, c, flag).magnitude = Max({a.magnitude, c.magnitude})
           /\ Five!FeCMov(a, c, flag).normalized = (a.normalized /\ c.normalized)
  <1>1. Shape(4, Five!B, Five!TopB, FiveRange, MaxMagnitude, 1, FiveLimbs, FiveFold)
    BY FiveShape DEF FiveShaped
  <1>2. PICK r : r = [i \in FiveLimb |-> IF flag = 1 THEN c.n[i] ELSE a.n[i]]
    OBVIOUS
  <1>3. IsChosen(r, a.n, c.n, flag, 4)
    BY <1>2 DEF IsChosen, FiveLimb
  <1>4. FiveElement(Made3(r, Max({a.magnitude, c.magnitude}), a.normalized /\ c.normalized))
    BY <1>1, <1>3, ChosenElement DEF FiveElement
  <1>5. Five!FeCMov(a, c, flag) = Made3(r, Max({a.magnitude, c.magnitude}), a.normalized /\ c.normalized)
    BY <1>2 DEF Five!FeCMov, Five!Limb, FiveLimb, Made3, Five!Max, Max
  <1> QED
    BY <1>4, <1>5 DEF Made3

\* The number of bits of p.
FiveBits == W5 * 4 + T5

\* The bits of an element of 5x52 cut evenly into limbs, and into bytes.
LEMMA FiveCut ==
    /\ FiveBits \in Nat /\ Cut(FiveBits, 5, W5, T5) /\ W5 \in Nat /\ W5 > 0 /\ PowersOfTwo(W5)
    /\ T5 \in 1 .. W5 /\ IsPower(Five!TopB, T5) /\ WordBits5 \in Nat \ {0} /\ PowersOfTwo(WordBits5)
    /\ Covers(Bytes, ByteBits, FiveBits) /\ Bytes \in Nat
    /\ ByteBits \in Nat /\ ByteBits > 0 /\ PowersOfTwo(ByteBits)
  <1>0. Five!Field5x52Assumption
    BY FieldElementAssumption
  <1>1. /\ W5 \in Nat /\ T5 \in Nat /\ T5 < W5 /\ WordBits5 \in Nat /\ W5 < WordBits5
        /\ PowersOfTwo(WordBits5) /\ Bytes \in Nat /\ ByteBits \in Nat
        /\ ByteBits \in 1 .. WordBits5
    BY <1>0, FiveOperators DEF Five!Field5x52Assumption
  <1>2. Bytes * ByteBits >= FiveBits
    BY <1>0 DEF Five!Field5x52Assumption, FiveBits
  <1>3. 4 = 5 - 1 /\ 4 \in Nat
    BY FiveNumbers
  <1>4. FiveBits \in Nat
    <2>1. PICK z \in Nat : z = W5 * 4
      BY <1>1, <1>3, TimesNat
    <2>2. z + T5 \in Nat
      BY <1>1, <2>1
    <2> QED
      BY <2>1, <2>2 DEF FiveBits
  <1>5. Cut(FiveBits, 5, W5, T5)
    BY <1>3 DEF Cut, FiveBits
  <1>6. T5 # 0
    <2>1. Five!TopB >= 2 /\ Five!TopB = 2^T5
      <3>1. Five!TopB \in Nat /\ 2 * MaxMagnitude <= Five!TopB /\ MaxMagnitude \in Nat /\ MaxMagnitude >= 1
        BY FiveNumbers
      <3> QED
        BY <3>1 DEF Five!TopB
    <2>2. ASSUME T5 = 0 PROVE FALSE
      <3>1. 2^0 = 1
        OBVIOUS
      <3>2. 2^T5 = 2^0
        BY <2>2
      <3>3. Five!TopB = 1
        BY <2>1, <3>1, <3>2
      <3> QED
        BY <2>1, <3>3
    <2> QED
      BY <2>2
  <1>7. PowersOfTwo(W5) /\ PowersOfTwo(ByteBits)
    BY <1>1, PowersBelow
  <1>8. Covers(Bytes, ByteBits, FiveBits)
    BY <1>2 DEF Covers
  <1>9. IsPower(Five!TopB, T5)
    BY DEF IsPower, Five!TopB
  <1> QED
    BY <1>1, <1>4, <1>5, <1>6, <1>7, <1>8, <1>9

\* The limbs that set_b32 writes.
LEMMA FiveBytesRead ==
    ASSUME NEW x \in Nat
    PROVE  FiveCanonical(Regroup(ByteArray(x), ByteBits, FiveBits, 5, W5))
  <1>1. Readable(ByteArray(x), ByteBits, FiveBits)
    BY FiveCut, ByteArrays, ReadableLimbs
  <1>2. 5 \in Nat /\ 5 > 0 /\ T5 \in 0 .. W5 /\ 4 = 5 - 1 /\ 4 \in Nat /\ Five!B \in Nat /\ Five!TopB \in Nat
    BY FiveCut, FiveNumbers
  <1>3. PICK l : l = Regroup(ByteArray(x), ByteBits, FiveBits, 5, W5)
    OBVIOUS
  <1>4. /\ l \in [0 .. 5 - 1 -> Nat] /\ (\A k \in 0 .. 5 - 1 : l[k] \in 0 .. 2^W5 - 1)
        /\ l[5 - 1] \in 0 .. 2^T5 - 1
    BY <1>1, <1>2, <1>3, FiveCut, RegroupedLimbs
  <1>5. /\ l \in [0 .. 4 -> Nat] /\ (\A k \in 0 .. 4 : l[k] \in 0 .. Five!B - 1)
        /\ l[4] \in 0 .. Five!TopB - 1
    BY <1>2, <1>4 DEF Five!B, Five!TopB
  <1>6. l[4] <= Five!TopB - 1 /\ (\A k \in 0 .. 4 - 1 : l[k] <= Five!B - 1)
    BY <1>2, <1>5
  <1> QED
    BY <1>3, <1>5, <1>6 DEF FiveCanonical, Canonical

\* secp256k1_fe_set_b32 of 5x52.
LEMMA FiveSetsB32 ==
    ASSUME NEW x, x.five \in Nat, NEW a \in FiveRecord
    PROVE  /\ Five!FeSetB32(a, ByteArray(x.five)).r \in FiveRecord
           /\ TakenAs5(x) =>
                 /\ FiveElement(Five!FeSetB32(a, ByteArray(x.five)).r)
                 /\ Five!FeSetB32(a, ByteArray(x.five)).r.magnitude = 1
                 /\ Five!FeSetB32(a, ByteArray(x.five)).r.normalized
  <1>1. PICK l : l = Regroup(ByteArray(x.five), ByteBits, FiveBits, 5, W5)
    OBVIOUS
  <1>2. FiveCanonical(l)
    BY <1>1, FiveBytesRead
  <1>3. l \in [0 .. 4 -> Nat]
    BY <1>2 DEF FiveCanonical, Canonical
  <1>4. Five!FeSetB32(a, ByteArray(x.five)) =
           IF Five!AtLeastP(l) THEN [ok |-> FALSE, r |-> [a EXCEPT !.n = l]]
                          ELSE [ok |-> TRUE, r |-> Made3(l, 1, TRUE)]
    BY <1>1, FiveOperators DEF Five!FeSetB32, FiveBits, Made3
  <1>5. TakenAs5(x) <=> ~ Five!AtLeastP(l)
    <2>1. Five!FeSetB32(Five!FeClear, ByteArray(x.five)) =
             IF Five!AtLeastP(l) THEN [ok |-> FALSE, r |-> [Five!FeClear EXCEPT !.n = l]]
                            ELSE [ok |-> TRUE, r |-> Made3(l, 1, TRUE)]
      BY <1>1, FiveOperators DEF Five!FeSetB32, FiveBits, Made3
    <2>2. CASE Five!AtLeastP(l)
      BY <2>1, <2>2 DEF TakenAs5
    <2>3. CASE ~ Five!AtLeastP(l)
      BY <2>1, <2>3 DEF TakenAs5
    <2> QED
      BY <2>2, <2>3
  <1>6. CASE Five!AtLeastP(l)
    <2>1. Five!FeSetB32(a, ByteArray(x.five)).r = [a EXCEPT !.n = l]
      BY <1>4, <1>6
    <2>2. [a EXCEPT !.n = l] \in FiveRecord
      BY <1>3 DEF FiveRecord
    <2> QED
      BY <1>5, <1>6, <2>1, <2>2
  <1>7. CASE ~ Five!AtLeastP(l)
    <2>1. Five!FeSetB32(a, ByteArray(x.five)).r = Made3(l, 1, TRUE)
      BY <1>4, <1>7
    <2>2. ~ FiveReaches(l)
      BY <1>3, <1>7, FiveReachesP
    <2>3. FiveElement(Made3(l, 1, TRUE))
      BY <1>2, <2>2, FiveNormal
    <2>4. Made3(l, 1, TRUE) \in FiveRecord
      BY <2>3, FiveParts
    <2> QED
      BY <2>1, <2>3, <2>4 DEF Made3
  <1> QED
    BY <1>6, <1>7

\* secp256k1_fe_to_storage, _storage_cmov and _from_storage of 5x52.
LEMMA FiveStores ==
    ASSUME NEW a, FiveElement(a), a.normalized, NEW c, FiveElement(c), c.normalized, NEW flag
    PROVE  LET f == Five!FeFromStorage(Five!FeStorageCMov(Five!FeToStorage(a), Five!FeToStorage(c), flag))
           IN  FiveElement(f) /\ f.magnitude = 1 /\ f.normalized
  <1>1. PICK f : f = Five!FeFromStorage(Five!FeStorageCMov(Five!FeToStorage(a), Five!FeToStorage(c), flag))
    OBVIOUS
  <1>2. PICK m : m = (FiveBits + WordBits5 - 1) \div WordBits5
    OBVIOUS
  <1>3. m \in Nat
    BY <1>2, FiveCut, EnoughWords
  <1>4. Five!StorageWords = m
    BY <1>2 DEF Five!StorageWords, FiveBits
  <1>5. PICK x : x = Five!FeToStorage(a)
    OBVIOUS
  <1>6. PICK y : y = Five!FeToStorage(c)
    OBVIOUS
  <1>7. x = Regroup(a.n, W5, FiveBits, m, WordBits5) /\ y = Regroup(c.n, W5, FiveBits, m, WordBits5)
    BY <1>4, <1>5, <1>6, FiveOperators DEF Five!FeToStorage, FiveBits
  <1>8. /\ DOMAIN x = 0 .. m - 1 /\ DOMAIN y = 0 .. m - 1
        /\ x = [i \in 0 .. m - 1 |-> x[i]] /\ y = [i \in 0 .. m - 1 |-> y[i]]
    BY <1>7 DEF Regroup
  <1>9. Five!FeStorageCMov(x, y, flag) = IF flag = 1 THEN y ELSE x
    BY <1>3, <1>8, StorageChosen DEF Five!FeStorageCMov
  <1>10. ASSUME NEW l, FiveCanonical(l)
         PROVE  Regroup(Regroup(l, W5, FiveBits, m, WordBits5), WordBits5, FiveBits, 5, W5) = l
    <2>1. Shape(4, Five!B, Five!TopB, FiveRange, MaxMagnitude, 1, FiveLimbs, FiveFold)
      BY FiveShape DEF FiveShaped
    <2>2. Canonical(l, 4, Five!B, Five!TopB)
      BY <1>10 DEF FiveCanonical
    <2>3. 5 \in Nat /\ 5 = 4 + 1 /\ IsPower(Five!B, W5)
      BY FiveNumbers
    <2>4. Regroup(Regroup(l, W5, FiveBits, (FiveBits + WordBits5 - 1) \div WordBits5, WordBits5),
                  WordBits5, FiveBits, 5, W5) = l
      BY <2>1, <2>2, <2>3, FiveCut, StoredAndBack
    <2> QED
      BY <1>2, <2>4
  <1>11. FiveCanonical(a.n) /\ ~ FiveReaches(a.n) /\ FiveCanonical(c.n) /\ ~ FiveReaches(c.n)
    BY FiveParts
  <1>12. PICK l \in {a.n, c.n} : f = Made3(l, 1, TRUE)
    <2>1. f = Made3(Regroup(IF flag = 1 THEN y ELSE x, WordBits5, FiveBits, 5, W5), 1, TRUE)
      BY <1>1, <1>5, <1>6, <1>9, FiveOperators DEF Five!FeFromStorage, Made3, FiveBits
    <2>2. CASE flag = 1
      <3>1. f = Made3(Regroup(y, WordBits5, FiveBits, 5, W5), 1, TRUE)
        BY <2>1, <2>2
      <3>2. f = Made3(c.n, 1, TRUE)
        BY <1>7, <1>10, <1>11, <3>1
      <3> QED
        BY <3>2
    <2>3. CASE flag # 1
      <3>1. f = Made3(Regroup(x, WordBits5, FiveBits, 5, W5), 1, TRUE)
        BY <2>1, <2>3
      <3>2. f = Made3(a.n, 1, TRUE)
        BY <1>7, <1>10, <1>11, <3>1
      <3> QED
        BY <3>2
    <2> QED
      BY <2>2, <2>3
  <1>13. FiveElement(Made3(l, 1, TRUE))
    BY <1>11, <1>12, FiveNormal
  <1> QED
    BY <1>1, <1>12, <1>13 DEF Made3

-----------------------------------------------------------------------------
(* The products of 5x52.                                                   *)

FiveAcc  == 2^AccBits5
FiveFull == FiveAcc \div Five!B         \* what is carried out of an accumulator, at most

\* The weights that the products of 5x52 fold with are natural numbers.
LEMMA FiveWeights ==
    /\ FiveAcc \in Nat \ {0} /\ FiveFull \in Nat /\ Five!R \in Nat
    /\ Five!B \in Nat \ {0} /\ Five!TopB \in Nat \ {0} /\ C5 \in Nat /\ Five!B - 1 \in Nat
    /\ 2^Five!S \in Nat
  <1>0. Five!Field5x52Assumption
    BY FieldElementAssumption
  <1>1. FiveAcc \in Nat \ {0}
    BY <1>0 DEF FiveAcc, Five!Field5x52Assumption
  <1>2. FiveFull \in Nat
    BY <1>1, FiveNumbers, DivMod DEF FiveFull
  <1>3. Five!S \in Nat /\ Five!S <= WordBits5 /\ WordBits5 \in Nat /\ PowersOfTwo(WordBits5)
    BY <1>0, FiveOperators DEF Five!Field5x52Assumption, Five!S
  <1>4. PICK z \in Nat : z = 2^Five!S
    BY <1>3, NextPower
  <1>5. Five!R \in Nat
    BY <1>4, FiveNumbers, TimesNat DEF Five!R
  <1> QED
    BY <1>1, <1>2, <1>4, <1>5, FiveNumbers

\* An accumulator never holds more than what is written to it.
LEMMA FiveAccBelow ==
    ASSUME NEW x \in Nat
    PROVE  Five!Acc(x) \in Nat /\ Five!Acc(x) <= x
           /\ Five!Acc(x) \div Five!B \in Nat /\ Five!Acc(x) \div Five!B <= FiveFull
           /\ Five!Acc(x) % Five!B \in 0 .. Five!B - 1
  <1>1. PICK r : r = Five!Acc(x)
    OBVIOUS
  <1>2. r \in Nat /\ r <= x /\ r < FiveAcc
    BY <1>1, FiveWeights, ModBelow DEF Five!Acc, FiveAcc
  <1>3. r <= FiveAcc /\ FiveAcc \in Nat
    BY <1>2, FiveWeights
  <1>4. r \div Five!B <= FiveFull
    BY <1>2, <1>3, FiveWeights, DivMonotone DEF FiveFull
  <1>5. r \div Five!B \in Nat /\ r % Five!B \in 0 .. Five!B - 1
    BY <1>2, FiveWeights, DivMod
  <1> QED
    BY <1>1, <1>2, <1>4, <1>5

\* The columns of a product, as far as the bounds of the reduction need them.
FiveColumns(col, x, y) ==
    /\ col \in [0 .. 8 -> Nat] /\ col[2] <= 3 * x * x /\ col[7] <= 2 * x * y

\* What the high columns leave for the low ones.
FiveUpper == [t3 : 0 .. Five!B - 1, t4 : 0 .. Five!TopB - 1, d : Nat, u0 : Nat]

\* What the low columns become.
FiveCarries(col, h, c0, d6, c1, d7, c2, c3) ==
    /\ c0 = Five!Acc(col[0] + h.u0 * C5)
    /\ d6 = Five!Acc(h.d + col[6])
    /\ c1 = Five!Acc(c0 \div Five!B + col[1] + (d6 % Five!B) * Five!R)
    /\ d7 = Five!Acc(d6 \div Five!B + col[7])
    /\ c2 = Five!Acc(c1 \div Five!B + col[2] + (d7 % Five!B) * Five!R)
    /\ c3 = Five!Acc(c2 \div Five!B + (d7 \div Five!B) * Five!R + h.t3)

FiveWritten(c0, c1, c2, c3, t4) ==
    [i \in 0 .. 4 |-> CASE i = 0 -> c0 % Five!B
                        [] i = 1 -> c1 % Five!B
                        [] i = 2 -> c2 % Five!B
                        [] i = 3 -> c3 % Five!B
                        [] i = 4 -> Five!Word(c3 \div Five!B + t4)]

\* The reduction writes what its accumulators hold.
LEMMA FiveWrites ==
    ASSUME NEW col, NEW h, NEW c0, NEW d6, NEW c1, NEW d7, NEW c2, NEW c3,
           FiveCarries(col, h, c0, d6, c1, d7, c2, c3)
    PROVE  Five!MulLower(col, h) = FiveWritten(c0, c1, c2, c3, h.t4)
  BY DEF FiveCarries, Five!MulLower, FiveWritten, Five!Limb

\* The high columns: every accumulator holds a number, and what is left for
\* limb 3 and for the top limb is below their widths.
LEMMA FiveHalf ==
    ASSUME NEW col \in [0 .. 8 -> Nat]
    PROVE  Five!MulUpper(col) \in FiveUpper
  <1>1. /\ Five!B \in Nat \ {0} /\ Five!B - 1 \in Nat /\ Five!TopB \in Nat \ {0}
        /\ Five!R \in Nat /\ C5 \in Nat /\ 2^Five!S \in Nat
    BY FiveWeights
  <1>2. \A k \in 0 .. 8 : col[k] \in Nat
    OBVIOUS
  <1>3. PICK k3 \in Nat, k4 \in Nat, k5 \in Nat, k8 \in Nat :
           k3 = col[3] /\ k4 = col[4] /\ k5 = col[5] /\ k8 = col[8]
    <2>1. 3 \in 0 .. 8 /\ 4 \in 0 .. 8 /\ 5 \in 0 .. 8 /\ 8 \in 0 .. 8
      OBVIOUS
    <2> QED
      BY <1>2, <2>1
  <1>4. PICK e8 \in 0 .. Five!B - 1, c8 \in Nat :
           e8 = Five!Acc(k8) % Five!B /\ c8 = Five!Acc(k8) \div Five!B
    BY FiveAccBelow
  <1>5. PICK m \in Nat : m = e8 * Five!R
    BY <1>1, TimesNat
  <1>6. PICK d3 : d3 = Five!Acc(k3 + m)
    OBVIOUS
  <1>7. d3 \div Five!B \in Nat /\ d3 % Five!B \in 0 .. Five!B - 1
    <2>1. k3 + m \in Nat
      OBVIOUS
    <2> QED
      BY <1>6, <2>1, FiveAccBelow
  <1>8. PICK n \in Nat : n = c8 * Five!R
    BY <1>1, TimesNat
  <1>9. PICK d4 : d4 = Five!Acc(d3 \div Five!B + k4 + n)
    OBVIOUS
  <1>10. d4 \div Five!B \in Nat /\ d4 % Five!B \in 0 .. Five!B - 1
    <2>1. d3 \div Five!B + k4 + n \in Nat
      BY <1>7
    <2> QED
      BY <1>9, <2>1, FiveAccBelow
  <1>11. PICK z \in Nat : z = d4 % Five!B
    BY <1>10
  <1>12. z % Five!TopB \in 0 .. Five!TopB - 1 /\ z \div Five!TopB \in Nat
    BY <1>1, DivMod
  <1>13. PICK d5 : d5 = Five!Acc(d4 \div Five!B + k5)
    OBVIOUS
  <1>14. d5 \in Nat /\ d5 \div Five!B \in Nat /\ d5 % Five!B \in 0 .. Five!B - 1
    <2>1. d4 \div Five!B + k5 \in Nat
      BY <1>10
    <2> QED
      BY <1>13, <2>1, FiveAccBelow
  <1>15. PICK v \in Nat : v = (d5 % Five!B) * 2^Five!S
    BY <1>1, <1>14, TimesNat
  <1>16. PICK u0 \in Nat : u0 = v + z \div Five!TopB
    BY <1>12
  <1>17. Five!MulUpper(col) = [t3 |-> d3 % Five!B, t4 |-> z % Five!TopB,
                              d |-> d5 \div Five!B, u0 |-> u0]
    BY <1>3, <1>4, <1>5, <1>6, <1>8, <1>9, <1>11, <1>13, <1>15, <1>16 DEF Five!MulUpper
  <1> QED
    BY <1>7, <1>12, <1>14, <1>16, <1>17 DEF FiveUpper

\* The low columns: the carry out of limb 3 fits the top limb.
LEMMA FiveFinish ==
    ASSUME NEW col, NEW x \in Nat, NEW y \in Nat, FiveColumns(col, x, y),
           Five!LastCarryFits(x, y), NEW h \in FiveUpper
    PROVE  Within(Five!MulLower(col, h), 1, 4, FiveLimbs)
  <1>1. /\ Five!B \in Nat \ {0} /\ Five!B - 1 \in Nat /\ Five!TopB \in Nat \ {0}
        /\ Five!R \in Nat /\ C5 \in Nat /\ FiveFull \in Nat
    BY FiveWeights
  <1>2. PICK w \in Nat, z \in Nat : w = 3 * x * x /\ z = 2 * x * y
    BY TimesNat
  <1>3. PICK k0 \in Nat, k1 \in Nat, k2 \in Nat, k6 \in Nat, k7 \in Nat :
           /\ k0 = col[0] /\ k1 = col[1] /\ k2 = col[2] /\ k6 = col[6] /\ k7 = col[7]
           /\ k2 <= w /\ k7 <= z
    <2>1. col \in [0 .. 8 -> Nat] /\ col[2] <= w /\ col[7] <= z
      BY <1>2 DEF FiveColumns
    <2>2. 0 \in 0 .. 8 /\ 1 \in 0 .. 8 /\ 2 \in 0 .. 8 /\ 6 \in 0 .. 8 /\ 7 \in 0 .. 8
      OBVIOUS
    <2> QED
      BY <2>1, <2>2
  <1>4. PICK t3 \in 0 .. Five!B - 1, t4 \in 0 .. Five!TopB - 1, d5 \in Nat, u0 \in Nat :
           t3 = h.t3 /\ t4 = h.t4 /\ d5 = h.d /\ u0 = h.u0
    BY DEF FiveUpper
  <1>5. PICK a0 \in Nat : a0 = u0 * C5
    BY <1>1, TimesNat
  <1>6. PICK c0 : c0 = Five!Acc(k0 + a0)
    OBVIOUS
  <1>7. c0 \div Five!B \in Nat /\ c0 % Five!B \in 0 .. Five!B - 1
    <2>1. k0 + a0 \in Nat
      OBVIOUS
    <2> QED
      BY <1>6, <2>1, FiveAccBelow
  <1>8. PICK d6 : d6 = Five!Acc(d5 + k6)
    OBVIOUS
  <1>9. d6 \div Five!B \in Nat /\ d6 \div Five!B <= FiveFull /\ d6 % Five!B \in 0 .. Five!B - 1
    <2>1. d5 + k6 \in Nat
      OBVIOUS
    <2> QED
      BY <1>8, <2>1, FiveAccBelow
  <1>10. PICK a1 \in Nat : a1 = (d6 % Five!B) * Five!R
    BY <1>1, <1>9, TimesNat
  <1>11. PICK c1 : c1 = Five!Acc(c0 \div Five!B + k1 + a1)
    OBVIOUS
  <1>12. c1 \div Five!B \in Nat /\ c1 \div Five!B <= FiveFull /\ c1 % Five!B \in 0 .. Five!B - 1
    <2>1. c0 \div Five!B + k1 + a1 \in Nat
      BY <1>7
    <2> QED
      BY <1>11, <2>1, FiveAccBelow
  <1>13. PICK q6 \in Nat : q6 = d6 \div Five!B
    BY <1>9
  <1>14. PICK d7 \in Nat : d7 = Five!Acc(q6 + k7) /\ d7 <= q6 + k7
    <2>1. q6 + k7 \in Nat
      OBVIOUS
    <2> QED
      BY <2>1, FiveAccBelow
  <1>15. PICK e7 \in Nat : e7 = FiveFull + z
    BY <1>1
  <1>16. d7 <= e7
    BY <1>1, <1>3, <1>9, <1>13, <1>14, <1>15
  <1>17. PICK p7 \in Nat, r7 \in Nat : p7 = d7 \div Five!B /\ r7 = e7 \div Five!B
    BY <1>1, DivMod
  <1>18. p7 <= r7
    BY <1>1, <1>16, <1>17, DivMonotone
  <1>19. PICK a2 \in Nat, m2 \in Nat :
            a2 = (d7 % Five!B) * Five!R /\ m2 = (Five!B - 1) * Five!R /\ a2 <= m2
    <2>1. PICK g \in 0 .. Five!B - 1 : g = d7 % Five!B
      BY <1>1, DivMod
    <2>2. g \in Nat /\ g <= Five!B - 1
      BY <1>1, <2>1
    <2>3. g * Five!R <= (Five!B - 1) * Five!R /\ g * Five!R \in Nat /\ (Five!B - 1) * Five!R \in Nat
      BY <1>1, <2>2, TimesMonotone, TimesNat
    <2> QED
      BY <2>1, <2>3
  <1>20. PICK q1 \in Nat : q1 = c1 \div Five!B
    BY <1>12
  <1>21. PICK c2 \in Nat : /\ c2 = Five!Acc(q1 + k2 + a2) /\ c2 <= q1 + k2 + a2
                          /\ c2 % Five!B \in 0 .. Five!B - 1
    <2>1. q1 + k2 + a2 \in Nat
      OBVIOUS
    <2> QED
      BY <2>1, FiveAccBelow
  <1>22. PICK e2 \in Nat : e2 = FiveFull + w + m2
    BY <1>1
  <1>23. c2 <= e2
    BY <1>1, <1>3, <1>12, <1>19, <1>20, <1>21, <1>22
  <1>24. PICK p2 \in Nat, r2 \in Nat : p2 = c2 \div Five!B /\ r2 = e2 \div Five!B
    BY <1>1, DivMod
  <1>25. p2 <= r2
    BY <1>1, <1>23, <1>24, DivMonotone
  <1>26. PICK a3 \in Nat, m3 \in Nat : a3 = p7 * Five!R /\ m3 = r7 * Five!R /\ a3 <= m3
    BY <1>1, <1>18, TimesMonotone, TimesNat
  <1>27. PICK c3 \in Nat : /\ c3 = Five!Acc(p2 + a3 + t3) /\ c3 <= p2 + a3 + t3
                          /\ c3 % Five!B \in 0 .. Five!B - 1
    <2>1. p2 + a3 + t3 \in Nat
      BY <1>1
    <2> QED
      BY <2>1, FiveAccBelow
  <1>28. c3 < Five!B * Five!TopB
    <2>1. r2 + m3 + Five!B - 1 < Five!B * Five!TopB
      <3>1. /\ FiveFull + 3 * x * x + (Five!B - 1) * Five!R = e2
            /\ FiveFull + 2 * x * y = e7
        BY <1>2, <1>15, <1>19, <1>22
      <3>2. (e2 \div Five!B) + (e7 \div Five!B) * Five!R + Five!B - 1 < Five!B * Five!TopB
        BY <3>1 DEF Five!LastCarryFits, FiveFull, FiveAcc
      <3> QED
        BY <1>17, <1>24, <1>26, <3>2
    <2>2. PICK v \in Nat : v = Five!B * Five!TopB
      BY <1>1, TimesNat
    <2>3. c3 <= r2 + m3 + Five!B - 1
      BY <1>1, <1>25, <1>26, <1>27
    <2> QED
      BY <1>1, <2>1, <2>2, <2>3
  <1>29. c3 \div Five!B \in 0 .. Five!TopB - 1
    BY <1>1, <1>28, Quotient
  <1>30. PICK x4 \in Nat : x4 = Five!Word(c3 \div Five!B + t4) /\ x4 <= 2 * (Five!TopB - 1)
    <2>1. PICK s \in Nat : s = c3 \div Five!B + t4 /\ s <= 2 * (Five!TopB - 1)
      BY <1>1, <1>29
    <2>2. 2^WordBits5 \in Nat \ {0}
      BY FiveNumbers DEF FiveRange
    <2>3. Five!Word(s) \in Nat /\ Five!Word(s) <= s
      BY <2>1, <2>2, ModBelow DEF Five!Word
    <2>4. 2 * (Five!TopB - 1) \in Nat
      BY <1>1
    <2> QED
      BY <2>1, <2>3, <2>4
  <1>31. PICK l : l = Five!MulLower(col, h)
    OBVIOUS
  <1>32. l = FiveWritten(c0, c1, c2, c3, t4)
    <2>1. FiveCarries(col, h, c0, d6, c1, d7, c2, c3)
      BY <1>3, <1>4, <1>5, <1>6, <1>8, <1>10, <1>11, <1>13, <1>14, <1>17, <1>19, <1>20, <1>21,
         <1>24, <1>26, <1>27 DEF FiveCarries
    <2>2. Five!MulLower(col, h) = FiveWritten(c0, c1, c2, c3, h.t4)
      BY <2>1, FiveWrites
    <2> QED
      BY <1>4, <1>31, <2>2
  <1>33. /\ l = [i \in 0 .. 4 |-> l[i]]
         /\ l[0] = c0 % Five!B /\ l[1] = c1 % Five!B /\ l[2] = c2 % Five!B /\ l[3] = c3 % Five!B
         /\ l[4] = x4
    BY <1>30, <1>32 DEF FiveWritten
  <1>34. /\ \A i \in 0 .. 3 : FiveLimbs[i] \in Nat /\ Five!B - 1 <= 2 * FiveLimbs[i]
         /\ FiveLimbs[4] = Five!TopB - 1
    <2>1. Shape(4, Five!B, Five!TopB, FiveRange, MaxMagnitude, 1, FiveLimbs, FiveFold)
      BY FiveShape DEF FiveShaped
    <2>2. /\ \A i \in 0 .. 4 : FiveLimbs[i] \in Nat /\ FiveFold[i] \in Nat
          /\ \A i \in 0 .. 4 - 1 : Five!B - 1 <= 2 * FiveLimbs[i]
          /\ FiveLimbs[4] = Five!TopB - 1
      BY <2>1, ShapeNumbers
    <2>3. \A i \in 0 .. 3 : i \in 0 .. 4 /\ i \in 0 .. 4 - 1
      OBVIOUS
    <2> QED
      BY <2>2, <2>3
  <1>35. ASSUME NEW i \in 0 .. 4
         PROVE  l[i] \in Nat /\ l[i] <= (2 * 1) * FiveLimbs[i]
    <2>1. CASE i = 4
      BY <1>1, <1>30, <1>33, <1>34, <2>1
    <2>2. CASE i # 4
      <3>1. i \in 0 .. 3
        BY <2>2
      <3>2. l[i] \in 0 .. Five!B - 1
        <4>1. i = 0 \/ i = 1 \/ i = 2 \/ i = 3
          BY <3>1
        <4>2. /\ l[0] \in 0 .. Five!B - 1 /\ l[1] \in 0 .. Five!B - 1
              /\ l[2] \in 0 .. Five!B - 1 /\ l[3] \in 0 .. Five!B - 1
          BY <1>7, <1>12, <1>21, <1>27, <1>33
        <4> QED
          BY <4>1, <4>2
      <3>3. FiveLimbs[i] \in Nat /\ Five!B - 1 <= 2 * FiveLimbs[i]
        BY <1>34, <3>1
      <3> QED
        BY <1>1, <3>2, <3>3
    <2> QED
      BY <2>1, <2>2
  <1>36. l \in [0 .. 4 -> Nat]
    BY <1>33, <1>35
  <1>37. Within(l, 1, 4, FiveLimbs)
    BY <1>35, <1>36 DEF Within
  <1> QED
    BY <1>31, <1>37

\* The whole reduction.
LEMMA FiveReduces ==
    ASSUME NEW col, NEW x \in Nat, NEW y \in Nat, FiveColumns(col, x, y),
           Five!LastCarryFits(x, y)
    PROVE  Within(Five!MulReduce(col), 1, 4, FiveLimbs)
  <1>1. col \in [0 .. 8 -> Nat]
    BY DEF FiveColumns
  <1>2. PICK h : h = Five!MulUpper(col)
    OBVIOUS
  <1>3. h \in FiveUpper
    BY <1>1, <1>2, FiveHalf
  <1>4. Within(Five!MulLower(col, h), 1, 4, FiveLimbs)
    BY <1>3, FiveFinish
  <1> QED
    BY <1>2, <1>4 DEF Five!MulReduce

\* A sum of two numbers.
LEMMA TotalOfTwo ==
    ASSUME NEW i, NEW j, i # j, NEW D, D = {i, j}, NEW v \in [D -> Nat]
    PROVE  Total(v, D) = v[i] + v[j]
  <1>1. IsFiniteSet(D)
    <2>1. IsFiniteSet({i})
      BY FS_Singleton
    <2>2. PICK g : g = {i} \cup {j}
      OBVIOUS
    <2>3. IsFiniteSet(g)
      BY <2>1, <2>2, FS_AddElement
    <2>4. g = D
      BY <2>2
    <2> QED
      BY <2>3, <2>4
  <1>2. PICK g : Totals(g, v, D) /\ Total(v, D) = g[D]
    BY <1>1, TotalMeans
  <1>3. /\ g[{}] = 0
        /\ \A s \in SUBSET D : s # {} => \E x \in s : g[s] = v[x] + g[s \ {x}]
    BY <1>2 DEF Totals
  <1>4. ASSUME NEW x \in D PROVE g[{x}] = v[x] /\ v[x] \in Nat
    <2>1. {x} \in SUBSET D /\ {x} # {}
      OBVIOUS
    <2>2. PICK u \in {x} : g[{x}] = v[u] + g[{x} \ {u}]
      BY <1>3, <2>1
    <2>3. u = x /\ {x} \ {u} = {}
      OBVIOUS
    <2>4. g[{x} \ {u}] = 0
      BY <1>3, <2>3
    <2> QED
      BY <2>2, <2>3, <2>4
  <1>5. PICK x \in D : g[D] = v[x] + g[D \ {x}]
    <2>1. D \in SUBSET D /\ D # {}
      OBVIOUS
    <2> QED
      BY <1>3, <2>1
  <1>6. CASE x = i
    <2>1. D \ {x} = {j}
      BY <1>6
    <2> QED
      BY <1>2, <1>4, <1>5, <1>6, <2>1
  <1>7. CASE x = j
    <2>1. D \ {x} = {i}
      BY <1>7
    <2>2. v[i] \in Nat /\ v[j] \in Nat
      OBVIOUS
    <2>3. g[{i}] = v[i] /\ g[D] = v[j] + g[{i}]
      BY <1>4, <1>5, <1>7, <2>1
    <2>4. v[j] + v[i] = v[i] + v[j]
      BY <2>2
    <2> QED
      BY <1>2, <2>3, <2>4
  <1> QED
    BY <1>5, <1>6, <1>7

\* The sums of 5x52.
FiveMulSum(a, b, k, D) == Five!MapThenSumSet(LAMBDA i : a[i] * b[k - i], D)
FiveSqrSum(a, k, D) ==
    Five!MapThenSumSet(LAMBDA i : IF 2 * i = k THEN a[i] * a[i]
                                  ELSE Five!Word(a[i] * 2) * a[k - i], D)

IsFiveSquares(v, a, k, D) ==
    v = [i \in D |-> IF 2 * i = k THEN a[i] * a[i] ELSE Five!Word(a[i] * 2) * a[k - i]]

\* A column of the product of 5x52 is the sum of 10x26, over its own limbs.
LEMMA FiveMulTotal ==
    ASSUME NEW a, NEW b, NEW k, NEW D
    PROVE  FiveMulSum(a, b, k, D) = MulSum(a, b, k, D)
  BY DEF FiveMulSum, MulSum, Five!MapThenSumSet, Five!MapThenFoldSet, MapThenSumSet, MapThenFoldSet

\* A column of the square of 5x52 is a sum of products.
LEMMA FiveSqrTotal ==
    ASSUME NEW a, NEW k, NEW D, NEW v, IsFiveSquares(v, a, k, D)
    PROVE  FiveSqrSum(a, k, D) = Total(v, D)
  BY DEF IsFiveSquares, FiveSqrSum, Total, Five!MapThenSumSet, Five!MapThenFoldSet,
         MapThenSumSet, MapThenFoldSet

\* Column 2 sums three products of low limbs.
LEMMA MulLow ==
    ASSUME NEW a, NEW b, NEW x \in Nat, NEW y \in Nat,
           Bounded(a, 4, x, y), Bounded(b, 4, x, y), NEW D,
           D = {i \in 0 .. 4 : 2 - i \in 0 .. 4}
    PROVE  MulSum(a, b, 2, D) <= 3 * x * x
  <1>1. /\ a \in [0 .. 4 -> Nat] /\ (\A i \in 0 .. 3 : a[i] <= x)
        /\ b \in [0 .. 4 -> Nat] /\ (\A i \in 0 .. 3 : b[i] <= x)
    BY DEF Bounded
  <1>2. \A m \in Nat : (\A i \in D : a[i] * b[2 - i] <= m) =>
           MulSum(a, b, 2, D) <= Cardinality(D) * m
    <2>1. 4 \in Nat /\ 2 \in Int
      OBVIOUS
    <2> QED
      BY <1>1, <2>1, MulColumn
  <1>3. D = 0 .. 2
    OBVIOUS
  <1>4. Cardinality(D) = 3
    <2>1. PICK lo \in Int, hi \in Int : lo = 0 /\ hi = 2
      OBVIOUS
    <2>2. Cardinality(lo .. hi) = IF lo > hi THEN 0 ELSE hi - lo + 1
      BY FS_Interval
    <2>3. Cardinality(0 .. 2) = 3
      BY <2>1, <2>2
    <2> QED
      BY <1>3, <2>3
  <1>5. PICK m \in Nat : m = x * x
    BY TimesNat
  <1>6. ASSUME NEW i \in D PROVE a[i] * b[2 - i] <= m
    <2>1. i \in 0 .. 4 /\ i \in 0 .. 3 /\ 2 - i \in 0 .. 4 /\ 2 - i \in 0 .. 3
      BY <1>3
    <2>2. PICK j \in 0 .. 3 : j = 2 - i
      BY <2>1
    <2>3. a[i] \in Nat /\ b[j] \in Nat /\ a[i] <= x /\ b[j] <= x
      BY <1>1, <2>1, <2>2
    <2>4. a[i] * b[j] <= x * x
      BY <2>3, ProductBelow
    <2> QED
      BY <1>5, <2>2, <2>4
  <1>7. MulSum(a, b, 2, D) <= 3 * m
    BY <1>2, <1>4, <1>5, <1>6
  <1>8. 3 * x * x = 3 * m
    <2>1. 3 * x = x + (x + x)
      OBVIOUS
    <2>2. (x + (x + x)) * x = x * x + (x + x) * x /\ (x + x) * x = x * x + x * x
      BY Times
    <2> QED
      BY <1>5, <2>1, <2>2
  <1> QED
    BY <1>7, <1>8

\* In a square they are two, one of them with a doubled limb.
LEMMA SqrLow ==
    ASSUME NEW a, NEW c, NEW x \in Nat, NEW y \in Nat,
           Bounded(a, 4, x, y), Doubled(c, a, 4), NEW D,
           D = {i \in 0 .. 4 : 2 - i \in 0 .. 4 /\ 2 * i <= 2}
    PROVE  SqrSum(a, c, 2, D) <= 3 * x * x
  <1>1. /\ a \in [0 .. 4 -> Nat] /\ (\A i \in 0 .. 3 : a[i] <= x)
        /\ c \in [0 .. 4 -> Nat] /\ (\A i \in 0 .. 4 : c[i] <= 2 * a[i])
    BY DEF Bounded, Doubled
  <1>2. D = {0, 1}
    OBVIOUS
  <1>3. /\ a[0] \in Nat /\ a[1] \in Nat /\ a[2] \in Nat /\ c[0] \in Nat /\ c[1] \in Nat
        /\ a[0] <= x /\ a[1] <= x /\ a[2] <= x /\ c[0] <= 2 * x
    <2>1. 0 \in 0 .. 4 /\ 1 \in 0 .. 4 /\ 2 \in 0 .. 4 /\ 0 \in 0 .. 3 /\ 1 \in 0 .. 3 /\ 2 \in 0 .. 3
      OBVIOUS
    <2>2. c[0] <= 2 * a[0] /\ a[0] \in Nat /\ a[0] <= x /\ c[0] \in Nat
      BY <1>1, <2>1
    <2> QED
      BY <1>1, <2>1, <2>2
  <1>4. PICK u \in Nat : u = c[0] * a[2]
    BY <1>3, TimesNat
  <1>5. PICK w \in Nat : w = a[1] * a[1]
    BY <1>3, TimesNat
  <1>6. PICK m \in Nat : m = x * x
    BY TimesNat
  <1>7. u <= 2 * m
    <2>1. PICK z \in Nat : z = 2 * x
      OBVIOUS
    <2>2. c[0] * a[2] <= z * x
      BY <1>3, <2>1, ProductBelow
    <2>3. (x + x) * x = x * x + x * x /\ z = x + x
      BY <2>1, Times
    <2> QED
      BY <1>4, <1>6, <2>2, <2>3
  <1>8. w <= m
    BY <1>3, <1>5, <1>6, ProductBelow
  <1>9. PICK v : IsSquares(v, a, c, 2, D)
    BY DEF IsSquares
  <1>10. v \in [D -> Nat] /\ v[0] = u /\ v[1] = w
    <2>1. v = [i \in D |-> IF 2 * i = 2 THEN a[i] * a[i] ELSE c[i] * a[2 - i]]
      BY <1>9 DEF IsSquares
    <2>2. 0 \in D /\ 1 \in D
      BY <1>2
    <2>3. v[0] = IF 2 * 0 = 2 THEN a[0] * a[0] ELSE c[0] * a[2 - 0]
      BY <2>1, <2>2
    <2>4. v[1] = IF 2 * 1 = 2 THEN a[1] * a[1] ELSE c[1] * a[2 - 1]
      BY <2>1, <2>2
    <2>5. 2 * 0 # 2 /\ 2 - 0 = 2 /\ 2 * 1 = 2
      OBVIOUS
    <2>6. v[0] = u /\ v[1] = w
      BY <1>4, <1>5, <2>3, <2>4, <2>5
    <2>7. ASSUME NEW i \in D PROVE v[i] \in Nat
      BY <1>2, <2>6
    <2>8. v = [i \in D |-> v[i]]
      BY <2>1
    <2> QED
      BY <2>6, <2>7, <2>8
  <1>11. Total(v, D) = v[0] + v[1]
    <2>1. 0 # 1
      OBVIOUS
    <2> QED
      BY <1>2, <1>10, <2>1, TotalOfTwo
  <1>12. SqrSum(a, c, 2, D) = u + w
    BY <1>9, <1>10, <1>11, SqrTotal
  <1>13. 3 * x * x = 3 * m
    <2>1. 3 * x = x + (x + x)
      OBVIOUS
    <2>2. (x + (x + x)) * x = x * x + (x + x) * x /\ (x + x) * x = x * x + x * x
      BY Times
    <2> QED
      BY <1>6, <2>1, <2>2
  <1> QED
    BY <1>7, <1>8, <1>12, <1>13

\* The columns of a product of bounded limbs, for 5x52.
LEMMA FiveMulColumns ==
    ASSUME NEW a, NEW b, NEW x \in Nat, NEW y \in Nat,
           Bounded(a, 4, x, y), Bounded(b, 4, x, y)
    PROVE  FiveColumns(Five!MulColumns(a, b), x, y)
  <1>1. a \in [0 .. 4 -> Nat] /\ b \in [0 .. 4 -> Nat] /\ 4 \in Nat /\ 4 >= 1 /\ 7 = 2 * 4 - 1
    BY DEF Bounded
  <1> DEFINE D(k) == {i \in 0 .. 4 : k - i \in 0 .. 4}
  <1>2. PICK col : col = Five!MulColumns(a, b)
    OBVIOUS
  <1>3. col = [k \in 0 .. 8 |-> FiveMulSum(a, b, k, D(k))]
    BY <1>2 DEF Five!MulColumns, FiveMulSum, Five!Limb
  <1>4. ASSUME NEW k \in 0 .. 8 PROVE col[k] = MulSum(a, b, k, D(k))
    BY <1>3, FiveMulTotal
  <1>5. ASSUME NEW k \in 0 .. 8
        PROVE  /\ MulSum(a, b, k, D(k)) \in Nat
               /\ k = 7 => MulSum(a, b, k, D(k)) <= 2 * x * y
    <2>1. k \in Int
      OBVIOUS
    <2>2. MulSum(a, b, k, D(k)) \in Nat
      BY <1>1, <2>1, MulColumn
    <2>3. k = 2 * 4 - 1 => MulSum(a, b, k, D(k)) <= 2 * x * y
      BY <1>1, <2>1, MulHigh
    <2> QED
      BY <1>1, <2>2, <2>3
  <1>6. MulSum(a, b, 2, D(2)) <= 3 * x * x
    BY MulLow
  <1> HIDE DEF D
  <1>7. col \in [0 .. 8 -> Nat]
    BY <1>3, <1>4, <1>5
  <1>8. col[2] <= 3 * x * x /\ col[7] <= 2 * x * y
    <2>1. 2 \in 0 .. 8 /\ 7 \in 0 .. 8
      OBVIOUS
    <2> QED
      BY <1>4, <1>5, <1>6, <2>1
  <1> QED
    BY <1>2, <1>7, <1>8 DEF FiveColumns

\* The doubled limbs.
FiveDoubled(a) == [i \in 0 .. 4 |-> Five!Word(a[i] * 2)]

\* Doubling a limb of 5x52 cannot make it more than twice as large.
LEMMA FiveDoubles ==
    ASSUME NEW a \in [0 .. 4 -> Nat]
    PROVE  Doubled(FiveDoubled(a), a, 4)
  <1>1. ASSUME NEW i \in 0 .. 4
        PROVE  Five!Word(a[i] * 2) \in Nat /\ Five!Word(a[i] * 2) <= 2 * a[i]
    <2>1. PICK x \in Nat : x = a[i] * 2 /\ x = 2 * a[i]
      OBVIOUS
    <2>2. 2^WordBits5 \in Nat \ {0}
      BY FiveNumbers DEF FiveRange
    <2>3. Five!Word(x) \in Nat /\ Five!Word(x) <= x
      BY <2>1, <2>2, ModBelow DEF Five!Word
    <2> QED
      BY <2>1, <2>3
  <1> QED
    BY <1>1 DEF Doubled, FiveDoubled

\* The columns of a square of bounded limbs, for 5x52.
LEMMA FiveSqrColumns ==
    ASSUME NEW a, NEW x \in Nat, NEW y \in Nat, Bounded(a, 4, x, y)
    PROVE  FiveColumns(Five!SqrColumns(a), x, y)
  <1>1. a \in [0 .. 4 -> Nat] /\ 4 \in Nat /\ 4 >= 1 /\ 7 = 2 * 4 - 1
    BY DEF Bounded
  <1>2. PICK c : c = FiveDoubled(a)
    OBVIOUS
  <1>3. Doubled(c, a, 4)
    BY <1>1, <1>2, FiveDoubles
  <1>4. c \in [0 .. 4 -> Nat]
    BY <1>3 DEF Doubled
  <1> DEFINE D(k) == {i \in 0 .. 4 : k - i \in 0 .. 4 /\ 2 * i <= k}
  <1>5. PICK col : col = Five!SqrColumns(a)
    OBVIOUS
  <1>6. col = [k \in 0 .. 8 |-> FiveSqrSum(a, k, D(k))]
    BY <1>5 DEF Five!SqrColumns, FiveSqrSum, Five!Limb
  <1>7. ASSUME NEW k \in 0 .. 8 PROVE col[k] = SqrSum(a, c, k, D(k))
    <2> DEFINE v == [i \in D(k) |-> IF 2 * i = k THEN a[i] * a[i] ELSE c[i] * a[k - i]]
    <2>1. IsSquares(v, a, c, k, D(k))
      BY DEF IsSquares
    <2>2. ASSUME NEW i \in D(k) PROVE c[i] = Five!Word(a[i] * 2)
      BY <1>2 DEF FiveDoubled
    <2>3. IsFiveSquares(v, a, k, D(k))
      BY <2>2 DEF IsFiveSquares
    <2> HIDE DEF v, D
    <2>4. SqrSum(a, c, k, D(k)) = Total(v, D(k))
      BY <2>1, SqrTotal
    <2>5. FiveSqrSum(a, k, D(k)) = Total(v, D(k))
      BY <2>3, FiveSqrTotal
    <2> QED
      BY <1>6, <2>4, <2>5
  <1>8. ASSUME NEW k \in 0 .. 8
        PROVE  /\ SqrSum(a, c, k, D(k)) \in Nat
               /\ k = 7 => SqrSum(a, c, k, D(k)) <= 2 * x * y
    <2>1. k \in Int
      OBVIOUS
    <2>2. SqrSum(a, c, k, D(k)) \in Nat
      BY <1>1, <1>4, <2>1, SqrColumn
    <2>3. k = 2 * 4 - 1 => SqrSum(a, c, k, D(k)) <= 2 * x * y
      BY <1>1, <1>3, <2>1, SqrHigh
    <2> QED
      BY <1>1, <2>2, <2>3
  <1>9. SqrSum(a, c, 2, D(2)) <= 3 * x * x
    BY <1>3, SqrLow
  <1> HIDE DEF D
  <1>10. col \in [0 .. 8 -> Nat]
    BY <1>6, <1>7, <1>8
  <1>11. col[2] <= 3 * x * x /\ col[7] <= 2 * x * y
    <2>1. 2 \in 0 .. 8 /\ 7 \in 0 .. 8
      OBVIOUS
    <2> QED
      BY <1>7, <1>8, <1>9, <2>1
  <1> QED
    BY <1>5, <1>10, <1>11 DEF FiveColumns

\* A product is an element again, if its factors have room for it.
LEMMA FiveMultiplies ==
    ASSUME NEW a, FiveElement(a), a.magnitude <= MulMagnitude,
           NEW b, FiveElement(b), b.magnitude <= MulMagnitude
    PROVE  /\ FiveElement(Five!FeMul(a, b)) /\ Five!FeMul(a, b).magnitude = 1
           /\ Five!FeMul(a, b).normalized = FALSE
           /\ FiveElement(Five!FeSqr(a)) /\ Five!FeSqr(a).magnitude = 1
           /\ Five!FeSqr(a).normalized = FALSE
  <1>1. Shape(4, Five!B, Five!TopB, FiveRange, MaxMagnitude, 1, FiveLimbs, FiveFold)
    BY FiveShape DEF FiveShaped
  <1>2. MulMagnitude \in Nat
    BY FieldElementAssumption
  <1>3. PICK x : x = 2 * MulMagnitude * (Five!B - 1)
    OBVIOUS
  <1>4. PICK y : y = 2 * MulMagnitude * (Five!TopB - 1)
    OBVIOUS
  <1>5. x \in Nat /\ y \in Nat
    <2>1. 2 * MulMagnitude \in Nat /\ Five!B - 1 \in Nat /\ Five!TopB - 1 \in Nat
      BY <1>2, FiveNumbers
    <2> QED
      BY <1>3, <1>4, <2>1, TimesNat
  <1>6. Five!LastCarryFits(x, y)
    BY <1>3, <1>4, FieldElementAssumption
  <1>7. ASSUME NEW z, FiveElement(z), z.magnitude <= MulMagnitude
        PROVE  Bounded(z.n, 4, x, y)
    <2>1. z.magnitude \in Nat /\ Within(z.n, z.magnitude, 4, FiveLimbs)
      BY <1>7, FiveParts DEF FiveWithin
    <2>2. Bounded(z.n, 4, (2 * MulMagnitude) * (Five!B - 1), (2 * MulMagnitude) * (Five!TopB - 1))
      BY <1>1, <1>2, <1>7, <2>1, WithinIsBounded
    <2> QED
      BY <1>3, <1>4, <2>2
  <1>8. Bounded(a.n, 4, x, y) /\ Bounded(b.n, 4, x, y)
    BY <1>7
  <1>9. ASSUME NEW l, Within(l, 1, 4, FiveLimbs)
        PROVE  FiveElement(Made3(l, 1, FALSE))
    <2>1. l \in [0 .. 4 -> Nat]
      BY <1>9 DEF Within
    <2>2. 1 \in 0 .. MaxMagnitude /\ 1 \in Nat
      BY FiveNumbers
    <2> QED
      BY <1>9, <2>1, <2>2 DEF FiveElement, Element, Made3
  <1>10. Within(Five!FeMulInner(a.n, b.n), 1, 4, FiveLimbs)
    BY <1>5, <1>6, <1>8, FiveMulColumns, FiveReduces DEF Five!FeMulInner
  <1>11. Within(Five!FeSqrInner(a.n), 1, 4, FiveLimbs)
    BY <1>5, <1>6, <1>8, FiveSqrColumns, FiveReduces DEF Five!FeSqrInner
  <1>12. /\ Five!FeMul(a, b) = Made3(Five!FeMulInner(a.n, b.n), 1, FALSE)
         /\ Five!FeSqr(a) = Made3(Five!FeSqrInner(a.n), 1, FALSE)
    BY DEF Five!FeMul, Five!FeSqr, Made3
  <1>13. FiveElement(Five!FeMul(a, b)) /\ FiveElement(Five!FeSqr(a))
    BY <1>9, <1>10, <1>11, <1>12
  <1> QED
    BY <1>12, <1>13 DEF Made3

-----------------------------------------------------------------------------
(* The invariant of the calls.                                             *)

\* One number in both representations: elements of the same magnitude.
Paired(e10, e5) ==
    /\ TenElement(e10) /\ FiveElement(e5)
    /\ e5.magnitude = e10.magnitude /\ e5.normalized = e10.normalized

FieldInv ==
    /\ ten \in [Regs -> TenRecord] /\ five \in [Regs -> FiveRecord]
    /\ defined \subseteq Regs
    /\ \A r \in defined : Paired(ten[r], five[r])

\* What the invariant is for: the library's own checks hold.
LEMMA FieldInvVerifies ==
    FieldInv => MagnitudesHold
  <1>1. ASSUME FieldInv, NEW r \in defined
        PROVE  FeVerify(ten[r]) /\ Five!FeVerify(five[r])
    <2>1. TenElement(ten[r]) /\ FiveElement(five[r])
      BY <1>1 DEF FieldInv, Paired
    <2> QED
      BY <2>1, TenElementsVerify, FiveElementsVerify
  <1> QED
    BY <1>1 DEF MagnitudesHold

\* A call that leaves a pair in r keeps the invariant.
LEMMA PairsAreKept ==
    ASSUME FieldInv, NEW r \in Regs, NEW c, c.r = r, NEW e10, NEW e5, Paired(e10, e5),
           Made(c, e10, e5), Leaves(r)
    PROVE  FieldInv'
  <1>1. /\ ten' = [ten EXCEPT ![r] = e10] /\ five' = [five EXCEPT ![r] = e5]
        /\ defined' = defined \cup {r}
    BY DEF Made, Leaves
  <1>2. /\ ten \in [Regs -> TenRecord] /\ five \in [Regs -> FiveRecord]
        /\ defined \subseteq Regs /\ \A s \in defined : Paired(ten[s], five[s])
    BY DEF FieldInv
  <1>3. e10 \in TenRecord /\ e5 \in FiveRecord
    BY TenParts, FiveParts DEF Paired
  <1>4. ten' \in [Regs -> TenRecord] /\ five' \in [Regs -> FiveRecord]
    BY <1>1, <1>2, <1>3
  <1>5. ASSUME NEW s \in defined' PROVE Paired(ten'[s], five'[s])
    <2>1. CASE s = r
      <3>1. ten'[s] = e10 /\ five'[s] = e5
        BY <1>1, <1>2, <2>1
      <3> QED
        BY <3>1
    <2>2. CASE s # r
      <3>1. s \in defined /\ s \in Regs
        BY <1>1, <1>2, <1>5, <2>2
      <3>2. ten'[s] = ten[s] /\ five'[s] = five[s]
        BY <1>1, <1>2, <2>2, <3>1
      <3>3. Paired(ten[s], five[s])
        BY <1>2, <3>1
      <3> QED
        BY <3>2, <3>3
    <2> QED
      BY <2>1, <2>2
  <1>6. defined' \subseteq Regs
    BY <1>1, <1>2
  <1>7. \A s \in defined' : Paired(ten'[s], five'[s])
    BY <1>5
  <1> QED
    BY <1>4, <1>6, <1>7 DEF FieldInv, Paired

\* The operations on pairs.
LEMMA PairNormalizes ==
    ASSUME NEW e10, NEW e5, Paired(e10, e5)
    PROVE  /\ Paired(FeNormalize(e10), Five!FeNormalize(e5))
           /\ Paired(FeNormalizeVar(e10), Five!FeNormalizeVar(e5))
           /\ Paired(FeNormalizeWeak(e10), Five!FeNormalizeWeak(e5))
  <1>1. TenElement(e10) /\ FiveElement(e5) /\ e5.normalized = e10.normalized
    BY DEF Paired
  <1>2. PICK n1, n2, n3 : n1 = FeNormalize(e10) /\ n2 = FeNormalizeVar(e10) /\ n3 = FeNormalizeWeak(e10)
    OBVIOUS
  <1>3. PICK m1, m2, m3 : /\ m1 = Five!FeNormalize(e5) /\ m2 = Five!FeNormalizeVar(e5)
                          /\ m3 = Five!FeNormalizeWeak(e5)
    OBVIOUS
  <1>4. /\ TenElement(n1) /\ n1.magnitude = 1 /\ n1.normalized
        /\ TenElement(n2) /\ n2.magnitude = 1 /\ n2.normalized
        /\ TenElement(n3) /\ n3.magnitude = 1 /\ n3.normalized = e10.normalized
    BY <1>1, <1>2, TenNormalizes
  <1>5. /\ FiveElement(m1) /\ m1.magnitude = 1 /\ m1.normalized
        /\ FiveElement(m2) /\ m2.magnitude = 1 /\ m2.normalized
        /\ FiveElement(m3) /\ m3.magnitude = 1 /\ m3.normalized = e5.normalized
    BY <1>1, <1>3, FiveNormalizes
  <1>6. /\ n1.normalized \in BOOLEAN /\ n2.normalized \in BOOLEAN
        /\ m1.normalized \in BOOLEAN /\ m2.normalized \in BOOLEAN
    BY <1>4, <1>5, TenParts, FiveParts
  <1>7. m1.normalized = n1.normalized /\ m2.normalized = n2.normalized
    BY <1>4, <1>5, <1>6
  <1>8. Paired(n1, m1) /\ Paired(n2, m2) /\ Paired(n3, m3)
    BY <1>1, <1>4, <1>5, <1>7 DEF Paired
  <1> QED
    BY <1>2, <1>3, <1>8

\* A small integer is the same element in both representations.
LEMMA PairSetInt ==
    ASSUME NEW k \in Ints
    PROVE  Paired(FeSetInt(k), Five!FeSetInt(k))
  <1>1. k \in 0 .. B - 1 /\ k \in 0 .. Five!B - 1
    BY FieldElementAssumption
  <1>2. PICK e, f : e = FeSetInt(k) /\ f = Five!FeSetInt(k)
    OBVIOUS
  <1>3. TenElement(e) /\ e.magnitude = 1 /\ e.normalized
    BY <1>1, <1>2, TenSetInt
  <1>4. FiveElement(f) /\ f.magnitude = 1 /\ f.normalized
    BY <1>1, <1>2, FiveSetInt
  <1>5. e.normalized = f.normalized
    BY <1>3, <1>4, TenParts, FiveParts
  <1> QED
    BY <1>2, <1>3, <1>4, <1>5 DEF Paired

\* Zero has the same magnitude in both representations.
LEMMA PairClear ==
    Paired(FeClear, Five!FeClear)
  <1>1. PICK e, f : e = FeClear /\ f = Five!FeClear
    OBVIOUS
  <1>2. TenElement(e) /\ e.magnitude = 0 /\ e.normalized
    BY <1>1, TenClears
  <1>3. FiveElement(f) /\ f.magnitude = 0 /\ f.normalized
    BY <1>1, FiveClears
  <1>4. e.normalized = f.normalized
    BY <1>2, <1>3, TenParts, FiveParts
  <1> QED
    BY <1>1, <1>2, <1>3, <1>4 DEF Paired

\* set_b32, on whatever the register holds.
LEMMA PairSetsB32 ==
    ASSUME NEW x, x.ten \in Nat, x.five \in Nat, NEW e10 \in TenRecord, NEW e5 \in FiveRecord
    PROVE  LET e == FeSetB32(e10, ByteArray(x.ten)).r
               f == Five!FeSetB32(e5, ByteArray(x.five)).r
           IN  e \in TenRecord /\ f \in FiveRecord /\ (Taken(x) => Paired(e, f))
  <1>1. PICK e, f : /\ e = FeSetB32(e10, ByteArray(x.ten)).r
                    /\ f = Five!FeSetB32(e5, ByteArray(x.five)).r
    OBVIOUS
  <1>2. e \in TenRecord /\ (TakenAs10(x) => TenElement(e) /\ e.magnitude = 1 /\ e.normalized)
    BY <1>1, TenSetsB32
  <1>3. f \in FiveRecord /\ (TakenAs5(x) => FiveElement(f) /\ f.magnitude = 1 /\ f.normalized)
    BY <1>1, FiveSetsB32
  <1>4. ASSUME Taken(x) PROVE Paired(e, f)
    <2>1. /\ TenElement(e) /\ e.magnitude = 1 /\ e.normalized
          /\ FiveElement(f) /\ f.magnitude = 1 /\ f.normalized
      BY <1>2, <1>3, <1>4 DEF Taken
    <2>2. e.normalized = f.normalized
      BY <2>1, TenParts, FiveParts
    <2> QED
      BY <2>1, <2>2 DEF Paired
  <1> QED
    BY <1>1, <1>2, <1>3, <1>4

\* Negations agree on the magnitude.
LEMMA PairNegates ==
    ASSUME NEW e10, NEW e5, Paired(e10, e5), e10.magnitude < MaxMagnitude
    PROVE  Paired(FeNegate(e10, e10.magnitude), Five!FeNegate(e5, e5.magnitude))
  <1>1. /\ TenElement(e10) /\ FiveElement(e5) /\ e5.magnitude = e10.magnitude
        /\ e5.magnitude < MaxMagnitude
    BY DEF Paired
  <1>2. PICK e, f : e = FeNegate(e10, e10.magnitude) /\ f = Five!FeNegate(e5, e5.magnitude)
    OBVIOUS
  <1>3. TenElement(e) /\ e.magnitude = e10.magnitude + 1 /\ e.normalized = FALSE
    BY <1>1, <1>2, TenNegates
  <1>4. FiveElement(f) /\ f.magnitude = e5.magnitude + 1 /\ f.normalized = FALSE
    BY <1>1, <1>2, FiveNegates
  <1> QED
    BY <1>1, <1>2, <1>3, <1>4 DEF Paired

\* Multiplications by a small integer agree on the magnitude.
LEMMA PairScales ==
    ASSUME NEW e10, NEW e5, Paired(e10, e5), NEW k \in Nat, e10.magnitude * k <= MaxMagnitude
    PROVE  Paired(FeMulInt(e10, k), Five!FeMulInt(e5, k))
  <1>1. /\ TenElement(e10) /\ FiveElement(e5) /\ e5.magnitude = e10.magnitude
        /\ e5.magnitude * k <= MaxMagnitude
    BY DEF Paired
  <1>2. PICK e, f : e = FeMulInt(e10, k) /\ f = Five!FeMulInt(e5, k)
    OBVIOUS
  <1>3. TenElement(e) /\ e.magnitude = e10.magnitude * k /\ e.normalized = FALSE
    BY <1>1, <1>2, TenScales
  <1>4. FiveElement(f) /\ f.magnitude = e5.magnitude * k /\ f.normalized = FALSE
    BY <1>1, <1>2, FiveScales
  <1> QED
    BY <1>1, <1>2, <1>3, <1>4 DEF Paired

\* Sums agree on the magnitude.
LEMMA PairAdds ==
    ASSUME NEW e10, NEW e5, Paired(e10, e5), NEW a10, NEW a5, Paired(a10, a5),
           e10.magnitude + a10.magnitude <= MaxMagnitude
    PROVE  Paired(FeAdd(e10, a10), Five!FeAdd(e5, a5))
  <1>1. /\ TenElement(e10) /\ FiveElement(e5) /\ e5.magnitude = e10.magnitude
        /\ TenElement(a10) /\ FiveElement(a5) /\ a5.magnitude = a10.magnitude
        /\ e5.magnitude + a5.magnitude <= MaxMagnitude
    BY DEF Paired
  <1>2. PICK e, f : e = FeAdd(e10, a10) /\ f = Five!FeAdd(e5, a5)
    OBVIOUS
  <1>3. TenElement(e) /\ e.magnitude = e10.magnitude + a10.magnitude /\ e.normalized = FALSE
    BY <1>1, <1>2, TenAdds
  <1>4. FiveElement(f) /\ f.magnitude = e5.magnitude + a5.magnitude /\ f.normalized = FALSE
    BY <1>1, <1>2, FiveAdds
  <1> QED
    BY <1>1, <1>2, <1>3, <1>4 DEF Paired

\* Products and squares agree on the magnitude.
LEMMA PairMultiplies ==
    ASSUME NEW e10, NEW e5, Paired(e10, e5), NEW a10, NEW a5, Paired(a10, a5),
           e10.magnitude <= MulMagnitude, a10.magnitude <= MulMagnitude
    PROVE  /\ Paired(FeMul(e10, a10), Five!FeMul(e5, a5))
           /\ Paired(FeSqr(e10), Five!FeSqr(e5))
  <1>1. /\ TenElement(e10) /\ FiveElement(e5) /\ e5.magnitude <= MulMagnitude
        /\ TenElement(a10) /\ FiveElement(a5) /\ a5.magnitude <= MulMagnitude
    BY DEF Paired
  <1>2. PICK e, f : e = FeMul(e10, a10) /\ f = Five!FeMul(e5, a5)
    OBVIOUS
  <1>3. PICK g, h : g = FeSqr(e10) /\ h = Five!FeSqr(e5)
    OBVIOUS
  <1>4. /\ TenElement(e) /\ e.magnitude = 1 /\ e.normalized = FALSE
        /\ TenElement(g) /\ g.magnitude = 1 /\ g.normalized = FALSE
    BY <1>1, <1>2, <1>3, TenMultiplies
  <1>5. /\ FiveElement(f) /\ f.magnitude = 1 /\ f.normalized = FALSE
        /\ FiveElement(h) /\ h.magnitude = 1 /\ h.normalized = FALSE
    BY <1>1, <1>2, <1>3, FiveMultiplies
  <1> QED
    BY <1>2, <1>3, <1>4, <1>5 DEF Paired

\* Conditional moves agree on the magnitude.
LEMMA PairMoves ==
    ASSUME NEW e10, NEW e5, Paired(e10, e5), NEW a10, NEW a5, Paired(a10, a5), NEW flag
    PROVE  /\ Paired(FeCMov(e10, a10, flag), Five!FeCMov(e5, a5, flag))
           /\ e10.normalized /\ a10.normalized =>
                 Paired(FeFromStorage(FeStorageCMov(FeToStorage(e10), FeToStorage(a10), flag)),
                        Five!FeFromStorage(Five!FeStorageCMov(Five!FeToStorage(e5),
                                                              Five!FeToStorage(a5), flag)))
  <1>1. /\ TenElement(e10) /\ FiveElement(e5) /\ e5.magnitude = e10.magnitude
        /\ TenElement(a10) /\ FiveElement(a5) /\ a5.magnitude = a10.magnitude
        /\ e5.normalized = e10.normalized /\ a5.normalized = a10.normalized
    BY DEF Paired
  <1>2. PICK e, f : e = FeCMov(e10, a10, flag) /\ f = Five!FeCMov(e5, a5, flag)
    OBVIOUS
  <1>3. /\ TenElement(e) /\ e.magnitude = Max({e10.magnitude, a10.magnitude})
        /\ e.normalized = (e10.normalized /\ a10.normalized)
    BY <1>1, <1>2, TenMoves
  <1>4. /\ FiveElement(f) /\ f.magnitude = Max({e5.magnitude, a5.magnitude})
        /\ f.normalized = (e5.normalized /\ a5.normalized)
    BY <1>1, <1>2, FiveMoves
  <1>5. Paired(e, f)
    <2>1. f.magnitude = e.magnitude
      BY <1>1, <1>3, <1>4
    <2>2. f.normalized = e.normalized
      BY <1>1, <1>3, <1>4
    <2> QED
      BY <1>3, <1>4, <2>1, <2>2 DEF Paired
  <1>6. ASSUME e10.normalized, a10.normalized,
               NEW g, g = FeFromStorage(FeStorageCMov(FeToStorage(e10), FeToStorage(a10), flag)),
               NEW h, h = Five!FeFromStorage(Five!FeStorageCMov(Five!FeToStorage(e5),
                                                                Five!FeToStorage(a5), flag))
        PROVE  Paired(g, h)
    <2>1. e5.normalized /\ a5.normalized
      BY <1>1, <1>6
    <2>2. TenElement(g) /\ g.magnitude = 1 /\ g.normalized
      BY <1>1, <1>6, TenStores
    <2>3. FiveElement(h) /\ h.magnitude = 1 /\ h.normalized
      BY <1>1, <1>6, <2>1, FiveStores
    <2>4. g.normalized = h.normalized
      BY <2>2, <2>3, TenParts, FiveParts
    <2> QED
      BY <2>2, <2>3, <2>4 DEF Paired
  <1> QED
    BY <1>2, <1>5, <1>6

-----------------------------------------------------------------------------
(* Every call keeps the invariant.                                         *)

\* The three normalizations keep the invariant.
LEMMA NormalizesKeep ==
    ASSUME FieldInv, NEW r \in Regs, Normalize(r) \/ NormalizeVar(r) \/ NormalizeWeak(r)
    PROVE  FieldInv'
  <1>1. r \in defined
    BY DEF Normalize, NormalizeVar, NormalizeWeak
  <1>2. Paired(ten[r], five[r])
    BY <1>1 DEF FieldInv
  <1>3. PICK c, e10, e5 : c.r = r /\ Paired(e10, e5) /\ Made(c, e10, e5) /\ Leaves(r)
    <2>1. \A name : FieldCall(name, r, r, r, Both(0)).r = r
      BY DEF FieldCall
    <2>2. CASE Normalize(r)
      BY <1>2, <2>1, <2>2, PairNormalizes DEF Normalize
    <2>3. CASE NormalizeVar(r)
      BY <1>2, <2>1, <2>3, PairNormalizes DEF NormalizeVar
    <2>4. CASE NormalizeWeak(r)
      BY <1>2, <2>1, <2>4, PairNormalizes DEF NormalizeWeak
    <2> QED
      BY <2>2, <2>3, <2>4
  <1> QED
    BY <1>3, PairsAreKept

\* Setting a small integer or zero keeps the invariant.
LEMMA SetsKeep ==
    ASSUME FieldInv, NEW r \in Regs, Clear(r) \/ \E k \in Ints : SetInt(r, k)
    PROVE  FieldInv'
  <1>1. PICK c, e10, e5 : c.r = r /\ Paired(e10, e5) /\ Made(c, e10, e5) /\ Leaves(r)
    <2>1. \A name, k : FieldCall(name, r, r, r, k).r = r
      BY DEF FieldCall
    <2>2. CASE Clear(r)
      BY <2>1, <2>2, PairClear DEF Clear
    <2>3. ASSUME NEW k \in Ints, SetInt(r, k)
          PROVE  \E c, e10, e5 : c.r = r /\ Paired(e10, e5) /\ Made(c, e10, e5) /\ Leaves(r)
      BY <2>1, <2>3, PairSetInt DEF SetInt
    <2> QED
      BY <2>2, <2>3
  <1> QED
    BY <1>1, PairsAreKept

\* Reading bytes keeps the invariant: a number of p or more leaves the register
\* undefined.
LEMMA SetB32Keeps ==
    ASSUME FieldInv, NEW r \in Regs, NEW x \in Inputs, SetB32(r, x)
    PROVE  FieldInv'
  <1>1. x.ten \in Nat /\ x.five \in Nat
    BY FieldElementAssumption
  <1>2. /\ ten \in [Regs -> TenRecord] /\ five \in [Regs -> FiveRecord]
        /\ defined \subseteq Regs /\ \A s \in defined : Paired(ten[s], five[s])
    BY DEF FieldInv
  <1>3. ten[r] \in TenRecord /\ five[r] \in FiveRecord
    BY <1>2
  <1>4. PICK e, f : /\ e = FeSetB32(ten[r], ByteArray(x.ten)).r
                    /\ f = Five!FeSetB32(five[r], ByteArray(x.five)).r
    OBVIOUS
  <1>5. e \in TenRecord /\ f \in FiveRecord /\ (Taken(x) => Paired(e, f))
    BY <1>1, <1>3, <1>4, PairSetsB32
  <1>6. PICK c : c.r = r /\ Made(c, e, f)
    <2>1. FieldCall("set_b32", r, r, r, x).r = r
      BY DEF FieldCall
    <2> QED
      BY <1>4, <2>1 DEF SetB32
  <1>7. defined' = IF Taken(x) THEN defined \cup {r} ELSE defined \ {r}
    BY DEF SetB32
  <1>8. CASE Taken(x)
    <2>1. Leaves(r)
      BY <1>7, <1>8 DEF Leaves
    <2> QED
      BY <1>5, <1>6, <1>8, <2>1, PairsAreKept
  <1>9. CASE ~ Taken(x)
    <2>1. ten' = [ten EXCEPT ![r] = e] /\ five' = [five EXCEPT ![r] = f]
      BY <1>6 DEF Made
    <2>2. defined' = defined \ {r}
      BY <1>7, <1>9
    <2>3. ten' \in [Regs -> TenRecord] /\ five' \in [Regs -> FiveRecord] /\ defined' \subseteq Regs
      BY <1>2, <1>5, <2>1, <2>2
    <2>4. ASSUME NEW s \in defined' PROVE Paired(ten'[s], five'[s])
      <3>1. s \in defined /\ s \in Regs /\ s # r
        BY <1>2, <2>2, <2>4
      <3>2. ten'[s] = ten[s] /\ five'[s] = five[s]
        BY <1>2, <2>1, <3>1
      <3>3. Paired(ten[s], five[s])
        BY <1>2, <3>1
      <3> QED
        BY <3>2, <3>3
    <2> QED
      BY <2>3, <2>4 DEF FieldInv, Paired
  <1> QED
    BY <1>8, <1>9

\* Negations, sums and multiplications by an integer keep the invariant.
LEMMA SumsKeep ==
    ASSUME FieldInv, NEW r \in Regs, NEW a \in Regs,
           Negate(r, a) \/ AddTo(r, a) \/ \E k \in Ints : MulInt(r, k)
    PROVE  FieldInv'
  <1>1. \A s \in defined : Paired(ten[s], five[s])
    BY DEF FieldInv
  <1>2. PICK c, e10, e5 : c.r = r /\ Paired(e10, e5) /\ Made(c, e10, e5) /\ Leaves(r)
    <2>1. \A name, b, d, k : FieldCall(name, r, b, d, k).r = r
      BY DEF FieldCall
    <2>2. CASE Negate(r, a)
      <3>1. Paired(ten[a], five[a]) /\ ten[a].magnitude < MaxMagnitude
        BY <1>1, <2>2 DEF Negate
      <3>2. Paired(FeNegate(ten[a], ten[a].magnitude), Five!FeNegate(five[a], five[a].magnitude))
        BY <3>1, PairNegates
      <3> QED
        BY <2>1, <2>2, <3>2 DEF Negate
    <2>3. CASE AddTo(r, a)
      <3>1. /\ Paired(ten[r], five[r]) /\ Paired(ten[a], five[a])
            /\ ten[r].magnitude + ten[a].magnitude <= MaxMagnitude
        BY <1>1, <2>3 DEF AddTo
      <3>2. Paired(FeAdd(ten[r], ten[a]), Five!FeAdd(five[r], five[a]))
        BY <3>1, PairAdds
      <3> QED
        BY <2>1, <2>3, <3>2 DEF AddTo
    <2>4. ASSUME NEW k \in Ints, MulInt(r, k)
          PROVE  \E c, e10, e5 : c.r = r /\ Paired(e10, e5) /\ Made(c, e10, e5) /\ Leaves(r)
      <3>1. Paired(ten[r], five[r]) /\ ten[r].magnitude * k <= MaxMagnitude
        BY <1>1, <2>4 DEF MulInt
      <3>2. k \in Nat
        <4>1. k \in 0 .. B - 1
          BY FieldElementAssumption
        <4> QED
          BY <4>1, TenNumbers
      <3>3. Paired(FeMulInt(ten[r], k), Five!FeMulInt(five[r], k))
        BY <3>1, <3>2, PairScales
      <3> QED
        BY <2>1, <2>4, <3>3 DEF MulInt
    <2> QED
      BY <2>2, <2>3, <2>4
  <1> QED
    BY <1>2, PairsAreKept

\* Products and squares keep the invariant.
LEMMA ProductsKeep ==
    ASSUME FieldInv, NEW r \in Regs, NEW a \in Regs,
           Sqr(r, a) \/ \E b \in Regs : Mul(r, a, b)
    PROVE  FieldInv'
  <1>1. \A s \in defined : Paired(ten[s], five[s])
    BY DEF FieldInv
  <1>2. PICK c, e10, e5 : c.r = r /\ Paired(e10, e5) /\ Made(c, e10, e5) /\ Leaves(r)
    <2>1. \A name, b, d, k : FieldCall(name, r, b, d, k).r = r
      BY DEF FieldCall
    <2>2. CASE Sqr(r, a)
      <3>1. Paired(ten[a], five[a]) /\ ten[a].magnitude <= MulMagnitude
        BY <1>1, <2>2 DEF Sqr
      <3>2. Paired(FeSqr(ten[a]), Five!FeSqr(five[a]))
        BY <3>1, PairMultiplies
      <3> QED
        BY <2>1, <2>2, <3>2 DEF Sqr
    <2>3. ASSUME NEW b \in Regs, Mul(r, a, b)
          PROVE  \E c, e10, e5 : c.r = r /\ Paired(e10, e5) /\ Made(c, e10, e5) /\ Leaves(r)
      <3>1. /\ Paired(ten[a], five[a]) /\ ten[a].magnitude <= MulMagnitude
            /\ Paired(ten[b], five[b]) /\ ten[b].magnitude <= MulMagnitude
        BY <1>1, <2>3 DEF Mul
      <3>2. Paired(FeMul(ten[a], ten[b]), Five!FeMul(five[a], five[b]))
        BY <3>1, PairMultiplies
      <3> QED
        BY <2>1, <2>3, <3>2 DEF Mul
    <2> QED
      BY <2>2, <2>3
  <1> QED
    BY <1>2, PairsAreKept

\* Conditional moves keep the invariant.
LEMMA MovesKeep ==
    ASSUME FieldInv, NEW r \in Regs, NEW a \in Regs, NEW flag,
           CMov(r, a, flag) \/ StorageCMov(r, a, flag)
    PROVE  FieldInv'
  <1>1. \A s \in defined : Paired(ten[s], five[s])
    BY DEF FieldInv
  <1>2. PICK c, e10, e5 : c.r = r /\ Paired(e10, e5) /\ Made(c, e10, e5) /\ Leaves(r)
    <2>1. \A name, b, d, k : FieldCall(name, r, b, d, k).r = r
      BY DEF FieldCall
    <2>2. CASE CMov(r, a, flag)
      <3>1. Paired(ten[r], five[r]) /\ Paired(ten[a], five[a])
        BY <1>1, <2>2 DEF CMov
      <3>2. Paired(FeCMov(ten[r], ten[a], flag), Five!FeCMov(five[r], five[a], flag))
        BY <3>1, PairMoves
      <3> QED
        BY <2>1, <2>2, <3>2 DEF CMov
    <2>3. CASE StorageCMov(r, a, flag)
      <3>1. /\ Paired(ten[r], five[r]) /\ Paired(ten[a], five[a])
            /\ ten[r].normalized /\ ten[a].normalized
        BY <1>1, <2>3 DEF StorageCMov
      <3>2. Paired(FeFromStorage(FeStorageCMov(FeToStorage(ten[r]), FeToStorage(ten[a]), flag)),
                   Five!FeFromStorage(Five!FeStorageCMov(Five!FeToStorage(five[r]),
                                                         Five!FeToStorage(five[a]), flag)))
        BY <3>1, PairMoves
      <3> QED
        BY <2>1, <2>3, <3>2 DEF StorageCMov
    <2> QED
      BY <2>2, <2>3
  <1> QED
    BY <1>2, PairsAreKept

\* Registers that hold numbers below p, as set_b32 reads them, satisfy the
\* invariant.
LEMMA FieldStarts ==
    ASSUME NEW inputs, \A x \in inputs : x.ten \in Nat /\ x.five \in Nat, FieldStart(inputs)
    PROVE  FieldInv
  <1>1. PICK f \in [Regs -> {x \in inputs : Taken(x)}] :
           /\ ten  = [r \in Regs |-> FeSetB32(FeClear, ByteArray(f[r].ten)).r]
           /\ five = [r \in Regs |-> Five!FeSetB32(Five!FeClear, ByteArray(f[r].five)).r]
    BY DEF FieldStart
  <1>2. defined = Regs
    BY DEF FieldStart
  <1>3. FeClear \in TenRecord /\ Five!FeClear \in FiveRecord
    BY PairClear, TenParts, FiveParts DEF Paired
  <1>4. ASSUME NEW r \in Regs
        PROVE  ten[r] \in TenRecord /\ five[r] \in FiveRecord /\ Paired(ten[r], five[r])
    <2>1. PICK x \in inputs : x = f[r] /\ Taken(x) /\ x.ten \in Nat /\ x.five \in Nat
      OBVIOUS
    <2>2. /\ ten[r] = FeSetB32(FeClear, ByteArray(x.ten)).r
          /\ five[r] = Five!FeSetB32(Five!FeClear, ByteArray(x.five)).r
      BY <1>1, <2>1
    <2> QED
      BY <1>3, <2>1, <2>2, PairSetsB32
  <1>5. ten \in [Regs -> TenRecord] /\ five \in [Regs -> FiveRecord]
    BY <1>1, <1>4
  <1>6. \A r \in defined : Paired(ten[r], five[r])
    BY <1>2, <1>4
  <1> QED
    BY <1>2, <1>5, <1>6 DEF FieldInv

\* The invariant holds initially, with the scalars beside the elements.
LEMMA ArithmeticStarts ==
    ArithmeticInit => FieldInv
  <1> SUFFICES ASSUME ArithmeticInit PROVE FieldInv
    OBVIOUS
  <1>1. PICK inputs \in {Inputs, {Idle.field}} : FieldStart(inputs)
    BY DEF ArithmeticInit
  <1>2. \A x \in inputs : x.ten \in Nat /\ x.five \in Nat
    <2>1. CASE inputs = Inputs
      BY <2>1, FieldElementAssumption
    <2>2. CASE inputs = {Idle.field}
      BY <2>2 DEF Idle
    <2> QED
      BY <2>1, <2>2
  <1> QED
    BY <1>1, <1>2, FieldStarts

\* Every call on field elements keeps the invariant.
LEMMA FieldNextKeeps ==
    FieldInv /\ FieldNext => FieldInv'
  <1> SUFFICES ASSUME FieldInv, FieldNext PROVE FieldInv'
    OBVIOUS
  <1>1. PICK r \in Regs, a \in Regs :
           \/ Normalize(r)
           \/ NormalizeWeak(r)
           \/ NormalizeVar(r)
           \/ Clear(r)
           \/ \E k \in Ints : SetInt(r, k) \/ MulInt(r, k)
           \/ \E x \in Inputs : SetB32(r, x)
           \/ Negate(r, a)
           \/ AddTo(r, a)
           \/ \E b \in Regs : Mul(r, a, b)
           \/ Sqr(r, a)
           \/ \E flag \in {0, 1} : CMov(r, a, flag) \/ StorageCMov(r, a, flag)
    BY DEF FieldNext
  <1>2. CASE Normalize(r) \/ NormalizeVar(r) \/ NormalizeWeak(r)
    BY <1>2, NormalizesKeep
  <1>3. CASE Clear(r) \/ \E k \in Ints : SetInt(r, k)
    BY <1>3, SetsKeep
  <1>4. CASE \E x \in Inputs : SetB32(r, x)
    BY <1>4, SetB32Keeps
  <1>5. CASE Negate(r, a) \/ AddTo(r, a) \/ \E k \in Ints : MulInt(r, k)
    BY <1>5, SumsKeep
  <1>6. CASE Sqr(r, a) \/ \E b \in Regs : Mul(r, a, b)
    BY <1>6, ProductsKeep
  <1>7. CASE \E flag \in {0, 1} : CMov(r, a, flag) \/ StorageCMov(r, a, flag)
    BY <1>7, MovesKeep
  <1> QED
    BY <1>1, <1>2, <1>3, <1>4, <1>5, <1>6, <1>7

\* A call on scalars leaves the field elements alone.
LEMMA ArithmeticStepKeeps ==
    FieldInv /\ [ArithmeticNext]_arithmeticVars => FieldInv'
  <1> SUFFICES ASSUME FieldInv, [ArithmeticNext]_arithmeticVars PROVE FieldInv'
    OBVIOUS
  <1>1. CASE UNCHANGED fieldVars
    BY <1>1 DEF fieldVars, FieldInv, Paired
  <1>2. CASE FieldNext
    BY <1>2, FieldNextKeeps
  <1>3. UNCHANGED fieldVars \/ FieldNext
    BY DEF ArithmeticNext, arithmeticVars
  <1> QED
    BY <1>1, <1>2, <1>3

\* However the calls follow each other, no limb of a field element outgrows
\* the bound that its magnitude promises, in either representation, and a
\* normalized element is below p (secp256k1_fe_verify, which the callers of
\* field_10x26_impl.h and field_5x52_impl.h rely on).
THEOREM ArithmeticMagnitudes == ArithmeticSpec => []MagnitudesHold
  <1>1. ArithmeticInit => FieldInv
    BY ArithmeticStarts
  <1>2. FieldInv /\ [ArithmeticNext]_arithmeticVars => FieldInv'
    BY ArithmeticStepKeeps
  <1>3. FieldInv => MagnitudesHold
    BY FieldInvVerifies
  <1> QED
    BY <1>1, <1>2, <1>3, PTL DEF ArithmeticSpec
=============================================================================
