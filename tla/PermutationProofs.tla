-------------------------- MODULE PermutationProofs -------------------------
(***************************************************************************)
(* prp is a bijection for every cohort size and every table of words: the  *)
(* algebra of shifts and exclusive or, then one encryption undone round by *)
(* round, then the walks, of which no two share a value.                   *)
(* Induction over the naturals is by the least counterexample: the         *)
(* property is a set.                                                      *)
(***************************************************************************)
EXTENDS Permutation, WellFoundedInduction, TLAPS

-----------------------------------------------------------------------------
(* Induction.                                                              *)

(* A non-empty set of naturals has a least element. *)
LEMMA LeastOf ==
    ASSUME NEW T \in SUBSET Nat, T # {}
    PROVE  \E x \in T : \A y \in T : x <= y
<1>1. PICK x \in T : \A y \in T : <<y, x>> \notin OpToRel(<, Nat)
    BY NatLessThanWellFounded, WFMin, Zenon
<1>2. \A y \in T : ~(y < x)
    BY <1>1 DEF OpToRel
<1>3. \A y \in T : x <= y
    BY <1>2
<1>. QED BY <1>3

(* Induction over the naturals, for a property given as a set. *)
LEMMA InductionOverSet ==
    ASSUME NEW S, 0 \in S, \A k \in Nat : k \in S => k + 1 \in S
    PROVE  \A k \in Nat : k \in S
<1>. DEFINE Bad == {k \in Nat : k \notin S}
<1>1. SUFFICES ASSUME Bad # {} PROVE FALSE
    OBVIOUS
<1>2. PICK m \in Bad : \A y \in Bad : m <= y
    BY <1>1, LeastOf, Zenon
<1>3. m \in Nat /\ m \notin S /\ m # 0
    OBVIOUS
<1>4. m - 1 \in Nat /\ (m - 1) + 1 = m
    BY <1>3
<1>5. m - 1 \in S
    BY <1>2, <1>4
<1>. QED BY <1>3, <1>4, <1>5

-----------------------------------------------------------------------------
(* Powers of two.                                                          *)

(* The doublings 1, 2, 4, ... up to the m-th. *)
Doublings(m) == {g \in [0 .. m -> Nat] : g[0] = 1 /\ \A k \in 1 .. m : g[k] = 2 * g[k - 1]}

LEMMA DoublingsExist == \A m \in Nat : \E g : g \in Doublings(m)
<1>. DEFINE S == {m \in Nat : \E g : g \in Doublings(m)}
<1>1. 0 \in S
    <2>. DEFINE g == [k \in 0 .. 0 |-> 1]
    <2>1. g \in Doublings(0)
        BY DEF Doublings
    <2>. QED BY <2>1, Zenon
<1>2. ASSUME NEW m \in Nat, m \in S
      PROVE  m + 1 \in S
    <2>1. PICK g : g \in Doublings(m)
        BY <1>2
    <2>. DEFINE h == [k \in 0 .. m + 1 |-> IF k = m + 1 THEN 2 * g[m] ELSE g[k]]
    <2>2. h \in [0 .. m + 1 -> Nat]
        BY <2>1 DEF Doublings
    <2>3. h[0] = 1
        BY <2>1 DEF Doublings
    <2>4. ASSUME NEW k \in 1 .. m + 1
          PROVE  h[k] = 2 * h[k - 1]
        BY <2>1 DEF Doublings
    <2>5. h \in Doublings(m + 1)
        BY <2>2, <2>3, <2>4 DEF Doublings
    <2>. QED BY <2>5
<1>. HIDE DEF S
<1>3. \A m \in Nat : m \in S
    BY <1>1, <1>2, InductionOverSet, Zenon
<1>. QED BY <1>3 DEF S

LEMMA DoublingsAgree ==
    ASSUME NEW l \in Nat, NEW m \in Nat, NEW g \in Doublings(l), NEW h \in Doublings(m)
    PROVE  \A k \in Nat : k <= l /\ k <= m => g[k] = h[k]
<1>. DEFINE S == {k \in Nat : k <= l /\ k <= m => g[k] = h[k]}
<1>1. 0 \in S
    BY DEF Doublings
<1>2. ASSUME NEW k \in Nat, k \in S
      PROVE  k + 1 \in S
    <2>1. SUFFICES ASSUME k + 1 <= l, k + 1 <= m PROVE g[k + 1] = h[k + 1]
        OBVIOUS
    <2>2. k + 1 \in 1 .. l /\ k + 1 \in 1 .. m /\ (k + 1) - 1 = k
        BY <2>1
    <2>3. g[k + 1] = 2 * g[k] /\ h[k + 1] = 2 * h[k]
        BY <2>2 DEF Doublings
    <2>4. g[k] = h[k]
        BY <1>2, <2>1
    <2>. QED BY <2>3, <2>4
<1>. HIDE DEF S
<1>3. \A k \in Nat : k \in S
    BY <1>1, <1>2, InductionOverSet, Zenon
<1>. QED BY <1>3 DEF S

(* The recursive definition of 1 << k has a solution, so it defines one. *)
LEMMA PowerEquation ==
    PowerOfTwo = [k \in Nat |-> IF k = 0 THEN 1 ELSE 2 * PowerOfTwo[k - 1]]
<1>. DEFINE Solves(f) == f = [k \in Nat |-> IF k = 0 THEN 1 ELSE 2 * f[k - 1]]
            row(m) == CHOOSE g : g \in Doublings(m)
            f == [k \in Nat |-> row(k)[k]]
<1>1. \A m \in Nat : row(m) \in Doublings(m)
    BY DoublingsExist
<1>. HIDE DEF row
<1>2. ASSUME NEW k \in Nat
      PROVE  f[k] = IF k = 0 THEN 1 ELSE 2 * f[k - 1]
    <2>1. CASE k = 0
        BY <1>1, <2>1 DEF Doublings
    <2>2. CASE k # 0
        <3>1. k - 1 \in Nat /\ k - 1 <= k /\ k \in 1 .. k
            BY <2>2
        <3>2. row(k)[k] = 2 * row(k)[k - 1]
            BY <1>1, <3>1 DEF Doublings
        <3>3. row(k)[k - 1] = row(k - 1)[k - 1]
            BY <1>1, <3>1, DoublingsAgree
        <3>. QED BY <2>2, <3>1, <3>2, <3>3
    <2>. QED BY <2>1, <2>2
<1>3. Solves(f)
    BY <1>2
<1>. HIDE DEF f
<1>4. PowerOfTwo = CHOOSE g : Solves(g)
    BY DEF PowerOfTwo
<1>. HIDE DEF Solves
<1>5. Solves(PowerOfTwo)
    BY <1>3, <1>4, Zenon
<1>. QED BY <1>5 DEF Solves

LEMMA PowerZero == PowerOfTwo[0] = 1
BY PowerEquation, Zenon

LEMMA PowerNext ==
    ASSUME NEW k \in Nat
    PROVE  PowerOfTwo[k + 1] = 2 * PowerOfTwo[k]
<1>. DEFINE F == [j \in Nat |-> IF j = 0 THEN 1 ELSE 2 * PowerOfTwo[j - 1]]
<1>1. k + 1 \in Nat /\ k + 1 # 0 /\ (k + 1) - 1 = k
    OBVIOUS
<1>2. F[k + 1] = 2 * PowerOfTwo[k]
    BY <1>1
<1>3. PowerOfTwo = F
    BY PowerEquation
<1>. HIDE DEF F
<1>. QED BY <1>2, <1>3

LEMMA PowerType == \A k \in Nat : PowerOfTwo[k] \in Nat \ {0} /\ PowerOfTwo[k] > k
<1>. DEFINE S == {k \in Nat : PowerOfTwo[k] \in Nat \ {0} /\ PowerOfTwo[k] > k}
<1>1. 0 \in S
    BY PowerZero
<1>2. ASSUME NEW k \in Nat, k \in S
      PROVE  k + 1 \in S
    BY <1>2, PowerNext
<1>. HIDE DEF S
<1>3. \A k \in Nat : k \in S
    BY <1>1, <1>2, InductionOverSet, Zenon
<1>. QED BY <1>3 DEF S

LEMMA PowerSum ==
    ASSUME NEW a \in Nat
    PROVE  \A k \in Nat : PowerOfTwo[a + k] = PowerOfTwo[a] * PowerOfTwo[k]
<1>. DEFINE S == {k \in Nat : PowerOfTwo[a + k] = PowerOfTwo[a] * PowerOfTwo[k]}
<1>1. 0 \in S
    BY PowerZero, PowerType
<1>2. ASSUME NEW k \in Nat, k \in S
      PROVE  k + 1 \in S
    <2>1. PowerOfTwo[(a + k) + 1] = 2 * PowerOfTwo[a + k]
        BY PowerNext
    <2>2. PowerOfTwo[k + 1] = 2 * PowerOfTwo[k]
        BY PowerNext
    <2>3. PowerOfTwo[a + k] = PowerOfTwo[a] * PowerOfTwo[k]
        BY <1>2
    <2>4. a + (k + 1) = (a + k) + 1
        OBVIOUS
    <2>5. PowerOfTwo[a] \in Nat /\ PowerOfTwo[k] \in Nat
        BY PowerType
    <2>6. PowerOfTwo[a] * (2 * PowerOfTwo[k]) = 2 * (PowerOfTwo[a] * PowerOfTwo[k])
        BY <2>5
    <2>7. PowerOfTwo[a + (k + 1)] = PowerOfTwo[a] * PowerOfTwo[k + 1]
        BY <2>1, <2>2, <2>3, <2>4, <2>6
    <2>. QED BY <2>7
<1>. HIDE DEF S
<1>3. \A k \in Nat : k \in S
    BY <1>1, <1>2, InductionOverSet, Zenon
<1>. QED BY <1>3 DEF S

LEMMA PowerGrows ==
    ASSUME NEW a \in Nat, NEW k \in Nat, a <= k
    PROVE  PowerOfTwo[a] <= PowerOfTwo[k]
<1>1. k - a \in Nat /\ a + (k - a) = k
    OBVIOUS
<1>2. PowerOfTwo[k] = PowerOfTwo[a] * PowerOfTwo[k - a]
    BY <1>1, PowerSum
<1>3. PowerOfTwo[a] \in Nat /\ PowerOfTwo[k - a] \in Nat /\ PowerOfTwo[k - a] >= 1
    BY <1>1, PowerType
<1>. QED BY <1>2, <1>3

-----------------------------------------------------------------------------
(* The halves of the domain, and the bits of a half.                       *)
LEMMA BitLengthCovers ==
    ASSUME NEW x \in Nat
    PROVE  BitLength(x) \in Nat /\ PowerOfTwo[BitLength(x)] > x
<1>. DEFINE Over == {k \in Nat : PowerOfTwo[k] > x}
            Fits(k) == PowerOfTwo[k] > x /\ (k = 0 \/ PowerOfTwo[k - 1] <= x)
<1>1. x \in Over
    BY PowerType
<1>2. PICK k \in Over : \A l \in Over : k <= l
    BY <1>1, LeastOf, Zenon
<1>3. k \in Nat /\ PowerOfTwo[k] > x /\ k <= x
    BY <1>1, <1>2
<1>4. k # 0 => PowerOfTwo[k - 1] <= x
    <2>1. SUFFICES ASSUME k # 0 PROVE PowerOfTwo[k - 1] <= x
        OBVIOUS
    <2>2. k - 1 \in Nat /\ k - 1 \notin Over
        BY <1>2, <1>3, <2>1
    <2>3. PowerOfTwo[k - 1] \in Nat
        BY <2>2, PowerType
    <2>. QED BY <2>2, <2>3
<1>5. k \in 0 .. x /\ Fits(k)
    BY <1>3, <1>4
<1>6. BitLength(x) = CHOOSE l \in 0 .. x : Fits(l)
    BY DEF BitLength
<1>. HIDE DEF Fits
<1>7. BitLength(x) \in 0 .. x /\ Fits(BitLength(x))
    BY <1>5, <1>6
<1>. QED BY <1>7 DEF Fits

(* half_width: two halves hold every index of a cohort of m. *)
LEMMA HalvesCover ==
    ASSUME NEW m \in Nat
    PROVE  /\ HalfWidth(m) \in Nat
           /\ PowerOfTwo[HalfWidth(m)] \in Nat \ {0}
           /\ m <= PowerOfTwo[HalfWidth(m)] * PowerOfTwo[HalfWidth(m)]
<1>1. CASE m <= 1
    <2>1. HalfWidth(m) = 0
        BY <1>1 DEF HalfWidth
    <2>. QED BY <1>1, <2>1, PowerZero
<1>2. CASE m > 1
    <2>. DEFINE l == BitLength(m - 1)
                b == HalfWidth(m)
    <2>1. l \in Nat /\ PowerOfTwo[l] > m - 1
        BY <1>2, BitLengthCovers
    <2>2. b = (l + 1) \div 2
        BY <1>2 DEF HalfWidth
    <2>. HIDE DEF l, b
    <2>3. b \in Nat /\ l <= b + b
        BY <2>1, <2>2
    <2>4. PowerOfTwo[l] <= PowerOfTwo[b + b]
        BY <2>1, <2>3, PowerGrows
    <2>5. PowerOfTwo[b + b] = PowerOfTwo[b] * PowerOfTwo[b]
        BY <2>3, PowerSum
    <2>6. PowerOfTwo[b] \in Nat \ {0} /\ PowerOfTwo[l] \in Nat /\ PowerOfTwo[b + b] \in Nat
        BY <2>1, <2>3, PowerType
    <2>7. m <= PowerOfTwo[b] * PowerOfTwo[b]
        BY <2>1, <2>4, <2>5, <2>6
    <2>. QED BY <2>3, <2>6, <2>7 DEF b
<1>. QED BY <1>1, <1>2

(* Division by a positive number, and its remainder. *)
LEMMA Division ==
    ASSUME NEW v \in Nat, NEW d \in Nat \ {0}
    PROVE  /\ v \div d \in Nat /\ v % d \in 0 .. d - 1
           /\ v = (v \div d) * d + (v % d)
OBVIOUS

LEMMA DivisionUnique ==
    ASSUME NEW q \in Nat, NEW d \in Nat \ {0}, NEW r \in 0 .. d - 1
    PROVE  (q * d + r) \div d = q /\ (q * d + r) % d = r
OBVIOUS

LEMMA Remainder ==
    ASSUME NEW v \in Nat, NEW d \in Nat \ {0}
    PROVE  v % d \in Nat
BY Division

(* Adding a multiple of d above leaves the remainder alone. *)
LEMMA DivisionShift ==
    ASSUME NEW x \in Nat, NEW c \in Nat, NEW d \in Nat \ {0}
    PROVE  (x + c * d) \div d = x \div d + c
OBVIOUS

(* Bits below b do not see what is added above. *)
LEMMA BitsBelow ==
    ASSUME NEW b \in Nat, NEW x \in Nat, NEW c \in Nat, NEW k \in 0 .. b - 1
    PROVE  Bit(x + c * PowerOfTwo[b], k) = Bit(x, k)
<1>. DEFINE d == PowerOfTwo[k]
            e == PowerOfTwo[b - k - 1]
            w == x \div d
<1>1. k \in Nat /\ b - k - 1 \in Nat /\ b - k \in Nat
    OBVIOUS
<1>2. PowerOfTwo[b - k] = 2 * e
    <2>1. (b - k - 1) + 1 = b - k
        OBVIOUS
    <2>. QED BY <1>1, <2>1, PowerNext
<1>3. PowerOfTwo[b] = d * PowerOfTwo[b - k]
    <2>1. k + (b - k) = b
        OBVIOUS
    <2>. QED BY <1>1, <2>1, PowerSum
<1>4. d \in Nat \ {0} /\ e \in Nat
    BY <1>1, PowerType
<1>. HIDE DEF d, e
<1>5. c * PowerOfTwo[b] = (2 * (c * e)) * d /\ c * e \in Nat
    BY <1>2, <1>3, <1>4
<1>6. (x + (2 * (c * e)) * d) \div d = w + 2 * (c * e)
    <2>1. 2 * (c * e) \in Nat
        BY <1>5
    <2>. QED BY <2>1, <1>4, DivisionShift
<1>7. w \in Nat
    BY <1>4, Division
<1>. HIDE DEF w
<1>8. (w + 2 * (c * e)) % 2 = w % 2
    BY <1>5, <1>7
<1>. QED BY <1>5, <1>6, <1>8 DEF Bit, d, w

LEMMA BitType ==
    ASSUME NEW x \in Nat, NEW k \in Nat
    PROVE  Bit(x, k) \in {0, 1}
<1>1. PowerOfTwo[k] \in Nat \ {0}
    BY PowerType
<1>2. x \div PowerOfTwo[k] \in Nat
    BY <1>1, Division
<1>. QED BY <1>2 DEF Bit

(* A number of b + 1 bits is its low b bits and its top bit. *)
LEMMA TopBit ==
    ASSUME NEW b \in Nat, NEW x \in 0 .. PowerOfTwo[b + 1] - 1
    PROVE  \E y \in 0 .. PowerOfTwo[b] - 1 :
              /\ x = y + Bit(x, b) * PowerOfTwo[b]
              /\ \A k \in 0 .. b - 1 : Bit(x, k) = Bit(y, k)
<1>. DEFINE d == PowerOfTwo[b]
            y == x % d
            c == x \div d
<1>1. d \in Nat \ {0} /\ PowerOfTwo[b + 1] = 2 * d
    BY PowerType, PowerNext
<1>2. x \in Nat /\ x < 2 * d
    BY <1>1
<1>. HIDE DEF d
<1>3. c \in Nat /\ y \in 0 .. d - 1 /\ x = c * d + y
    BY <1>1, <1>2, Division
<1>. HIDE DEF c, y
<1>4. c \in {0, 1}
    BY <1>1, <1>2, <1>3
<1>5. Bit(x, b) = c
    BY <1>4 DEF Bit, c, d
<1>6. x = y + c * d
    BY <1>1, <1>3, <1>4
<1>7. \A k \in 0 .. b - 1 : Bit(x, k) = Bit(y, k)
    BY <1>3, <1>6, BitsBelow DEF d
<1>. QED BY <1>3, <1>5, <1>6, <1>7 DEF d

(* A number of b bits is determined by them. *)
LEMMA BitsDetermine ==
    \A b \in Nat : \A x, y \in 0 .. PowerOfTwo[b] - 1 :
        (\A k \in 0 .. b - 1 : Bit(x, k) = Bit(y, k)) => x = y
<1>. DEFINE Same(x, y, b) == \A k \in 0 .. b - 1 : Bit(x, k) = Bit(y, k)
            S == {b \in Nat : \A x, y \in 0 .. PowerOfTwo[b] - 1 : Same(x, y, b) => x = y}
<1>1. 0 \in S
    BY PowerZero
<1>2. ASSUME NEW b \in Nat, b \in S
      PROVE  b + 1 \in S
    <2>1. SUFFICES ASSUME NEW x \in 0 .. PowerOfTwo[b + 1] - 1,
                          NEW y \in 0 .. PowerOfTwo[b + 1] - 1,
                          Same(x, y, b + 1)
                   PROVE  x = y
        OBVIOUS
    <2>2. PICK u \in 0 .. PowerOfTwo[b] - 1 :
              /\ x = u + Bit(x, b) * PowerOfTwo[b]
              /\ \A k \in 0 .. b - 1 : Bit(x, k) = Bit(u, k)
        BY TopBit
    <2>3. PICK w \in 0 .. PowerOfTwo[b] - 1 :
              /\ y = w + Bit(y, b) * PowerOfTwo[b]
              /\ \A k \in 0 .. b - 1 : Bit(y, k) = Bit(w, k)
        BY TopBit
    <2>4. Bit(x, b) = Bit(y, b) /\ Same(u, w, b)
        BY <2>1, <2>2, <2>3
    <2>5. u = w
        BY <1>2, <2>4
    <2>. QED BY <2>2, <2>3, <2>4, <2>5
<1>. HIDE DEF S
<1>3. \A b \in Nat : b \in S
    BY <1>1, <1>2, InductionOverSet, Zenon
<1>. QED BY <1>3 DEF S

(* Every choice of b bits is the bits of a number of b bits. *)
LEMMA BitsExist ==
    ASSUME NEW f \in [Nat -> {0, 1}]
    PROVE  \A b \in Nat : \E z \in 0 .. PowerOfTwo[b] - 1 :
               \A k \in 0 .. b - 1 : Bit(z, k) = f[k]
<1>. DEFINE Has(z, b) == \A k \in 0 .. b - 1 : Bit(z, k) = f[k]
            S == {b \in Nat : \E z \in 0 .. PowerOfTwo[b] - 1 : Has(z, b)}
<1>1. 0 \in S
    BY PowerZero
<1>2. ASSUME NEW b \in Nat, b \in S
      PROVE  b + 1 \in S
    <2>1. PICK z \in 0 .. PowerOfTwo[b] - 1 : Has(z, b)
        BY <1>2
    <2>. DEFINE d == PowerOfTwo[b]
                t == z + f[b] * d
    <2>2. d \in Nat \ {0} /\ PowerOfTwo[b + 1] = 2 * d /\ z \in 0 .. d - 1
        BY PowerType, PowerNext
    <2>3. f[b] \in {0, 1}
        OBVIOUS
    <2>. HIDE DEF d
    <2>4. t \in 0 .. 2 * d - 1
        BY <2>2, <2>3
    <2>5. t \div d = f[b]
        BY <2>2, <2>3
    <2>6. Bit(t, b) = f[b]
        BY <2>3, <2>5 DEF Bit, d
    <2>7. \A k \in 0 .. b - 1 : Bit(t, k) = Bit(z, k)
        BY <2>2, <2>3, BitsBelow DEF d
    <2>. HIDE DEF t
    <2>8. Has(t, b + 1)
        BY <2>1, <2>6, <2>7
    <2>. QED BY <2>2, <2>4, <2>8
<1>. HIDE DEF S
<1>3. \A b \in Nat : b \in S
    BY <1>1, <1>2, InductionOverSet, Zenon
<1>. QED BY <1>3 DEF S

(* The exclusive or of two numbers of b bits is one, with the bits it says. *)
LEMMA XorType ==
    ASSUME NEW b \in Nat, NEW x \in Nat, NEW y \in Nat
    PROVE  /\ Xor(b, x, y) \in 0 .. PowerOfTwo[b] - 1
           /\ \A k \in 0 .. b - 1 : Bit(Xor(b, x, y), k) = (Bit(x, k) + Bit(y, k)) % 2
<1>. DEFINE f == [k \in Nat |-> (Bit(x, k) + Bit(y, k)) % 2]
            Is(z) == \A k \in 0 .. b - 1 : Bit(z, k) = (Bit(x, k) + Bit(y, k)) % 2
<1>1. f \in [Nat -> {0, 1}]
    <2>1. \A k \in Nat : (Bit(x, k) + Bit(y, k)) % 2 \in {0, 1}
        BY BitType
    <2>. QED BY <2>1
<1>2. PICK z \in 0 .. PowerOfTwo[b] - 1 : \A k \in 0 .. b - 1 : Bit(z, k) = f[k]
    BY <1>1, BitsExist
<1>3. Is(z)
    BY <1>2
<1>4. Xor(b, x, y) = CHOOSE u \in 0 .. PowerOfTwo[b] - 1 : Is(u)
    BY DEF Xor
<1>. HIDE DEF Is
<1>5. Xor(b, x, y) \in 0 .. PowerOfTwo[b] - 1 /\ Is(Xor(b, x, y))
    BY <1>3, <1>4
<1>. QED BY <1>5 DEF Is

(* A round is undone with the same word: what enc mixes in cancels. *)
LEMMA XorCancels ==
    ASSUME NEW b \in Nat, NEW x \in 0 .. PowerOfTwo[b] - 1,
           NEW w \in 0 .. PowerOfTwo[b] - 1, NEW y \in Nat,
           Xor(b, x, y) = Xor(b, w, y)
    PROVE  x = w
<1>1. x \in Nat /\ w \in Nat
    BY PowerType
<1>2. ASSUME NEW k \in 0 .. b - 1
      PROVE  Bit(x, k) = Bit(w, k)
    <2>1. (Bit(x, k) + Bit(y, k)) % 2 = (Bit(w, k) + Bit(y, k)) % 2
        BY <1>1, XorType
    <2>2. Bit(x, k) \in {0, 1} /\ Bit(w, k) \in {0, 1} /\ Bit(y, k) \in {0, 1}
        BY <1>1, BitType
    <2>. QED BY <2>1, <2>2
<1>. QED BY <1>2, BitsDetermine

-----------------------------------------------------------------------------
(* One encryption, of a cohort of m under a table of words.                *)
Words == [(0 .. ROUNDS - 1) \X Nat -> Nat]
HalfOf(m) == PowerOfTwo[HalfWidth(m)]
Halves(m) == (0 .. HalfOf(m) - 1) \X (0 .. HalfOf(m) - 1)
Domain(m) == 0 .. HalfOf(m) * HalfOf(m) - 1

Turn(table, m, r, p) == <<p[2], Xor(HalfWidth(m), p[1], table[<<r, p[2]>>] % HalfOf(m))>>
After(table, m, r, p) ==
    LET one == Turn(table, m, 0, p)
        two == Turn(table, m, 1, one)
        three == Turn(table, m, 2, two)
    IN  IF r = 0 THEN p ELSE IF r = 1 THEN one ELSE IF r = 2 THEN two
        ELSE IF r = 3 THEN three ELSE Turn(table, m, 3, three)

SplitOf(m, v) == <<v \div HalfOf(m), v % HalfOf(m)>>
JoinOf(m, p) == p[1] * HalfOf(m) + p[2]
Encrypted(table, m, v) == JoinOf(m, After(table, m, ROUNDS, SplitOf(m, v)))

LEMMA HalfType ==
    ASSUME NEW m \in Nat
    PROVE  HalfOf(m) \in Nat \ {0} /\ HalfWidth(m) \in Nat /\ m <= HalfOf(m) * HalfOf(m)
BY HalvesCover DEF HalfOf

LEMMA TurnType ==
    ASSUME NEW table \in Words, NEW m \in Nat, NEW r \in 0 .. 3, NEW p \in Halves(m)
    PROVE  Turn(table, m, r, p) \in Halves(m)
<1>. DEFINE w == table[<<r, p[2]>>]
<1>1. p[1] \in Nat /\ p[2] \in 0 .. HalfOf(m) - 1 /\ p[2] \in Nat
    BY HalfType DEF Halves
<1>2. w \in Nat
    BY <1>1 DEF Words, ROUNDS
<1>. HIDE DEF w
<1>3. w % HalfOf(m) \in Nat
    BY <1>2, HalfType, Remainder
<1>4. Xor(HalfWidth(m), p[1], w % HalfOf(m)) \in 0 .. HalfOf(m) - 1
    BY <1>1, <1>3, HalfType, XorType DEF HalfOf
<1>. QED BY <1>1, <1>4 DEF Turn, Halves, w

LEMMA TurnInjective ==
    ASSUME NEW table \in Words, NEW m \in Nat, NEW r \in 0 .. 3,
           NEW p \in Halves(m), NEW q \in Halves(m),
           Turn(table, m, r, p) = Turn(table, m, r, q)
    PROVE  p = q
<1>. DEFINE w == table[<<r, p[2]>>] % HalfOf(m)
<1>1. p[2] = q[2] /\ Xor(HalfWidth(m), p[1], w) = Xor(HalfWidth(m), q[1], w)
    BY DEF Turn
<1>2. w \in Nat
    <2>1. p[2] \in Nat
        BY HalfType DEF Halves
    <2>2. table[<<r, p[2]>>] \in Nat
        BY <2>1 DEF Words, ROUNDS
    <2>. QED BY <2>2, HalfType, Remainder
<1>. HIDE DEF w
<1>3. p[1] \in 0 .. PowerOfTwo[HalfWidth(m)] - 1 /\ q[1] \in 0 .. PowerOfTwo[HalfWidth(m)] - 1
    BY DEF Halves, HalfOf
<1>4. p[1] = q[1]
    BY <1>1, <1>2, <1>3, HalfType, XorCancels
<1>. QED BY <1>1, <1>4 DEF Halves

LEMMA AfterSteps ==
    ASSUME NEW table \in Words, NEW m \in Nat, NEW p \in Halves(m)
    PROVE  /\ After(table, m, 0, p) = p
           /\ \A r \in 0 .. 3 :
                 After(table, m, r + 1, p) = Turn(table, m, r, After(table, m, r, p))
           /\ \A r \in 0 .. 4 : After(table, m, r, p) \in Halves(m)
<1>1. After(table, m, 0, p) = p
    BY DEF After
<1>2. ASSUME NEW r \in 0 .. 3
      PROVE  After(table, m, r + 1, p) = Turn(table, m, r, After(table, m, r, p))
    <2>1. r = 0 \/ r = 1 \/ r = 2 \/ r = 3
        OBVIOUS
    <2>. QED BY <2>1 DEF After
<1>3. After(table, m, 1, p) \in Halves(m)
    BY <1>1, <1>2, TurnType
<1>4. After(table, m, 2, p) \in Halves(m)
    BY <1>3, <1>2, TurnType
<1>5. After(table, m, 3, p) \in Halves(m)
    BY <1>4, <1>2, TurnType
<1>6. After(table, m, 4, p) \in Halves(m)
    BY <1>5, <1>2, TurnType
<1>7. \A r \in 0 .. 4 : r = 0 \/ r = 1 \/ r = 2 \/ r = 3 \/ r = 4
    OBVIOUS
<1>. QED BY <1>1, <1>2, <1>3, <1>4, <1>5, <1>6, <1>7

LEMMA SplitType ==
    ASSUME NEW m \in Nat, NEW v \in Domain(m)
    PROVE  SplitOf(m, v) \in Halves(m) /\ JoinOf(m, SplitOf(m, v)) = v
<1>. DEFINE h == HalfOf(m)
<1>1. h \in Nat \ {0} /\ v \in Nat /\ v < h * h
    BY HalfType DEF Domain
<1>. HIDE DEF h
<1>2. v \div h \in Nat /\ v % h \in 0 .. h - 1 /\ v = (v \div h) * h + (v % h)
    BY <1>1, Division
<1>3. v \div h < h
    BY <1>1, <1>2
<1>. QED BY <1>1, <1>2, <1>3 DEF SplitOf, JoinOf, Halves, h

LEMMA JoinType ==
    ASSUME NEW m \in Nat, NEW p \in Halves(m)
    PROVE  JoinOf(m, p) \in Domain(m) /\ SplitOf(m, JoinOf(m, p)) = p
<1>. DEFINE h == HalfOf(m)
<1>1. h \in Nat \ {0} /\ p[1] \in 0 .. h - 1 /\ p[2] \in 0 .. h - 1 /\ p = <<p[1], p[2]>>
    BY HalfType DEF Halves
<1>. HIDE DEF h
<1>2. (p[1] * h + p[2]) \div h = p[1] /\ (p[1] * h + p[2]) % h = p[2]
    BY <1>1, DivisionUnique
<1>3. p[1] * h + p[2] \in 0 .. h * h - 1
    BY <1>1
<1>. QED BY <1>1, <1>2, <1>3 DEF SplitOf, JoinOf, Domain, h

(* enc is a bijection of the domain: no two values encrypt to the same. *)
LEMMA EncryptedInjective ==
    ASSUME NEW table \in Words, NEW m \in Nat, NEW u \in Domain(m), NEW v \in Domain(m)
    PROVE  /\ Encrypted(table, m, u) \in Domain(m)
           /\ Encrypted(table, m, u) = Encrypted(table, m, v) => u = v
<1>. DEFINE p == SplitOf(m, u)
            q == SplitOf(m, v)
            at(r, x) == After(table, m, r, x)
<1>1. p \in Halves(m) /\ q \in Halves(m)
    BY SplitType
<1>. HIDE DEF p, q
<1>2. ASSUME NEW r \in 0 .. 3, at(r + 1, p) = at(r + 1, q)
      PROVE  at(r, p) = at(r, q)
    BY <1>1, <1>2, AfterSteps, TurnInjective
<1>3. at(4, p) = at(4, q) => p = q
    <2>1. at(4, p) = at(4, q) => at(3, p) = at(3, q)
        BY <1>2
    <2>2. at(3, p) = at(3, q) => at(2, p) = at(2, q)
        BY <1>2
    <2>3. at(2, p) = at(2, q) => at(1, p) = at(1, q)
        BY <1>2
    <2>4. at(1, p) = at(1, q) => at(0, p) = at(0, q)
        BY <1>2
    <2>. QED BY <1>1, <2>1, <2>2, <2>3, <2>4, AfterSteps
<1>4. at(4, p) \in Halves(m) /\ at(4, q) \in Halves(m)
    BY <1>1, AfterSteps
<1>5. JoinOf(m, at(4, p)) = JoinOf(m, at(4, q)) => at(4, p) = at(4, q)
    BY <1>4, JoinType
<1>6. p = q => u = v
    BY SplitType DEF p, q
<1>7. Encrypted(table, m, u) = JoinOf(m, at(4, p)) /\ Encrypted(table, m, v) = JoinOf(m, at(4, q))
    BY DEF Encrypted, ROUNDS, p, q
<1>8. Encrypted(table, m, u) \in Domain(m)
    BY <1>4, <1>7, JoinType
<1>. QED BY <1>3, <1>5, <1>6, <1>7, <1>8

-----------------------------------------------------------------------------
(* The walks.                                                              *)

(* The values the walks have encrypted so far, each with the index whose   *)
(* walk it is on.  A value of the cohort starts its own walk; any other    *)
(* was reached from the value before it; a walk that ended did so at its   *)
(* index's position; the walk of i is at the value being encrypted.        *)
Walks(D, of) ==
    /\ \A w \in D : w < n => w <= i /\ of[w] = w
    /\ \A w \in D : w >= n => \E u \in D : of[u] = of[w] /\ Encrypted(key, n, u) = w
    /\ \A k \in 0 .. i - 1 : \E u \in D : of[u] = k /\ Encrypted(key, n, u) = position[k]
    /\ i < n => \E u \in D : /\ of[u] = i
                            /\ <<left, right>> = After(key, n, round, SplitOf(n, u))

PermutationInv ==
    /\ key \in Words /\ n \in Nat /\ i \in 0 .. n /\ round \in 0 .. ROUNDS
    /\ left \in 0 .. Half /\ right \in 0 .. Half - 1
    /\ \A k \in 0 .. i - 1 : position[k] \in 0 .. n - 1
    /\ n <= 1 => \A k \in 0 .. i - 1 : position[k] = k
    /\ n > 1 => \E D \in SUBSET Domain(n) : \E of \in [D -> 0 .. i] : Walks(D, of)

LEMMA PermutationInvBijective == PermutationInv => Bijective
<1>. SUFFICES ASSUME PermutationInv PROVE Bijective
    OBVIOUS
<1>1. ASSUME NEW k \in 0 .. i - 1, NEW l \in 0 .. i - 1, position[k] = position[l]
      PROVE  k = l
    <2>1. CASE n <= 1
        BY <1>1, <2>1 DEF PermutationInv
    <2>2. CASE n > 1
        <3>0. PICK D \in SUBSET Domain(n) : \E of \in [D -> 0 .. i] : Walks(D, of)
            BY <2>2 DEF PermutationInv
        <3>1. PICK of \in [D -> 0 .. i] : Walks(D, of)
            BY <3>0
        <3>2. PICK u \in D : of[u] = k /\ Encrypted(key, n, u) = position[k]
            BY <3>1 DEF Walks
        <3>3. PICK v \in D : of[v] = l /\ Encrypted(key, n, v) = position[l]
            BY <3>1 DEF Walks
        <3>4. u \in Domain(n) /\ v \in Domain(n) /\ key \in Words /\ n \in Nat
            BY <3>1 DEF PermutationInv
        <3>5. u = v
            BY <1>1, <3>2, <3>3, <3>4, EncryptedInjective
        <3>. QED BY <3>2, <3>3, <3>5
    <2>3. n \in Nat
        BY DEF PermutationInv
    <2>. QED BY <2>1, <2>2, <2>3
<1>2. /\ left \in 0 .. Half /\ right \in 0 .. Half - 1
      /\ \A k \in 0 .. i - 1 : position[k] \in 0 .. n - 1
    BY DEF PermutationInv
<1>. QED BY <1>1, <1>2 DEF Bijective

LEMMA PermutationStart ==
    ASSUME NEW keys \in SUBSET Words, NEW sizes \in SUBSET Nat, PermutationInit(keys, sizes)
    PROVE  PermutationInv
<1>1. key \in Words /\ n \in Nat /\ i = 0 /\ left = 0 /\ right = 0 /\ round = 0
    BY DEF PermutationInit
<1>2. HalfOf(n) \in Nat \ {0} /\ n <= HalfOf(n) * HalfOf(n)
    BY <1>1, HalfType
<1>3. Half = HalfOf(n)
    BY DEF Half, HalfOf
<1>4. ASSUME n > 1
      PROVE  \E D \in SUBSET Domain(n) : \E of \in [D -> 0 .. i] : Walks(D, of)
    <2>. DEFINE D == {0}
                of == [w \in D |-> 0]
    <2>1. 0 \in Domain(n)
        BY <1>1, <1>2, <1>4 DEF Domain
    <2>2. SplitOf(n, 0) = <<0, 0>>
        <3>1. 0 \div HalfOf(n) = 0 /\ 0 % HalfOf(n) = 0
            BY <1>2
        <3>. QED BY <3>1 DEF SplitOf
    <2>3. After(key, n, round, SplitOf(n, 0)) = <<left, right>>
        BY <1>1, <2>2 DEF After
    <2>4. Walks(D, of)
        BY <1>1, <1>4, <2>3 DEF Walks
    <2>5. D \in SUBSET Domain(n) /\ of \in [D -> 0 .. i]
        BY <1>1, <2>1
    <2>. HIDE DEF D, of
    <2>. QED BY <2>4, <2>5
<1>5. left \in 0 .. Half /\ right \in 0 .. Half - 1
    BY <1>1, <1>2, <1>3
<1>. QED BY <1>1, <1>4, <1>5 DEF PermutationInv, ROUNDS

(* Where Split leaves a value of the domain, or the size of the cohort. *)
LEMMA SplitBounds ==
    ASSUME NEW m \in Nat, NEW v \in 0 .. HalfOf(m) * HalfOf(m)
    PROVE  v \div HalfOf(m) \in 0 .. HalfOf(m) /\ v % HalfOf(m) \in 0 .. HalfOf(m) - 1
<1>. DEFINE h == HalfOf(m)
<1>1. h \in Nat \ {0} /\ v \in Nat /\ v <= h * h
    BY HalfType
<1>. HIDE DEF h
<1>2. v \div h \in Nat /\ v % h \in 0 .. h - 1 /\ v = (v \div h) * h + (v % h)
    BY <1>1, Division
<1>3. v \div h <= h
    BY <1>1, <1>2
<1>. QED BY <1>2, <1>3 DEF h

LEMMA DegenerateStep ==
    ASSUME PermutationInv, Degenerate
    PROVE  PermutationInv'
<1>1. n \in Nat /\ n <= 1 /\ i < n /\ i \in 0 .. n /\ n' = n /\ key' = key /\ key \in Words
    BY DEF PermutationInv, Degenerate
<1>2. /\ position' = [k \in 0 .. i |-> IF k = i THEN i ELSE position[k]]
      /\ i' = i + 1 /\ left' = (i + 1) \div Half /\ right' = (i + 1) % Half /\ round' = 0
    BY DEF Degenerate, Resolve, Split
<1>3. Half = HalfOf(n) /\ Half' = HalfOf(n)
    BY <1>1 DEF Half, HalfOf
<1>4. left' \in 0 .. Half' /\ right' \in 0 .. Half' - 1
    <2>1. i + 1 \in 0 .. HalfOf(n) * HalfOf(n)
        BY <1>1, HalfType
    <2>. QED BY <1>1, <1>2, <1>3, <2>1, SplitBounds
<1>5. \A k \in 0 .. i' - 1 : position'[k] = k
    BY <1>1, <1>2 DEF PermutationInv
<1>6. i' \in 0 .. n'
    BY <1>1, <1>2
<1>7. ASSUME NEW k \in 0 .. i' - 1
      PROVE  position'[k] \in 0 .. n' - 1
    <2>1. position'[k] = k /\ k \in 0 .. i
        BY <1>1, <1>2, <1>5
    <2>. QED BY <1>1, <2>1
<1>8. round' \in 0 .. ROUNDS
    BY <1>2 DEF ROUNDS
<1>9. ~(n' > 1)
    BY <1>1
<1>. QED BY <1>1, <1>4, <1>5, <1>6, <1>7, <1>8, <1>9 DEF PermutationInv

LEMMA EncRoundStep ==
    ASSUME PermutationInv, EncRound
    PROVE  PermutationInv'
<1>1. /\ n \in Nat /\ n > 1 /\ i < n /\ i \in 0 .. n /\ n' = n /\ key' = key /\ key \in Words
      /\ i' = i /\ position' = position
    BY DEF PermutationInv, EncRound
<1>2. round \in 0 .. 3 /\ round' = round + 1
    BY DEF PermutationInv, EncRound, ROUNDS
<1>3. /\ left' = right
      /\ right' = Xor(HalfWidth(n), left, key[<<round, right>>] % HalfOf(n))
    BY DEF EncRound, Mix, RoundFunction, Half, HalfOf
<1>0. PICK D \in SUBSET Domain(n) : \E of \in [D -> 0 .. i] : Walks(D, of)
    BY <1>1 DEF PermutationInv
<1>4. PICK of \in [D -> 0 .. i] : Walks(D, of)
    BY <1>0
<1>5. PICK u \in D : of[u] = i /\ <<left, right>> = After(key, n, round, SplitOf(n, u))
    BY <1>1, <1>4 DEF Walks
<1>. DEFINE p == SplitOf(n, u)
<1>6. p \in Halves(n)
    BY <1>1, <1>4, SplitType
<1>7. <<left', right'>> = After(key, n, round', p)
    <2>1. <<left', right'>> = Turn(key, n, round, <<left, right>>)
        BY <1>3 DEF Turn
    <2>2. After(key, n, round + 1, p) = Turn(key, n, round, After(key, n, round, p))
        BY <1>1, <1>2, <1>6, AfterSteps
    <2>. QED BY <1>2, <1>5, <2>1, <2>2
<1>8. <<left', right'>> \in Halves(n)
    <2>1. round' \in 0 .. 4
        BY <1>2
    <2>. QED BY <1>1, <1>6, <1>7, <2>1, AfterSteps
<1>9. left' \in 0 .. Half' /\ right' \in 0 .. Half' - 1
    <2>1. Half' = HalfOf(n)
        BY <1>1 DEF Half, HalfOf
    <2>2. left' \in 0 .. HalfOf(n) - 1 /\ right' \in 0 .. HalfOf(n) - 1
        BY <1>8 DEF Halves
    <2>3. left' \in 0 .. HalfOf(n)
        BY <1>1, <2>2, HalfType
    <2>. QED BY <2>1, <2>2, <2>3
<1>10. Walks(D, of)'
    BY <1>1, <1>4, <1>5, <1>7 DEF Walks
<1>11. round' \in 0 .. ROUNDS
    BY <1>2 DEF ROUNDS
<1>12. \E E \in SUBSET Domain(n') : \E o \in [E -> 0 .. i'] : Walks(E, o)'
    BY <1>1, <1>4, <1>10
<1>13. \A k \in 0 .. i' - 1 : position'[k] \in 0 .. n' - 1
    BY <1>1 DEF PermutationInv
<1>. QED BY <1>1, <1>9, <1>11, <1>12, <1>13 DEF PermutationInv

(* A value outside the cohort joins the walk of i: were it on another, so  *)
(* would be the value before it, since enc is injective.  A value inside   *)
(* ends the walk, and no earlier walk ended there, for the same reason.    *)
LEMMA CycleWalkStep ==
    ASSUME PermutationInv, CycleWalk
    PROVE  PermutationInv'
<1>. DEFINE v == left * Half + right
<1>1. /\ n \in Nat /\ n > 1 /\ i < n /\ i \in 0 .. n /\ n' = n /\ key' = key /\ key \in Words
      /\ round = 4
    BY DEF PermutationInv, CycleWalk, ROUNDS
<1>2. Half = HalfOf(n) /\ Half' = HalfOf(n) /\ HalfOf(n) \in Nat \ {0}
      /\ n <= HalfOf(n) * HalfOf(n)
    BY <1>1, HalfType DEF Half, HalfOf
<1>3. PICK D \in SUBSET Domain(n) : \E of \in [D -> 0 .. i] : Walks(D, of)
    BY <1>1 DEF PermutationInv
<1>4. PICK of \in [D -> 0 .. i] : Walks(D, of)
    BY <1>3
<1>5. PICK u \in D : of[u] = i /\ <<left, right>> = After(key, n, round, SplitOf(n, u))
    BY <1>1, <1>4 DEF Walks
<1>6. v = Encrypted(key, n, u) /\ v \in Domain(n)
    <2>1. v = Encrypted(key, n, u)
        BY <1>1, <1>2, <1>5 DEF Encrypted, JoinOf, ROUNDS
    <2>2. u \in Domain(n)
        BY <1>3
    <2>. QED BY <1>1, <2>1, <2>2, EncryptedInjective
<1>. HIDE DEF v
<1>7. CASE v >= n
    <2>1. left' = v \div Half /\ right' = v % Half /\ round' = 0 /\ i' = i /\ position' = position
        BY <1>1, <1>7, <1>6 DEF CycleWalk, Split, v, Domain, Resolve
    <2>2. <<left', right'>> = SplitOf(n, v)
        BY <1>2, <2>1 DEF SplitOf
    <2>3. <<left', right'>> = After(key, n, 0, SplitOf(n, v))
        BY <2>2 DEF After
    <2>4. left' \in 0 .. Half' /\ right' \in 0 .. Half' - 1
        <3>1. v \in 0 .. HalfOf(n) * HalfOf(n)
            BY <1>2, <1>6 DEF Domain
        <3>. QED BY <1>1, <1>2, <2>1, <3>1, SplitBounds
    <2>5. \A k \in 0 .. i' - 1 : position'[k] \in 0 .. n' - 1
        BY <1>1, <2>1 DEF PermutationInv
    <2>6. v \in D => of[v] = i
        <3>1. SUFFICES ASSUME v \in D PROVE of[v] = i
            OBVIOUS
        <3>2. PICK w \in D : of[w] = of[v] /\ Encrypted(key, n, w) = v
            BY <1>4, <1>7, <3>1 DEF Walks
        <3>3. w \in Domain(n) /\ u \in Domain(n)
            BY <1>3
        <3>4. w = u
            BY <1>1, <1>6, <3>2, <3>3, EncryptedInjective
        <3>. QED BY <1>5, <3>2, <3>4
    <2>7. PICK E \in SUBSET Domain(n) : E = D \cup {v}
        BY <1>6
    <2>8. PICK o \in [E -> 0 .. i] : o = [w \in E |-> IF w = v THEN i ELSE of[w]]
        <3>. DEFINE f == [w \in E |-> IF w = v THEN i ELSE of[w]]
        <3>1. f \in [E -> 0 .. i]
            BY <1>1, <2>7
        <3>. QED BY <3>1, Zenon
    <2>9. \A w \in D : w \in E /\ o[w] = of[w]
        BY <2>6, <2>7, <2>8
    <2>10. v \in E /\ o[v] = i /\ \A w \in E : w = v \/ w \in D
        BY <2>7, <2>8
    <2>11. ~(v < n)
        BY <1>1, <1>6, <1>7 DEF Domain
    <2>12. \A w \in E : w < n => w <= i /\ o[w] = w
        BY <1>4, <2>9, <2>10, <2>11 DEF Walks
    <2>13. ASSUME NEW w \in E, w >= n
           PROVE  \E x \in E : o[x] = o[w] /\ Encrypted(key, n, x) = w
        <3>1. CASE w = v
            BY <1>5, <1>6, <2>9, <2>10, <3>1
        <3>2. CASE w \in D
            <4>1. PICK x \in D : of[x] = of[w] /\ Encrypted(key, n, x) = w
                BY <1>4, <2>13, <3>2 DEF Walks
            <4>. QED BY <2>9, <3>2, <4>1
        <3>. QED BY <2>10, <3>1, <3>2
    <2>14. ASSUME NEW k \in 0 .. i - 1
           PROVE  \E x \in E : o[x] = k /\ Encrypted(key, n, x) = position[k]
        <3>1. PICK x \in D : of[x] = k /\ Encrypted(key, n, x) = position[k]
            BY <1>4 DEF Walks
        <3>. QED BY <2>9, <3>1
    <2>15. Walks(E, o)'
        <3>1. \E x \in E : o[x] = i' /\ <<left', right'>> = After(key', n', round', SplitOf(n', x))
            BY <1>1, <2>1, <2>3, <2>10
        <3>. QED BY <1>1, <2>1, <2>12, <2>13, <2>14, <3>1 DEF Walks
    <2>16. \E X \in SUBSET Domain(n') : \E y \in [X -> 0 .. i'] : Walks(X, y)'
        BY <1>1, <2>1, <2>15
    <2>. QED BY <1>1, <2>1, <2>4, <2>5, <2>16 DEF PermutationInv, ROUNDS
<1>8. CASE v < n
    <2>1. /\ position' = [k \in 0 .. i |-> IF k = i THEN v ELSE position[k]]
          /\ i' = i + 1 /\ left' = (i + 1) \div Half /\ right' = (i + 1) % Half /\ round' = 0
        BY <1>1, <1>6, <1>8 DEF CycleWalk, Split, v, Domain, Resolve
    <2>2. i' \in 0 .. n'
        BY <1>1, <2>1
    <2>3. left' \in 0 .. Half' /\ right' \in 0 .. Half' - 1
        <3>1. i + 1 \in 0 .. HalfOf(n) * HalfOf(n)
            BY <1>1, <1>2
        <3>. QED BY <1>1, <1>2, <2>1, <3>1, SplitBounds
    <2>4. ASSUME NEW k \in 0 .. i' - 1
          PROVE  position'[k] \in 0 .. n' - 1
        <3>1. k \in 0 .. i /\ position'[k] = IF k = i THEN v ELSE position[k]
            BY <1>1, <2>1
        <3>2. v \in 0 .. n - 1
            BY <1>1, <1>6, <1>8 DEF Domain
        <3>. QED BY <1>1, <3>1, <3>2 DEF PermutationInv
    <2>5. i + 1 < n => i + 1 \notin D
        BY <1>1, <1>4 DEF Walks
    <2>6. PICK E \in SUBSET Domain(n) : E = IF i + 1 < n THEN D \cup {i + 1} ELSE D
        <3>. DEFINE X == IF i + 1 < n THEN D \cup {i + 1} ELSE D
        <3>1. i + 1 < n => i + 1 \in Domain(n)
            BY <1>1, <1>2 DEF Domain
        <3>2. X \in SUBSET Domain(n)
            BY <3>1
        <3>. QED BY <3>2, Zenon
    <2>7. PICK o \in [E -> 0 .. i + 1] : o = [w \in E |-> IF w \in D THEN of[w] ELSE i + 1]
        <3>. DEFINE f == [w \in E |-> IF w \in D THEN of[w] ELSE i + 1]
        <3>1. f \in [E -> 0 .. i + 1]
            BY <1>1
        <3>. QED BY <3>1, Zenon
    <2>8. \A w \in D : w \in E /\ o[w] = of[w]
        BY <2>6, <2>7
    <2>9. \A w \in E : w \in D \/ (w = i + 1 /\ i + 1 < n)
        BY <2>6
    <2>10. i + 1 < n => i + 1 \in E /\ o[i + 1] = i + 1
        BY <2>5, <2>6, <2>7
    <2>11. ASSUME NEW w \in E, w < n
           PROVE  w <= i + 1 /\ o[w] = w
        BY <1>1, <1>4, <2>8, <2>9, <2>10, <2>11 DEF Walks
    <2>12. ASSUME NEW w \in E, w >= n
           PROVE  \E x \in E : o[x] = o[w] /\ Encrypted(key, n, x) = w
        <3>1. w \in D
            BY <1>1, <2>9, <2>12
        <3>2. PICK x \in D : of[x] = of[w] /\ Encrypted(key, n, x) = w
            BY <1>4, <2>12, <3>1 DEF Walks
        <3>. QED BY <2>8, <3>1, <3>2
    <2>13. ASSUME NEW k \in 0 .. i' - 1
           PROVE  \E x \in E : o[x] = k /\ Encrypted(key, n, x) = position'[k]
        <3>1. k \in 0 .. i /\ position'[k] = IF k = i THEN v ELSE position[k]
            BY <1>1, <2>1
        <3>2. CASE k = i
            BY <1>5, <1>6, <2>8, <3>1, <3>2
        <3>3. CASE k # i
            <4>1. k \in 0 .. i - 1
                BY <1>1, <3>1, <3>3
            <4>2. PICK x \in D : of[x] = k /\ Encrypted(key, n, x) = position[k]
                BY <1>4, <4>1 DEF Walks
            <4>. QED BY <2>8, <3>1, <3>3, <4>2
        <3>. QED BY <3>2, <3>3
    <2>14. ASSUME i' < n
           PROVE  \E x \in E : /\ o[x] = i'
                                /\ <<left', right'>> = After(key, n, round', SplitOf(n, x))
        <3>1. <<left', right'>> = SplitOf(n, i + 1)
            BY <1>2, <2>1 DEF SplitOf
        <3>2. <<left', right'>> = After(key, n, round', SplitOf(n, i + 1))
            BY <2>1, <3>1 DEF After
        <3>. QED BY <2>1, <2>10, <2>14, <3>2
    <2>15. Walks(E, o)'
        BY <1>1, <2>1, <2>11, <2>12, <2>13, <2>14 DEF Walks
    <2>16. \E X \in SUBSET Domain(n') : \E y \in [X -> 0 .. i'] : Walks(X, y)'
        BY <1>1, <2>1, <2>15
    <2>. QED BY <1>1, <2>1, <2>2, <2>3, <2>4, <2>16 DEF PermutationInv, ROUNDS
<1>9. v \in Nat
    BY <1>6 DEF Domain
<1>. QED BY <1>1, <1>7, <1>8, <1>9

LEMMA PermutationStep == PermutationInv /\ [PermutationNext]_permutationVars => PermutationInv'
<1>1. CASE UNCHANGED permutationVars
    <2>1. PermutationInv <=> PermutationInv'
        BY <1>1 DEF PermutationInv, permutationVars, Walks, Half
    <2>. QED BY <2>1
<1>. QED BY <1>1, DegenerateStep, EncRoundStep, CycleWalkStep DEF PermutationNext

(* prp: whatever words the seed gives, and however long the walks are, no  *)
(* two registration indices of a cohort of any size get the same position, *)
(* and every position is inside the cohort.                                *)
THEOREM BijectiveCorrect ==
    ASSUME NEW keys \in SUBSET Words, NEW sizes \in SUBSET Nat
    PROVE  PermutationInit(keys, sizes) /\ [][PermutationNext]_permutationVars => []Bijective
<1>1. PermutationInit(keys, sizes) => PermutationInv
    BY PermutationStart
<1>. QED BY <1>1, PermutationStep, PermutationInvBijective, PTL
=============================================================================
