----------------------------- MODULE Arithmetic -----------------------------
(***************************************************************************)
(* Facts about integers that more than one proof needs: products and          *)
(* division, remainders on the rings of counters, and the least element of a *)
(* set, which Min of the community modules (and so SelectInSeq) chooses.     *)
(***************************************************************************)
EXTENDS Integers, FiniteSetsExt, WellFoundedInduction, TLAPS

(* A non-empty set of naturals has a least element, and Min is that one.     *)
LEMMA MinIsLeast ==
  ASSUME NEW T, T \subseteq Nat, T # {}
  PROVE  Min(T) \in T /\ \A y \in T : Min(T) <= y
<1> DEFINE Less == {pair \in Nat \X Nat : pair[1] < pair[2]}
<1>1. IsWellFoundedOn(Less, Nat)
  <2>1. OpToRel(<, Nat) = Less
    BY DEF OpToRel
  <2>. QED
    BY <2>1, NatLessThanWellFounded
<1>2. PICK x \in T : \A y \in T : <<y, x>> \notin Less
  BY <1>1, WFMin
<1>3. \A y \in T : ~ (y < x)
  <2> SUFFICES ASSUME NEW y \in T, y < x
               PROVE  <<y, x>> \in Less
    BY <1>2
  <2> <<y, x>> \in Nat \X Nat
    OBVIOUS
  <2>. QED
    OBVIOUS
<1>4. \A y \in T : x <= y
  BY <1>3
<1>. QED
  BY <1>4 DEF Min

-----------------------------------------------------------------------------
(* Products                                                                *)

LEMMA Division ==
  ASSUME NEW a \in Int, NEW b \in Nat \ {0}
  PROVE  a \div b \in Int /\ b * (a \div b) <= a /\ a < b * (a \div b) + b
  BY SMT

LEMMA Monotone ==
  ASSUME NEW a \in Nat, NEW b \in Int, NEW c \in Int, b <= c
  PROVE  a * b <= a * c
  BY SMT

LEMMA Distributes ==
  ASSUME NEW a \in Int, NEW b \in Int, NEW c \in Int
  PROVE  a * (b + c) = a * b + a * c
  BY SMT

(* An error that is a multiple of the number of packets and smaller is none. *)
LEMMA SmallMultiple ==
  ASSUME NEW n \in Nat \ {0}, NEW k \in Int, n * k < n, -n < n * k
  PROVE  k = 0
<1>1. CASE k >= 1
  <2>1. n * 1 <= n * k
    BY <1>1, Monotone
  <2>. QED
    BY <2>1
<1>2. CASE k <= -1
  <2>1. n * k <= n * (-1)
    BY <1>2, Monotone
  <2>2. n * (-1) = -n
    OBVIOUS
  <2>. QED
    BY <2>1, <2>2
<1>. QED
  BY <1>1, <1>2

-----------------------------------------------------------------------------
(* Remainders                                                              *)

LEMMA Remainder ==
  ASSUME NEW x \in Int, NEW m \in Nat \ {0}
  PROVE  x % m \in 0..(m - 1) /\ x = m * (x \div m) + (x % m) /\ x \div m \in Int
  BY SMT

LEMMA Quotient ==
  ASSUME NEW x \in Int, NEW m \in Nat \ {0}
  PROVE  \E q \in Int : x = m * q + (x % m)
<1>1. x \div m \in Int /\ x = m * (x \div m) + (x % m)
  BY Remainder
<1>. QED
  BY <1>1

(* A remainder is the only one of its kind.                                 *)
LEMMA RemainderUnique ==
  ASSUME NEW m \in Nat \ {0}, NEW k \in Int, NEW s \in 0..(m - 1)
  PROVE  (m * k + s) % m = s
<1>1. m * k \in Int /\ m * k + s \in Int
  OBVIOUS
<1>2. PICK q \in Int, r \in 0..(m - 1) :
         r = (m * k + s) % m /\ m * k + s = m * q + r
  BY <1>1, Remainder
<1>3. m * (k + (-q)) = m * k + m * (-q) /\ m * (-q) = -(m * q)
  BY Distributes
<1>4. m * (k - q) = m * k - m * q /\ m * q \in Int
  BY <1>3
<1>5. k - q = 0
  BY <1>1, <1>2, <1>4, SmallMultiple
<1>6. m * 0 = 0
  OBVIOUS
<1>. QED
  BY <1>1, <1>2, <1>4, <1>5, <1>6

(* A multiple added changes nothing.                                        *)
LEMMA RemainderShift ==
  ASSUME NEW m \in Nat \ {0}, NEW k \in Int, NEW x \in Int
  PROVE  (m * k + x) % m = x % m
<1>1. PICK q \in Int, r \in 0..(m - 1) : r = x % m /\ x = m * q + r
  BY Remainder
<1>2. m * (k + q) = m * k + m * q
  BY Distributes
<1>3. m * k \in Int /\ m * q \in Int
  BY <1>1
<1>4. m * k + x = m * (k + q) + r
  BY <1>1, <1>2, <1>3
<1>5. (m * (k + q) + r) % m = r
  <2>1. k + q \in Int /\ r \in 0..(m - 1)
    BY <1>1
  <2>. QED
    BY <2>1, RemainderUnique
<1>. QED
  BY <1>1, <1>4, <1>5

(* A remainder may be taken early.                                          *)
LEMMA RemainderOfSum ==
  ASSUME NEW m \in Nat \ {0}, NEW x \in Int, NEW y \in Int
  PROVE  ((x % m) + y) % m = (x + y) % m
<1>1. PICK q \in Int : x = m * q + (x % m) /\ x % m \in Int
  <2>1. x \div m \in Int /\ x = m * (x \div m) + (x % m) /\ x % m \in Int
    BY Remainder
  <2>. QED
    BY <2>1
<1>2. x + y = m * q + ((x % m) + y) /\ (x % m) + y \in Int
  BY <1>1
<1>3. (m * q + ((x % m) + y)) % m = ((x % m) + y) % m
  BY <1>2, RemainderShift
<1>. QED
  BY <1>2, <1>3

(* The ring's size divides the range of its counters.                       *)
LEMMA RemainderOfRemainder ==
  ASSUME NEW w \in Nat \ {0}, NEW m \in Nat \ {0}, w % m = 0, NEW x \in Int
  PROVE  (x % w) % m = x % m
<1>1. PICK d \in Int : w = m * d
  <2>1. w \in Int /\ w \div m \in Int /\ w = m * (w \div m) + (w % m)
    BY Remainder
  <2>. QED
    BY <2>1
<1>2. PICK q \in Int : x = w * q + (x % w) /\ x % w \in Int
  <2>1. x \div w \in Int /\ x = w * (x \div w) + (x % w) /\ x % w \in Int
    BY Remainder
  <2>. QED
    BY <2>1
<1>3. w * q = m * (d * q) /\ d * q \in Int
  BY <1>1
<1>4. (m * (d * q) + (x % w)) % m = (x % w) % m
  BY <1>2, <1>3, RemainderShift
<1>. QED
  BY <1>2, <1>3, <1>4

LEMMA SmallRemainder ==
  ASSUME NEW m \in Nat \ {0}, NEW x \in 0..(m - 1)
  PROVE  x % m = x
<1>1. (m * 0 + x) % m = x
  BY RemainderUnique
<1>. QED
  BY <1>1

(* Near numbers have the same remainder only if they are the same.           *)
LEMMA NearRemainders ==
  ASSUME NEW m \in Nat \ {0}, NEW x \in Int, NEW y \in Int,
         x % m = y % m, x - y < m, y - x < m
  PROVE  x = y
<1>1. PICK p \in Int, q \in Int, r \in Int : x = m * p + r /\ y = m * q + r
  <2>1. PICK p \in Int : x = m * p + (x % m)
    BY Quotient
  <2>2. PICK q \in Int : y = m * q + (y % m)
    BY Quotient
  <2>3. x % m \in Int
    BY Remainder
  <2>. QED
    BY <2>1, <2>2, <2>3
<1>2. m * (p + (-q)) = m * p + m * (-q) /\ m * (-q) = -(m * q)
  BY Distributes
<1>3. m * (p - q) = m * p - m * q /\ m * p \in Int /\ m * q \in Int
  BY <1>2
<1>4. p - q = 0
  BY <1>1, <1>3, SmallMultiple
<1>5. m * 0 = 0
  OBVIOUS
<1>. QED
  BY <1>1, <1>3, <1>4, <1>5

(* Remainders stay the same when the same is added.                          *)
LEMMA SameSums ==
  ASSUME NEW m \in Nat \ {0}, NEW x \in Int, NEW y \in Int, x % m = y % m, NEW k \in Int
  PROVE  (x + k) % m = (y + k) % m
<1>1. ((x % m) + k) % m = (x + k) % m /\ ((y % m) + k) % m = (y + k) % m
  BY RemainderOfSum, Zenon
<1>. QED
  BY <1>1

(* And when they are taken from the same.                                    *)
LEMMA SameDifferences ==
  ASSUME NEW m \in Nat \ {0}, NEW x \in Int, NEW y \in Int, x % m = y % m, NEW k \in Int
  PROVE  (k - x) % m = (k - y) % m
<1>1. PICK p \in Int, q \in Int, r \in Int : x = m * p + r /\ y = m * q + r
  <2>1. PICK p \in Int : x = m * p + (x % m)
    BY Quotient
  <2>2. PICK q \in Int : y = m * q + (y % m)
    BY Quotient
  <2>3. x % m \in Int
    BY Remainder
  <2>. QED
    BY <2>1, <2>2, <2>3
<1>2. m * (q + (-p)) = m * q + m * (-p) /\ m * (-p) = -(m * p)
  BY Distributes
<1> DEFINE l == q + (-p)
<1>3. l \in Int
  OBVIOUS
<1>4. k - x = m * l + (k - y) /\ k - y \in Int
  <2>1. m * p \in Int /\ m * q \in Int
    OBVIOUS
  <2>. QED
    BY <1>1, <1>2, <2>1
<1> HIDE DEF l
<1>5. (m * l + (k - y)) % m = (k - y) % m
  BY <1>3, <1>4, RemainderShift, Zenon
<1>. QED
  BY <1>4, <1>5
=============================================================================
