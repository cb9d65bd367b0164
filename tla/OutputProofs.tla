---------------------------- MODULE OutputProofs ----------------------------
(***************************************************************************)
(* Theorems on Output, for any processes, characters, length of formats    *)
(* and width of words: what usr_kprintf prints is what its format asks     *)
(* for, the numerals included.                                             *)
(***************************************************************************)
EXTENDS Output, TLAPS, WellFoundedInduction

-----------------------------------------------------------------------------
(* Induction.  The sets stand for what the numbers in them have.           *)

Less == {pair \in Nat \X Nat : pair[1] < pair[2]}

(* A set of naturals has a least member.                                   *)
LEMMA LeastNumber ==
  ASSUME NEW T \in SUBSET Nat, T # {}
  PROVE  \E x \in T : \A y \in T : x <= y
<1>1. IsWellFoundedOn(Less, Nat)
  BY NatLessThanWellFounded DEF OpToRel, Less
<1>2. PICK x \in T : \A y \in T : ~ (<<y, x>> \in Less)
  BY <1>1, WFMin
<1>3. ASSUME NEW y \in T PROVE x <= y
  <2>1. <<y, x>> \in Less <=> y < x
    BY DEF Less
  <2> QED
    BY <1>2, <2>1
<1> QED
  BY <1>3

(* A number is in a set that contains each number whose predecessors it    *)
(* contains.                                                               *)
LEMMA FromSmaller ==
  ASSUME NEW S, \A n \in Nat : (\A m \in 0 .. n - 1 : m \in S) => n \in S
  PROVE  Nat \subseteq S
<1> SUFFICES ASSUME Nat \ S # {} PROVE FALSE
  OBVIOUS
<1>1. PICK n \in Nat \ S : \A m \in Nat \ S : n <= m
  BY LeastNumber
<1>2. \A m \in 0 .. n - 1 : m \in S
  BY <1>1
<1> QED
  BY <1>2

LEMMA FromPrevious ==
  ASSUME NEW S, 0 \in S, \A n \in Nat : n \in S => n + 1 \in S
  PROVE  Nat \subseteq S
<1>1. ASSUME NEW n \in Nat, \A m \in 0 .. n - 1 : m \in S
      PROVE  n \in S
  <2>1. n = 0 \/ (n - 1 \in Nat /\ n - 1 \in S)
    BY <1>1
  <2> QED
    BY <2>1
<1> QED
  BY <1>1, FromSmaller

(* A first value and a step from each value to the next one define a       *)
(* function on the naturals.                                               *)
StartsAt(f, n, z, F) == f[0] = z /\ \A k \in 0 .. n - 1 : f[k + 1] = F[<<k, f[k]>>]

LEMMA SameUpTo ==
  ASSUME NEW f, NEW g, NEW n \in Nat, NEW z, NEW F,
         StartsAt(f, n, z, F), StartsAt(g, n, z, F)
  PROVE  \A k \in 0 .. n : f[k] = g[k]
<1> DEFINE S == {k \in Nat : k <= n => f[k] = g[k]}
<1>1. 0 \in S
  BY DEF StartsAt
<1>2. ASSUME NEW k \in Nat, k \in S PROVE k + 1 \in S
  <2>1. CASE k + 1 <= n
    <3>1. k \in 0 .. n - 1 /\ f[k] = g[k]
      BY <1>2, <2>1
    <3>2. f[k + 1] = F[<<k, f[k]>>] /\ g[k + 1] = F[<<k, g[k]>>]
      BY <3>1 DEF StartsAt
    <3> QED
      BY <3>1, <3>2
  <2> QED
    BY <2>1
<1> HIDE DEF S
<1>3. Nat \subseteq S
  BY <1>1, <1>2, FromPrevious
<1> QED
  BY <1>3 DEF S

Steps(S) == [Nat \X S -> S]
Iterates(f, S, z, F) ==
  /\ f \in [Nat -> S]
  /\ f[0] = z
  /\ \A k \in Nat : f[k + 1] = F[<<k, f[k]>>]

LEMMA StepsDefine ==
  ASSUME NEW S, NEW z \in S, NEW F \in Steps(S)
  PROVE  \E f : Iterates(f, S, z, F)
<1> USE DEF Steps
<1> DEFINE Upto(n) == {g \in [Nat -> S] : StartsAt(g, n, z, F)}
           Good == {n \in Nat : Upto(n) # {}}
<1>1. 0 \in Good
  <2>1. [k \in Nat |-> z] \in Upto(0)
    BY DEF StartsAt
  <2> QED
    BY <2>1
<1>2. ASSUME NEW n \in Nat, n \in Good PROVE n + 1 \in Good
  <2>1. PICK g \in [Nat -> S] : StartsAt(g, n, z, F)
    BY <1>2
  <2> DEFINE h == [g EXCEPT ![n + 1] = F[<<n, g[n]>>]]
  <2>2. h \in [Nat -> S]
    BY <2>1
  <2>3. \A k \in 0 .. n : h[k] = g[k]
    OBVIOUS
  <2>4. h[n + 1] = F[<<n, h[n]>>]
    OBVIOUS
  <2>5. StartsAt(h, n + 1, z, F)
    BY <2>1, <2>3, <2>4 DEF StartsAt
  <2>6. h \in Upto(n + 1)
    BY <2>2, <2>5
  <2> HIDE DEF Upto
  <2> QED
    BY <2>6
<1>3. Nat \subseteq Good
  <2> HIDE DEF Good
  <2> QED
    BY <1>1, <1>2, FromPrevious
<1> DEFINE G(n) == CHOOSE g \in Upto(n) : TRUE
           f == [n \in Nat |-> G(n)[n]]
<1>4. \A n \in Nat : G(n) \in [Nat -> S] /\ StartsAt(G(n), n, z, F)
  BY <1>3
<1>5. f \in [Nat -> S]
  BY <1>4
<1>6. f[0] = z
  BY <1>4 DEF StartsAt
<1>7. ASSUME NEW k \in Nat PROVE f[k + 1] = F[<<k, f[k]>>]
  <2>1. StartsAt(G(k), k, z, F) /\ StartsAt(G(k + 1), k + 1, z, F)
    BY <1>4
  <2> HIDE DEF G
  <2>2. StartsAt(G(k + 1), k, z, F)
    BY <2>1 DEF StartsAt
  <2>3. G(k + 1)[k] = G(k)[k]
    BY <2>1, <2>2, SameUpTo
  <2>4. G(k + 1)[k + 1] = F[<<k, G(k + 1)[k]>>]
    BY <2>1 DEF StartsAt
  <2> QED
    BY <2>3, <2>4
<1>8. Iterates(f, S, z, F)
  BY <1>5, <1>6, <1>7 DEF Iterates
<1> QED
  BY <1>8

-----------------------------------------------------------------------------
(* Numerals. *)

Bases == {10, 16}

(* Quotient and remainder of the bases that are used.                      *)
LEMMA Division ==
  ASSUME NEW b \in Bases, NEW n \in Nat
  PROVE  /\ n % b \in 0 .. b - 1
         /\ n \div b \in Nat
         /\ n > 0 => n \div b \in 0 .. n - 1
         /\ n \div b = 0 => n % b = n
         /\ b * (n \div b) + (n % b) = n
<1>1. CASE b = 10
  BY <1>1
<1>2. CASE b = 16
  BY <1>2
<1> QED
  BY <1>1, <1>2 DEF Bases

(* What res gets for n, when it has been filled for smaller numbers.       *)
DigitsOf(res, b, n) == <<n % b>> \o IF n \div b > 0 THEN res[n \div b] ELSE <<>>

(* The loop that divides by the base ends for every n, and so res is what  *)
(* its definition says.                                                    *)
LEMMA RemaindersDefined ==
  ASSUME NEW b \in Bases
  PROVE  /\ Remainders(b) \in [Nat -> Seq(Nat)]
         /\ \A n \in Nat : Remainders(b)[n] = DigitsOf(Remainders(b), b, n)
<1> DEFINE Filled == [Nat -> Seq(Nat)]
           z == [n \in Nat |-> <<n % b>>]
           F == [pair \in Nat \X Filled |->
                   [pair[2] EXCEPT ![pair[1] + 1] = DigitsOf(pair[2], b, pair[1] + 1)]]
           Solves(g) == g = [n \in Nat |-> DigitsOf(g, b, n)]
<1>1. \A res \in Filled, n \in Nat : DigitsOf(res, b, n) \in Seq(Nat)
  BY Division DEF DigitsOf
<1>2. z \in Filled
  BY Division
<1>3. F \in Steps(Filled)
  <2>1. ASSUME NEW k \in Nat, NEW res \in Filled
        PROVE  [res EXCEPT ![k + 1] = DigitsOf(res, b, k + 1)] \in Filled
    BY <1>1
  <2> QED
    BY <2>1 DEF Steps
<1>4. PICK H : Iterates(H, Filled, z, F)
  <2> HIDE DEF F, z, Filled
  <2> QED
    BY <1>2, <1>3, StepsDefine
<1>5. /\ H[0] = [n \in Nat |-> <<n % b>>]
      /\ \A k \in Nat : /\ H[k] \in [Nat -> Seq(Nat)]
                        /\ H[k + 1] = [H[k] EXCEPT ![k + 1] = DigitsOf(H[k], b, k + 1)]
  BY <1>4 DEF Iterates
<1> HIDE DEF F, z, Filled
<1>6. ASSUME NEW n \in Nat, NEW m \in 0 .. n
      PROVE  H[n][m] = H[m][m]
  <2> DEFINE S == {k \in Nat : \A l \in 0 .. k : H[k][l] = H[l][l]}
  <2>1. 0 \in S
    OBVIOUS
  <2>2. ASSUME NEW k \in Nat, k \in S PROVE k + 1 \in S
    <3>1. ASSUME NEW l \in 0 .. k PROVE H[k + 1][l] = H[k][l]
      <4>1. l \in Nat /\ l # k + 1
        OBVIOUS
      <4> QED
        BY <4>1, <1>5
    <3>2. ASSUME NEW l \in 0 .. k + 1 PROVE H[k + 1][l] = H[l][l]
      <4>1. l = k + 1 \/ l \in 0 .. k
        OBVIOUS
      <4> QED
        BY <4>1, <2>2, <3>1
    <3> QED
      BY <3>2
  <2>3. Nat \subseteq S
    <3> HIDE DEF S
    <3> QED
      BY <2>1, <2>2, FromPrevious
  <2> QED
    BY <2>3
<1> DEFINE f == [n \in Nat |-> H[n][n]]
<1>7. ASSUME NEW n \in Nat PROVE f[n] = DigitsOf(f, b, n)
  <2>1. CASE n = 0
    <3>1. 0 \div b = 0
      BY DEF Bases
    <3>2. f[0] = <<0 % b>>
      BY <1>5
    <3>3. 0 % b \in Nat
      BY DEF Bases
    <3>4. DigitsOf(f, b, 0) = <<0 % b>>
      <4>1. ASSUME NEW k \in Nat PROVE <<k>> \o <<>> = <<k>>
        OBVIOUS
      <4>2. ~(0 \div b > 0)
        BY <3>1
      <4>3. DigitsOf(f, b, 0) = <<0 % b>> \o <<>>
        BY <4>2, Zenon DEF DigitsOf
      <4> QED
        BY <3>3, <4>1, <4>3, Zenon
    <3> QED
      BY <2>1, <3>2, <3>4
  <2>2. CASE n > 0
    <3>1. n - 1 \in Nat /\ n = (n - 1) + 1
      BY <2>2
    <3>2. f[n] = DigitsOf(H[n - 1], b, n)
      <4>1. /\ H[n - 1] \in [Nat -> Seq(Nat)]
            /\ H[n] = [H[n - 1] EXCEPT ![n] = DigitsOf(H[n - 1], b, n)]
        BY ONLY <3>1, <1>5
      <4> QED
        BY <4>1
    <3>3. n \div b \in 0 .. n - 1
      BY <2>2, Division
    <3>4. H[n - 1][n \div b] = f[n \div b]
      BY <3>1, <3>3, <1>6
    <3> QED
      BY <3>2, <3>4 DEF DigitsOf
  <2> QED
    BY <2>1, <2>2
<1>8. Solves(f)
  <2>1. f = [n \in Nat |-> f[n]]
    OBVIOUS
  <2> HIDE DEF f
  <2> QED
    BY <1>7, <2>1
<1>9. Solves(Remainders(b))
  <2>1. Remainders(b) = CHOOSE g : Solves(g)
    BY Zenon DEF Remainders, DigitsOf
  <2> HIDE DEF Solves, f
  <2> QED
    BY <1>8, <2>1
<1> DEFINE res == Remainders(b)
<1>10. res = [n \in Nat |-> DigitsOf(res, b, n)]
  BY <1>9
<1> HIDE DEF f, res
<1>11. \A n \in Nat : res[n] = DigitsOf(res, b, n)
  BY <1>10
<1>12. res \in [Nat -> Seq(Nat)]
  <2> DEFINE S == {n \in Nat : res[n] \in Seq(Nat)}
  <2>1. ASSUME NEW n \in Nat, \A m \in 0 .. n - 1 : m \in S
        PROVE  n \in S
    <3>1. n \div b > 0 => n \div b \in 0 .. n - 1
      <4>1. n = 0 => n \div b = 0
        BY DEF Bases
      <4> QED
        BY <4>1, Division
    <3>2. n % b \in Nat
      BY Division DEF Bases
    <3>3. (IF n \div b > 0 THEN res[n \div b] ELSE <<>>) \in Seq(Nat)
      BY <2>1, <3>1
    <3> DEFINE rest == IF n \div b > 0 THEN res[n \div b] ELSE <<>>
    <3>4. res[n] = <<n % b>> \o rest
      BY <1>11 DEF DigitsOf
    <3> HIDE DEF rest
    <3>5. res[n] \in Seq(Nat)
      <4>1. rest \in Seq(Nat)
        BY <3>3 DEF rest
      <4> QED
        BY <3>2, <3>4, <4>1
    <3> QED
      BY <3>5
  <2>2. Nat \subseteq S
    <3> HIDE DEF S
    <3> QED
      BY <2>1, FromSmaller
  <2> QED
    BY <2>2, <1>10
<1> QED
  BY <1>11, <1>12 DEF res

(* The values of the beginnings of d.                                      *)
IsValue(v, d, b) ==
  v = [k \in 0 .. Len(d) |-> IF k = 0 THEN 0 ELSE b * v[k - 1] + d[k]]

LEMMA ValueDefined ==
  ASSUME NEW d \in Seq(Nat), NEW b \in Bases
  PROVE  /\ \E v : IsValue(v, d, b) /\ ValueOf(d, b) = v[Len(d)]
         /\ ValueOf(d, b) \in Nat
<1> DEFINE F == [pair \in Nat \X Nat |->
                   IF pair[1] < Len(d) THEN b * pair[2] + d[pair[1] + 1] ELSE 0]
<1>1. Len(d) \in Nat /\ \A k \in 1 .. Len(d) : d[k] \in Nat
  OBVIOUS
<1>2. ASSUME NEW x \in Nat, NEW y \in Nat
      PROVE  b * x + y \in Nat
  BY DEF Bases
<1>3. F \in Steps(Nat)
  <2>1. ASSUME NEW k \in Nat, NEW x \in Nat, k < Len(d)
        PROVE  b * x + d[k + 1] \in Nat
    <3>1. k + 1 \in 1 .. Len(d)
      BY <2>1, <1>1
    <3>2. d[k + 1] \in Nat
      BY <3>1, <1>1
    <3> QED
      BY <3>2, <1>2
  <2> QED
    BY <2>1 DEF Steps
<1>4. PICK g : Iterates(g, Nat, 0, F)
  <2> HIDE DEF F
  <2> QED
    BY <1>3, StepsDefine
<1> DEFINE v == [k \in 0 .. Len(d) |-> g[k]]
<1>5. \A k \in Nat : g[k] \in Nat /\ (k < Len(d) => g[k + 1] = b * g[k] + d[k + 1])
  BY <1>4 DEF Iterates
<1>6. IsValue(v, d, b)
  <2>1. ASSUME NEW k \in 0 .. Len(d)
        PROVE  g[k] = IF k = 0 THEN 0 ELSE b * v[k - 1] + d[k]
    <3>1. CASE k = 0
      BY <3>1, <1>4 DEF Iterates
    <3>2. CASE k # 0
      <4>1. k - 1 \in Nat /\ k - 1 < Len(d) /\ (k - 1) + 1 = k /\ k - 1 \in 0 .. Len(d)
        BY ONLY k \in 0 .. Len(d), <3>2, <1>1
      <4> QED
        BY <3>2, <4>1, <1>5
    <3> QED
      BY <3>1, <3>2
  <2> QED
    BY <2>1 DEF IsValue
<1> DEFINE w == CHOOSE u : IsValue(u, d, b)
<1>7. ValueOf(d, b) = w[Len(d)]
  BY Zenon DEF ValueOf, IsValue
<1>8. IsValue(w, d, b)
  <2> HIDE DEF v
  <2> QED
    BY <1>6
<1> HIDE DEF w, v, F
<1>9. w[Len(d)] \in Nat
  <2> DEFINE S == {k \in Nat : k <= Len(d) => w[k] \in Nat}
  <2>1. 0 \in S
    BY <1>1, <1>8 DEF IsValue
  <2>2. ASSUME NEW k \in Nat, k \in S PROVE k + 1 \in S
    <3>1. CASE k + 1 <= Len(d)
      <4>1. k + 1 \in 1 .. Len(d) /\ w[k] \in Nat /\ (k + 1) - 1 = k
        BY <2>2, <3>1, <1>1
      <4>2. w[k + 1] = b * w[k] + d[k + 1]
        BY <4>1, <1>8 DEF IsValue
      <4>3. w[k + 1] \in Nat
        BY <4>1, <4>2, <1>1, <1>2
      <4> QED
        BY <4>3
    <3> QED
      BY <3>1
  <2>3. Nat \subseteq S
    <3> HIDE DEF S
    <3> QED
      BY <2>1, <2>2, FromPrevious
  <2> QED
    BY <2>3, <1>1
<1> QED
  BY <1>7, <1>8, <1>9

(* Values of digits and of more digits agree.                              *)
LEMMA ValuesAgree ==
  ASSUME NEW d \in Seq(Nat), NEW x \in Nat, NEW b \in Bases, NEW v, NEW w,
         IsValue(v, d, b), IsValue(w, Append(d, x), b)
  PROVE  w[Len(d)] = v[Len(d)]
<1> DEFINE S == {k \in Nat : k <= Len(d) => w[k] = v[k]}
<1>1. /\ Len(d) \in Nat /\ Len(Append(d, x)) = Len(d) + 1
      /\ \A k \in 1 .. Len(d) : Append(d, x)[k] = d[k]
  OBVIOUS
<1>2. 0 \in S
  BY <1>1 DEF IsValue
<1>3. ASSUME NEW k \in Nat, k \in S PROVE k + 1 \in S
  <2>1. CASE k + 1 <= Len(d)
    <3>1. k + 1 \in 1 .. Len(d) /\ k + 1 # 0 /\ (k + 1) - 1 = k /\ w[k] = v[k]
          /\ k + 1 \in 0 .. Len(d) /\ k + 1 \in 0 .. Len(d) + 1
      BY <1>1, <1>3, <2>1
    <3>2. v[k + 1] = b * v[k] + d[k + 1]
      BY <3>1 DEF IsValue
    <3>3. w[k + 1] = b * w[k] + d[k + 1]
      BY <3>1, <1>1 DEF IsValue
    <3>4. w[k + 1] = v[k + 1]
      BY <3>1, <3>2, <3>3
    <3> QED
      BY <3>4
  <2> QED
    BY <2>1
<1>4. Nat \subseteq S
  <2> HIDE DEF S
  <2> QED
    BY <1>2, <1>3, FromPrevious
<1> QED
  BY <1>1, <1>4

(* One more digit.                                                         *)
LEMMA ValueAppended ==
  ASSUME NEW d \in Seq(Nat), NEW x \in Nat, NEW b \in Bases
  PROVE  ValueOf(Append(d, x), b) = b * ValueOf(d, b) + x
<1>1. PICK v : IsValue(v, d, b) /\ ValueOf(d, b) = v[Len(d)]
  BY ValueDefined
<1>2. Append(d, x) \in Seq(Nat) /\ Len(Append(d, x)) = Len(d) + 1 /\ Len(d) \in Nat
      /\ Append(d, x)[Len(d) + 1] = x
  OBVIOUS
<1>3. PICK w : IsValue(w, Append(d, x), b) /\ ValueOf(Append(d, x), b) = w[Len(Append(d, x))]
  BY <1>2, ValueDefined
<1>4. w[Len(d) + 1] = b * w[(Len(d) + 1) - 1] + Append(d, x)[Len(d) + 1]
  <2>1. Len(d) + 1 \in 0 .. Len(Append(d, x)) /\ Len(d) + 1 # 0
    BY <1>2
  <2> QED
    BY <1>3, <2>1 DEF IsValue
<1>5. (Len(d) + 1) - 1 = Len(d)
  BY <1>2
<1>6. w[Len(d)] = v[Len(d)]
  BY <1>1, <1>3, ValuesAgree
<1> QED
  BY <1>1, <1>2, <1>3, <1>4, <1>5, <1>6

LEMMA ValueOfDigit ==
  ASSUME NEW x \in Nat, NEW b \in Bases
  PROVE  ValueOf(<<x>>, b) = x
<1>1. PICK v : IsValue(v, <<x>>, b) /\ ValueOf(<<x>>, b) = v[Len(<<x>>)]
  <2>1. <<x>> \in Seq(Nat)
    OBVIOUS
  <2> QED
    BY <2>1, ValueDefined
<1>2. v[1] = b * v[0] + x /\ v[0] = 0
  BY <1>1 DEF IsValue
<1>3. b * 0 = 0
  BY DEF Bases
<1> QED
  BY <1>1, <1>2, <1>3

(* Numerals are read from the last digit to the first: the last one is     *)
(* what the division leaves.                                               *)
LEMMA NumeralStep ==
  ASSUME NEW b \in Bases, NEW n \in Nat
  PROVE  /\ Numeral(n, b) \in Seq(Nat)
         /\ n \div b = 0 => Numeral(n, b) = <<n>>
         /\ n \div b > 0 => Numeral(n, b) = Append(Numeral(n \div b, b), n % b)
<1> DEFINE res == Remainders(b)
           Backwards(s) == [k \in 1 .. Len(s) |-> s[Len(s) + 1 - k]]
<1>1. n % b \in Nat /\ n \div b \in Nat
  BY Division DEF Bases
<1>2. ASSUME NEW m \in Nat PROVE Numeral(m, b) = Backwards(res[m])
  <2>1. ~(m < 0)
    OBVIOUS
  <2> QED
    BY <2>1, Zenon DEF Numeral
<1>3. \A m \in Nat : res[m] \in Seq(Nat)
  BY RemaindersDefined
<1>4. res[n] = <<n % b>> \o IF n \div b > 0 THEN res[n \div b] ELSE <<>>
  BY RemaindersDefined DEF DigitsOf
<1> HIDE DEF res
<1>5. \A s \in Seq(Nat) : Backwards(s) \in Seq(Nat)
  OBVIOUS
<1>6. ASSUME NEW x \in Nat, NEW s \in Seq(Nat)
      PROVE  Backwards(<<x>> \o s) = Append(Backwards(s), x)
  <2>1. /\ <<x>> \o s \in Seq(Nat) /\ Len(<<x>> \o s) = Len(s) + 1 /\ Len(s) \in Nat
        /\ (<<x>> \o s)[1] = x
        /\ \A k \in 1 .. Len(s) : (<<x>> \o s)[k + 1] = s[k]
    OBVIOUS
  <2> DEFINE left == Backwards(<<x>> \o s)
             right == Append(Backwards(s), x)
  <2>2. left \in Seq(Nat) /\ Len(left) = Len(s) + 1
    BY <2>1
  <2>3. Backwards(s) \in Seq(Nat) /\ Len(Backwards(s)) = Len(s)
    BY <2>1
  <2>4. right \in Seq(Nat) /\ Len(right) = Len(s) + 1
    BY <2>3
  <2>5. ASSUME NEW k \in 1 .. Len(s) + 1 PROVE left[k] = right[k]
    <3>1. left[k] = (<<x>> \o s)[Len(s) + 2 - k]
      BY <2>1
    <3>2. CASE k = Len(s) + 1
      <4>1. left[k] = x
        BY <2>1, <3>1, <3>2
      <4>2. right[k] = x
        BY <2>3, <3>2
      <4> QED
        BY <4>1, <4>2
    <3>3. CASE k <= Len(s)
      <4>1. Len(s) + 1 - k \in 1 .. Len(s) /\ Len(s) + 2 - k = (Len(s) + 1 - k) + 1
            /\ k \in 1 .. Len(s)
        BY <2>1, <3>3
      <4>2. left[k] = s[Len(s) + 1 - k]
        BY <2>1, <3>1, <4>1
      <4>3. right[k] = Backwards(s)[k]
        BY <2>3, <4>1
      <4> QED
        BY <4>1, <4>2, <4>3
    <3> QED
      BY <2>1, <3>2, <3>3
  <2> HIDE DEF left, right
  <2> QED
    BY <2>1, <2>2, <2>4, <2>5 DEF left, right
<1>7. ASSUME NEW x \in Nat PROVE Backwards(<<x>>) = <<x>>
  OBVIOUS
<1> HIDE DEF Backwards
<1>8. Numeral(n, b) \in Seq(Nat)
  BY <1>2, <1>3, <1>5
<1>9. ASSUME n \div b = 0 PROVE Numeral(n, b) = <<n>>
  <2>1. ~(n \div b > 0)
    BY <1>9
  <2>2. res[n] = <<n % b>> \o <<>>
    BY <1>4, <2>1, Zenon
  <2>3. res[n] = <<n>>
    BY <1>1, <1>9, <2>2, Division
  <2> QED
    BY <1>2, <1>7, <2>3
<1>10. ASSUME n \div b > 0 PROVE Numeral(n, b) = Append(Numeral(n \div b, b), n % b)
  <2>1. res[n] = <<n % b>> \o res[n \div b]
    BY <1>4, <1>10, Zenon
  <2>2. Backwards(res[n]) = Append(Backwards(res[n \div b]), n % b)
    BY <1>1, <1>3, <1>6, <2>1
  <2> QED
    BY <1>1, <1>2, <2>2
<1> QED
  BY <1>8, <1>9, <1>10

(* What usr_kprintf prints of a natural number is its shortest numeral, in *)
(* both bases.                                                             *)
LEMMA NumeralRight ==
  ASSUME NEW b \in Bases, NEW n \in Nat
  PROVE  IsNumeral(Numeral(n, b), b, n)
<1> DEFINE Right(m) == /\ IsNumeral(Numeral(m, b), b, m)
                       /\ m > 0 => Numeral(m, b)[1] # 0
           S == {m \in Nat : Right(m)}
<1>1. ASSUME NEW m \in Nat, \A l \in 0 .. m - 1 : l \in S
      PROVE  m \in S
  <2> DEFINE q == m \div b
             d == Numeral(q, b)
  <2>1. /\ q \in Nat /\ m % b \in 0 .. b - 1 /\ m % b \in Nat
        /\ (q = 0 => m % b = m)
        /\ b * q + (m % b) = m
        /\ (q > 0 => m > 0)
    <3>1. m = 0 => q = 0
      BY DEF Bases
    <3> QED
      BY <3>1, Division DEF Bases
  <2>2. CASE q = 0
    <3>1. Numeral(m, b) = <<m>> /\ m \in 0 .. b - 1
      BY <2>1, <2>2, NumeralStep
    <3>2. ValueOf(<<m>>, b) = m
      BY ValueOfDigit
    <3>3. Right(m)
      BY <3>1, <3>2 DEF IsNumeral
    <3> QED
      BY <3>3
  <2>3. CASE q > 0
    <3>1. Numeral(m, b) = Append(d, m % b) /\ d \in Seq(Nat)
      BY <2>1, <2>3, NumeralStep
    <3>2. q \in 0 .. m - 1
      BY <2>1, <2>3, Division
    <3>3. Right(q)
      BY <1>1, <3>2
    <3>4. /\ Len(d) \in Nat /\ Len(d) > 0 /\ d[1] # 0
          /\ \A k \in 1 .. Len(d) : d[k] \in 0 .. b - 1
          /\ ValueOf(d, b) = q
      BY <2>3, <3>1, <3>3 DEF IsNumeral
    <3> HIDE DEF q, d
    <3>5. ValueOf(Append(d, m % b), b) = m
      BY <2>1, <3>1, <3>4, ValueAppended
    <3>6. /\ Len(Append(d, m % b)) = Len(d) + 1
          /\ Append(d, m % b)[1] = d[1]
          /\ \A k \in 1 .. Len(d) : Append(d, m % b)[k] = d[k]
          /\ Append(d, m % b)[Len(d) + 1] = m % b
      BY <2>1, <3>1, <3>4
    <3>7. \A k \in 1 .. Len(d) + 1 : Append(d, m % b)[k] \in 0 .. b - 1
      <4> TAKE k \in 1 .. Len(d) + 1
      <4>1. k \in 1 .. Len(d) \/ k = Len(d) + 1
        BY <3>4
      <4> QED
        BY <4>1, <2>1, <3>4, <3>6
    <3>8. Right(m)
      BY <3>1, <3>4, <3>5, <3>6, <3>7 DEF IsNumeral
    <3> QED
      BY <3>8
  <2> QED
    BY <2>1, <2>2, <2>3
<1>2. Nat \subseteq S
  <2> HIDE DEF S
  <2> QED
    BY <1>1, FromSmaller
<1> QED
  BY <1>2

(* Each conversion prints the text it has to.                              *)
LEMMA ConvertedRight ==
  ASSUME NEW c, NEW n \in Args
  PROVE  IsText(Converted(c, n), c, n)
<1>1. /\ n \in Nat /\ n < Word
      /\ 10 \in Bases /\ 16 \in Bases
  BY OutputAssumption DEF Bases
<1>2. CASE c = "x"
  BY <1>1, <1>2, NumeralRight DEF Converted, IsText, usr_decToHexStr
<1>3. CASE c = "p"
  <2> DEFINE d == Numeral(n, 16)
  <2>1. d \in Seq(Nat)
    BY <1>1, NumeralStep
  <2>2. Converted(c, n) = <<"0", "x">> \o d
    BY <1>3 DEF Converted, usr_decToHexStr
  <2> HIDE DEF d
  <2>3. /\ SubSeq(<<"0", "x">> \o d, 1, 2) = <<"0", "x">>
        /\ SubSeq(<<"0", "x">> \o d, 3, Len(<<"0", "x">> \o d)) = d
    <3> DEFINE S == Nat \union {"0", "x"}
               e == <<"0", "x">> \o d
    <3>1. d \in Seq(S) /\ Len(d) \in Nat
      BY <2>1
    <3>2. <<"0", "x">> \in Seq(S)
      OBVIOUS
    <3> HIDE DEF S
    <3>3. /\ e \in Seq(S) /\ Len(e) = Len(d) + 2 /\ e[1] = "0" /\ e[2] = "x"
          /\ \A k \in 1 .. Len(d) : e[k + 2] = d[k]
      BY <3>1, <3>2
    <3> HIDE DEF e
    <3>4. SubSeq(e, 1, 2) = <<"0", "x">>
      <4>1. SubSeq(e, 1, 2) = [k \in 1 .. 2 |-> e[k]]
        BY <3>1, <3>3
      <4>2. [k \in 1 .. 2 |-> e[k]] = <<e[1], e[2]>>
        OBVIOUS
      <4> QED
        BY <3>3, <4>1, <4>2
    <3>5. SubSeq(e, 3, Len(e)) = d
      BY <3>1, <3>3
    <3> QED
      BY <3>4, <3>5 DEF e
  <2>4. IsNumeral(d, 16, n)
    BY <1>1, NumeralRight DEF d
  <2> QED
    BY <1>3, <2>2, <2>3, <2>4 DEF IsText
<1>4. CASE c = "u"
  BY <1>1, <1>4, NumeralRight DEF Converted, IsText, usr_unusr_intToStr
<1>5. CASE c = "i"
  <2>1. Converted(c, n) = usr_intToStr(Int32(n))
    BY <1>5 DEF Converted
  <2>2. PICK half \in Nat : Word = 2 * half /\ Word \div 2 = half
    BY OutputAssumption
  <2>3. INT_MIN = -half /\ Int32(n) = IF n < half THEN n ELSE n - Word
    BY <1>1, <2>2 DEF INT_MIN, Int32
  <2>4. CASE n < half
    <3>1. Int32(n) = n /\ Int32(n) >= 0
      BY <1>1, <2>3, <2>4
    <3>2. Converted(c, n) = Numeral(n, 10)
      BY <1>1, <2>1, <3>1 DEF usr_intToStr
    <3>3. IsNumeral(Numeral(n, 10), 10, n)
      BY <1>1, NumeralRight
    <3>4. ~(Int32(n) < 0) /\ Int32(n) \notin INT_MIN+1 .. -1
      BY <1>1, <3>1
    <3> QED
      BY <1>5, <3>2, <3>3, <3>4 DEF IsText
  <2>5. CASE n >= half
    <3>1. Int32(n) = n - Word /\ Int32(n) < 0 /\ ~(Int32(n) >= 0)
      BY <1>1, <2>2, <2>3, <2>5
    <3> DEFINE m == Int32(-Int32(n) % Word)
               d == Numeral(m, 10)
    <3>2. Converted(c, n) = <<"-">> \o d
      BY <2>1, <3>1 DEF usr_intToStr
    <3>3. ASSUME Int32(n) \in INT_MIN+1 .. -1
          PROVE  m = Word - n /\ Word - n \in Nat
      <4>1. Word - n \in Nat /\ Word - n < half /\ 0 < Word - n /\ Word \in Nat
            /\ Word - n < Word
        BY <1>1, <2>2, <2>3, <3>1, <3>3
      <4>2. -Int32(n) = Word - n
        BY <1>1, <3>1, <2>2
      <4>3. (Word - n) % Word = Word - n
        BY <4>1
      <4>4. Int32(Word - n) = Word - n
        BY <2>2, <4>1 DEF Int32, INT_MIN
      <4> QED
        BY <4>1, <4>2, <4>3, <4>4
    <3>4. ASSUME Int32(n) \in INT_MIN+1 .. -1
          PROVE  IsNumeral(Tail(<<"-">> \o d), 10, Word - n)
      <4>1. d \in Seq(Nat) /\ IsNumeral(d, 10, Word - n)
        BY <1>1, <3>3, <3>4, NumeralRight, NumeralStep
      <4> HIDE DEF d
      <4>2. Tail(<<"-">> \o d) = d
        BY <4>1
      <4> QED
        BY <4>1, <4>2
    <3>5. Head(<<"-">> \o d) = "-"
      <4>1. d \in Seq(Nat) \/ d = <<"?">>
        <5>1. m \in Int
          BY <1>1, <2>2, <3>1 DEF Int32, INT_MIN
        <5>2. CASE m < 0
          BY <5>2 DEF Numeral
        <5>3. CASE m \in Nat
          BY <1>1, <5>3, NumeralStep
        <5> QED
          BY <5>1, <5>2, <5>3
      <4> HIDE DEF d
      <4> QED
        BY <4>1
    <3> HIDE DEF d
    <3> QED
      BY <1>5, <3>1, <3>2, <3>4, <3>5 DEF IsText
  <2> QED
    BY <1>1, <2>2, <2>4, <2>5
<1>6. CASE c \notin {"x", "p", "u", "i"}
  BY <1>6 DEF Converted, IsText
<1> QED
  BY <1>2, <1>3, <1>4, <1>5, <1>6

-----------------------------------------------------------------------------
(* Types. *)

(* What a call may print.                                                  *)
PlainPiece(c) == [char |-> c, arg |-> 0, text |-> <<c>>]
ConvertedPiece(c, n) == [char |-> "%" \o c, arg |-> n, text |-> Converted(c, n)]
Conversions == (Chars \union {NUL}) \ Digits
Pieces == {PlainPiece(c) : c \in Chars}
            \union {ConvertedPiece(c, n) : c \in Conversions, n \in Args}

Typed ==
  /\ OutputTypeOK
  /\ str \in [Threads -> Formats]
  /\ printed \in [Threads -> Seq(Pieces)]

LEMMA ThreadsHaveProcess == \A t \in Threads : Process(t) \in Several \union Single
  BY DEF Threads, Process

LEMMA EmptyFormat == <<>> \in Formats
<1>1. <<>> \in [1 .. 0 -> Chars] /\ 0 \in 0 .. MaxLen
  BY OutputAssumption
<1>2. WellFormed(<<>>)
  BY DEF WellFormed
<1> QED
  BY <1>1, <1>2 DEF Formats

LEMMA InitTyped == Init => Typed
<1> SUFFICES ASSUME Init PROVE Typed
  OBVIOUS
<1>1. <<>> \in Seq(Pieces)
  OBVIOUS
<1> QED
  BY <1>1, EmptyFormat DEF Init, Typed, OutputTypeOK, Inside

(* What a step of u does to the other threads: a call shares the index     *)
(* with those of its process that are in usr_kprintf.                      *)
LEMMA OtherThreads ==
  ASSUME Typed, NEW u \in Threads, Step(u), NEW t \in Threads, t # u
  PROVE  /\ pc'[t] = pc[t] /\ str'[t] = str[t] /\ reg'[t] = reg[t]
         /\ i' \in [Several \union Single -> Nat]
         /\ Process(t) # Process(u) => i'[Process(t)] = i[Process(t)]
         /\ shared'[t] = (shared[t] \/ (~Inside(u) /\ t \in Others(u)))
         /\ printed'[t] = IF ~Inside(u) /\ t \in Others(u) THEN <<>> ELSE printed[t]
<1>1. \A w \in Threads : Process(w) \in Several \union Single
  BY ThreadsHaveProcess
<1>2. CASE Call(u)
  BY <1>1, <1>2 DEF Typed, OutputTypeOK, Call, Goto, Meets
<1>3. CASE Return(u)
  BY <1>1, <1>3 DEF Typed, OutputTypeOK, Return, Goto, Inside
<1>4. CASE Literal(u)
  BY <1>1, <1>4 DEF Typed, OutputTypeOK, Literal, Goto, Prints, Inside
<1>5. CASE Percent(u)
  BY <1>1, <1>5 DEF Typed, OutputTypeOK, Percent, Goto, Advance, Inside
<1>6. CASE Width(u)
  BY <1>1, <1>6 DEF Typed, OutputTypeOK, Width, Advance, Inside
<1>7. CASE Convert(u)
  BY <1>1, <1>7 DEF Typed, OutputTypeOK, Convert, Goto, Prints, Inside
<1>8. CASE Load(u)
  BY <1>1, <1>8 DEF Typed, OutputTypeOK, Load, Goto, Inside
<1>9. CASE Store(u)
  BY <1>1, <1>9 DEF Typed, OutputTypeOK, Store, Goto, Advance, Inside
<1> QED
  BY <1>2, <1>3, <1>4, <1>5, <1>6, <1>7, <1>8, <1>9 DEF Step

Labels == {"outside", "while", "switch", "load", "store"}

(* What a step of u makes of its own state has the types.                  *)
LEMMA OwnTypes ==
  ASSUME Typed, NEW u \in Threads, Step(u)
  PROVE  /\ reg' \in [Threads -> Nat] /\ pc' \in [Threads -> Labels]
         /\ shared' \in [Threads -> BOOLEAN]
         /\ str' \in [Threads -> Formats] /\ printed' \in [Threads -> Seq(Pieces)]
         /\ Inside(u) => shared'[u] = shared[u] \/ pc'[u] = "outside"
         /\ pc'[u] = "outside" => str'[u] = <<>> /\ ~shared'[u] /\ printed'[u] = <<>>
         /\ shared'[u] => printed'[u] = <<>>
<1>1. <<>> \in Seq(Pieces) /\ \A p \in Seq(Pieces), x \in Pieces : Append(p, x) \in Seq(Pieces)
  OBVIOUS
<1>2. i[Process(u)] \in Nat
  BY ThreadsHaveProcess DEF Typed, OutputTypeOK
<1>3. ASSUME NEW x \in Pieces, Prints(u, x)
      PROVE  printed' \in [Threads -> Seq(Pieces)] /\ (shared[u] => printed'[u] = <<>>)
  BY <1>1, <1>3 DEF Prints, Typed
<1>4. CASE Call(u)
  <2>1. printed' \in [Threads -> Seq(Pieces)] /\ printed'[u] = <<>>
    BY <1>1, <1>4 DEF Typed, OutputTypeOK, Call, Meets, Others
  <2> QED
    BY <1>4, <2>1 DEF Typed, OutputTypeOK, Call, Goto, Meets, Labels, Inside
<1>5. CASE Return(u)
  BY <1>1, <1>5, EmptyFormat DEF Typed, OutputTypeOK, Return, Goto, Labels, Inside
<1>6. CASE Literal(u)
  <2>1. PICK c \in Chars : Prints(u, PlainPiece(c))
    BY <1>6 DEF Literal, PlainPiece
  <2>2. printed' \in [Threads -> Seq(Pieces)] /\ (shared[u] => printed'[u] = <<>>)
    BY <1>3, <2>1 DEF Pieces
  <2> QED
    BY <1>6, <2>2 DEF Typed, OutputTypeOK, Literal, Goto, Labels, Inside
<1>7. CASE Percent(u)
  BY <1>7 DEF Typed, OutputTypeOK, Percent, Advance, Goto, Labels, Inside
<1>8. CASE Width(u)
  BY <1>8 DEF Typed, OutputTypeOK, Width, Advance, Labels, Inside
<1>9. CASE Convert(u)
  <2>1. PICK c \in Conversions, n \in Args : Prints(u, ConvertedPiece(c, n))
    BY <1>9 DEF Convert, Conversions, ConvertedPiece
  <2>2. printed' \in [Threads -> Seq(Pieces)] /\ (shared[u] => printed'[u] = <<>>)
    BY <1>3, <2>1 DEF Pieces
  <2> QED
    BY <1>9, <2>2 DEF Typed, OutputTypeOK, Convert, Goto, Labels, Inside
<1>10. CASE Load(u)
  BY <1>2, <1>10 DEF Typed, OutputTypeOK, Load, Goto, Labels, Inside
<1>11. CASE Store(u)
  BY <1>11 DEF Typed, OutputTypeOK, Store, Advance, Goto, Labels, Inside
<1> QED
  BY <1>4, <1>5, <1>6, <1>7, <1>8, <1>9, <1>10, <1>11 DEF Step

LEMMA StepTyped == Typed /\ [Next]_vars => Typed'
<1> SUFFICES ASSUME Typed, [Next]_vars PROVE Typed'
  OBVIOUS
<1>1. CASE UNCHANGED vars
  BY <1>1 DEF Typed, OutputTypeOK, Inside, vars
<1>2. ASSUME NEW u \in Threads, Step(u) PROVE Typed'
  <2>1. i' \in [Several \union Single -> Nat]
    <3>1. CASE Threads = {u}
      <4>1. Process(u) \in Several \union Single /\ i \in [Several \union Single -> Nat]
        BY ThreadsHaveProcess DEF Typed, OutputTypeOK
      <4> QED
        BY <1>2, <4>1 DEF Typed, OutputTypeOK, Step, Call, Return, Literal, Percent, Width,
                          Convert, Load, Store, Advance
    <3>2. ASSUME NEW t \in Threads, t # u PROVE i' \in [Several \union Single -> Nat]
      BY <1>2, <3>2, OtherThreads
    <3> QED
      BY <3>1, <3>2
  <2>2. ASSUME NEW t \in Threads
        PROVE  /\ pc'[t] = "outside" => str'[t] = <<>> /\ ~shared'[t]
               /\ shared'[t] \/ pc'[t] = "outside" => printed'[t] = <<>>
    <3>1. CASE t = u
      BY <1>2, <3>1, OwnTypes
    <3>2. CASE t # u
      BY <1>2, <3>2, OtherThreads DEF Typed, OutputTypeOK, Inside, Others
    <3> QED
      BY <3>1, <3>2
  <2> QED
    BY <1>2, <2>1, <2>2, OwnTypes DEF Typed, OutputTypeOK, Inside, Labels
<1> QED
  BY <1>1, <1>2 DEF Next

(* The index is a number for every process, a thread prints a format, and  *)
(* outside usr_kprintf it has printed nothing.                             *)
THEOREM OutputTypeCorrect == Spec => []OutputTypeOK
<1>1. Typed => OutputTypeOK
  BY DEF Typed
<1> QED
  BY <1>1, InitTyped, StepTyped, PTL DEF Spec

-----------------------------------------------------------------------------
(* Formats. *)

LEMMA FormatFacts ==
  ASSUME NEW s \in Formats
  PROVE  /\ s \in Seq(Chars) /\ DOMAIN s = 1 .. Len(s)
         /\ Len(s) \in Nat /\ Len(s) <= MaxLen
         /\ \A k \in 1 .. Len(s) : s[k] \in Chars
         /\ WellFormed(s)
<1>1. PICK n \in 0 .. MaxLen : s \in [1 .. n -> Chars]
  BY DEF Formats
<1>2. n \in Nat /\ n <= MaxLen
  BY OutputAssumption
<1>3. s \in Seq(Chars) /\ Len(s) = n
  BY <1>1, <1>2
<1> QED
  BY <1>1, <1>2, <1>3 DEF Formats

(* A conversion ends at the first character behind its % that is no digit, *)
(* which comes before the format ends.                                     *)
LEMMA ConversionEnds ==
  ASSUME NEW s \in Formats, NEW b \in 1 .. Len(s), s[b] = "%",
         NEW r \in b .. Len(s), \A k \in b + 1 .. r : s[k] \in Digits
  PROVE  /\ r + 1 \in 1 .. Len(s)
         /\ s[r + 1] \notin Digits => EndOf(s, b) = r + 1
<1> DEFINE Ends(m) == s[m] \notin Digits /\ \A k \in b + 1 .. m - 1 : s[k] \in Digits
           e == CHOOSE m \in b + 1 .. Len(s) : Ends(m)
<1>1. Len(s) \in Nat /\ b \in Nat /\ r \in Nat
  BY FormatFacts
<1>2. \E m \in b + 1 .. Len(s) : Ends(m)
  BY FormatFacts DEF WellFormed
<1>3. EndOf(s, b) = e
  BY DEF EndOf
<1>4. e \in b + 1 .. Len(s) /\ Ends(e)
  BY <1>2
<1> HIDE DEF e
<1>5. e > r
  BY <1>1, <1>4
<1>6. ASSUME s[r + 1] \notin Digits PROVE e = r + 1
  <2>1. ~(r + 1 < e)
    BY <1>1, <1>4, <1>6
  <2> QED
    BY <1>1, <1>4, <1>5, <2>1
<1> QED
  BY <1>1, <1>3, <1>4, <1>5, <1>6

(* The pieces p print the first n characters of s.                         *)
Fits(x, s, a) ==
  IF s[a] = "%"
  THEN /\ x.char = "%" \o s[EndOf(s, a)]
       /\ IsText(x.text, s[EndOf(s, a)], x.arg)
  ELSE x.char = s[a] /\ x.text = <<s[a]>>

Begins(at, p, s, n) ==
  /\ at \in [1 .. Len(p) -> DOMAIN s]
  /\ p = <<>> <=> n = 0
  /\ p # <<>> => at[1] = 1 /\ EndOf(s, at[Len(p)]) = n
  /\ \A k \in 1 .. Len(p) - 1 : at[k+1] = EndOf(s, at[k]) + 1
  /\ \A k \in 1 .. Len(p) : Fits(p[k], s, at[k])

PrintsUpTo(p, s, n) == \E at : Begins(at, p, s, n)

LEMMA NothingPrinted == \A s : PrintsUpTo(<<>>, s, 0)
<1> TAKE s
<1>1. Begins([k \in {} |-> 0], <<>>, s, 0)
  BY DEF Begins
<1> QED
  BY <1>1 DEF PrintsUpTo

(* One piece more.                                                         *)
LEMMA PieceAppended ==
  ASSUME NEW s \in Formats, NEW p \in Seq(Pieces), NEW x \in Pieces, NEW n \in Nat,
         n < Len(s), PrintsUpTo(p, s, n), Fits(x, s, n + 1),
         EndOf(s, n + 1) \in n + 1 .. Len(s)
  PROVE  PrintsUpTo(Append(p, x), s, EndOf(s, n + 1))
<1>1. PICK at : Begins(at, p, s, n)
  BY DEF PrintsUpTo
<1> DEFINE q == Append(p, x)
           more == [k \in 1 .. Len(p) + 1 |-> IF k = Len(p) + 1 THEN n + 1 ELSE at[k]]
<1>2. /\ Len(p) \in Nat /\ Len(q) = Len(p) + 1 /\ q # <<>>
      /\ q[Len(p) + 1] = x /\ \A k \in 1 .. Len(p) : q[k] = p[k]
      /\ p = <<>> <=> Len(p) = 0
  OBVIOUS
<1>3. Len(s) \in Nat /\ DOMAIN s = 1 .. Len(s) /\ n + 1 \in DOMAIN s
  BY FormatFacts
<1> HIDE DEF q
<1>4. more \in [1 .. Len(q) -> DOMAIN s]
  BY <1>1, <1>2, <1>3 DEF Begins
<1>5. more[1] = 1 /\ more[Len(q)] = n + 1
  <2>1. CASE p = <<>>
    BY <1>1, <1>2, <2>1 DEF Begins
  <2>2. CASE p # <<>>
    <3>1. Len(p) > 0 /\ at[1] = 1
      BY <1>1, <1>2, <2>2 DEF Begins
    <3> QED
      BY <1>2, <3>1
  <2> QED
    BY <2>1, <2>2
<1>6. \A k \in 1 .. Len(q) - 1 : more[k+1] = EndOf(s, more[k]) + 1
  <2> TAKE k \in 1 .. Len(q) - 1
  <2>1. k \in 1 .. Len(p) /\ more[k] = at[k]
    BY <1>2
  <2>2. CASE k = Len(p)
    <3>1. EndOf(s, at[k]) = n
      BY <1>1, <1>2, <2>1, <2>2 DEF Begins
    <3> QED
      BY <1>2, <2>1, <2>2, <3>1
  <2>3. CASE k < Len(p)
    <3>1. at[k + 1] = EndOf(s, at[k]) + 1 /\ more[k + 1] = at[k + 1]
      BY <1>1, <1>2, <2>1, <2>3 DEF Begins
    <3> QED
      BY <2>1, <3>1
  <2> QED
    BY <1>2, <2>1, <2>2, <2>3
<1>7. \A k \in 1 .. Len(q) : Fits(q[k], s, more[k])
  <2> TAKE k \in 1 .. Len(q)
  <2>1. CASE k = Len(p) + 1
    BY <1>2, <2>1
  <2>2. CASE k \in 1 .. Len(p)
    <3>1. q[k] = p[k] /\ more[k] = at[k] /\ Fits(p[k], s, at[k])
      BY <1>1, <1>2, <2>2 DEF Begins
    <3> QED
      BY <3>1
  <2> QED
    BY <1>2, <2>1, <2>2
<1>8. EndOf(s, n + 1) # 0
  BY <1>3
<1> HIDE DEF more
<1>9. Begins(more, q, s, EndOf(s, n + 1))
  BY <1>2, <1>4, <1>5, <1>6, <1>7, <1>8 DEF Begins
<1> QED
  BY <1>9 DEF PrintsUpTo, q

(* What prints all characters is what the format prescribes.               *)
LEMMA AllPrinted ==
  ASSUME NEW s \in Formats, NEW p, PrintsUpTo(p, s, Len(s))
  PROVE  Prescribed(p, s)
<1>1. PICK at : Begins(at, p, s, Len(s))
  BY DEF PrintsUpTo
<1>2. s = <<>> <=> Len(s) = 0
  BY FormatFacts
<1>3. /\ at \in [1 .. Len(p) -> DOMAIN s]
      /\ p = <<>> <=> s = <<>>
      /\ p # <<>> => at[1] = 1 /\ EndOf(s, at[Len(p)]) = Len(s)
      /\ \A k \in 1 .. Len(p) - 1 : at[k+1] = EndOf(s, at[k]) + 1
      /\ \A k \in 1 .. Len(p) : Fits(p[k], s, at[k])
  BY <1>1, <1>2 DEF Begins
<1> QED
  BY <1>3 DEF Prescribed, Fits

-----------------------------------------------------------------------------
(* What a thread prints that is alone in its process's usr_kprintf. *)

Alone(t) == Inside(t) /\ ~shared[t]

(* Its index is that of its process, and it has printed what the format    *)
(* asks for up to there: up to the conversion it is about to print, or up  *)
(* to the character it has just printed.                                   *)
Position(t) ==
  /\ i[Process(t)] = reg[t]
  /\ pc[t] = "while" => reg[t] <= Len(str[t]) /\ PrintsUpTo(printed[t], str[t], reg[t])
  /\ pc[t] = "switch" =>
       /\ reg[t] <= Len(str[t])
       /\ \E b \in 1 .. reg[t] :
            /\ str[t][b] = "%"
            /\ \A k \in b + 1 .. reg[t] : str[t][k] \in Digits
            /\ PrintsUpTo(printed[t], str[t], b - 1)
  /\ pc[t] \in {"load", "store"} =>
       reg[t] < Len(str[t]) /\ PrintsUpTo(printed[t], str[t], reg[t] + 1)

(* The inductive invariant: the history says truly who shares the index.   *)
OutputInv ==
  /\ Typed
  /\ \A t \in Threads : Alone(t) => Others(t) = {} /\ Position(t)

LEMMA InitOutputInv == Init => OutputInv
  BY InitTyped DEF Init, OutputInv, Alone, Inside

LEMMA OwnFacts ==
  ASSUME OutputInv, NEW u \in Threads
  PROVE  /\ str[u] \in Formats /\ reg[u] \in Nat /\ i[Process(u)] \in Nat
         /\ printed[u] \in Seq(Pieces)
         /\ Len(str[u]) \in Nat /\ Len(str[u]) <= MaxLen /\ MaxLen \in Nat
         /\ DOMAIN str[u] = 1 .. Len(str[u])
         /\ \A k \in 1 .. Len(str[u]) : str[u][k] \in Chars
         /\ u \in DOMAIN str /\ u \in DOMAIN reg /\ u \in DOMAIN pc
         /\ u \in DOMAIN printed /\ u \in DOMAIN shared /\ Process(u) \in DOMAIN i
         /\ ~Inside(u) => printed[u] = <<>>
<1>1. str[u] \in Formats
  BY DEF OutputInv, Typed
<1>2. Process(u) \in Several \union Single
  BY ThreadsHaveProcess
<1> QED
  BY <1>1, <1>2, FormatFacts, OutputAssumption DEF OutputInv, Typed, OutputTypeOK

(* What is read within a format is a character of it, behind it the NUL.   *)
LEMMA ReadsCharacter ==
  ASSUME NEW s \in Formats, NEW k \in Nat, k <= Len(s), NEW c, Reads(s, k, c)
  PROVE  /\ k = Len(s) => c = NUL
         /\ k < Len(s) => c = s[k + 1] /\ c # NUL
<1>1. Len(s) \in Nat /\ \A l \in 1 .. Len(s) : s[l] \in Chars
  BY FormatFacts
<1> QED
  BY <1>1, OutputAssumption DEF Reads, NUL

LEMMA CallPosition ==
  ASSUME OutputInv, NEW u \in Threads, Call(u)
  PROVE  Position(u)'
<1>1. /\ pc'[u] = "while" /\ reg'[u] = 0 /\ i'[Process(u)] = 0
      /\ printed'[u] = <<>> /\ str'[u] \in Formats
  BY OwnFacts DEF Call, Goto, Meets, Others, Inside
<1>2. Len(str'[u]) \in Nat
  BY <1>1, FormatFacts
<1> QED
  BY <1>1, <1>2, NothingPrinted DEF Position

LEMMA LiteralPosition ==
  ASSUME OutputInv, NEW u \in Threads, Literal(u), Alone(u)
  PROVE  Position(u)'
<1> DEFINE s == str[u]
           r == reg[u]
<1>1. /\ pc[u] = "while" /\ pc'[u] = "load"
      /\ UNCHANGED <<i, str, reg>> /\ i[Process(u)] = r
      /\ r <= Len(s) /\ PrintsUpTo(printed[u], s, r)
  BY OwnFacts DEF Literal, Goto, OutputInv, Position
<1>2. PICK c \in Chars \ {"%"} : Reads(s, r, c) /\ Prints(u, PlainPiece(c))
  BY DEF Literal, PlainPiece
<1>3. r < Len(s) /\ s[r + 1] = c
  BY <1>1, <1>2, OwnFacts, ReadsCharacter, OutputAssumption DEF NUL
<1>4. EndOf(s, r + 1) = r + 1 /\ Fits(PlainPiece(c), s, r + 1)
  BY <1>2, <1>3 DEF EndOf, Fits, PlainPiece
<1>5. printed'[u] = Append(printed[u], PlainPiece(c))
  BY <1>2, OwnFacts DEF Prints, Alone
<1>6. PlainPiece(c) \in Pieces
  BY <1>2 DEF Pieces
<1>7. PrintsUpTo(Append(printed[u], PlainPiece(c)), s, r + 1)
  <2>1. r + 1 \in r + 1 .. Len(s)
    BY <1>3, OwnFacts
  <2> QED
    BY <1>1, <1>3, <1>4, <1>6, <2>1, OwnFacts, PieceAppended
<1> QED
  BY <1>1, <1>3, <1>5, <1>7 DEF Position

(* Before the bound the index counts up.                                   *)
LEMMA Advances ==
  ASSUME OutputInv, NEW u \in Threads, Advance(u), reg[u] <= Len(str[u])
  PROVE  reg'[u] = reg[u] + 1 /\ i'[Process(u)] = reg[u] + 1
  BY OwnFacts DEF Advance

LEMMA PercentPosition ==
  ASSUME OutputInv, NEW u \in Threads, Percent(u), Alone(u)
  PROVE  Position(u)'
<1> DEFINE s == str[u]
           r == reg[u]
<1>1. /\ pc[u] = "while" /\ pc'[u] = "switch" /\ UNCHANGED <<str, printed>>
      /\ r <= Len(s) /\ PrintsUpTo(printed[u], s, r)
      /\ Advance(u) /\ Reads(s, r, "%")
  BY OwnFacts DEF Percent, Goto, OutputInv, Position
<1>2. r < Len(s) /\ s[r + 1] = "%"
  BY <1>1, OwnFacts, ReadsCharacter DEF NUL
<1>3. reg'[u] = r + 1 /\ i'[Process(u)] = r + 1
  BY <1>1, Advances
<1>4. /\ r + 1 \in 1 .. r + 1 /\ r + 1 <= Len(s) /\ (r + 1) - 1 = r
      /\ \A k \in (r + 1) + 1 .. r + 1 : s[k] \in Digits
  BY <1>2, OwnFacts
<1> QED
  BY <1>1, <1>2, <1>3, <1>4 DEF Position

LEMMA WidthPosition ==
  ASSUME OutputInv, NEW u \in Threads, Width(u), Alone(u)
  PROVE  Position(u)'
<1> DEFINE s == str[u]
           r == reg[u]
<1>1. /\ pc[u] = "switch" /\ pc' = pc /\ UNCHANGED <<str, printed>>
      /\ r <= Len(s) /\ Advance(u)
  BY OwnFacts DEF Width, OutputInv, Position
<1>2. PICK c \in Chars \intersect Digits : Reads(s, r, c)
  BY DEF Width
<1>3. PICK b \in 1 .. r : /\ s[b] = "%" /\ \A k \in b + 1 .. r : s[k] \in Digits
                          /\ PrintsUpTo(printed[u], s, b - 1)
  BY <1>1 DEF OutputInv, Position
<1>4. r < Len(s) /\ s[r + 1] = c
  BY <1>1, <1>2, OwnFacts, ReadsCharacter, OutputAssumption DEF NUL
<1>5. reg'[u] = r + 1 /\ i'[Process(u)] = r + 1
  BY <1>1, Advances
<1>6. /\ b \in 1 .. r + 1 /\ r + 1 <= Len(s)
      /\ \A k \in b + 1 .. r + 1 : s[k] \in Digits
  BY <1>2, <1>3, <1>4, OwnFacts
<1> QED
  BY <1>1, <1>3, <1>5, <1>6 DEF Position

LEMMA ConvertPosition ==
  ASSUME OutputInv, NEW u \in Threads, Convert(u), Alone(u)
  PROVE  Position(u)'
<1> DEFINE s == str[u]
           r == reg[u]
<1>1. /\ pc[u] = "switch" /\ pc'[u] = "load"
      /\ UNCHANGED <<i, str, reg>> /\ i[Process(u)] = r /\ r <= Len(s)
  BY OwnFacts DEF Convert, Goto, OutputInv, Position
<1>2. PICK c \in Conversions, n \in Args :
        Reads(s, r, c) /\ Prints(u, ConvertedPiece(c, n))
  BY DEF Convert, Conversions, ConvertedPiece
<1>3. PICK b \in 1 .. r : /\ s[b] = "%" /\ \A k \in b + 1 .. r : s[k] \in Digits
                          /\ PrintsUpTo(printed[u], s, b - 1)
  BY <1>1 DEF OutputInv, Position
<1>4. b \in 1 .. Len(s) /\ r \in b .. Len(s) /\ b - 1 \in Nat /\ (b - 1) + 1 = b
  BY <1>1, OwnFacts
<1>5. r + 1 \in 1 .. Len(s) /\ (s[r + 1] \notin Digits => EndOf(s, b) = r + 1)
  BY <1>3, <1>4, OwnFacts, ConversionEnds
<1>6. s[r + 1] = c /\ r < Len(s)
  BY <1>1, <1>2, <1>5, OwnFacts, ReadsCharacter
<1>7. EndOf(s, b) = r + 1
  BY <1>2, <1>5, <1>6 DEF Conversions
<1>8. Fits(ConvertedPiece(c, n), s, b)
  <2>1. IsText(Converted(c, n), c, n)
    BY ConvertedRight
  <2> QED
    BY <1>3, <1>6, <1>7, <2>1 DEF Fits, ConvertedPiece
<1>9. printed'[u] = Append(printed[u], ConvertedPiece(c, n))
  BY <1>2, OwnFacts DEF Prints, Alone
<1>10. ConvertedPiece(c, n) \in Pieces
  BY DEF Pieces
<1>11. PrintsUpTo(Append(printed[u], ConvertedPiece(c, n)), s, r + 1)
  <2>1. r + 1 \in b .. Len(s) /\ b - 1 < Len(s)
    BY <1>4, <1>5, OwnFacts
  <2> QED
    BY <1>3, <1>4, <1>7, <1>8, <1>10, <2>1, OwnFacts, PieceAppended
<1> QED
  BY <1>1, <1>6, <1>9, <1>11 DEF Position

LEMMA CountPosition ==
  ASSUME OutputInv, NEW u \in Threads, Load(u) \/ Store(u), Alone(u)
  PROVE  Position(u)'
<1> DEFINE s == str[u]
           r == reg[u]
<1>1. /\ i[Process(u)] = r /\ r < Len(s) /\ PrintsUpTo(printed[u], s, r + 1)
      /\ UNCHANGED <<str, printed>>
  BY DEF OutputInv, Position, Load, Store
<1>2. CASE Load(u)
  <2>1. pc'[u] = "store" /\ reg'[u] = r /\ i'[Process(u)] = r
    BY <1>1, <1>2, OwnFacts DEF Load, Goto
  <2> QED
    BY <1>1, <2>1 DEF Position
<1>3. CASE Store(u)
  <2>1. pc'[u] = "while" /\ Advance(u) /\ r <= Len(s)
    BY <1>1, <1>3, OwnFacts DEF Store, Goto
  <2>2. reg'[u] = r + 1 /\ i'[Process(u)] = r + 1 /\ r + 1 <= Len(s)
    BY <1>1, <2>1, OwnFacts, Advances
  <2> QED
    BY <1>1, <2>1, <2>2 DEF Position
<1> QED
  BY <1>2, <1>3

(* A thread that is alone stays so until another of its process calls.     *)
LEMMA StepOutputInv == OutputInv /\ [Next]_vars => OutputInv'
<1> SUFFICES ASSUME OutputInv, [Next]_vars PROVE OutputInv'
  OBVIOUS
<1>1. Typed'
  BY StepTyped DEF OutputInv
<1>2. CASE UNCHANGED vars
  BY <1>1, <1>2 DEF OutputInv, Alone, Inside, Others, Position, vars
<1>3. ASSUME NEW u \in Threads, Step(u), NEW t \in Threads, Alone(t)'
      PROVE  (Others(t) = {} /\ Position(t))'
  <2>1. Typed
    BY DEF OutputInv
  <2>2. \A w \in Threads \ {u} : pc'[w] = pc[w]
    BY <1>3, <2>1, OtherThreads
  <2>3. ~Inside(u) => Call(u)
    BY <1>3 DEF Inside, Step, Return, Literal, Percent, Width, Convert, Load, Store
  <2>4. CASE t # u
    <3>1. /\ pc'[t] = pc[t] /\ str'[t] = str[t] /\ reg'[t] = reg[t]
          /\ Process(t) # Process(u) => i'[Process(t)] = i[Process(t)]
          /\ shared'[t] = (shared[t] \/ (~Inside(u) /\ t \in Others(u)))
          /\ printed'[t] = IF ~Inside(u) /\ t \in Others(u) THEN <<>> ELSE printed[t]
      BY <1>3, <2>1, <2>4, OtherThreads
    <3>2. Alone(t) /\ ~(~Inside(u) /\ t \in Others(u))
      BY <1>3, <3>1 DEF Alone, Inside
    <3>3. Others(t) = {} /\ Position(t)
      BY <3>2 DEF OutputInv
    <3>4. Process(t) # Process(u)
      BY <2>4, <3>2, <3>3 DEF Others, Alone
    <3>5. Others(t)' = {}
      BY <2>2, <3>3, <3>4 DEF Others, Inside
    <3> QED
      BY <3>1, <3>2, <3>3, <3>4, <3>5 DEF Position
  <2>5. CASE t = u
    <3>1. CASE Call(u)
      <4>1. Others(u) = {}
        BY <1>3, <2>1, <2>5, <3>1 DEF Call, Meets, Alone
      <4>2. Others(u)' = {}
        BY <2>2, <4>1 DEF Others, Inside
      <4> QED
        BY <2>5, <3>1, <4>2, CallPosition
    <3>2. CASE ~Call(u)
      <4>1. Inside(u) /\ Alone(u) /\ ~Return(u)
        <5>1. Inside(u)
          BY <2>3, <3>2
        <5>2. pc'[u] # "outside" /\ ~shared'[u]
          BY <1>3, <2>5 DEF Alone, Inside
        <5>3. shared'[u] = shared[u]
          BY <1>3, <2>1, <5>1, <5>2, OwnTypes
        <5>4. ~Return(u)
          BY <2>1, <5>2 DEF Return, Goto, Typed, OutputTypeOK
        <5> QED
          BY <5>1, <5>2, <5>3, <5>4 DEF Alone
      <4>2. Others(u) = {}
        BY <4>1 DEF OutputInv
      <4>3. Others(u)' = {}
        BY <2>2, <4>2 DEF Others, Inside
      <4>4. Position(u)'
        BY <1>3, <3>2, <4>1, LiteralPosition, PercentPosition, WidthPosition,
           ConvertPosition, CountPosition DEF Step
      <4> QED
        BY <2>5, <4>3, <4>4
    <3> QED
      BY <3>1, <3>2
  <2> QED
    BY <2>4, <2>5
<1>4. CASE Next
  <2>1. PICK u \in Threads : Step(u)
    BY <1>4 DEF Next
  <2>2. \A t \in Threads : Alone(t)' => (Others(t) = {} /\ Position(t))'
    BY <1>3, <2>1
  <2> QED
    BY <1>1, <2>2 DEF OutputInv
<1> QED
  BY <1>2, <1>4

(* A call that ends has reached the end of its format.                     *)
LEMMA ReturnsAtEnd ==
  ASSUME OutputInv, [Next]_vars, NEW t \in Threads, Inside(t), ~Inside(t)', ~shared[t]
  PROVE  Prescribed(printed[t], str[t])
<1>1. PICK u \in Threads : Step(u)
  BY DEF Next, vars, Inside
<1>2. Typed
  BY DEF OutputInv
<1>3. u = t
  BY <1>1, <1>2, OtherThreads DEF Inside
<1>4. Return(t)
  BY <1>1, <1>2, <1>3
  DEF Step, Call, Literal, Percent, Width, Convert, Load, Store, Goto, Inside,
      Typed, OutputTypeOK
<1>5. reg[t] <= Len(str[t]) /\ PrintsUpTo(printed[t], str[t], reg[t])
  BY <1>4 DEF OutputInv, Alone, Position, Return
<1>6. reg[t] = Len(str[t])
  BY <1>4, <1>5, OwnFacts, ReadsCharacter DEF Return
<1> QED
  BY <1>5, <1>6, OwnFacts, AllPrinted

(* A call of usr_kprintf prints what its format asks for, from the first   *)
(* to the last character, unless another thread of the process has been in *)
(* it meanwhile: for every format, every argument and every width of words *)
(* and however threads of other processes are interleaved.                 *)
THEOREM CallsPrintTheirFormat == Spec => PrintsItsFormat
<1>1. OutputInv /\ [Next]_vars =>
        [\A t \in Threads :
           Inside(t) /\ ~Inside(t)' /\ ~shared[t] => Prescribed(printed[t], str[t])]_vars
  BY ReturnsAtEnd
<1>2. Init => OutputInv
  BY InitOutputInv
<1>3. OutputInv /\ [Next]_vars => OutputInv'
  BY StepOutputInv
<1> QED
  BY <1>1, <1>2, <1>3, PTL DEF Spec, PrintsItsFormat

(* A call that no other thread of the process disturbs reads no character  *)
(* behind the NUL of its format, whatever the format and however long: the *)
(* index that user_kprintf.c counts up in a global (:6) is then its own.   *)
THEOREM AloneInFormat == Spec => []AloneStaysInFormat
<1>1. OutputInv => AloneStaysInFormat
  <2> SUFFICES ASSUME OutputInv, NEW t \in Threads, Inside(t), ~shared[t]
               PROVE  reg[t] <= Len(str[t])
    BY DEF AloneStaysInFormat
  <2>1. Position(t) /\ pc[t] \in {"while", "switch", "load", "store"}
    BY DEF OutputInv, Alone, Inside, Typed, OutputTypeOK
  <2> QED
    BY <2>1, OwnFacts DEF Position
<1>2. Init => OutputInv
  BY InitOutputInv
<1>3. OutputInv /\ [Next]_vars => OutputInv'
  BY StepOutputInv
<1> QED
  BY <1>1, <1>2, <1>3, PTL DEF Spec

=============================================================================
