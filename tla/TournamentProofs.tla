--------------------------- MODULE TournamentProofs ---------------------------
(***************************************************************************)
(* Tournament, for any number of players and handlers, any limit and any   *)
(* standings.                                                              *)
(***************************************************************************)
EXTENDS Tournament, FunctionTheorems, FiniteSetTheorems, WellFoundedInduction, TLAPS

-----------------------------------------------------------------------------
(* Numbers.  Nothing is known of x^y: that there are 2^n sets of n things  *)
(* is what the powers of two are learned from.                             *)
Less == {xy \in Nat \X Nat : xy[1] < xy[2]}

LEMMA Least ==
  ASSUME NEW T \in SUBSET Nat, T # {}
  PROVE  \E x \in T : \A y \in T : x <= y
<1>1. IsWellFoundedOn(Less, Nat)
  BY NatLessThanWellFounded DEF OpToRel, Less
<1>2. PICK x \in T : \A y \in T : <<y, x>> \notin Less
  BY <1>1, WFMin
<1>3. ASSUME NEW y \in T  PROVE x <= y
  <2>1. <<y, x>> \notin Less /\ x \in Nat /\ y \in Nat
    BY <1>2
  <2>2. <<y, x>> \in Nat \X Nat /\ <<y, x>>[1] = y /\ <<y, x>>[2] = x
    BY <2>1
  <2> QED BY <2>1, <2>2 DEF Less
<1> QED BY <1>3

LEMMA Greatest ==
  ASSUME NEW N \in Nat, NEW T \in SUBSET (0..N), T # {}
  PROVE  \E x \in T : \A y \in T : y <= x
<1>1. PICK U : U = {z \in 0..N : N - z \in T}
  OBVIOUS
<1>2. U \in SUBSET Nat
  BY <1>1
<1>3. PICK t : t \in T
  OBVIOUS
<1>4. N - t \in 0..N /\ N - (N - t) = t
  BY <1>3
<1>5. N - t \in U
  BY <1>1, <1>3, <1>4
<1>6. PICK z \in U : \A w \in U : z <= w
  BY <1>2, <1>5, Least
<1>7. ASSUME NEW y \in T  PROVE y <= N - z
  <2>1. N - y \in 0..N /\ N - (N - y) = y
    OBVIOUS
  <2>2. z <= N - y
    BY <1>1, <1>6, <2>1
  <2> QED BY <1>1, <2>2
<1>8. N - z \in T
  BY <1>1
<1> QED BY <1>7, <1>8

LEMMA Power ==
  ASSUME NEW k \in Nat
  PROVE  2^k \in Nat /\ k < 2^k /\ 2^(k + 1) = 2 * 2^k
<1> DEFINE S == 1..k
           A == SUBSET S
           B == {T \cup {k + 1} : T \in A}
<1>1. IsFiniteSet(S) /\ Cardinality(S) = k
  BY FS_Interval
<1>2. IsFiniteSet(A) /\ Cardinality(A) = 2^k
  BY <1>1, FS_SUBSET
<1>3. 2^k \in Nat
  BY <1>2, FS_CardinalityType
<1>4. k < 2^k
  <2> DEFINE f == [i \in 0..k |-> IF i = 0 THEN {} ELSE {i}]
  <2>1. f \in [0..k -> A] /\ \A i, j \in 0..k : f[i] = f[j] => i = j
    OBVIOUS
  <2>2. f \in Injection(0..k, A)
    BY <2>1, Fun_IsInj
  <2>3. Cardinality(0..k) = k + 1
    BY FS_Interval
  <2>4. Cardinality(0..k) <= Cardinality(A)
    BY <1>2, <2>2, FS_Injection
  <2> QED BY <1>2, <1>3, <2>3, <2>4
<1>5. IsFiniteSet(B) /\ Cardinality(B) = 2^k
  <2> DEFINE f == [T \in A |-> T \cup {k + 1}]
  <2>1. \A T \in A : k + 1 \notin T
    OBVIOUS
  <2>2. f \in [A -> B]
    OBVIOUS
  <2>3. ASSUME NEW T \in A, NEW U \in A, f[T] = f[U]  PROVE T = U
    <3>1. T \cup {k + 1} = U \cup {k + 1}
      BY <2>3
    <3> QED BY <2>1, <3>1
  <2>4. ASSUME NEW V \in B  PROVE \E T \in A : f[T] = V
    <3>1. PICK T \in A : V = T \cup {k + 1}
      OBVIOUS
    <3> QED BY <3>1
  <2>5. f \in Bijection(A, B)
    <3> HIDE DEF f, A, B
    <3> QED BY <2>2, <2>3, <2>4, Fun_IsBij
  <2>6. ExistsBijection(A, B)
    BY <2>5 DEF ExistsBijection
  <2> HIDE DEF A, B
  <2> QED BY <1>2, <2>6, FS_Bijection
<1>6. A \cap B = {} /\ A \cup B = SUBSET (1..(k + 1))
  <2>1. ASSUME NEW T \in SUBSET (1..(k + 1))  PROVE T \in A \cup B
    <3>1. CASE k + 1 \in T
      <4>1. T \ {k + 1} \in A /\ T = (T \ {k + 1}) \cup {k + 1}
        BY <3>1
      <4> QED BY <4>1
    <3>2. CASE k + 1 \notin T
      BY <3>2
    <3> QED BY <3>1, <3>2
  <2>2. ASSUME NEW T \in A  PROVE k + 1 \notin T /\ T \in SUBSET (1..(k + 1))
    OBVIOUS
  <2>3. ASSUME NEW T \in B  PROVE k + 1 \in T /\ T \in SUBSET (1..(k + 1))
    <3>1. PICK U \in A : T = U \cup {k + 1}
      OBVIOUS
    <3> QED BY <3>1
  <2> HIDE DEF A, B
  <2> QED BY <2>1, <2>2, <2>3
<1>7. Cardinality(SUBSET (1..(k + 1))) = 2^k + 2^k
  <2>1. Cardinality(A \cup B) = Cardinality(A) + Cardinality(B) - Cardinality(A \cap B)
    BY <1>2, <1>5, FS_Union
  <2>2. Cardinality(A \cap B) = 0
    BY <1>6, FS_EmptySet
  <2>3. Cardinality(SUBSET (1..(k + 1))) = Cardinality(A) + Cardinality(B) - 0
    BY <1>6, <2>1, <2>2
  <2> HIDE DEF A, B
  <2> QED BY <1>2, <1>3, <1>5, <2>3
<1>8. Cardinality(SUBSET (1..(k + 1))) = 2^(k + 1)
  <2>1. IsFiniteSet(1..(k + 1)) /\ Cardinality(1..(k + 1)) = k + 1
    BY FS_Interval
  <2> QED BY <2>1, FS_SUBSET
<1> QED BY <1>3, <1>4, <1>7, <1>8

(* roundCount(): twice as many chairs as that many rounds need are not     *)
(* filled by the field.                                                    *)
LEMMA Rounds ==
  ASSUME NEW n \in Nat, n >= 2
  PROVE  /\ RoundCount(n) \in 1..n /\ n <= 2^RoundCount(n)
         /\ 2^(RoundCount(n) - 1) < n
<1> DEFINE T == {r \in 1..n : 2^r >= n}
<1>1. n \in T
  BY Power
<1>2. PICK r \in T : \A q \in T : r <= q
  <2>1. T \in SUBSET Nat
    OBVIOUS
  <2> HIDE DEF T
  <2> QED BY <1>1, <2>1, Least
<1>3. \A s \in 1..(r - 1) : 2^s < n
  BY <1>2, Power
<1>4. /\ RoundCount(n) \in 1..n /\ 2^RoundCount(n) >= n
      /\ \A s \in 1..(RoundCount(n) - 1) : 2^s < n
  BY <1>2, <1>3 DEF RoundCount
<1>5. 2^(RoundCount(n) - 1) < n
  <2>1. CASE RoundCount(n) = 1
    <3>1. 2^0 = 1
      OBVIOUS
    <3> QED BY <2>1, <3>1
  <2>2. CASE RoundCount(n) # 1
    BY <1>4, <2>2
  <2> QED BY <2>1, <2>2
<1>6. 2^RoundCount(n) \in Nat
  BY <1>4, Power
<1> QED BY <1>4, <1>5, <1>6

LEMMA PowersGrow ==
  ASSUME NEW i \in Nat, NEW j \in Nat, i <= j
  PROVE  2^i \in Nat /\ 2^j \in Nat /\ 2^i <= 2^j /\ 2^i >= 1
<1>1. IsFiniteSet(1..i) /\ Cardinality(1..i) = i /\ IsFiniteSet(1..j) /\ Cardinality(1..j) = j
  BY FS_Interval
<1>2. IsFiniteSet(SUBSET (1..j)) /\ Cardinality(SUBSET (1..j)) = 2^j /\ Cardinality(SUBSET (1..i)) = 2^i
  BY <1>1, FS_SUBSET
<1>3. SUBSET (1..i) \subseteq SUBSET (1..j)
  OBVIOUS
<1>4. Cardinality(SUBSET (1..i)) <= Cardinality(SUBSET (1..j))
  BY <1>2, <1>3, FS_Subset
<1>5. 2^i \in Nat /\ 2^j \in Nat /\ i < 2^i
  BY Power
<1> QED BY <1>2, <1>4, <1>5

-----------------------------------------------------------------------------
(* The shape of a bracket of n entrants.                                   *)

Sides == {"a", "b"}
Other(side) == IF side = "a" THEN "b" ELSE "a"

(* The match a chair is won in. *)
Before(pos, side) == <<pos[1] - 1, IF side = "a" THEN 2 * pos[2] - 1 ELSE 2 * pos[2]>>

LEMMA Place ==
  ASSUME NEW n \in Nat, n >= 2, NEW r \in 1..RoundCount(n), NEW s \in Nat,
         1 <= s, s <= 2^(RoundCount(n) - r)
  PROVE  <<r, s>> \in Positions(n)
<1>1. RoundCount(n) \in Nat /\ RoundCount(n) - r \in Nat /\ RoundCount(n) - 1 \in Nat
  BY Rounds
<1>2. 2^(RoundCount(n) - r) \in Nat /\ 2^(RoundCount(n) - 1) \in Nat
      /\ 2^(RoundCount(n) - r) <= 2^(RoundCount(n) - 1)
  BY <1>1, PowersGrow
<1>3. s \in 1..2^(RoundCount(n) - 1)
  BY <1>2
<1> QED BY <1>3 DEF Positions

LEMMA Placed ==
  ASSUME NEW n \in Nat, n >= 2, NEW x \in Positions(n)
  PROVE  /\ x = <<x[1], x[2]>> /\ x[1] \in 1..RoundCount(n) /\ x[2] \in Nat
         /\ 1 <= x[2] /\ x[2] <= 2^(RoundCount(n) - x[1])
         /\ RoundCount(n) \in Nat /\ 2^(RoundCount(n) - x[1]) \in Nat
         /\ (x[1] < RoundCount(n) =>
               /\ 2^(RoundCount(n) - (x[1] + 1)) \in Nat
               /\ 2^(RoundCount(n) - x[1]) = 2 * 2^(RoundCount(n) - (x[1] + 1)))
<1>1. RoundCount(n) \in Nat /\ RoundCount(n) - 1 \in Nat
  BY Rounds
<1>2. 2^(RoundCount(n) - 1) \in Nat
  BY <1>1, Power
<1>3. x = <<x[1], x[2]>> /\ x[1] \in 1..RoundCount(n) /\ x[2] \in 1..2^(RoundCount(n) - 1)
      /\ x[2] <= 2^(RoundCount(n) - x[1])
  BY DEF Positions
<1>4. RoundCount(n) - x[1] \in Nat
  BY <1>1, <1>3
<1>5. 2^(RoundCount(n) - x[1]) \in Nat
  BY <1>4, Power
<1>6. ASSUME x[1] < RoundCount(n)
      PROVE  /\ 2^(RoundCount(n) - (x[1] + 1)) \in Nat
             /\ 2^(RoundCount(n) - x[1]) = 2 * 2^(RoundCount(n) - (x[1] + 1))
  <2>1. PICK k \in Nat : k = RoundCount(n) - (x[1] + 1)
    BY <1>1, <1>3, <1>6
  <2>2. k + 1 = RoundCount(n) - x[1]
    BY <2>1, <1>1, <1>3
  <2>3. 2^k \in Nat /\ 2^(k + 1) = 2 * 2^k
    BY Power
  <2> QED BY <2>1, <2>2, <2>3
<1> QED BY <1>1, <1>2, <1>3, <1>5, <1>6

(* A winner's chair is in the bracket, and it is this match it is won in. *)
LEMMA Ahead ==
  ASSUME NEW n \in Nat, n >= 2, NEW x \in Positions(n), ~IsFinal(x, n)
  PROVE  /\ NextMatch(x) \in Positions(n) /\ NextSide(x) \in Sides
         /\ NextMatch(x)[1] = x[1] + 1
         /\ Before(NextMatch(x), NextSide(x)) = x
<1>1. /\ x = <<x[1], x[2]>> /\ x[1] \in 1..RoundCount(n) /\ x[2] \in Nat
      /\ 1 <= x[2] /\ x[2] <= 2^(RoundCount(n) - x[1]) /\ RoundCount(n) \in Nat
  BY Placed
<1>2. x[1] < RoundCount(n)
  BY <1>1 DEF IsFinal
<1>3. PICK half \in Nat : half = 2^(RoundCount(n) - (x[1] + 1)) /\ 2^(RoundCount(n) - x[1]) = 2 * half
  BY <1>2, Placed
<1>4. PICK r, s : r = x[1] + 1 /\ s = (x[2] + 1) \div 2
  OBVIOUS
<1>5. NextMatch(x) = <<r, s>>
  BY <1>4 DEF NextMatch
<1>6. x[2] <= 2 * half
  BY <1>1, <1>3
<1>7. s \in Nat /\ 1 <= s /\ s <= half
  BY <1>1, <1>4, <1>6
<1>8. r \in 1..RoundCount(n) /\ s <= 2^(RoundCount(n) - r)
  BY <1>1, <1>2, <1>3, <1>4, <1>7
<1>9. <<r, s>> \in Positions(n)
  BY <1>7, <1>8, Place
<1>10. NextSide(x) \in Sides
  BY DEF NextSide, Sides
<1>11. CASE x[2] % 2 = 1
  <2>1. 2 * s - 1 = x[2] /\ r - 1 = x[1]
    BY <1>1, <1>4, <1>11
  <2> QED BY <2>1, <1>1, <1>4, <1>5, <1>9, <1>10, <1>11 DEF Before, NextSide
<1>12. CASE x[2] % 2 # 1
  <2>1. 2 * s = x[2] /\ r - 1 = x[1]
    BY <1>1, <1>4, <1>12
  <2> QED BY <2>1, <1>1, <1>4, <1>5, <1>9, <1>10, <1>12 DEF Before, NextSide
<1> QED BY <1>11, <1>12

(* And back: every chair of a later round is won in a match of the bracket. *)
LEMMA Behind ==
  ASSUME NEW n \in Nat, n >= 2, NEW x \in Positions(n), x[1] > 1, NEW side \in Sides
  PROVE  /\ Before(x, side) \in Positions(n) /\ ~IsFinal(Before(x, side), n)
         /\ Before(x, side)[1] = x[1] - 1
         /\ NextMatch(Before(x, side)) = x /\ NextSide(Before(x, side)) = side
<1>1. /\ x = <<x[1], x[2]>> /\ x[1] \in 1..RoundCount(n) /\ x[2] \in Nat
      /\ 1 <= x[2] /\ x[2] <= 2^(RoundCount(n) - x[1]) /\ RoundCount(n) \in Nat
  BY Placed
<1>2. PICK r, s : r = x[1] - 1 /\ s = IF side = "a" THEN 2 * x[2] - 1 ELSE 2 * x[2]
  OBVIOUS
<1>3. Before(x, side) = <<r, s>>
  BY <1>2 DEF Before
<1>4. PICK k \in Nat : k = RoundCount(n) - x[1]
  BY <1>1
<1>5. 2^k \in Nat /\ 2^(k + 1) = 2 * 2^k
  BY Power
<1>6. RoundCount(n) - r = k + 1
  BY <1>1, <1>2, <1>4
<1>7. s \in Nat /\ 1 <= s /\ s <= 2 * x[2]
  BY <1>1, <1>2
<1>8. x[2] <= 2^k
  BY <1>1, <1>4
<1>9. s <= 2 * 2^k
  BY <1>1, <1>5, <1>7, <1>8
<1>10. r \in 1..RoundCount(n) /\ r < RoundCount(n)
  BY <1>1, <1>2
<1>11. <<r, s>> \in Positions(n)
  BY <1>5, <1>6, <1>7, <1>9, <1>10, Place
<1>12. ~IsFinal(<<r, s>>, n)
  BY <1>1, <1>10 DEF IsFinal
<1>13. (s + 1) \div 2 = x[2] /\ r + 1 = x[1]
  BY <1>1, <1>2
<1>14. NextMatch(<<r, s>>) = x
  BY <1>1, <1>13 DEF NextMatch
<1>15. NextSide(<<r, s>>) = side
  <2>1. CASE side = "a"
    <3>1. s % 2 = 1
      BY <1>1, <1>2, <2>1
    <3> QED BY <3>1, <2>1 DEF NextSide
  <2>2. CASE side = "b"
    <3>1. s % 2 = 0
      BY <1>1, <1>2, <2>2
    <3> QED BY <3>1, <2>2 DEF NextSide
  <2> QED BY <2>1, <2>2 DEF Sides
<1> QED BY <1>2, <1>3, <1>11, <1>12, <1>14, <1>15

(* There is one final. *)
LEMMA OneFinal ==
  ASSUME NEW n \in Nat, n >= 2, NEW x \in Positions(n), IsFinal(x, n)
  PROVE  x = <<RoundCount(n), 1>>
<1>1. /\ x = <<x[1], x[2]>> /\ x[1] \in 1..RoundCount(n) /\ x[2] \in Nat
      /\ 1 <= x[2] /\ x[2] <= 2^(RoundCount(n) - x[1]) /\ RoundCount(n) \in Nat
  BY Placed
<1>2. x[1] = RoundCount(n)
  BY <1>1 DEF IsFinal
<1>3. PICK k \in Nat : k = RoundCount(n) - x[1] /\ k = 0
  BY <1>1, <1>2
<1>4. 2^k = 1
  <2>1. 2^0 = 1
    OBVIOUS
  <2> QED BY <1>3, <2>1, Zenon
<1>5. x[2] = 1
  BY <1>1, <1>3, <1>4
<1> QED BY <1>1, <1>2, <1>5

LEMMA FirstPlaces ==
  ASSUME NEW n \in Nat, n >= 2
  PROVE  /\ \A x \in Positions(n) : x[1] = 1 => x = <<1, x[2]>> /\ x[2] \in 1..2^(RoundCount(n) - 1)
         /\ \A slot \in 1..2^(RoundCount(n) - 1) : <<1, slot>> \in Positions(n)
<1>1. RoundCount(n) \in Nat /\ 1 \in 1..RoundCount(n) /\ 2^(RoundCount(n) - 1) \in Nat
  <2>1. RoundCount(n) \in Nat /\ 1 \in 1..RoundCount(n) /\ RoundCount(n) - 1 \in Nat
    BY Rounds
  <2> QED BY <2>1, Power
<1>2. \A slot \in 1..2^(RoundCount(n) - 1) : <<1, slot>> \in Positions(n)
  BY <1>1, Place
<1>3. ASSUME NEW x \in Positions(n), x[1] = 1
      PROVE  x = <<1, x[2]>> /\ x[2] \in 1..2^(RoundCount(n) - 1)
  BY <1>1, <1>3, Placed
<1> QED BY <1>2, <1>3

-----------------------------------------------------------------------------
(* seedOrder(), one doubling at a time.                                    *)

Doubled(k, order) ==
  [i \in 1..2^k |-> IF i % 2 = 1 THEN order[(i + 1) \div 2] ELSE 2^k + 1 - order[i \div 2]]

AreOrders(g, rounds) ==
  g = [k \in 1..rounds |-> IF k = 1 THEN <<1, 2>> ELSE Doubled(k, g[k - 1])]

(* The definition by recursion defines something, *)
LEMMA OrdersExist ==
  ASSUME NEW rounds \in Nat, rounds >= 1
  PROVE  \E g : AreOrders(g, rounds)
<1> DEFINE T == {k \in Nat : k >= 1 /\ ~\E g : AreOrders(g, k)}
<1>1. SUFFICES ASSUME T # {}  PROVE FALSE
  OBVIOUS
<1>2. T \in SUBSET Nat
  OBVIOUS
<1>3. PICK k \in T : \A j \in T : k <= j
  <2> HIDE DEF T
  <2> QED BY <1>1, <1>2, Least
<1>4. CASE k = 1
  <2>1. PICK g : g = [j \in 1..1 |-> <<1, 2>>]
    OBVIOUS
  <2>2. AreOrders(g, 1)
    BY <2>1 DEF AreOrders
  <2> QED BY <1>4, <2>2
<1>5. CASE k # 1
  <2>1. k - 1 \in Nat /\ k - 1 >= 1 /\ k \in Nat
    BY <1>5
  <2>2. k - 1 \notin T
    BY <1>3, <2>1
  <2>3. PICK g : AreOrders(g, k - 1)
    BY <2>1, <2>2
  <2>4. PICK f : f = [j \in 1..k |-> IF j = k THEN Doubled(k, g[k - 1]) ELSE g[j]]
    OBVIOUS
  <2>5. ASSUME NEW j \in 1..k
        PROVE  f[j] = IF j = 1 THEN <<1, 2>> ELSE Doubled(j, f[j - 1])
    <3>1. CASE j = k
      <4>1. k - 1 \in 1..k /\ k - 1 # k
        BY <2>1
      <4>2. f[k - 1] = g[k - 1]
        BY <2>4, <4>1
      <4> QED BY <2>4, <4>2, <3>1, <1>5
    <3>2. CASE j # k
      <4>1. j \in 1..(k - 1)
        BY <3>2, <2>1
      <4>2. f[j] = g[j]
        BY <2>4, <3>2
      <4>3. g[j] = IF j = 1 THEN <<1, 2>> ELSE Doubled(j, g[j - 1])
        BY <2>3, <4>1 DEF AreOrders
      <4>4. j # 1 => f[j - 1] = g[j - 1]
        <5>1. j # 1 => j - 1 \in 1..k /\ j - 1 # k
          BY <4>1, <2>1
        <5> QED BY <2>4, <5>1
      <4> QED BY <4>2, <4>3, <4>4
    <3> QED BY <3>1, <3>2
  <2>6. f = [j \in 1..k |-> IF j = 1 THEN <<1, 2>> ELSE Doubled(j, f[j - 1])]
    <3>1. f = [j \in 1..k |-> f[j]]
      BY <2>4
    <3> QED BY <2>5, <3>1
  <2>7. AreOrders(f, k)
    BY <2>6 DEF AreOrders
  <2> QED BY <2>7, <1>3
<1> QED BY <1>4, <1>5

(* and only one thing. *)
LEMMA OrdersAgree ==
  ASSUME NEW p \in Nat, NEW q \in Nat, p <= q,
         NEW f, NEW g, AreOrders(f, p), AreOrders(g, q)
  PROVE  \A k \in 1..p : f[k] = g[k]
<1> DEFINE T == {k \in 1..p : f[k] # g[k]}
<1>1. SUFFICES ASSUME T # {}  PROVE FALSE
  OBVIOUS
<1>2. T \in SUBSET Nat
  OBVIOUS
<1>3. PICK k \in T : \A j \in T : k <= j
  <2> HIDE DEF T
  <2> QED BY <1>1, <1>2, Least
<1>4. /\ k \in 1..p /\ k \in 1..q
      /\ f[k] = (IF k = 1 THEN <<1, 2>> ELSE Doubled(k, f[k - 1]))
      /\ g[k] = (IF k = 1 THEN <<1, 2>> ELSE Doubled(k, g[k - 1]))
  <2>1. k \in 1..p /\ k \in 1..q
    OBVIOUS
  <2>2. f[k] = (IF k = 1 THEN <<1, 2>> ELSE Doubled(k, f[k - 1]))
    BY <2>1 DEF AreOrders
  <2>3. g[k] = (IF k = 1 THEN <<1, 2>> ELSE Doubled(k, g[k - 1]))
    BY <2>1 DEF AreOrders
  <2> QED BY <2>1, <2>2, <2>3
<1>5. CASE k = 1
  BY <1>4, <1>5
<1>6. CASE k # 1
  <2>1. k - 1 \in 1..p /\ ~(k <= k - 1)
    BY <1>4, <1>6
  <2>2. f[k - 1] = g[k - 1]
    BY <1>3, <2>1
  <2> QED BY <1>4, <1>6, <2>2
<1> QED BY <1>5, <1>6

LEMMA SeedOrderIs ==
  ASSUME NEW rounds \in Nat, rounds >= 1, NEW g, AreOrders(g, rounds)
  PROVE  SeedOrder(rounds) = g[rounds]
<1>1. \E h : AreOrders(h, rounds) /\ SeedOrder(rounds) = h[rounds]
  BY OrdersExist DEF SeedOrder, AreOrders, Doubled
<1> QED BY <1>1, OrdersAgree

(* So the order of one round more is the order doubled.                    *)
LEMMA SeedOrderDoubles ==
  ASSUME NEW k \in Nat, k >= 1
  PROVE  SeedOrder(1) = <<1, 2>> /\ SeedOrder(k + 1) = Doubled(k + 1, SeedOrder(k))
<1>1. PICK g : AreOrders(g, k + 1)
  BY OrdersExist
<1>2. ASSUME NEW j \in 1..(k + 1)  PROVE SeedOrder(j) = g[j]
  <2>1. j \in Nat /\ j >= 1
    OBVIOUS
  <2>2. PICK f : AreOrders(f, j)
    BY <2>1, OrdersExist
  <2>3. f[j] = g[j]
    BY <2>1, <2>2, <1>1, OrdersAgree
  <2> QED BY <2>1, <2>2, <2>3, SeedOrderIs
<1>3. 1 \in 1..(k + 1) /\ k \in 1..(k + 1) /\ k + 1 \in 1..(k + 1) /\ k + 1 # 1 /\ (k + 1) - 1 = k
  OBVIOUS
<1>4. g[1] = <<1, 2>> /\ g[k + 1] = Doubled(k + 1, g[k])
  BY <1>1, <1>3 DEF AreOrders
<1> QED BY <1>2, <1>3, <1>4

(* Every seed of the field is in the order once, beside the one that       *)
(* completes the sum.                                                      *)
IsOrder(order, size) ==
  /\ order \in [1..(2 * size) -> 1..(2 * size)]
  /\ \A i, j \in 1..(2 * size) : order[i] = order[j] => i = j
  /\ \A v \in 1..(2 * size) : \E i \in 1..(2 * size) : order[i] = v
  /\ \A s \in 1..size : order[2 * s - 1] + order[2 * s] = 2 * size + 1

LEMMA Halves ==
  ASSUME NEW half \in Nat
  PROVE  \A i \in 1..(2 * half) : \E s \in 1..half : i = 2 * s - 1 \/ i = 2 * s
<1>1. SUFFICES ASSUME NEW i \in 1..(2 * half)
               PROVE  \E s \in 1..half : i = 2 * s - 1 \/ i = 2 * s
  OBVIOUS
<1>2. PICK s : s = (i + 1) \div 2
  OBVIOUS
<1>3. s \in Int /\ (i = 2 * s - 1 \/ i = 2 * s)
  BY <1>2
<1>4. s \in 1..half
  BY <1>3
<1> QED BY <1>3, <1>4

LEMMA Mirrored ==
  ASSUME NEW half \in Nat, NEW v \in 1..half
  PROVE  /\ v \in 1..(2 * half) /\ 2 * half + 1 - v \in 1..(2 * half)
         /\ v + (2 * half + 1 - v) = 2 * half + 1 /\ 2 * half + 1 - v > half
OBVIOUS

LEMMA MirrorsDiffer ==
  ASSUME NEW half \in Nat, NEW v \in 1..half, NEW w \in 1..half
  PROVE  /\ v # 2 * half + 1 - w /\ 2 * half + 1 - v # w
         /\ (2 * half + 1 - v = 2 * half + 1 - w => v = w)
OBVIOUS

(* A doubling leaves the upper half in place and puts the lower beside it. *)
LEMMA DoublingOrders ==
  ASSUME NEW k \in Nat, NEW half \in Nat, half = 2^k, half >= 1,
         NEW order \in [1..half -> 1..half],
         \A i, j \in 1..half : order[i] = order[j] => i = j,
         \A v \in 1..half : \E i \in 1..half : order[i] = v
  PROVE  /\ IsOrder(Doubled(k + 1, order), half)
         /\ \A s \in 1..half : /\ Doubled(k + 1, order)[2 * s - 1] = order[s]
                               /\ Doubled(k + 1, order)[2 * s] > half
<1>1. 2^(k + 1) = 2 * half
  BY Power
<1>2. PICK d : d = Doubled(k + 1, order)
  OBVIOUS
<1>3. d = [i \in 1..(2 * half) |-> IF i % 2 = 1 THEN order[(i + 1) \div 2]
                                   ELSE 2 * half + 1 - order[i \div 2]]
  BY <1>1, <1>2 DEF Doubled
<1>4. ASSUME NEW s \in 1..half
      PROVE  /\ 2 * s - 1 \in 1..(2 * half) /\ 2 * s \in 1..(2 * half)
             /\ order[s] \in 1..half
             /\ d[2 * s - 1] = order[s] /\ d[2 * s] = 2 * half + 1 - order[s]
  <2>1. /\ 2 * s - 1 \in 1..(2 * half) /\ (2 * s - 1) % 2 = 1 /\ ((2 * s - 1) + 1) \div 2 = s
        /\ 2 * s \in 1..(2 * half) /\ (2 * s) % 2 = 0 /\ (2 * s) \div 2 = s
    OBVIOUS
  <2>2. order[s] \in 1..half
    OBVIOUS
  <2>3. d[2 * s - 1] = order[s]
    <3>1. PICK i \in 1..(2 * half) : i = 2 * s - 1 /\ i % 2 = 1 /\ (i + 1) \div 2 = s
      BY <2>1
    <3>2. d[i] = order[(i + 1) \div 2]
      BY <1>3, <3>1
    <3> QED BY <3>1, <3>2
  <2>4. d[2 * s] = 2 * half + 1 - order[s]
    <3>1. PICK i \in 1..(2 * half) : i = 2 * s /\ i % 2 # 1 /\ i \div 2 = s
      BY <2>1
    <3>2. d[i] = 2 * half + 1 - order[i \div 2]
      BY <1>3, <3>1
    <3> QED BY <3>1, <3>2
  <2> QED BY <2>1, <2>2, <2>3, <2>4
<1>5. \A i \in 1..(2 * half) : \E s \in 1..half : i = 2 * s - 1 \/ i = 2 * s
  BY Halves
<1>6. ASSUME NEW i \in 1..(2 * half)  PROVE d[i] \in 1..(2 * half)
  <2>1. PICK s \in 1..half : i = 2 * s - 1 \/ i = 2 * s
    BY <1>5
  <2>2. PICK v \in 1..half : v = order[s]
    BY <1>4
  <2>3. (i = 2 * s - 1 => d[i] = v) /\ (i = 2 * s => d[i] = 2 * half + 1 - v)
    BY <1>4, <2>2
  <2>4. v \in 1..(2 * half) /\ 2 * half + 1 - v \in 1..(2 * half)
    BY <2>2, Mirrored
  <2> QED BY <2>1, <2>3, <2>4
<1>7. d \in [1..(2 * half) -> 1..(2 * half)]
  BY <1>3, <1>6
<1>8. ASSUME NEW i \in 1..(2 * half), NEW j \in 1..(2 * half), d[i] = d[j]  PROVE i = j
  <2>1. PICK s \in 1..half : i = 2 * s - 1 \/ i = 2 * s
    BY <1>5
  <2>2. PICK t \in 1..half : j = 2 * t - 1 \/ j = 2 * t
    BY <1>5
  <2>3. order[s] \in 1..half /\ (i = 2 * s - 1 => d[i] = order[s])
        /\ (i = 2 * s => d[i] = 2 * half + 1 - order[s])
    BY <1>4
  <2>4. order[t] \in 1..half /\ (j = 2 * t - 1 => d[j] = order[t])
        /\ (j = 2 * t => d[j] = 2 * half + 1 - order[t])
    BY <1>4
  <2>5. PICK v \in 1..half, w \in 1..half : v = order[s] /\ w = order[t]
    BY <2>3, <2>4
  <2>6. /\ v # 2 * half + 1 - w /\ 2 * half + 1 - v # w
        /\ (2 * half + 1 - v = 2 * half + 1 - w => v = w)
    BY MirrorsDiffer
  <2>7. v = w
    BY <1>8, <2>1, <2>2, <2>3, <2>4, <2>5, <2>6
  <2>8. s = t
    BY <2>5, <2>7
  <2>9. i = 2 * s - 1 <=> j = 2 * t - 1
    BY <1>8, <2>1, <2>2, <2>3, <2>4, <2>5, <2>6
  <2> QED BY <2>1, <2>2, <2>8, <2>9
<1>9. ASSUME NEW v \in 1..(2 * half)  PROVE \E i \in 1..(2 * half) : d[i] = v
  <2>1. CASE v <= half
    <3>1. PICK s \in 1..half : order[s] = v
      BY <2>1
    <3> QED BY <3>1, <1>4
  <2>2. CASE v > half
    <3>1. 2 * half + 1 - v \in 1..half
      BY <2>2
    <3>2. PICK s \in 1..half : order[s] = 2 * half + 1 - v
      BY <3>1
    <3>3. 2 * half + 1 - order[s] = v
      BY <3>2
    <3> QED BY <3>3, <1>4
  <2> QED BY <2>1, <2>2
<1>10. ASSUME NEW s \in 1..half
       PROVE  d[2 * s - 1] + d[2 * s] = 2 * half + 1 /\ d[2 * s] > half
  <2>1. PICK v \in 1..half : v = order[s]
    BY <1>4
  <2>2. d[2 * s - 1] = v /\ d[2 * s] = 2 * half + 1 - v
    BY <1>4, <2>1
  <2>3. v + (2 * half + 1 - v) = 2 * half + 1 /\ 2 * half + 1 - v > half
    BY <2>1, Mirrored
  <2> QED BY <2>2, <2>3
<1>11. IsOrder(d, half)
  BY <1>7, <1>8, <1>9, <1>10 DEF IsOrder
<1> QED BY <1>2, <1>4, <1>10, <1>11

LEMMA SeedOrders ==
  ASSUME NEW k \in Nat
  PROVE  IsOrder(SeedOrder(k + 1), 2^k)
<1> DEFINE T == {j \in Nat : ~IsOrder(SeedOrder(j + 1), 2^j)}
<1>1. SUFFICES ASSUME T # {}  PROVE FALSE
  OBVIOUS
<1>2. T \in SUBSET Nat
  OBVIOUS
<1>3. PICK j \in T : \A i \in T : j <= i
  <2> HIDE DEF T
  <2> QED BY <1>1, <1>2, Least
<1>4. CASE j = 0
  <2>1. 2^0 = 1
    OBVIOUS
  <2>2. SeedOrder(1) = <<1, 2>>
    BY SeedOrderDoubles
  <2>3. IsOrder(<<1, 2>>, 1)
    <3>1. <<1, 2>> \in [1..(2 * 1) -> 1..(2 * 1)] /\ 1..(2 * 1) = {1, 2}
      OBVIOUS
    <3>2. \A s \in 1..1 : <<1, 2>>[2 * s - 1] + <<1, 2>>[2 * s] = 2 * 1 + 1
      OBVIOUS
    <3> QED BY <3>1, <3>2 DEF IsOrder
  <2> QED BY <1>3, <1>4, <2>1, <2>2, <2>3
<1>5. CASE j # 0
  <2>1. PICK i \in Nat : i + 1 = j
    BY <1>3, <1>5
  <2>2. i \notin T
    BY <1>3, <2>1
  <2>3. PICK half \in Nat : half = 2^i
    BY Power
  <2>4. PICK size \in Nat : size = 2^j /\ size = 2 * half /\ size >= 1
    <3>1. 2^i \in Nat /\ 2^(i + 1) = 2 * 2^i /\ 2^j \in Nat /\ j < 2^j
      BY Power
    <3> QED BY <3>1, <2>1, <2>3
  <2>5. IsOrder(SeedOrder(j), half)
    BY <2>1, <2>2, <2>3
  <2>6. SeedOrder(j + 1) = Doubled(j + 1, SeedOrder(j))
    BY <1>3, <2>1, SeedOrderDoubles
  <2>7. IsOrder(Doubled(j + 1, SeedOrder(j)), size)
    <3>1. PICK o : o = SeedOrder(j)
      OBVIOUS
    <3>2. /\ o \in [1..size -> 1..size]
          /\ \A x, y \in 1..size : o[x] = o[y] => x = y
          /\ \A v \in 1..size : \E x \in 1..size : o[x] = v
      BY <2>4, <2>5, <3>1 DEF IsOrder
    <3> QED BY <1>3, <2>4, <3>1, <3>2, DoublingOrders
  <2> QED BY <1>3, <2>4, <2>6, <2>7
<1> QED BY <1>4, <1>5

-----------------------------------------------------------------------------
(* firstRoundPairs(): the seeds by slot and side.                          *)

(* The place of a chair among the chairs of its round. *)
Chair(slot, side) == IF side = "a" THEN 2 * slot - 1 ELSE 2 * slot

FirstSlots(n) == 1..2^(RoundCount(n) - 1)

LEMMA FirstRoundIs ==
  ASSUME NEW n \in Nat, n >= 2, NEW slot \in FirstSlots(n), NEW side \in Sides
  PROVE  /\ DOMAIN FirstRound(n) = FirstSlots(n)
         /\ FirstRound(n)[slot] = [a |-> FirstRound(n)[slot].a, b |-> FirstRound(n)[slot].b]
         /\ FirstRound(n)[slot][side] =
              LET number == SeedOrder(RoundCount(n))[Chair(slot, side)]
              IN  IF number <= n THEN number ELSE Nil
<1>1. PICK order : order = SeedOrder(RoundCount(n))
  OBVIOUS
<1>2. FirstRound(n) = [t \in FirstSlots(n) |->
         [a |-> IF order[2 * t - 1] <= n THEN order[2 * t - 1] ELSE Nil,
          b |-> IF order[2 * t] <= n THEN order[2 * t] ELSE Nil]]
  BY <1>1 DEF FirstRound, FirstSlots
<1>3. FirstRound(n)[slot] =
         [a |-> IF order[2 * slot - 1] <= n THEN order[2 * slot - 1] ELSE Nil,
          b |-> IF order[2 * slot] <= n THEN order[2 * slot] ELSE Nil]
  BY <1>2
<1>4. DOMAIN FirstRound(n) = FirstSlots(n)
  BY <1>2
<1>5. CASE side = "a"
  BY <1>1, <1>3, <1>4, <1>5 DEF Chair
<1>6. CASE side = "b"
  BY <1>1, <1>3, <1>4, <1>6 DEF Chair
<1> QED BY <1>5, <1>6 DEF Sides

(* Everybody in the field has one chair; no two chairs of a match are both *)
(* empty, and whose opponent is missing is one of the best.                *)
LEMMA FirstRoundSeats ==
  ASSUME NEW n \in Nat, n >= 2
  PROVE  /\ \A slot \in FirstSlots(n), side \in Sides :
              /\ FirstRound(n)[slot][side] \in (1..n) \cup {Nil}
              /\ (FirstRound(n)[slot][side] # Nil =>
                    FirstRound(n)[slot][side] = SeedOrder(RoundCount(n))[Chair(slot, side)])
         /\ \A slot, slot2 \in FirstSlots(n) : \A side, side2 \in Sides :
              /\ FirstRound(n)[slot][side] # Nil
              /\ FirstRound(n)[slot][side] = FirstRound(n)[slot2][side2]
              => slot = slot2 /\ side = side2
         /\ \A v \in 1..n : \E slot \in FirstSlots(n) : \E side \in Sides :
              FirstRound(n)[slot][side] = v
         /\ \A slot \in FirstSlots(n), side \in Sides :
              FirstRound(n)[slot][side] # Nil =>
                (FirstRound(n)[slot][Other(side)] = Nil
                   <=> FirstRound(n)[slot][side] <= 2^RoundCount(n) - n)
         /\ \A slot \in FirstSlots(n), side \in Sides :
              FirstRound(n)[slot][side] = Nil => FirstRound(n)[slot][Other(side)] # Nil
<1>1. PICK k \in Nat : k + 1 = RoundCount(n)
  BY Rounds
<1>2. PICK half \in Nat : half = 2^k /\ 2^RoundCount(n) = 2 * half /\ half < n /\ n <= 2 * half
  <2>1. k = RoundCount(n) - 1 /\ 2^k \in Nat /\ 2^(k + 1) = 2 * 2^k
    BY <1>1, Power, Rounds
  <2> QED BY <1>1, <2>1, Rounds
<1>3. FirstSlots(n) = 1..half
  <2>1. k = RoundCount(n) - 1
    BY <1>1, Rounds
  <2> QED BY <1>2, <2>1 DEF FirstSlots
<1>4. PICK order : order = SeedOrder(RoundCount(n))
  OBVIOUS
<1>5. /\ order \in [1..(2 * half) -> 1..(2 * half)]
      /\ \A i, j \in 1..(2 * half) : order[i] = order[j] => i = j
      /\ \A v \in 1..(2 * half) : \E i \in 1..(2 * half) : order[i] = v
      /\ \A s \in 1..half : order[2 * s - 1] + order[2 * s] = 2 * half + 1
  <2>1. IsOrder(SeedOrder(k + 1), 2^k)
    BY SeedOrders
  <2>2. IsOrder(order, half)
    BY <1>1, <1>2, <1>4, <2>1
  <2> QED BY <2>2 DEF IsOrder
<1>6. ASSUME NEW slot \in 1..half, NEW side \in Sides
      PROVE  /\ Chair(slot, side) \in 1..(2 * half)
             /\ order[Chair(slot, side)] \in 1..(2 * half)
             /\ order[Chair(slot, Other(side))] = 2 * half + 1 - order[Chair(slot, side)]
             /\ Other(side) \in Sides
             /\ FirstRound(n)[slot][side] = IF order[Chair(slot, side)] <= n
                                              THEN order[Chair(slot, side)] ELSE Nil
             /\ FirstRound(n)[slot][Other(side)] =
                  IF order[Chair(slot, Other(side))] <= n
                    THEN order[Chair(slot, Other(side))] ELSE Nil
  <2>1. 2 * slot - 1 \in 1..(2 * half) /\ 2 * slot \in 1..(2 * half)
    OBVIOUS
  <2>2. PICK u \in 1..(2 * half), v \in 1..(2 * half) :
           u = order[2 * slot - 1] /\ v = order[2 * slot] /\ u + v = 2 * half + 1
    <3>1. order[2 * slot - 1] + order[2 * slot] = 2 * half + 1
      BY <1>5
    <3>2. order[2 * slot - 1] \in 1..(2 * half) /\ order[2 * slot] \in 1..(2 * half)
      BY <1>5, <2>1
    <3> QED BY <3>1, <3>2
  <2>3. u = 2 * half + 1 - v /\ v = 2 * half + 1 - u
    BY <2>2
  <2>4. Other(side) \in Sides
    BY DEF Other, Sides
  <2>5. /\ Chair(slot, side) \in 1..(2 * half)
        /\ order[Chair(slot, side)] \in 1..(2 * half)
        /\ order[Chair(slot, Other(side))] = 2 * half + 1 - order[Chair(slot, side)]
    BY <2>1, <2>2, <2>3 DEF Chair, Other, Sides
  <2>6. slot \in FirstSlots(n)
    BY <1>3
  <2>7. FirstRound(n)[slot][side] = IF order[Chair(slot, side)] <= n
                                      THEN order[Chair(slot, side)] ELSE Nil
    BY <1>4, <2>6, FirstRoundIs
  <2>8. FirstRound(n)[slot][Other(side)] =
          IF order[Chair(slot, Other(side))] <= n THEN order[Chair(slot, Other(side))] ELSE Nil
    BY <1>4, <2>4, <2>6, FirstRoundIs
  <2> QED BY <2>4, <2>5, <2>7, <2>8
<1>7. ASSUME NEW slot \in 1..half, NEW side \in Sides
      PROVE  /\ FirstRound(n)[slot][side] \in (1..n) \cup {Nil}
             /\ (FirstRound(n)[slot][side] # Nil =>
                   FirstRound(n)[slot][side] = order[Chair(slot, side)])
             /\ (FirstRound(n)[slot][side] # Nil =>
                  (FirstRound(n)[slot][Other(side)] = Nil
                     <=> FirstRound(n)[slot][side] <= 2 * half - n))
             /\ (FirstRound(n)[slot][side] = Nil => FirstRound(n)[slot][Other(side)] # Nil)
  <2>1. PICK u \in 1..(2 * half) : u = order[Chair(slot, side)]
    BY <1>6
  <2>2. PICK v \in Int : v = 2 * half + 1 - u
    BY <2>1
  <2>3. /\ FirstRound(n)[slot][side] = (IF u <= n THEN u ELSE Nil)
        /\ FirstRound(n)[slot][Other(side)] = (IF v <= n THEN v ELSE Nil)
    BY <1>6, <2>1, <2>2
  <2>4. v > n <=> u <= 2 * half - n
    BY <2>1, <2>2
  <2>5. u > n => v <= n
    BY <1>2, <2>1, <2>2
  <2>6. u <= n => u \in 1..n
    BY <2>1
  <2>7. Nil # u /\ Nil # v
    BY <2>1, <2>2, NilAssumption
  <2> QED BY <2>1, <2>2, <2>3, <2>4, <2>5, <2>6, <2>7
<1>8. ASSUME NEW slot \in 1..half, NEW slot2 \in 1..half, NEW side \in Sides, NEW side2 \in Sides,
             FirstRound(n)[slot][side] # Nil,
             FirstRound(n)[slot][side] = FirstRound(n)[slot2][side2]
      PROVE  slot = slot2 /\ side = side2
  <2>1. order[Chair(slot, side)] = order[Chair(slot2, side2)]
    BY <1>7, <1>8
  <2>2. Chair(slot, side) = Chair(slot2, side2)
    BY <1>5, <1>6, <2>1
  <2> QED BY <2>2 DEF Chair, Sides
<1>9. ASSUME NEW v \in 1..n
      PROVE  \E slot \in 1..half : \E side \in Sides : FirstRound(n)[slot][side] = v
  <2>1. v \in 1..(2 * half)
    BY <1>2
  <2>2. PICK i \in 1..(2 * half) : order[i] = v
    BY <1>5, <2>1
  <2>3. PICK slot \in 1..half : i = 2 * slot - 1 \/ i = 2 * slot
    BY Halves
  <2>4. PICK side \in Sides : i = Chair(slot, side)
    <3>1. CASE i = 2 * slot - 1
      BY <3>1 DEF Chair, Sides
    <3>2. CASE i = 2 * slot
      BY <3>2 DEF Chair, Sides
    <3> QED BY <2>3, <3>1, <3>2
  <2>5. FirstRound(n)[slot][side] = v
    BY <1>6, <2>2, <2>4
  <2> QED BY <2>5
<1>10. 2^RoundCount(n) - n = 2 * half - n
  BY <1>2
<1>11. \A slot \in FirstSlots(n), side \in Sides :
         /\ FirstRound(n)[slot][side] \in (1..n) \cup {Nil}
         /\ (FirstRound(n)[slot][side] # Nil =>
               FirstRound(n)[slot][side] = SeedOrder(RoundCount(n))[Chair(slot, side)])
  BY <1>3, <1>4, <1>7
<1>12. \A slot \in FirstSlots(n), side \in Sides :
         FirstRound(n)[slot][side] # Nil =>
           (FirstRound(n)[slot][Other(side)] = Nil
              <=> FirstRound(n)[slot][side] <= 2^RoundCount(n) - n)
  BY <1>3, <1>7, <1>10
<1>13. \A slot \in FirstSlots(n), side \in Sides :
         FirstRound(n)[slot][side] = Nil => FirstRound(n)[slot][Other(side)] # Nil
  BY <1>3, <1>7
<1>14. \A slot, slot2 \in FirstSlots(n) : \A side, side2 \in Sides :
         /\ FirstRound(n)[slot][side] # Nil
         /\ FirstRound(n)[slot][side] = FirstRound(n)[slot2][side2]
         => slot = slot2 /\ side = side2
  BY <1>3, <1>8
<1>15. \A v \in 1..n : \E slot \in FirstSlots(n) : \E side \in Sides :
         FirstRound(n)[slot][side] = v
  BY <1>3, <1>9
<1> QED BY <1>11, <1>12, <1>13, <1>14, <1>15

-----------------------------------------------------------------------------
(* The invariant.                                                          *)

(* The bracket comes with the seeds, and with it the state leaves 'open'. *)
BracketIsSeeded ==
  IF DOMAIN matches = {}
    THEN Seeded = {} /\ out = {} /\ state = "open" /\ champion = Nil
    ELSE Field >= 2 /\ DOMAIN matches = Positions(Field) /\ state # "open"

SeedsDiffer == \A p, q \in Seeded : seed[p] = seed[q] => p = q

ChairsAreSeeded ==
  \A x \in DOMAIN matches, side \in Sides : matches[x][side] \in Seeded \cup {Nil}

(* What a match's state says of its chairs and its winner. *)
StatesAgree ==
  \A x \in DOMAIN matches :
    LET m == matches[x] IN
    /\ m.state = "pending" => m.winner = Nil /\ x[1] > 1
    /\ m.state = "ready"   => m.winner = Nil /\ m.a # Nil /\ m.b # Nil
    /\ m.state = "done"    => m.winner \in {m.a, m.b} /\ m.a # Nil /\ m.b # Nil
    /\ m.state = "bye"     => /\ m.winner \in {m.a, m.b} /\ m.winner # Nil
                              /\ (m.a = Nil \/ m.b = Nil)
                              /\ x[1] = 1 /\ ~IsFinal(x, Field)

(* Nobody sits on two chairs of a round, *)
OneChairARound ==
  \A x, y \in DOMAIN matches : \A side, side2 \in Sides :
    /\ x[1] = y[1]
    /\ matches[x][side] # Nil /\ matches[x][side] = matches[y][side2]
    => x = y /\ side = side2

(* and whoever sits in a round has won a match of every round before. *)
EveryRoundWasWon ==
  \A x \in DOMAIN matches, side \in Sides :
    matches[x][side] # Nil =>
      \A r \in 1..(x[1] - 1) :
        \E y \in DOMAIN matches : y[1] = r /\ matches[y].winner = matches[x][side]

Lost(p, x) ==
  LET m == matches[x] IN m.state = "done" /\ p \in {m.a, m.b} /\ p # m.winner

LosersAreOut == out = {p \in Players : \E x \in DOMAIN matches : Lost(p, x)}

ChampionWonTheFinal ==
  champion # Nil =>
    \E x \in DOMAIN matches : /\ IsFinal(x, Field) /\ matches[x].state = "done"
                              /\ matches[x].winner = champion

(* A chair k rounds before the end is for the seed at its place in the     *)
(* order of k rounds, or for one that order has no place for.              *)
SeedsKeepTheirPart ==
  \A x \in DOMAIN matches, side \in Sides :
    LET p == matches[x][side]
        k == RoundCount(Field) - x[1] + 1
    IN p # Nil => seed[p] = SeedOrder(k)[Chair(x[2], side)] \/ seed[p] > 2^k

(* What a handler with these local variables has read still holds when it  *)
(* takes its next step.                                                    *)
Agrees(label, m) ==
  /\ label \in {"field", "draw", "byes", "next"} => m.call = "start"
  /\ label \in {"look", "decide", "crown"} => m.call = "report"
  /\ label \in {"enter", "count"} => m.player \in Players
  /\ label = "draw" => m.field \subseteq entrants /\ Cardinality(m.field) >= 2
  /\ \A x \in m.todo : x \in DOMAIN matches /\ matches[x].state = "bye"
  /\ label \in {"look", "decide", "seat", "ready", "crown"} =>
       m.pos \in DOMAIN matches /\ m.player \in Players
  /\ label = "decide" =>
       LET r == matches[m.pos] IN
       /\ r.state \in {"ready", "done"}
       /\ (r.state = "done" => r.winner = m.player)
       /\ <<m.player, m.loser>> \in {<<r.a, r.b>>, <<r.b, r.a>>}
  /\ label \in {"seat", "ready"} =>
       ~IsFinal(m.pos, Field) /\ matches[m.pos].winner = m.player
  /\ label = "crown" =>
       /\ IsFinal(m.pos, Field) /\ matches[m.pos].state = "done"
       /\ matches[m.pos].winner = m.player

HandlersAgree == \A h \in Handlers : Agrees(pc[h], mem[h])

(* Two reports of a match name the same winner. *)
ReportsAgree ==
  \A g, h \in InFlight :
    mem[g].call = "report" /\ mem[h].call = "report" /\ mem[g].pos = mem[h].pos =>
      mem[g].player = mem[h].player

BracketInv ==
  /\ BracketIsSeeded /\ SeedsDiffer /\ ChairsAreSeeded /\ StatesAgree
  /\ OneChairARound /\ EveryRoundWasWon /\ LosersAreOut /\ ChampionWonTheFinal
  /\ SeedsAreTheDraw /\ ChairsAreEarned /\ SeedsKeepTheirPart

Inv ==
  /\ TypeOK /\ BracketInv
  /\ HandlersAgree /\ ReportsAgree

-----------------------------------------------------------------------------
(* Records: a match whose chair, winner or state is written.               *)

LEMMA MatchFields ==
  ASSUME NEW m \in Match
  PROVE  /\ m.a \in Or(Players) /\ m.b \in Or(Players) /\ m.winner \in Or(Players)
         /\ m.state \in {"pending", "ready", "bye", "done"}
         /\ \A side \in Sides : m[side] \in Or(Players) /\ m[side] \in {m.a, m.b}
         /\ m["a"] = m.a /\ m["b"] = m.b
BY DEF Match, Sides

HasChair(e, m, side, p) == e = [m EXCEPT ![side] = p]
IsDecided(e, m, p) == e = [m EXCEPT !.winner = p, !.state = "done"]

LEMMA ChairWritten ==
  ASSUME NEW m \in Match, NEW side \in Sides, NEW p \in Or(Players), NEW e, HasChair(e, m, side, p)
  PROVE  /\ e \in Match /\ e.winner = m.winner /\ e.state = m.state
         /\ \A t \in Sides : e[t] = IF t = side THEN p ELSE m[t]
<1>1. CASE side = "a"
  BY <1>1 DEF HasChair, Match, Sides
<1>2. CASE side = "b"
  BY <1>2 DEF HasChair, Match, Sides
<1> QED BY <1>1, <1>2 DEF Sides

LEMMA MatchDecided ==
  ASSUME NEW m \in Match, NEW p \in Or(Players), NEW e, IsDecided(e, m, p)
  PROVE  /\ e \in Match /\ e.winner = p /\ e.state = "done"
         /\ \A t \in Sides : e[t] = m[t]
BY DEF IsDecided, Match, Sides

LEMMA MatchOpened ==
  ASSUME NEW m \in Match, NEW e, e = [m EXCEPT !.state = "ready"]
  PROVE  /\ e \in Match /\ e.winner = m.winner /\ e.state = "ready"
         /\ \A t \in Sides : e[t] = m[t]
BY DEF Match, Sides

LEMMA LocalFields ==
  ASSUME NEW m \in Locals
  PROVE  /\ m.call \in {"", "join", "start", "report"} /\ m.player \in Or(Players)
         /\ m.loser \in Or(Players) /\ m.pos \in Or(AllPositions)
         /\ m.field \in SUBSET Players /\ m.todo \in SUBSET AllPositions
BY DEF Locals

-----------------------------------------------------------------------------
(* What each step does to the rows, without the EXCEPTs.                   *)

(* Nothing of the draw changes any more. *)
DrawStays ==
  seed' = seed /\ DOMAIN matches' = DOMAIN matches /\ entrants \subseteq entrants'

LEMMA FieldStays ==
  ASSUME seed' = seed
  PROVE  Seeded' = Seeded /\ Field' = Field
BY DEF Seeded, Field

LEMMA SeatWrites ==
  ASSUME Inv, NEW h \in Handlers, Seat(h)
  PROVE  /\ DrawStays /\ UNCHANGED <<state, champion, entrants, seed, out>>
         /\ \A x \in DOMAIN matches :
              /\ matches'[x] \in Match
              /\ matches'[x].winner = matches[x].winner /\ matches'[x].state = matches[x].state
              /\ \A side \in Sides :
                   matches'[x][side] =
                     IF x = NextMatch(mem[h].pos) /\ side = NextSide(mem[h].pos)
                       THEN mem[h].player ELSE matches[x][side]
<1> DEFINE pos == mem[h].pos
           at  == NextMatch(pos)
           e   == [matches[at] EXCEPT ![NextSide(pos)] = mem[h].player]
<1>1. matches' = [matches EXCEPT ![at] = e] /\ UNCHANGED <<state, champion, entrants, seed, out>>
  BY Zenon DEF Seat
<1>2. NextSide(pos) \in Sides
  BY DEF NextSide, Sides
<1>3. mem[h] \in Locals /\ \A x \in DOMAIN matches : matches[x] \in Match
  BY DEF Inv, TypeOK
<1>4. mem[h].player \in Or(Players)
  BY <1>3, LocalFields
<1>5. DOMAIN matches' = DOMAIN matches
      /\ \A x \in DOMAIN matches : matches'[x] = IF x = at THEN e ELSE matches[x]
  <2> HIDE DEF e, at
  <2> QED BY <1>1
<1>6. ASSUME NEW x \in DOMAIN matches
      PROVE  /\ matches'[x] \in Match
             /\ matches'[x].winner = matches[x].winner /\ matches'[x].state = matches[x].state
             /\ \A side \in Sides :
                  matches'[x][side] = IF x = at /\ side = NextSide(pos)
                                        THEN mem[h].player ELSE matches[x][side]
  <2>1. CASE x = at
    <3>1. /\ e \in Match /\ e.winner = matches[x].winner /\ e.state = matches[x].state
          /\ \A t \in Sides : e[t] = IF t = NextSide(pos) THEN mem[h].player ELSE matches[x][t]
      <4>1. PICK m \in Match, s \in Sides, p \in Or(Players) :
               m = matches[x] /\ s = NextSide(pos) /\ p = mem[h].player
        BY <1>2, <1>3, <1>4
      <4>2. e = [m EXCEPT ![s] = p]
        BY <2>1, <4>1
      <4>3. /\ e \in Match /\ e.winner = m.winner /\ e.state = m.state
            /\ \A t \in Sides : e[t] = IF t = s THEN p ELSE m[t]
        <5>1. HasChair(e, m, s, p)
          BY <4>2 DEF HasChair
        <5> HIDE DEF e
        <5> QED BY <5>1, ChairWritten
      <4> HIDE DEF e
      <4> QED BY <4>1, <4>3
    <3> HIDE DEF e, at
    <3> QED BY <1>5, <2>1, <3>1
  <2>2. CASE x # at
    <3> HIDE DEF e, at
    <3> QED BY <1>3, <1>5, <2>2
  <2> QED BY <2>1, <2>2
<1> QED BY <1>1, <1>5, <1>6 DEF DrawStays

LEMMA OpenWrites ==
  ASSUME Inv, NEW h \in Handlers, Open(h)
  PROVE  /\ DrawStays /\ UNCHANGED <<state, champion, entrants, seed, out>>
         /\ \A x \in DOMAIN matches :
              /\ matches'[x] \in Match /\ matches'[x].winner = matches[x].winner
              /\ \A side \in Sides : matches'[x][side] = matches[x][side]
              /\ \/ matches'[x].state = matches[x].state
                 \/ /\ matches[x].state = "pending" /\ matches'[x].state = "ready"
                    /\ matches[x].a # Nil /\ matches[x].b # Nil
<1> DEFINE at == NextMatch(mem[h].pos)
           m  == matches[at]
           e  == [m EXCEPT !.state = "ready"]
<1>1. /\ matches' = IF m.a # Nil /\ m.b # Nil /\ m.state = "pending"
                      THEN [matches EXCEPT ![at].state = "ready"] ELSE matches
      /\ UNCHANGED <<state, champion, entrants, seed, out>>
  BY DEF Open
<1>2. \A x \in DOMAIN matches : matches[x] \in Match
  BY DEF Inv, TypeOK
<1>3. CASE m.a # Nil /\ m.b # Nil /\ m.state = "pending"
  <2>1. matches' = [matches EXCEPT ![at] = e]
    BY <1>1, <1>3
  <2>2. DOMAIN matches' = DOMAIN matches
        /\ \A x \in DOMAIN matches : matches'[x] = IF x = at THEN e ELSE matches[x]
    <3> HIDE DEF e, at
    <3> QED BY <2>1
  <2>3. ASSUME NEW x \in DOMAIN matches, x = at
        PROVE  /\ e \in Match /\ e.winner = matches[x].winner /\ e.state = "ready"
               /\ \A side \in Sides : e[side] = matches[x][side]
    BY <1>2, <2>3, MatchOpened
  <2>4. ASSUME NEW x \in DOMAIN matches
        PROVE  /\ matches'[x] \in Match /\ matches'[x].winner = matches[x].winner
               /\ \A side \in Sides : matches'[x][side] = matches[x][side]
               /\ \/ matches'[x].state = matches[x].state
                  \/ /\ matches[x].state = "pending" /\ matches'[x].state = "ready"
                     /\ matches[x].a # Nil /\ matches[x].b # Nil
    <3>1. CASE x = at
      <4>1. matches[x].a # Nil /\ matches[x].b # Nil /\ matches[x].state = "pending"
        BY <1>3, <3>1
      <4> HIDE DEF e, at, m
      <4> QED BY <2>2, <2>3, <3>1, <4>1
    <3>2. CASE x # at
      <4> HIDE DEF e, at, m
      <4> QED BY <1>2, <2>2, <3>2
    <3> QED BY <3>1, <3>2
  <2> QED BY <1>1, <2>2, <2>4 DEF DrawStays
<1>4. CASE ~(m.a # Nil /\ m.b # Nil /\ m.state = "pending")
  <2>1. matches' = matches
    BY <1>1, <1>4
  <2> QED BY <1>1, <1>2, <2>1 DEF DrawStays
<1> QED BY <1>3, <1>4

LEMMA DecideWrites ==
  ASSUME Inv, NEW h \in Handlers, Decide(h)
  PROVE  /\ DrawStays /\ UNCHANGED <<state, champion, entrants, seed>>
         /\ out' = out \cup ({mem[h].loser} \cap entrants)
         /\ \A x \in DOMAIN matches :
              /\ matches'[x] \in Match
              /\ \A side \in Sides : matches'[x][side] = matches[x][side]
              /\ matches'[x].winner = IF x = mem[h].pos THEN mem[h].player ELSE matches[x].winner
              /\ matches'[x].state = IF x = mem[h].pos THEN "done" ELSE matches[x].state
<1> DEFINE pos == mem[h].pos
           e   == [matches[pos] EXCEPT !.winner = mem[h].player, !.state = "done"]
<1>1. /\ matches' = [matches EXCEPT ![pos].winner = mem[h].player, ![pos].state = "done"]
      /\ out' = out \cup ({mem[h].loser} \cap entrants)
      /\ UNCHANGED <<state, champion, entrants, seed>>
  BY DEF Decide
<1>2. mem[h] \in Locals /\ \A x \in DOMAIN matches : matches[x] \in Match
  BY DEF Inv, TypeOK
<1>3. mem[h].player \in Or(Players)
  BY <1>2, LocalFields
<1>4. pos \in DOMAIN matches
  BY DEF Inv, HandlersAgree, Agrees, Decide
<1>5. matches' = [matches EXCEPT ![pos] = e]
  <2>1. PICK f : f = [matches EXCEPT ![pos].winner = mem[h].player]
    OBVIOUS
  <2>2. matches' = [f EXCEPT ![pos].state = "done"]
    BY <1>1, <2>1
  <2>3. DOMAIN f = DOMAIN matches /\ f[pos] = [matches[pos] EXCEPT !.winner = mem[h].player]
    BY <1>4, <2>1
  <2> QED BY <1>4, <2>1, <2>2, <2>3
<1>6. DOMAIN matches' = DOMAIN matches
      /\ \A x \in DOMAIN matches : matches'[x] = IF x = pos THEN e ELSE matches[x]
  <2> HIDE DEF e, pos
  <2> QED BY <1>5
<1>7. /\ e \in Match /\ e.winner = mem[h].player /\ e.state = "done"
      /\ \A side \in Sides : e[side] = matches[pos][side]
  <2>1. PICK m \in Match, p \in Or(Players) : m = matches[pos] /\ p = mem[h].player
    BY <1>2, <1>3, <1>4
  <2>2. e = [m EXCEPT !.winner = p, !.state = "done"]
    BY <2>1
  <2>3. /\ e \in Match /\ e.winner = p /\ e.state = "done" /\ \A t \in Sides : e[t] = m[t]
    <3>1. IsDecided(e, m, p)
      BY <2>2 DEF IsDecided
    <3> HIDE DEF e
    <3> QED BY <3>1, MatchDecided
  <2> HIDE DEF e
  <2> QED BY <2>1, <2>3
<1>8. ASSUME NEW x \in DOMAIN matches
      PROVE  /\ matches'[x] \in Match
             /\ \A side \in Sides : matches'[x][side] = matches[x][side]
             /\ matches'[x].winner = IF x = pos THEN mem[h].player ELSE matches[x].winner
             /\ matches'[x].state = IF x = pos THEN "done" ELSE matches[x].state
  <2> HIDE DEF e, pos
  <2> QED BY <1>2, <1>6, <1>7
<1> QED BY <1>1, <1>6, <1>8 DEF DrawStays

-----------------------------------------------------------------------------
(* The draw.                                                               *)

(* Numbers that differ, as many as there are players: each is somebody's.  *)
LEMMA EveryNumberIsGiven ==
  ASSUME NEW field \in SUBSET Players, NEW s \in Seedings(field)
  PROVE  /\ Cardinality(field) \in Nat /\ IsFiniteSet(field) /\ DOMAIN s = field
         /\ s \in [field -> 1..Cardinality(field)]
         /\ \A p, q \in field : s[p] = s[q] => p = q
         /\ \A v \in 1..Cardinality(field) : \E p \in field : s[p] = v
<1>1. IsFiniteSet(field) /\ Cardinality(field) \in Nat
  BY PlayersAssumption, FS_Subset, FS_CardinalityType
<1>2. PICK n \in Nat : n = Cardinality(field)
  BY <1>1
<1>3. s \in [field -> 1..n] /\ \A p, q \in field : s[p] = s[q] => p = q
  BY <1>2 DEF Seedings
<1>4. IsFiniteSet(1..n) /\ Cardinality(1..n) = n
  BY FS_Interval
<1>5. PICK image : image = {v \in 1..n : \E p \in field : s[p] = v}
  OBVIOUS
<1>6. s \in Bijection(field, image)
  <2>1. s \in [field -> image]
    BY <1>3, <1>5
  <2>2. \A v \in image : \E p \in field : s[p] = v
    BY <1>5
  <2> QED BY <1>3, <2>1, <2>2, Fun_IsBij
<1>7. IsFiniteSet(image) /\ Cardinality(image) = n
  <2>1. ExistsBijection(field, image)
    BY <1>6 DEF ExistsBijection
  <2> QED BY <1>1, <1>2, <2>1, FS_Bijection
<1>8. image = 1..n
  BY <1>4, <1>5, <1>7, FS_Subset
<1>9. \A v \in 1..n : \E p \in field : s[p] = v
  BY <1>5, <1>8
<1> QED BY <1>1, <1>2, <1>3, <1>9

LEMMA WhoHasTheNumber ==
  ASSUME NEW field \in SUBSET Players, NEW s \in Seedings(field),
         NEW v \in (1..Cardinality(field)) \cup {Nil}
  PROVE  /\ (v = Nil => PlayerOf(s, v) = Nil)
         /\ (v # Nil => PlayerOf(s, v) \in field /\ s[PlayerOf(s, v)] = v /\ PlayerOf(s, v) # Nil)
         /\ PlayerOf(s, v) \in Or(Players)
<1>1. CASE v = Nil
  BY <1>1 DEF PlayerOf, Or
<1>2. CASE v # Nil
  <2>1. \E p \in field : s[p] = v
    BY <1>2, EveryNumberIsGiven
  <2>2. PlayerOf(s, v) \in field /\ s[PlayerOf(s, v)] = v
    BY <1>2, <2>1, EveryNumberIsGiven DEF PlayerOf
  <2> QED BY <1>2, <2>2, NilAssumption DEF Or
<1> QED BY <1>1, <1>2

LEMMA DrawnIs ==
  ASSUME NEW field \in SUBSET Players, NEW s \in Seedings(field), NEW n, n = Cardinality(field), n >= 2
  PROVE  /\ n \in Nat /\ DOMAIN Drawn(s) = Positions(n)
         /\ \A x \in Positions(n) :
              /\ Drawn(s)[x] \in Match
              /\ x[1] # 1 =>
                   /\ Drawn(s)[x].state = "pending" /\ Drawn(s)[x].winner = Nil
                   /\ \A side \in Sides : Drawn(s)[x][side] = Nil
              /\ x[1] = 1 =>
                   /\ x[2] \in FirstSlots(n)
                   /\ \A side \in Sides : Drawn(s)[x][side] = PlayerOf(s, FirstRound(n)[x[2]][side])
                   /\ (Drawn(s)[x].a # Nil /\ Drawn(s)[x].b # Nil =>
                         Drawn(s)[x].state = "ready" /\ Drawn(s)[x].winner = Nil)
                   /\ (Drawn(s)[x].a = Nil \/ Drawn(s)[x].b = Nil =>
                         /\ Drawn(s)[x].state = "bye" /\ Drawn(s)[x].winner # Nil
                         /\ Drawn(s)[x].winner \in {Drawn(s)[x].a, Drawn(s)[x].b})
<1>1. n \in Nat /\ DOMAIN s = field
  BY EveryNumberIsGiven
<1>2. PICK first : first = FirstRound(n)
  OBVIOUS
<1>3. PICK d : d = Drawn(s)
  OBVIOUS
<1> DEFINE A(x) == PlayerOf(s, first[x[2]].a)
           B(x) == PlayerOf(s, first[x[2]].b)
           Opening(x) ==
             [a |-> A(x), b |-> B(x),
              winner |-> IF A(x) # Nil /\ B(x) # Nil THEN Nil ELSE IF A(x) # Nil THEN A(x) ELSE B(x),
              state  |-> IF A(x) # Nil /\ B(x) # Nil THEN "ready"
                         ELSE IF A(x) # Nil \/ B(x) # Nil THEN "bye" ELSE "pending"]
           Later == [a |-> Nil, b |-> Nil, winner |-> Nil, state |-> "pending"]
<1>4. d = [x \in Positions(n) |-> IF x[1] = 1 THEN Opening(x) ELSE Later]
  BY <1>1, <1>2, <1>3 DEF Drawn
<1>5. DOMAIN d = Positions(n)
        /\ \A x \in Positions(n) : d[x] = IF x[1] = 1 THEN Opening(x) ELSE Later
  <2> HIDE DEF Opening, Later
  <2> QED BY <1>4
<1>6. ASSUME NEW x \in Positions(n), x[1] # 1
      PROVE  /\ d[x] \in Match /\ d[x].state = "pending" /\ d[x].winner = Nil
             /\ \A side \in Sides : d[x][side] = Nil
  <2>1. d[x] = Later
    <3> HIDE DEF Opening, Later
    <3> QED BY <1>5, <1>6
  <2>2. Later \in Match /\ \A side \in Sides : Later[side] = Nil
    BY DEF Match, Or, Sides
  <2> QED BY <2>1, <2>2
<1>7. ASSUME NEW x \in Positions(n), x[1] = 1
      PROVE  /\ d[x] \in Match /\ x[2] \in FirstSlots(n)
             /\ \A side \in Sides : d[x][side] = PlayerOf(s, first[x[2]][side])
             /\ (d[x].a # Nil /\ d[x].b # Nil => d[x].state = "ready" /\ d[x].winner = Nil)
             /\ (d[x].a = Nil \/ d[x].b = Nil =>
                   /\ d[x].state = "bye" /\ d[x].winner # Nil
                   /\ d[x].winner \in {d[x].a, d[x].b})
  <2>1. d[x] = Opening(x)
    <3> HIDE DEF Opening, Later
    <3> QED BY <1>5, <1>7
  <2>2. x[2] \in FirstSlots(n)
    BY <1>1, <1>7, FirstPlaces DEF FirstSlots
  <2>3. first[x[2]] = [a |-> first[x[2]].a, b |-> first[x[2]].b]
    BY <1>1, <1>2, <2>2, FirstRoundIs DEF Sides
  <2>4. first[x[2]]["a"] = first[x[2]].a /\ first[x[2]]["b"] = first[x[2]].b
    BY <2>3
  <2>5. PICK u \in (1..n) \cup {Nil}, v \in (1..n) \cup {Nil} :
           /\ u = first[x[2]].a /\ v = first[x[2]].b /\ (u # Nil \/ v # Nil)
    <3>1. "a" \in Sides /\ "b" \in Sides /\ Other("a") = "b"
      BY DEF Sides, Other
    <3>2. /\ first[x[2]]["a"] \in (1..n) \cup {Nil} /\ first[x[2]]["b"] \in (1..n) \cup {Nil}
          /\ (first[x[2]]["a"] # Nil \/ first[x[2]]["b"] # Nil)
      BY <1>1, <1>2, <2>2, <3>1, FirstRoundSeats
    <3> QED BY <2>4, <3>2
  <2>6. A(x) = PlayerOf(s, u) /\ B(x) = PlayerOf(s, v)
    BY <2>5
  <2>7. /\ A(x) \in Or(Players) /\ B(x) \in Or(Players)
        /\ (A(x) # Nil \/ B(x) # Nil)
    BY <2>5, <2>6, WhoHasTheNumber
  <2>8. PICK a \in Or(Players), b \in Or(Players) : a = A(x) /\ b = B(x) /\ (a # Nil \/ b # Nil)
    BY <2>7
  <2>9. d[x] = [a |-> a, b |-> b,
                winner |-> IF a # Nil /\ b # Nil THEN Nil ELSE IF a # Nil THEN a ELSE b,
                state  |-> IF a # Nil /\ b # Nil THEN "ready"
                           ELSE IF a # Nil \/ b # Nil THEN "bye" ELSE "pending"]
    <3> HIDE DEF A, B
    <3> QED BY <2>1, <2>8
  <2>10. /\ d[x].a = a /\ d[x].b = b /\ d[x]["a"] = a /\ d[x]["b"] = b
         /\ d[x].winner = IF a # Nil /\ b # Nil THEN Nil ELSE IF a # Nil THEN a ELSE b
         /\ d[x].state = IF a # Nil /\ b # Nil THEN "ready"
                           ELSE IF a # Nil \/ b # Nil THEN "bye" ELSE "pending"
    BY <2>9
  <2>11. d[x] \in Match
    <3>1. (IF a # Nil /\ b # Nil THEN Nil ELSE IF a # Nil THEN a ELSE b) \in Or(Players)
      BY DEF Or
    <3> QED BY <2>8, <2>9, <3>1 DEF Match, Or
  <2>12. \A side \in Sides : d[x][side] = PlayerOf(s, first[x[2]][side])
    BY <2>4, <2>8, <2>10 DEF Sides
  <2>13. /\ (d[x].a # Nil /\ d[x].b # Nil => d[x].state = "ready" /\ d[x].winner = Nil)
         /\ (d[x].a = Nil \/ d[x].b = Nil =>
               /\ d[x].state = "bye" /\ d[x].winner # Nil
               /\ d[x].winner \in {d[x].a, d[x].b})
    BY <2>8, <2>10
  <2> QED BY <2>2, <2>11, <2>12, <2>13
<1> HIDE DEF A, B, Opening, Later
<1> QED BY <1>1, <1>2, <1>3, <1>5, <1>6, <1>7

(* What start() wrote: the field it had read, and its numbers.             *)
Draws(field, s) ==
  /\ DOMAIN matches = {} /\ field \in SUBSET entrants /\ s \in Seedings(field)
  /\ Cardinality(field) >= 2
  /\ matches' = Drawn(s) /\ state' = "running"
  /\ seed' = [p \in Players |-> IF p \in field THEN s[p] ELSE seed[p]]
  /\ UNCHANGED <<champion, entrants, out>>

(* The field is seeded, and nobody else. *)
LEMMA DrawSeeds ==
  ASSUME Inv, NEW field, NEW s, Draws(field, s)
  PROVE  /\ field \in SUBSET Players /\ Seeded' = field /\ Field' = Cardinality(field)
         /\ \A p \in field : seed'[p] = s[p]
         /\ out' = {} /\ champion' = Nil
<1>1. entrants \subseteq Players /\ field \in SUBSET entrants
  BY DEF Inv, TypeOK, Draws
<1>2. Seeded = {} /\ out = {} /\ champion = Nil
  BY DEF Inv, BracketInv, BracketIsSeeded, Draws
<1>3. \A p \in Players : seed[p] = Nil
  BY <1>2 DEF Seeded
<1>4. \A p \in Players : seed'[p] = IF p \in field THEN s[p] ELSE Nil
  BY <1>3 DEF Draws
<1>5. ASSUME NEW p \in field  PROVE s[p] # Nil
  <2>1. s[p] \in 1..Cardinality(field)
    BY <1>1, <1>5, EveryNumberIsGiven DEF Draws
  <2> QED BY <2>1, NilAssumption
<1>6. Seeded' = field
  BY <1>1, <1>4, <1>5 DEF Seeded
<1>7. Field' = Cardinality(field)
  BY <1>6 DEF Field
<1> QED BY <1>1, <1>2, <1>4, <1>6, <1>7 DEF Draws

LEMMA DrawStartsTheBracket ==
  ASSUME Inv, NEW field, NEW s, Draws(field, s)
  PROVE  BracketInv'
<1>1. PICK n \in Nat : n = Cardinality(field) /\ n >= 2
  BY DrawnIs DEF Draws, Inv, TypeOK
<1>2. /\ field \in SUBSET Players /\ Seeded' = field /\ Field' = n /\ s \in Seedings(field)
      /\ \A p \in field : seed'[p] = s[p]
      /\ out' = {} /\ champion' = Nil /\ entrants' = entrants /\ field \subseteq entrants
      /\ state' = "running" /\ matches' = Drawn(s)
  BY <1>1, DrawSeeds DEF Draws
<1>3. /\ DOMAIN s = field /\ s \in [field -> 1..n]
      /\ \A p, q \in field : s[p] = s[q] => p = q
      /\ \A v \in 1..n : \E p \in field : s[p] = v
  BY <1>1, <1>2, EveryNumberIsGiven
<1>4. DOMAIN matches' = Positions(n)
  BY <1>1, <1>2, DrawnIs
<1>5. ASSUME NEW x \in Positions(n)
      PROVE  /\ matches'[x] \in Match
             /\ x[1] # 1 =>
                  /\ matches'[x].state = "pending" /\ matches'[x].winner = Nil
                  /\ \A side \in Sides : matches'[x][side] = Nil
             /\ x[1] = 1 =>
                  /\ x[2] \in FirstSlots(n)
                  /\ \A side \in Sides : matches'[x][side] = PlayerOf(s, FirstRound(n)[x[2]][side])
                  /\ (matches'[x].a # Nil /\ matches'[x].b # Nil =>
                        matches'[x].state = "ready" /\ matches'[x].winner = Nil)
                  /\ (matches'[x].a = Nil \/ matches'[x].b = Nil =>
                        /\ matches'[x].state = "bye" /\ matches'[x].winner # Nil
                        /\ matches'[x].winner \in {matches'[x].a, matches'[x].b})
  BY <1>1, <1>2, DrawnIs
(* A chair of the first round has the player of its seed. *)
<1>6. ASSUME NEW slot \in FirstSlots(n), NEW side \in Sides, NEW v, v = FirstRound(n)[slot][side]
      PROVE  /\ v \in (1..n) \cup {Nil}
             /\ (v = Nil => matches'[<<1, slot>>][side] = Nil)
             /\ (v # Nil => /\ matches'[<<1, slot>>][side] \in field
                            /\ matches'[<<1, slot>>][side] # Nil
                            /\ seed'[matches'[<<1, slot>>][side]] = v
                            /\ v = SeedOrder(RoundCount(n))[Chair(slot, side)])
  <2>1. /\ v \in (1..n) \cup {Nil}
        /\ (v # Nil => v = SeedOrder(RoundCount(n))[Chair(slot, side)])
    BY <1>1, <1>6, FirstRoundSeats
  <2>2. <<1, slot>> \in Positions(n)
    BY <1>1, FirstPlaces DEF FirstSlots
  <2>3. matches'[<<1, slot>>][side] = PlayerOf(s, v)
    <3>1. PICK x \in Positions(n) : x = <<1, slot>> /\ x[1] = 1 /\ x[2] = slot
      BY <2>2
    <3> QED BY <1>5, <1>6, <3>1
  <2>4. /\ (v = Nil => PlayerOf(s, v) = Nil)
        /\ (v # Nil => PlayerOf(s, v) \in field /\ s[PlayerOf(s, v)] = v /\ PlayerOf(s, v) # Nil)
    BY <1>1, <1>2, <2>1, WhoHasTheNumber
  <2> QED BY <1>2, <2>1, <2>3, <2>4
<1>7. ASSUME NEW x \in Positions(n), NEW side \in Sides, matches'[x][side] # Nil
      PROVE  /\ x[1] = 1 /\ x = <<1, x[2]>> /\ x[2] \in FirstSlots(n)
             /\ matches'[x][side] \in field
             /\ seed'[matches'[x][side]] = FirstRound(n)[x[2]][side]
             /\ FirstRound(n)[x[2]][side] \in 1..n
             /\ FirstRound(n)[x[2]][side] = SeedOrder(RoundCount(n))[Chair(x[2], side)]
  <2>1. x[1] = 1 /\ x[2] \in FirstSlots(n)
    BY <1>5, <1>7
  <2>2. x = <<1, x[2]>>
    BY <1>1, <2>1, FirstPlaces
  <2>3. PICK slot \in FirstSlots(n) : slot = x[2] /\ x = <<1, slot>>
    BY <2>1, <2>2
  <2> QED BY <1>6, <1>7, <2>1, <2>2, <2>3
<1>8. \A x \in Positions(n), side \in Sides :
        /\ matches'[x][side] \in {matches'[x].a, matches'[x].b}
        /\ matches'[x]["a"] = matches'[x].a /\ matches'[x]["b"] = matches'[x].b
  BY <1>5, MatchFields
<1>9. BracketIsSeeded'
  <2>1. Positions(n) # {}
    <3>1. 1 \in FirstSlots(n)
      <4>1. RoundCount(n) - 1 \in Nat
        BY <1>1, Rounds
      <4>2. 2^(RoundCount(n) - 1) \in Nat /\ 2^(RoundCount(n) - 1) >= 1
        BY <4>1, PowersGrow
      <4> QED BY <4>2 DEF FirstSlots
    <3> QED BY <1>1, <3>1, FirstPlaces DEF FirstSlots
  <2> QED BY <1>1, <1>2, <1>4, <2>1 DEF BracketIsSeeded
<1>10. SeedsDiffer'
  BY <1>2, <1>3 DEF SeedsDiffer
<1>11. ChairsAreSeeded'
  <2>1. \A x \in Positions(n), side \in Sides : matches'[x][side] \in field \cup {Nil}
    BY <1>7
  <2> QED BY <1>2, <1>4, <2>1 DEF ChairsAreSeeded
<1>12. ASSUME NEW x \in Positions(n), matches'[x].state = "bye"  PROVE ~IsFinal(x, n)
  <2>1. x[1] = 1 /\ x = <<1, x[2]>> /\ x[2] \in FirstSlots(n)
    BY <1>1, <1>5, <1>12, FirstPlaces
  <2>2. (matches'[x].a = Nil \/ matches'[x].b = Nil) /\ (matches'[x].a # Nil \/ matches'[x].b # Nil)
    BY <1>5, <1>12, <2>1
  <2>3. PICK side \in Sides : matches'[x][side] # Nil /\ matches'[x][Other(side)] = Nil
    BY <1>8, <2>2 DEF Sides, Other
  <2>4. Other(side) \in Sides
    BY DEF Sides, Other
  <2>5. FirstRound(n)[x[2]][side] \in 1..n /\ FirstRound(n)[x[2]][Other(side)] = Nil
    BY <1>6, <1>7, <2>1, <2>3, <2>4
  <2>6. FirstRound(n)[x[2]][side] <= 2^RoundCount(n) - n
    BY <1>1, <2>1, <2>5, FirstRoundSeats, NilAssumption
  <2>7. CASE RoundCount(n) = 1
    <3>1. 2^1 = 2
      OBVIOUS
    <3>2. 2^RoundCount(n) = 2
      BY <2>7, <3>1, Zenon
    <3> QED BY <1>1, <2>5, <2>6, <3>2
  <2>8. CASE RoundCount(n) # 1
    BY <1>1, <2>1, <2>8, Rounds DEF IsFinal
  <2> QED BY <2>7, <2>8
<1>13. StatesAgree'
  <2>1. ASSUME NEW x \in Positions(n)
        PROVE  LET m == matches'[x] IN
               /\ m.state = "pending" => m.winner = Nil /\ x[1] > 1
               /\ m.state = "ready"   => m.winner = Nil /\ m.a # Nil /\ m.b # Nil
               /\ m.state = "done"    => m.winner \in {m.a, m.b} /\ m.a # Nil /\ m.b # Nil
               /\ m.state = "bye"     => /\ m.winner \in {m.a, m.b} /\ m.winner # Nil
                                         /\ (m.a = Nil \/ m.b = Nil)
                                         /\ x[1] = 1 /\ ~IsFinal(x, n)
    <3>1. CASE x[1] = 1
      BY <1>5, <1>12, <3>1
    <3>2. CASE x[1] # 1
      <4>1. x[1] > 1
        BY <1>1, <3>2, Placed
      <4> QED BY <1>5, <3>2, <4>1
    <3> QED BY <3>1, <3>2
  <2> QED BY <1>2, <1>4, <2>1 DEF StatesAgree
<1>14. OneChairARound'
  <2>1. ASSUME NEW x \in Positions(n), NEW y \in Positions(n), NEW side \in Sides, NEW side2 \in Sides,
               matches'[x][side] # Nil, matches'[x][side] = matches'[y][side2]
        PROVE  x = y /\ side = side2
    <3>1. x = <<1, x[2]>> /\ y = <<1, y[2]>> /\ x[2] \in FirstSlots(n) /\ y[2] \in FirstSlots(n)
      BY <1>7, <2>1
    <3>2. FirstRound(n)[x[2]][side] = FirstRound(n)[y[2]][side2] /\ FirstRound(n)[x[2]][side] \in 1..n
      BY <1>7, <2>1
    <3>3. x[2] = y[2] /\ side = side2
      BY <1>1, <3>1, <3>2, FirstRoundSeats, NilAssumption
    <3> QED BY <3>1, <3>3
  <2> QED BY <1>4, <2>1 DEF OneChairARound
<1>15. EveryRoundWasWon'
  <2>1. ASSUME NEW x \in Positions(n), NEW side \in Sides, matches'[x][side] # Nil, NEW r \in 1..(x[1] - 1)
        PROVE  FALSE
    BY <1>7, <2>1
  <2> QED BY <1>4, <2>1 DEF EveryRoundWasWon
<1>16. LosersAreOut'
  <2>1. ASSUME NEW x \in Positions(n)  PROVE matches'[x].state # "done"
    BY <1>5
  <2> QED BY <1>2, <1>4, <2>1 DEF LosersAreOut, Lost
<1>17. ChampionWonTheFinal'
  BY <1>2 DEF ChampionWonTheFinal
<1>18. SeedsAreTheDraw'
  <2>1. {seed'[p] : p \in field} = 1..n
    BY <1>2, <1>3
  <2>2. ASSUME NEW slot \in FirstSlots(n)
        PROVE  LET m == matches'[<<1, slot>>]
                   SeedOf(p) == IF p = Nil THEN Nil ELSE seed'[p]
               IN  FirstRound(n)[slot] = [a |-> SeedOf(m.a), b |-> SeedOf(m.b)]
    <3>1. "a" \in Sides /\ "b" \in Sides
      BY DEF Sides
    <3>2. PICK u, v : FirstRound(n)[slot] = [a |-> u, b |-> v]
      <4>1. FirstRound(n)[slot] = [a |-> FirstRound(n)[slot].a, b |-> FirstRound(n)[slot].b]
        BY <1>1, <3>1, FirstRoundIs
      <4> QED BY <4>1
    <3>3. FirstRound(n)[slot]["a"] = u /\ FirstRound(n)[slot]["b"] = v
      BY <3>2
    <3>4. <<1, slot>> \in Positions(n)
      BY <1>1, FirstPlaces DEF FirstSlots
    <3>5. u = IF matches'[<<1, slot>>].a = Nil THEN Nil ELSE seed'[matches'[<<1, slot>>].a]
      BY <1>6, <1>8, <3>1, <3>3, <3>4
    <3>6. v = IF matches'[<<1, slot>>].b = Nil THEN Nil ELSE seed'[matches'[<<1, slot>>].b]
      BY <1>6, <1>8, <3>1, <3>3, <3>4
    <3> QED BY <3>2, <3>5, <3>6
  <2>3. DOMAIN FirstRound(n) = FirstSlots(n)
    BY <1>1 DEF FirstRound, FirstSlots
  <2> QED BY <1>2, <2>1, <2>2, <2>3 DEF SeedsAreTheDraw
<1>19. ChairsAreEarned'
  <2>1. ASSUME NEW x \in Positions(n), ~IsFinal(x, n)
        PROVE  matches'[NextMatch(x)][NextSide(x)] = Nil
    <3>1. /\ NextMatch(x) \in Positions(n) /\ NextSide(x) \in Sides
          /\ NextMatch(x)[1] = x[1] + 1
      BY <1>1, <2>1, Ahead
    <3>2. NextMatch(x)[1] # 1
      BY <1>1, <3>1, Placed
    <3> QED BY <1>5, <3>1, <3>2
  <2> QED BY <1>2, <1>4, <2>1 DEF ChairsAreEarned
<1>20. SeedsKeepTheirPart'
  <2>1. ASSUME NEW x \in Positions(n), NEW side \in Sides, matches'[x][side] # Nil
        PROVE  seed'[matches'[x][side]] = SeedOrder(RoundCount(n) - x[1] + 1)[Chair(x[2], side)]
    <3>1. RoundCount(n) - x[1] + 1 = RoundCount(n)
      BY <1>1, <1>7, <2>1, Rounds
    <3> QED BY <1>7, <2>1, <3>1
  <2> QED BY <1>2, <1>4, <2>1 DEF SeedsKeepTheirPart
<1> QED BY <1>9, <1>10, <1>11, <1>13, <1>14, <1>15, <1>16, <1>17, <1>18, <1>19, <1>20 DEF BracketInv

-----------------------------------------------------------------------------
(* The steps of a bracket that was drawn.                                  *)

LEMMA BracketOf ==
  ASSUME Inv, NEW x \in DOMAIN matches
  PROVE  /\ Field \in Nat /\ Field >= 2 /\ DOMAIN matches = Positions(Field)
         /\ matches[x] \in Match /\ state # "open"
<1>1. Seeded \in SUBSET Players
  BY DEF Seeded
<1>2. Field \in Nat
  BY <1>1, PlayersAssumption, FS_Subset, FS_CardinalityType DEF Field
<1>3. DOMAIN matches # {}
  OBVIOUS
<1> QED BY <1>2, <1>3 DEF Inv, TypeOK, BracketInv, BracketIsSeeded

(* Who has won a match sits in it. *)
LEMMA WinnersSit ==
  ASSUME Inv, NEW x \in DOMAIN matches, matches[x].winner # Nil
  PROVE  /\ matches[x].state \in {"bye", "done"}
         /\ \E side \in Sides : matches[x][side] = matches[x].winner
         /\ matches[x].winner \in Seeded
<1>1. /\ matches[x] \in Match
      /\ matches[x].state \in {"pending", "ready", "bye", "done"}
      /\ matches[x]["a"] = matches[x].a /\ matches[x]["b"] = matches[x].b
  BY BracketOf, MatchFields
<1>2. matches[x].state \in {"bye", "done"} /\ matches[x].winner \in {matches[x].a, matches[x].b}
  BY <1>1 DEF Inv, BracketInv, StatesAgree
<1>3. PICK side \in Sides : matches[x][side] = matches[x].winner
  BY <1>1, <1>2 DEF Sides
<1>4. matches[x].winner \in Seeded
  BY <1>3 DEF Inv, BracketInv, ChairsAreSeeded
<1> QED BY <1>2, <1>3, <1>4

(* The chair a winner takes is his or empty. *)
LEMMA SeatFills ==
  ASSUME Inv, NEW h \in Handlers, pc[h] = "seat"
  PROVE  LET pos == mem[h].pos
             p   == mem[h].player
         IN  /\ pos \in DOMAIN matches /\ ~IsFinal(pos, Field) /\ p \in Players /\ p # Nil
             /\ matches[pos].winner = p
             /\ NextMatch(pos) \in DOMAIN matches /\ NextSide(pos) \in Sides
             /\ NextMatch(pos)[1] = pos[1] + 1 /\ pos[1] \in Nat /\ pos[1] >= 1
             /\ Before(NextMatch(pos), NextSide(pos)) = pos
             /\ matches[NextMatch(pos)][NextSide(pos)] \in {Nil, p}
<1>1. PICK pos, p : pos = mem[h].pos /\ p = mem[h].player
  OBVIOUS
<1>2. pos \in DOMAIN matches /\ p \in Players /\ ~IsFinal(pos, Field) /\ matches[pos].winner = p
  BY <1>1 DEF Inv, HandlersAgree, Agrees
<1>3. Field \in Nat /\ Field >= 2 /\ DOMAIN matches = Positions(Field)
  BY <1>2, BracketOf
<1>4. /\ NextMatch(pos) \in DOMAIN matches /\ NextSide(pos) \in Sides
      /\ NextMatch(pos)[1] = pos[1] + 1 /\ Before(NextMatch(pos), NextSide(pos)) = pos
  BY <1>2, <1>3, Ahead
<1>5. pos[1] \in Nat /\ pos[1] >= 1
  BY <1>2, <1>3, Placed
<1>6. matches[NextMatch(pos)][NextSide(pos)] \in {Nil, p}
  BY <1>2 DEF Inv, BracketInv, ChairsAreEarned
<1> QED BY <1>1, <1>2, <1>4, <1>5, <1>6, NilAssumption

LEMMA SeatKeeps ==
  ASSUME Inv, NEW h \in Handlers, Seat(h)
  PROVE  BracketInv'
<1>1. pc[h] = "seat"
  BY DEF Seat
<1>2. PICK pos, p, at, sd : pos = mem[h].pos /\ p = mem[h].player
                             /\ at = NextMatch(pos) /\ sd = NextSide(pos)
  OBVIOUS
<1>3. /\ pos \in DOMAIN matches /\ ~IsFinal(pos, Field) /\ p \in Players /\ p # Nil
      /\ matches[pos].winner = p
      /\ at \in DOMAIN matches /\ sd \in Sides
      /\ at[1] = pos[1] + 1 /\ pos[1] \in Nat /\ pos[1] >= 1 /\ Before(at, sd) = pos
      /\ matches[at][sd] \in {Nil, p}
  BY <1>1, <1>2, SeatFills
<1>4. PICK n \in Nat : n = Field /\ n >= 2 /\ DOMAIN matches = Positions(n)
  BY <1>3, BracketOf
<1>5. /\ seed' = seed /\ DOMAIN matches' = DOMAIN matches /\ entrants' = entrants
      /\ state' = state /\ champion' = champion /\ out' = out
      /\ Seeded' = Seeded /\ Field' = n
  BY <1>4, SeatWrites, FieldStays DEF DrawStays
<1>6. ASSUME NEW x \in DOMAIN matches
      PROVE  /\ matches[x] \in Match /\ matches'[x] \in Match
             /\ matches'[x].winner = matches[x].winner /\ matches'[x].state = matches[x].state
             /\ matches[x]["a"] = matches[x].a /\ matches[x]["b"] = matches[x].b
             /\ matches'[x]["a"] = matches'[x].a /\ matches'[x]["b"] = matches'[x].b
             /\ \A side \in Sides :
                  /\ matches'[x][side] = IF x = at /\ side = sd THEN p ELSE matches[x][side]
                  /\ matches[x][side] # Nil => matches'[x][side] = matches[x][side]
  <2>1. /\ matches'[x] \in Match
        /\ matches'[x].winner = matches[x].winner /\ matches'[x].state = matches[x].state
        /\ \A side \in Sides :
             matches'[x][side] = IF x = at /\ side = sd THEN p ELSE matches[x][side]
    BY <1>2, SeatWrites
  <2>2. matches[x] \in Match
    BY BracketOf
  <2>3. /\ matches[x]["a"] = matches[x].a /\ matches[x]["b"] = matches[x].b
        /\ matches'[x]["a"] = matches'[x].a /\ matches'[x]["b"] = matches'[x].b
    BY <2>1, <2>2, MatchFields
  <2> QED BY <1>3, <2>1, <2>2, <2>3
<1>7. /\ BracketIsSeeded /\ SeedsDiffer /\ ChairsAreSeeded /\ StatesAgree
      /\ OneChairARound /\ EveryRoundWasWon /\ LosersAreOut /\ ChampionWonTheFinal
      /\ SeedsAreTheDraw /\ ChairsAreEarned /\ SeedsKeepTheirPart
  BY DEF Inv, BracketInv
<1>8. PICK from \in Sides : matches[pos][from] = p
  BY <1>3, WinnersSit
<1>9. BracketIsSeeded'
  BY <1>3, <1>4, <1>5, <1>7 DEF BracketIsSeeded
<1>10. SeedsDiffer'
  BY <1>5, <1>7 DEF SeedsDiffer
<1>11. ChairsAreSeeded'
  <2>1. p \in Seeded
    BY <1>3, WinnersSit
  <2>2. ASSUME NEW x \in DOMAIN matches, NEW side \in Sides  PROVE matches'[x][side] \in Seeded \cup {Nil}
    BY <1>6, <1>7, <2>1 DEF ChairsAreSeeded
  <2> QED BY <1>5, <2>2 DEF ChairsAreSeeded
<1>12. StatesAgree'
  <2>1. ASSUME NEW x \in DOMAIN matches
        PROVE  LET m == matches'[x] IN
               /\ m.state = "pending" => m.winner = Nil /\ x[1] > 1
               /\ m.state = "ready"   => m.winner = Nil /\ m.a # Nil /\ m.b # Nil
               /\ m.state = "done"    => m.winner \in {m.a, m.b} /\ m.a # Nil /\ m.b # Nil
               /\ m.state = "bye"     => /\ m.winner \in {m.a, m.b} /\ m.winner # Nil
                                         /\ (m.a = Nil \/ m.b = Nil)
                                         /\ x[1] = 1 /\ ~IsFinal(x, n)
    <3>1. /\ matches[x].state = "pending" => matches[x].winner = Nil /\ x[1] > 1
          /\ matches[x].state = "ready"   =>
               matches[x].winner = Nil /\ matches[x].a # Nil /\ matches[x].b # Nil
          /\ matches[x].state = "done"    =>
               /\ matches[x].winner \in {matches[x].a, matches[x].b}
               /\ matches[x].a # Nil /\ matches[x].b # Nil
          /\ matches[x].state = "bye"     =>
               /\ matches[x].winner \in {matches[x].a, matches[x].b} /\ matches[x].winner # Nil
               /\ (matches[x].a = Nil \/ matches[x].b = Nil)
               /\ x[1] = 1 /\ ~IsFinal(x, n)
      BY <1>4, <1>7 DEF StatesAgree
    <3>2. /\ matches[x].a # Nil => matches'[x].a = matches[x].a
          /\ matches[x].b # Nil => matches'[x].b = matches[x].b
      BY <1>6 DEF Sides
    <3>3. x[1] = 1 => matches'[x].a = matches[x].a /\ matches'[x].b = matches[x].b
      <4>1. at[1] # 1
        BY <1>3
      <4> QED BY <1>6, <4>1 DEF Sides
    <3>4. matches'[x].winner = matches[x].winner /\ matches'[x].state = matches[x].state
      BY <1>6
    <3> QED BY <3>1, <3>2, <3>3, <3>4
  <2> QED BY <1>5, <2>1 DEF StatesAgree
<1>13. OneChairARound'
  (* Where p sits in the round he enters he has won the match before, and  *)
  (* there he had one chair.                                               *)
  <2>1. ASSUME NEW y \in DOMAIN matches, NEW side \in Sides,
               y[1] = at[1], matches[y][side] = p
        PROVE  y = at /\ side = sd
    <3>1. y[1] > 1
      BY <1>3, <2>1
    <3>2. /\ Before(y, side) \in DOMAIN matches /\ ~IsFinal(Before(y, side), n)
          /\ Before(y, side)[1] = y[1] - 1
          /\ NextMatch(Before(y, side)) = y /\ NextSide(Before(y, side)) = side
      BY <1>4, <2>1, <3>1, Behind
    <3>3. matches[Before(y, side)].winner = p
      BY <1>3, <1>4, <1>7, <2>1, <3>2 DEF ChairsAreEarned
    <3>4. PICK side2 \in Sides : matches[Before(y, side)][side2] = p
      BY <1>3, <3>2, <3>3, WinnersSit
    <3>5. Before(y, side)[1] = pos[1]
      BY <1>3, <2>1, <3>2
    <3>6. Before(y, side) = pos
      BY <1>3, <1>7, <1>8, <3>2, <3>4, <3>5 DEF OneChairARound
    <3> QED BY <1>2, <3>2, <3>6
  <2>2. ASSUME NEW x \in DOMAIN matches, NEW y \in DOMAIN matches,
               NEW side \in Sides, NEW side2 \in Sides, x[1] = y[1],
               matches'[x][side] # Nil, matches'[x][side] = matches'[y][side2]
        PROVE  x = y /\ side = side2
    <3>1. CASE (x = at /\ side = sd) /\ (y = at /\ side2 = sd)
      BY <3>1
    <3>2. CASE (x = at /\ side = sd) /\ ~(y = at /\ side2 = sd)
      BY <1>6, <2>1, <2>2, <3>2
    <3>3. CASE ~(x = at /\ side = sd) /\ (y = at /\ side2 = sd)
      BY <1>6, <2>1, <2>2, <3>3
    <3>4. CASE ~(x = at /\ side = sd) /\ ~(y = at /\ side2 = sd)
      <4>1. matches[x][side] # Nil /\ matches[x][side] = matches[y][side2]
        BY <1>6, <2>2, <3>4
      <4> QED BY <1>7, <2>2, <4>1 DEF OneChairARound
    <3> QED BY <3>1, <3>2, <3>3, <3>4
  <2> QED BY <1>5, <2>2 DEF OneChairARound
<1>14. EveryRoundWasWon'
  <2>1. ASSUME NEW x \in DOMAIN matches, NEW side \in Sides, matches'[x][side] # Nil,
               NEW r \in 1..(x[1] - 1)
        PROVE  \E y \in DOMAIN matches : y[1] = r /\ matches'[y].winner = matches'[x][side]
    <3>1. CASE x = at /\ side = sd
      <4>1. matches'[x][side] = p
        BY <1>6, <3>1
      <4>2. CASE r = pos[1]
        BY <1>3, <1>6, <4>1, <4>2
      <4>3. CASE r # pos[1]
        <5>1. r \in 1..(pos[1] - 1)
          BY <1>3, <3>1, <4>3
        <5>2. PICK y \in DOMAIN matches : y[1] = r /\ matches[y].winner = p
          BY <1>3, <1>7, <1>8, <5>1 DEF EveryRoundWasWon
        <5> QED BY <1>6, <4>1, <5>2
      <4> QED BY <4>2, <4>3
    <3>2. CASE ~(x = at /\ side = sd)
      <4>1. matches'[x][side] = matches[x][side]
        BY <1>6, <3>2
      <4>2. PICK y \in DOMAIN matches : y[1] = r /\ matches[y].winner = matches[x][side]
        BY <1>7, <2>1, <4>1 DEF EveryRoundWasWon
      <4> QED BY <1>6, <4>1, <4>2
    <3> QED BY <3>1, <3>2
  <2> QED BY <1>5, <2>1 DEF EveryRoundWasWon
<1>15. LosersAreOut'
  <2>1. ASSUME NEW x \in DOMAIN matches, NEW q
        PROVE  Lost(q, x)' <=> Lost(q, x)
    <3>1. matches[x].state = "done" => matches[x].a # Nil /\ matches[x].b # Nil
      BY <1>7 DEF StatesAgree
    <3>2. matches[x].state = "done" =>
            matches'[x].a = matches[x].a /\ matches'[x].b = matches[x].b
      BY <1>6, <3>1 DEF Sides
    <3>3. matches'[x].winner = matches[x].winner /\ matches'[x].state = matches[x].state
      BY <1>6
    <3> QED BY <3>2, <3>3 DEF Lost
  <2> QED BY <1>5, <1>7, <2>1 DEF LosersAreOut
<1>16. ChampionWonTheFinal'
  BY <1>4, <1>5, <1>6, <1>7 DEF ChampionWonTheFinal
<1>17. SeedsAreTheDraw'
  <2>1. ASSUME NEW slot \in FirstSlots(n)
        PROVE  /\ matches'[<<1, slot>>].a = matches[<<1, slot>>].a
               /\ matches'[<<1, slot>>].b = matches[<<1, slot>>].b
    <3>1. PICK x \in DOMAIN matches : x = <<1, slot>> /\ x[1] = 1
      <4>1. <<1, slot>> \in Positions(n)
        BY <1>4, FirstPlaces DEF FirstSlots
      <4> QED BY <1>4, <4>1
    <3>2. x # at
      BY <1>3, <3>1
    <3> QED BY <1>6, <3>1, <3>2 DEF Sides
  <2>2. DOMAIN FirstRound(n) = FirstSlots(n)
    BY <1>4 DEF FirstRound, FirstSlots
  <2>3. DOMAIN matches # {}
    BY <1>3
  <2> QED BY <1>4, <1>5, <1>7, <2>1, <2>2, <2>3 DEF SeedsAreTheDraw
<1>18. ChairsAreEarned'
  <2>1. ASSUME NEW x \in DOMAIN matches, ~IsFinal(x, n)
        PROVE  matches'[NextMatch(x)][NextSide(x)] \in {Nil, matches'[x].winner}
    <3>1. /\ NextMatch(x) \in DOMAIN matches /\ NextSide(x) \in Sides
          /\ Before(NextMatch(x), NextSide(x)) = x
      BY <1>4, <2>1, Ahead
    <3>2. CASE NextMatch(x) = at /\ NextSide(x) = sd
      <4>1. x = pos
        BY <1>3, <3>1, <3>2
      <4>2. matches'[at][sd] = p /\ matches'[x].winner = p
        BY <1>3, <1>6, <4>1
      <4> QED BY <3>2, <4>2
    <3>3. CASE ~(NextMatch(x) = at /\ NextSide(x) = sd)
      <4>1. matches'[NextMatch(x)][NextSide(x)] = matches[NextMatch(x)][NextSide(x)]
        BY <1>6, <3>1, <3>3
      <4>2. matches[NextMatch(x)][NextSide(x)] \in {Nil, matches[x].winner}
        BY <1>4, <1>7, <2>1 DEF ChairsAreEarned
      <4> QED BY <1>6, <4>1, <4>2
    <3> QED BY <3>2, <3>3
  <2> QED BY <1>5, <2>1 DEF ChairsAreEarned
<1>19. SeedsKeepTheirPart'
  <2>1. PICK k \in Nat : k = RoundCount(n) - at[1] + 1 /\ k >= 1 /\ k + 1 = RoundCount(n) - pos[1] + 1
    <3>1. at[1] \in 1..RoundCount(n) /\ RoundCount(n) \in Nat
      BY <1>3, <1>4, Placed
    <3> QED BY <1>3, <3>1
  <2>2. seed[p] = SeedOrder(k + 1)[Chair(pos[2], from)] \/ seed[p] > 2^(k + 1)
    BY <1>3, <1>4, <1>7, <1>8, <2>1 DEF SeedsKeepTheirPart
  <2>3. seed[p] = SeedOrder(k)[Chair(at[2], sd)] \/ seed[p] > 2^k
    <3>1. PICK size \in Nat : size = 2^k /\ 2^(k + 1) = 2 * size /\ size >= 1
      BY Power
    <3>2. PICK i \in Nat : k = i + 1
      BY <2>1
    <3>3. PICK half \in Nat : half = 2^i /\ size = 2 * half
      BY <3>1, <3>2, Power
    <3>4. PICK o : o = SeedOrder(k)
      OBVIOUS
    <3>5. IsOrder(o, half)
      BY <3>2, <3>3, <3>4, SeedOrders
    <3>6. /\ o \in [1..size -> 1..size]
          /\ \A x, y \in 1..size : o[x] = o[y] => x = y
          /\ \A v \in 1..size : \E x \in 1..size : o[x] = v
      BY <3>3, <3>5 DEF IsOrder
    <3>7. /\ SeedOrder(k + 1) = Doubled(k + 1, o)
          /\ \A s \in 1..size : /\ Doubled(k + 1, o)[2 * s - 1] = o[s]
                                /\ Doubled(k + 1, o)[2 * s] > size
      <4>1. SeedOrder(k + 1) = Doubled(k + 1, o)
        BY <2>1, <3>4, SeedOrderDoubles
      <4>2. \A s \in 1..size : /\ Doubled(k + 1, o)[2 * s - 1] = o[s]
                               /\ Doubled(k + 1, o)[2 * s] > size
        BY <3>1, <3>6, DoublingOrders
      <4> QED BY <4>1, <4>2
    (* The place of the match of the round before is that of this chair.   *)
    <3>8. pos[2] \in Nat /\ 1 <= pos[2] /\ pos[2] <= 2^(RoundCount(n) - pos[1]) /\ RoundCount(n) \in Nat
      BY <1>3, <1>4, Placed
    <3>9. pos[2] \in 1..size
      <4>1. RoundCount(n) - pos[1] = k
        BY <1>3, <2>1, <3>8
      <4> QED BY <3>1, <3>8, <4>1
    <3>10. Chair(at[2], sd) = pos[2]
      <4>1. at[2] = (pos[2] + 1) \div 2
        BY <1>2 DEF NextMatch
      <4>2. CASE pos[2] % 2 = 1
        <5>1. sd = "a" /\ 2 * at[2] - 1 = pos[2]
          BY <1>2, <3>8, <4>1, <4>2 DEF NextSide
        <5> QED BY <5>1 DEF Chair
      <4>3. CASE pos[2] % 2 # 1
        <5>1. sd = "b" /\ 2 * at[2] = pos[2]
          BY <1>2, <3>8, <4>1, <4>3 DEF NextSide
        <5> QED BY <5>1 DEF Chair
      <4> QED BY <4>2, <4>3
    <3>11. seed[p] \in Int
      <4>1. p \in Seeded
        BY <1>3, WinnersSit
      <4>2. Field \in Nat
        BY <1>4
      <4>3. {seed[q] : q \in Seeded} = 1..Field
        BY <1>3, <1>7 DEF SeedsAreTheDraw
      <4> QED BY <4>1, <4>2, <4>3
    <3>12. CASE seed[p] > 2^(k + 1)
      BY <3>1, <3>11, <3>12
    <3>13. CASE seed[p] = SeedOrder(k + 1)[Chair(pos[2], from)]
      <4>1. CASE from = "a"
        BY <3>4, <3>7, <3>9, <3>10, <3>13, <4>1 DEF Chair
      <4>2. CASE from = "b"
        BY <3>1, <3>7, <3>9, <3>13, <4>2 DEF Chair
      <4> QED BY <4>1, <4>2 DEF Sides
    <3> QED BY <2>2, <3>12, <3>13
  <2>4. ASSUME NEW x \in DOMAIN matches, NEW side \in Sides, matches'[x][side] # Nil
        PROVE  LET j == RoundCount(n) - x[1] + 1 IN
               \/ seed[matches'[x][side]] = SeedOrder(j)[Chair(x[2], side)]
               \/ seed[matches'[x][side]] > 2^j
    <3>1. CASE x = at /\ side = sd
      BY <1>6, <2>1, <2>3, <3>1
    <3>2. CASE ~(x = at /\ side = sd)
      <4>1. matches'[x][side] = matches[x][side]
        BY <1>6, <3>2
      <4> QED BY <1>4, <1>7, <2>4, <4>1 DEF SeedsKeepTheirPart
    <3> QED BY <3>1, <3>2
  <2> QED BY <1>5, <2>4 DEF SeedsKeepTheirPart
<1> QED BY <1>9, <1>10, <1>11, <1>12, <1>13, <1>14, <1>15, <1>16, <1>17, <1>18, <1>19 DEF BracketInv

(* Whatever leaves the chairs of the first round alone leaves the draw.    *)
LEMMA SameFirstRound ==
  ASSUME Inv, seed' = seed, DOMAIN matches' = DOMAIN matches,
         entrants \subseteq entrants', out' \subseteq out \cup entrants,
         \A x \in DOMAIN matches : matches'[x].a = matches[x].a /\ matches'[x].b = matches[x].b
  PROVE  SeedsAreTheDraw'
<1>1. CASE DOMAIN matches = {}
  BY <1>1 DEF SeedsAreTheDraw
<1>2. CASE DOMAIN matches # {}
  <2>1. PICK n \in Nat : n = Field /\ n >= 2 /\ DOMAIN matches = Positions(n)
    BY <1>2, BracketOf
  <2>2. Seeded' = Seeded /\ Field' = n
    BY <2>1, FieldStays
  <2>3. ASSUME NEW slot \in FirstSlots(n)
        PROVE  /\ matches'[<<1, slot>>].a = matches[<<1, slot>>].a
               /\ matches'[<<1, slot>>].b = matches[<<1, slot>>].b
    <3>1. <<1, slot>> \in Positions(n)
      BY <2>1, FirstPlaces DEF FirstSlots
    <3> QED BY <2>1, <3>1
  <2>4. DOMAIN FirstRound(n) = FirstSlots(n)
    BY DEF FirstRound, FirstSlots
  <2>5. SeedsAreTheDraw
    BY DEF Inv, BracketInv
  <2>6. Seeded \cup out' \subseteq entrants'
    BY <1>2, <2>5 DEF SeedsAreTheDraw
  <2> QED BY <1>2, <2>1, <2>2, <2>3, <2>4, <2>5, <2>6 DEF SeedsAreTheDraw
<1> QED BY <1>1, <1>2

LEMMA OpenKeeps ==
  ASSUME Inv, NEW h \in Handlers, Open(h)
  PROVE  BracketInv'
<1>1. /\ DrawStays /\ state' = state /\ champion' = champion /\ entrants' = entrants
      /\ seed' = seed /\ out' = out /\ DOMAIN matches' = DOMAIN matches
      /\ Seeded' = Seeded /\ Field' = Field
  BY OpenWrites, FieldStays DEF DrawStays
<1>2. ASSUME NEW x \in DOMAIN matches
      PROVE  /\ matches'[x].winner = matches[x].winner
             /\ \A side \in Sides : matches'[x][side] = matches[x][side]
             /\ matches'[x].a = matches[x].a /\ matches'[x].b = matches[x].b
             /\ \/ matches'[x].state = matches[x].state
                \/ /\ matches[x].state = "pending" /\ matches'[x].state = "ready"
                   /\ matches[x].a # Nil /\ matches[x].b # Nil
  <2>1. /\ matches'[x] \in Match /\ matches'[x].winner = matches[x].winner
        /\ \A side \in Sides : matches'[x][side] = matches[x][side]
        /\ \/ matches'[x].state = matches[x].state
           \/ /\ matches[x].state = "pending" /\ matches'[x].state = "ready"
              /\ matches[x].a # Nil /\ matches[x].b # Nil
    BY OpenWrites
  <2>2. /\ matches[x]["a"] = matches[x].a /\ matches[x]["b"] = matches[x].b
        /\ matches'[x]["a"] = matches'[x].a /\ matches'[x]["b"] = matches'[x].b
    BY <2>1, BracketOf, MatchFields
  <2> QED BY <2>1, <2>2 DEF Sides
<1>3. /\ BracketIsSeeded /\ SeedsDiffer /\ ChairsAreSeeded /\ StatesAgree
      /\ OneChairARound /\ EveryRoundWasWon /\ LosersAreOut /\ ChampionWonTheFinal
      /\ SeedsAreTheDraw /\ ChairsAreEarned /\ SeedsKeepTheirPart
  BY DEF Inv, BracketInv
<1>4. BracketIsSeeded'
  BY <1>1, <1>3 DEF BracketIsSeeded
<1>5. SeedsDiffer'
  BY <1>1, <1>3 DEF SeedsDiffer
<1>6. ChairsAreSeeded'
  BY <1>1, <1>2, <1>3 DEF ChairsAreSeeded
<1>7. StatesAgree'
  BY <1>1, <1>2, <1>3 DEF StatesAgree
<1>8. OneChairARound'
  BY <1>1, <1>2, <1>3 DEF OneChairARound
<1>9. EveryRoundWasWon'
  BY <1>1, <1>2, <1>3 DEF EveryRoundWasWon
<1>10. LosersAreOut'
  <2>1. ASSUME NEW x \in DOMAIN matches, NEW q  PROVE Lost(q, x)' <=> Lost(q, x)
    BY <1>2 DEF Lost
  <2> QED BY <1>1, <1>3, <2>1 DEF LosersAreOut
<1>11. ChampionWonTheFinal'
  BY <1>1, <1>2, <1>3 DEF ChampionWonTheFinal
<1>12. SeedsAreTheDraw'
  BY <1>1, <1>2, <1>3, SameFirstRound
<1>13. ChairsAreEarned'
  <2>1. ASSUME NEW x \in DOMAIN matches, ~IsFinal(x, Field)
        PROVE  matches'[NextMatch(x)][NextSide(x)] \in {Nil, matches'[x].winner}
    <3>1. NextMatch(x) \in DOMAIN matches /\ NextSide(x) \in Sides
      BY <2>1, BracketOf, Ahead
    <3>2. matches[NextMatch(x)][NextSide(x)] \in {Nil, matches[x].winner}
      BY <1>3, <2>1 DEF ChairsAreEarned
    <3> QED BY <1>2, <3>1, <3>2
  <2> QED BY <1>1, <2>1 DEF ChairsAreEarned
<1>14. SeedsKeepTheirPart'
  BY <1>1, <1>2, <1>3 DEF SeedsKeepTheirPart
<1> QED BY <1>4, <1>5, <1>6, <1>7, <1>8, <1>9, <1>10, <1>11, <1>12, <1>13, <1>14 DEF BracketInv

(* A loser had a chair in the match, and one only: he is the other one. *)
LEMMA LosersSit ==
  ASSUME Inv, NEW h \in Handlers, pc[h] = "decide"
  PROVE  LET pos == mem[h].pos
             m   == matches[pos]
         IN  /\ pos \in DOMAIN matches /\ mem[h].player \in Players /\ mem[h].player # Nil
             /\ m.a # Nil /\ m.b # Nil /\ mem[h].player # mem[h].loser
             /\ {m.a, m.b} = {mem[h].player, mem[h].loser}
             /\ mem[h].player \in Seeded /\ mem[h].loser \in Seeded /\ mem[h].loser \in entrants
             /\ m.state \in {"ready", "done"} /\ (m.state = "done" => m.winner = mem[h].player)
             /\ (m.state = "ready" => m.winner = Nil)
<1>1. PICK pos, p, l, m : pos = mem[h].pos /\ p = mem[h].player /\ l = mem[h].loser /\ m = matches[pos]
  OBVIOUS
<1>2. /\ pos \in DOMAIN matches /\ p \in Players
      /\ m.state \in {"ready", "done"} /\ (m.state = "done" => m.winner = p)
      /\ <<p, l>> \in {<<m.a, m.b>>, <<m.b, m.a>>}
  BY <1>1 DEF Inv, HandlersAgree, Agrees
<1>3. (p = m.a /\ l = m.b) \/ (p = m.b /\ l = m.a)
  BY <1>2
<1>4. m \in Match /\ m["a"] = m.a /\ m["b"] = m.b
  BY <1>1, <1>2, BracketOf, MatchFields
<1>5. m.a # Nil /\ m.b # Nil /\ (m.state = "ready" => m.winner = Nil)
  BY <1>1, <1>2 DEF Inv, BracketInv, StatesAgree
<1>6. m.a # m.b
  <2>1. ASSUME m.a = m.b  PROVE FALSE
    <3>1. matches[pos]["a"] # Nil /\ matches[pos]["a"] = matches[pos]["b"]
      BY <1>1, <1>4, <1>5, <2>1
    <3>2. "a" = "b"
      BY <1>2, <3>1 DEF Inv, BracketInv, OneChairARound, Sides
    <3> QED BY <3>2
  <2> QED BY <2>1
<1>7. m.a \in Seeded /\ m.b \in Seeded
  BY <1>1, <1>2, <1>4, <1>5 DEF Inv, BracketInv, ChairsAreSeeded, Sides
<1>8. Seeded \subseteq entrants
  BY <1>2 DEF Inv, BracketInv, SeedsAreTheDraw
<1> QED BY <1>1, <1>2, <1>3, <1>5, <1>6, <1>7, <1>8, NilAssumption

LEMMA DecideKeeps ==
  ASSUME Inv, NEW h \in Handlers, Decide(h)
  PROVE  BracketInv'
<1>1. pc[h] = "decide"
  BY DEF Decide
<1>2. PICK pos, p, l : pos = mem[h].pos /\ p = mem[h].player /\ l = mem[h].loser
  OBVIOUS
<1>3. /\ pos \in DOMAIN matches /\ p \in Players /\ p # Nil /\ p # l
      /\ matches[pos].a # Nil /\ matches[pos].b # Nil
      /\ {matches[pos].a, matches[pos].b} = {p, l}
      /\ p \in Seeded /\ l \in Seeded /\ l \in entrants
      /\ matches[pos].state \in {"ready", "done"}
      /\ (matches[pos].state = "done" => matches[pos].winner = p)
      /\ (matches[pos].state = "ready" => matches[pos].winner = Nil)
  BY <1>1, <1>2, LosersSit
<1>4. /\ state' = state /\ champion' = champion /\ entrants' = entrants
      /\ seed' = seed /\ DOMAIN matches' = DOMAIN matches
      /\ Seeded' = Seeded /\ Field' = Field /\ out' = out \cup {l}
  BY <1>2, <1>3, DecideWrites, FieldStays DEF DrawStays
<1>5. ASSUME NEW x \in DOMAIN matches
      PROVE  /\ \A side \in Sides : matches'[x][side] = matches[x][side]
             /\ matches'[x].a = matches[x].a /\ matches'[x].b = matches[x].b
             /\ matches'[x].winner = IF x = pos THEN p ELSE matches[x].winner
             /\ matches'[x].state = IF x = pos THEN "done" ELSE matches[x].state
             /\ (matches[x].winner # Nil => matches'[x].winner = matches[x].winner)
  <2>1. /\ matches'[x] \in Match
        /\ \A side \in Sides : matches'[x][side] = matches[x][side]
        /\ matches'[x].winner = IF x = pos THEN p ELSE matches[x].winner
        /\ matches'[x].state = IF x = pos THEN "done" ELSE matches[x].state
    BY <1>2, DecideWrites
  <2>2. /\ matches[x]["a"] = matches[x].a /\ matches[x]["b"] = matches[x].b
        /\ matches'[x]["a"] = matches'[x].a /\ matches'[x]["b"] = matches'[x].b
    BY <2>1, BracketOf, MatchFields
  <2> QED BY <1>3, <2>1, <2>2 DEF Sides
<1>6. /\ BracketIsSeeded /\ SeedsDiffer /\ ChairsAreSeeded /\ StatesAgree
      /\ OneChairARound /\ EveryRoundWasWon /\ LosersAreOut /\ ChampionWonTheFinal
      /\ SeedsAreTheDraw /\ ChairsAreEarned /\ SeedsKeepTheirPart
  BY DEF Inv, BracketInv
<1>7. BracketIsSeeded'
  BY <1>3, <1>4, <1>6 DEF BracketIsSeeded
<1>8. SeedsDiffer'
  BY <1>4, <1>6 DEF SeedsDiffer
<1>9. ChairsAreSeeded'
  BY <1>4, <1>5, <1>6 DEF ChairsAreSeeded
<1>10. StatesAgree'
  <2>1. ASSUME NEW x \in DOMAIN matches
        PROVE  LET m == matches'[x] IN
               /\ m.state = "pending" => m.winner = Nil /\ x[1] > 1
               /\ m.state = "ready"   => m.winner = Nil /\ m.a # Nil /\ m.b # Nil
               /\ m.state = "done"    => m.winner \in {m.a, m.b} /\ m.a # Nil /\ m.b # Nil
               /\ m.state = "bye"     => /\ m.winner \in {m.a, m.b} /\ m.winner # Nil
                                         /\ (m.a = Nil \/ m.b = Nil)
                                         /\ x[1] = 1 /\ ~IsFinal(x, Field)
    <3>1. CASE x = pos
      BY <1>3, <1>5, <3>1
    <3>2. CASE x # pos
      BY <1>5, <1>6, <3>2 DEF StatesAgree
    <3> QED BY <3>1, <3>2
  <2> QED BY <1>4, <2>1 DEF StatesAgree
<1>11. OneChairARound'
  BY <1>4, <1>5, <1>6 DEF OneChairARound
<1>12. EveryRoundWasWon'
  <2>1. ASSUME NEW x \in DOMAIN matches, NEW side \in Sides, matches'[x][side] # Nil,
               NEW r \in 1..(x[1] - 1)
        PROVE  \E y \in DOMAIN matches : y[1] = r /\ matches'[y].winner = matches'[x][side]
    <3>1. matches'[x][side] = matches[x][side] /\ matches[x][side] # Nil
      BY <1>5, <2>1
    <3>2. PICK y \in DOMAIN matches : y[1] = r /\ matches[y].winner = matches[x][side]
      BY <1>6, <3>1 DEF EveryRoundWasWon
    <3> QED BY <1>5, <3>1, <3>2
  <2> QED BY <1>4, <2>1 DEF EveryRoundWasWon
<1>13. LosersAreOut'
  <2>1. ASSUME NEW x \in DOMAIN matches, NEW q, x # pos  PROVE Lost(q, x)' <=> Lost(q, x)
    BY <1>5, <2>1 DEF Lost
  <2>2. ASSUME NEW q  PROVE Lost(q, pos)' <=> q = l
    <3>1. /\ matches'[pos].state = "done" /\ matches'[pos].winner = p
          /\ {matches'[pos].a, matches'[pos].b} = {p, l}
      BY <1>3, <1>5
    <3> QED BY <1>3, <3>1 DEF Lost
  <2>3. ASSUME NEW q, Lost(q, pos)  PROVE q = l
    BY <1>3, <2>3 DEF Lost
  <2>4. l \in Players
    BY <1>3 DEF Seeded
  <2>5. ASSUME NEW q \in Players
        PROVE  (\E x \in DOMAIN matches : Lost(q, x)') <=> ((\E x \in DOMAIN matches : Lost(q, x)) \/ q = l)
    BY <1>3, <2>1, <2>2, <2>3
  <2>6. out = {q \in Players : \E x \in DOMAIN matches : Lost(q, x)}
    BY <1>6 DEF LosersAreOut
  <2>7. out' = {q \in Players : \E x \in DOMAIN matches : Lost(q, x)'}
    BY <1>4, <2>4, <2>5, <2>6
  <2> QED BY <1>4, <2>7 DEF LosersAreOut
<1>14. ChampionWonTheFinal'
  <2>1. ASSUME champion # Nil
        PROVE  \E x \in DOMAIN matches : /\ IsFinal(x, Field) /\ matches'[x].state = "done"
                                         /\ matches'[x].winner = champion
    <3>1. PICK x \in DOMAIN matches : /\ IsFinal(x, Field) /\ matches[x].state = "done"
                                      /\ matches[x].winner = champion
      BY <1>6, <2>1 DEF ChampionWonTheFinal
    <3>2. matches'[x].winner = champion /\ matches'[x].state = "done"
      BY <1>5, <2>1, <3>1
    <3> QED BY <3>1, <3>2
  <2> QED BY <1>4, <2>1 DEF ChampionWonTheFinal
<1>15. SeedsAreTheDraw'
  <2>1. (out \cup {l}) \subseteq out \cup entrants
    BY <1>3
  <2> QED BY <1>3, <1>4, <1>5, <1>6, <2>1, SameFirstRound
<1>16. ChairsAreEarned'
  <2>1. ASSUME NEW x \in DOMAIN matches, ~IsFinal(x, Field)
        PROVE  matches'[NextMatch(x)][NextSide(x)] \in {Nil, matches'[x].winner}
    <3>1. NextMatch(x) \in DOMAIN matches /\ NextSide(x) \in Sides
      BY <2>1, BracketOf, Ahead
    <3>2. matches[NextMatch(x)][NextSide(x)] \in {Nil, matches[x].winner}
      BY <1>6, <2>1 DEF ChairsAreEarned
    <3> QED BY <1>5, <3>1, <3>2
  <2> QED BY <1>4, <2>1 DEF ChairsAreEarned
<1>17. SeedsKeepTheirPart'
  BY <1>4, <1>5, <1>6 DEF SeedsKeepTheirPart
<1> QED BY <1>7, <1>8, <1>9, <1>10, <1>11, <1>12, <1>13, <1>14, <1>15, <1>16, <1>17 DEF BracketInv

LEMMA CrownKeeps ==
  ASSUME Inv, NEW h \in Handlers, Crown(h)
  PROVE  BracketInv'
<1>1. PICK pos, p : pos = mem[h].pos /\ p = mem[h].player
  OBVIOUS
<1>2. /\ pos \in DOMAIN matches /\ IsFinal(pos, Field)
      /\ matches[pos].state = "done" /\ matches[pos].winner = p
  BY <1>1 DEF Inv, HandlersAgree, Agrees, Crown
<1>3. state' = "finished" /\ champion' = p /\ UNCHANGED <<entrants, seed, out, matches>>
  BY <1>1 DEF Crown
<1>4. Seeded' = Seeded /\ Field' = Field
  BY <1>3, FieldStays
<1>5. /\ BracketIsSeeded /\ SeedsDiffer /\ ChairsAreSeeded /\ StatesAgree
      /\ OneChairARound /\ EveryRoundWasWon /\ LosersAreOut
      /\ SeedsAreTheDraw /\ ChairsAreEarned /\ SeedsKeepTheirPart
  BY DEF Inv, BracketInv
<1>6. BracketIsSeeded'
  BY <1>2, <1>3, <1>4, <1>5 DEF BracketIsSeeded
<1>7. ChampionWonTheFinal'
  BY <1>2, <1>3, <1>4 DEF ChampionWonTheFinal
<1>8. SeedsDiffer' /\ ChairsAreSeeded' /\ StatesAgree' /\ OneChairARound' /\ EveryRoundWasWon'
  BY <1>3, <1>4, <1>5 DEF SeedsDiffer, ChairsAreSeeded, StatesAgree, OneChairARound, EveryRoundWasWon
<1>9. LosersAreOut'
  BY <1>3, <1>5 DEF LosersAreOut, Lost
<1>10. SeedsAreTheDraw' /\ ChairsAreEarned' /\ SeedsKeepTheirPart'
  BY <1>3, <1>4, <1>5 DEF SeedsAreTheDraw, ChairsAreEarned, SeedsKeepTheirPart
<1> QED BY <1>6, <1>7, <1>8, <1>9, <1>10 DEF BracketInv

LEMMA EnterKeeps ==
  ASSUME Inv, entrants \subseteq entrants', UNCHANGED <<state, champion, seed, out, matches>>
  PROVE  BracketInv'
<1>1. Seeded' = Seeded /\ Field' = Field
  BY FieldStays
<1>2. /\ BracketIsSeeded /\ SeedsDiffer /\ ChairsAreSeeded /\ StatesAgree
      /\ OneChairARound /\ EveryRoundWasWon /\ LosersAreOut /\ ChampionWonTheFinal
      /\ SeedsAreTheDraw /\ ChairsAreEarned /\ SeedsKeepTheirPart
  BY DEF Inv, BracketInv
<1>3. /\ BracketIsSeeded' /\ SeedsDiffer' /\ ChairsAreSeeded' /\ StatesAgree'
      /\ OneChairARound' /\ EveryRoundWasWon' /\ ChampionWonTheFinal'
  BY <1>1, <1>2 DEF BracketIsSeeded, SeedsDiffer, ChairsAreSeeded, StatesAgree, OneChairARound,
                    EveryRoundWasWon, ChampionWonTheFinal
<1>4. LosersAreOut'
  BY <1>2 DEF LosersAreOut, Lost
<1>5. ChairsAreEarned' /\ SeedsKeepTheirPart'
  BY <1>1, <1>2 DEF ChairsAreEarned, SeedsKeepTheirPart
<1>6. SeedsAreTheDraw'
  BY <1>2, SameFirstRound
<1> QED BY <1>3, <1>4, <1>5, <1>6 DEF BracketInv

-----------------------------------------------------------------------------
(* The handlers.                                                           *)

(* h goes to a label with these local variables, and it alone. *)
Moves(h, label, m) ==
  /\ DOMAIN pc' = Handlers /\ DOMAIN mem' = Handlers
  /\ pc' = [g \in Handlers |-> pc'[g]] /\ mem' = [g \in Handlers |-> mem'[g]]
  /\ pc'[h] = label /\ mem'[h] = m
  /\ \A g \in Handlers : g # h => pc'[g] = pc[g] /\ mem'[g] = mem[g]

LEMMA Moving ==
  ASSUME TypeOK, NEW h \in Handlers, NEW label
  PROVE  /\ \A m : pc' = [pc EXCEPT ![h] = label] /\ mem' = [mem EXCEPT ![h] = m]
                   => Moves(h, label, m)
         /\ Goto(h, label) /\ UNCHANGED mem => Moves(h, label, mem[h])
         /\ Finish(h) => Moves(h, "idle", Blank)
<1>1. pc \in [Handlers -> Labels] /\ mem \in [Handlers -> Locals]
  BY DEF TypeOK
<1>2. ASSUME NEW l, NEW m, pc' = [pc EXCEPT ![h] = l], mem' = [mem EXCEPT ![h] = m]
      PROVE  Moves(h, l, m)
  BY <1>1, <1>2 DEF Moves
<1>3. ASSUME Goto(h, label), UNCHANGED mem  PROVE Moves(h, label, mem[h])
  BY <1>1, <1>3 DEF Moves, Goto
<1>4. ASSUME Finish(h)  PROVE Moves(h, "idle", Blank)
  BY <1>2, <1>4 DEF Finish
<1> QED BY <1>2, <1>3, <1>4

LEMMA BlankLocals ==
  /\ Blank \in Locals /\ Blank.call = "" /\ Blank.todo = {} /\ Blank.player = Nil
  /\ \A p \in Players, pos \in AllPositions :
       /\ [Blank EXCEPT !.call = "join", !.player = p] \in Locals
       /\ [Blank EXCEPT !.call = "start"] \in Locals
       /\ [Blank EXCEPT !.call = "report", !.pos = pos, !.player = p] \in Locals
BY DEF Blank, Locals, Or

LEMMA JoinMoves ==
  ASSUME Inv, NEW h \in Handlers, Join(h)
  PROVE  /\ UNCHANGED rows
         /\ \E m \in Locals : /\ Moves(h, "count", m) /\ m.call = "join"
                              /\ m.player \in Players /\ m.todo = {}
<1>1. PICK p \in Players : Start(h, "count", [Blank EXCEPT !.call = "join", !.player = p])
  BY DEF Join
<1>2. PICK m : m = [Blank EXCEPT !.call = "join", !.player = p]
  OBVIOUS
<1>3. m \in Locals /\ m.call = "join" /\ m.player = p /\ m.todo = {}
  BY <1>2 DEF Blank, Locals, Or
<1>4. Moves(h, "count", m)
  BY <1>1, <1>2, Moving DEF Start, Inv
<1> QED BY <1>3, <1>4 DEF Join

LEMMA BeginMoves ==
  ASSUME Inv, NEW h \in Handlers, Begin(h)
  PROVE  /\ UNCHANGED rows
         /\ \E m \in Locals : Moves(h, "field", m) /\ m.call = "start" /\ m.todo = {}
<1>1. Start(h, "field", [Blank EXCEPT !.call = "start"])
  BY DEF Begin
<1>2. PICK m : m = [Blank EXCEPT !.call = "start"]
  OBVIOUS
<1>3. m \in Locals /\ m.call = "start" /\ m.todo = {}
  BY <1>2 DEF Blank, Locals, Or
<1>4. Moves(h, "field", m)
  BY <1>1, <1>2, Moving DEF Start, Inv
<1> QED BY <1>3, <1>4 DEF Begin

LEMMA ReportMoves ==
  ASSUME Inv, NEW h \in Handlers, Report(h)
  PROVE  /\ UNCHANGED rows
         /\ \E m \in Locals :
              /\ Moves(h, "look", m) /\ m.call = "report" /\ m.todo = {}
              /\ m.pos \in DOMAIN matches /\ m.player \in Players
              /\ \A g \in InFlight :
                   mem[g].call = "report" /\ mem[g].pos = m.pos => mem[g].player = m.player
<1>1. PICK pos \in DOMAIN matches, p \in Players :
        /\ \A g \in InFlight : mem[g].call = "report" /\ mem[g].pos = pos => mem[g].player = p
        /\ Start(h, "look", [Blank EXCEPT !.call = "report", !.pos = pos, !.player = p])
  BY DEF Report
<1>2. PICK m : m = [Blank EXCEPT !.call = "report", !.pos = pos, !.player = p]
  OBVIOUS
<1>3. pos \in AllPositions
  BY <1>1 DEF Inv, TypeOK, AllPositions
<1>4. m \in Locals /\ m.call = "report" /\ m.todo = {} /\ m.pos = pos /\ m.player = p
  BY <1>2, <1>3 DEF Blank, Locals, Or
<1>5. Moves(h, "look", m)
  BY <1>1, <1>2, Moving DEF Start, Inv
<1> QED BY <1>1, <1>4, <1>5 DEF Report

LEMMA CountMoves ==
  ASSUME Inv, NEW h \in Handlers, Count(h)
  PROVE  /\ UNCHANGED rows /\ pc[h] = "count"
         /\ Moves(h, "idle", Blank) \/ Moves(h, "enter", mem[h])
BY Moving DEF Inv, Count

LEMMA EnterMoves ==
  ASSUME Inv, NEW h \in Handlers, Enter(h)
  PROVE  /\ Moves(h, "idle", Blank) /\ pc[h] = "enter"
         /\ entrants' = entrants \cup {mem[h].player} /\ mem[h].player \in Players
         /\ UNCHANGED <<state, champion, seed, out, matches>>
BY Moving DEF Inv, Enter, HandlersAgree, Agrees

LEMMA ReadFieldMoves ==
  ASSUME Inv, NEW h \in Handlers, ReadField(h)
  PROVE  /\ UNCHANGED rows /\ pc[h] = "field"
         /\ \/ Moves(h, "idle", Blank)
            \/ \E m \in Locals :
                 /\ Moves(h, "draw", m) /\ m.call = mem[h].call /\ m.todo = mem[h].todo
                 /\ m.field \subseteq entrants /\ Cardinality(m.field) >= 2
<1>1. UNCHANGED rows /\ pc[h] = "field"
  BY DEF ReadField
<1>2. CASE Finish(h)
  BY <1>1, <1>2, Moving DEF Inv
<1>3. CASE ~Finish(h)
  <2>1. PICK field : field = entrants \ out
    OBVIOUS
  <2>2. /\ Cardinality(field) >= 2 \/ ~(Cardinality(field) < 2)
        /\ mem' = [mem EXCEPT ![h].field = field] /\ Goto(h, "draw")
    BY <1>3, <2>1 DEF ReadField
  <2>3. field \subseteq entrants /\ field \in SUBSET Players
    BY <2>1 DEF Inv, TypeOK
  <2>4. Cardinality(field) \in Nat
    BY <2>3, PlayersAssumption, FS_Subset, FS_CardinalityType
  <2>5. PICK old \in Locals : old = mem[h]
    BY DEF Inv, TypeOK
  <2>6. PICK m : m = [old EXCEPT !.field = field]
    OBVIOUS
  <2>7. m \in Locals /\ m.call = old.call /\ m.todo = old.todo /\ m.field = field
    BY <2>3, <2>6 DEF Locals
  <2>8. Moves(h, "draw", m)
    <3>1. mem' = [mem EXCEPT ![h] = m]
      BY <2>2, <2>5, <2>6
    <3> QED BY <2>2, <3>1, Moving DEF Inv, Goto
  <2>9. Cardinality(field) >= 2
    BY <2>2, <2>4
  <2> QED BY <1>1, <2>3, <2>5, <2>7, <2>8, <2>9
<1> QED BY <1>2, <1>3

LEMMA DrawMoves ==
  ASSUME Inv, NEW h \in Handlers, Draw(h)
  PROVE  /\ pc[h] = "draw"
         /\ \/ Moves(h, "idle", Blank) /\ UNCHANGED rows
            \/ Moves(h, "byes", mem[h]) /\ \E field : \E s : Draws(field, s)
<1>1. CASE DOMAIN matches # {}
  BY <1>1, Moving DEF Draw, Inv
<1>2. CASE DOMAIN matches = {}
  <2>1. PICK s \in Seedings(mem[h].field) :
          /\ seed' = [p \in Players |-> IF p \in mem[h].field THEN s[p] ELSE seed[p]]
          /\ matches' = Drawn(s)
    BY <1>2 DEF Draw
  <2>2. state' = "running" /\ UNCHANGED <<champion, entrants, out>>
    BY <1>2 DEF Draw
  <2>3. mem[h].field \in SUBSET entrants /\ Cardinality(mem[h].field) >= 2
    BY DEF Draw, Inv, HandlersAgree, Agrees
  <2>4. Draws(mem[h].field, s)
    BY <1>2, <2>1, <2>2, <2>3 DEF Draws
  <2>5. Moves(h, "byes", mem[h])
    BY <1>2, Moving DEF Draw, Inv
  <2> QED BY <2>4, <2>5 DEF Draw
<1> QED BY <1>1, <1>2

LEMMA ReadByesMoves ==
  ASSUME Inv, NEW h \in Handlers, ReadByes(h)
  PROVE  /\ UNCHANGED rows /\ pc[h] = "byes"
         /\ \E m \in Locals :
              /\ Moves(h, "next", m) /\ m.call = mem[h].call
              /\ m.todo = {pos \in DOMAIN matches : matches[pos].state = "bye"}
<1>1. PICK todo : todo = {pos \in DOMAIN matches : matches[pos].state = "bye"}
  OBVIOUS
<1>2. mem' = [mem EXCEPT ![h].todo = todo] /\ Goto(h, "next") /\ UNCHANGED rows /\ pc[h] = "byes"
  BY <1>1 DEF ReadByes
<1>3. todo \in SUBSET AllPositions
  BY <1>1 DEF Inv, TypeOK, AllPositions
<1>4. PICK old \in Locals : old = mem[h]
  BY DEF Inv, TypeOK
<1>5. PICK m : m = [old EXCEPT !.todo = todo]
  OBVIOUS
<1>6. m \in Locals /\ m.call = old.call /\ m.todo = todo
  BY <1>3, <1>5 DEF Locals
<1>7. Moves(h, "next", m)
  <2>1. mem' = [mem EXCEPT ![h] = m]
    BY <1>2, <1>4, <1>5
  <2> QED BY <1>2, <2>1, Moving DEF Inv, Goto
<1> QED BY <1>1, <1>2, <1>4, <1>6, <1>7

LEMMA NextByeMoves ==
  ASSUME Inv, NEW h \in Handlers, NextBye(h)
  PROVE  /\ UNCHANGED rows /\ pc[h] = "next"
         /\ \/ Moves(h, "idle", Blank)
            \/ \E m \in Locals :
                 /\ Moves(h, "seat", m) /\ m.call = mem[h].call
                 /\ m.pos \in mem[h].todo /\ m.player = matches[m.pos].winner
                 /\ m.todo \subseteq mem[h].todo
<1>1. UNCHANGED rows /\ pc[h] = "next"
  BY DEF NextBye
<1>2. CASE Finish(h)
  BY <1>1, <1>2, Moving DEF Inv
<1>3. CASE ~Finish(h)
  <2>1. PICK pos \in mem[h].todo :
          /\ mem' = [mem EXCEPT ![h].pos = pos, ![h].player = matches[pos].winner,
                                ![h].todo = @ \ {pos}]
          /\ Goto(h, "seat")
    BY <1>3 DEF NextBye
  <2>2. PICK old \in Locals : old = mem[h]
    BY DEF Inv, TypeOK
  <2>3. PICK p : p = matches[pos].winner
    OBVIOUS
  <2>4. pos \in DOMAIN matches
    BY <2>1 DEF Inv, HandlersAgree, Agrees
  <2>5. p \in Or(Players)
    BY <2>3, <2>4, BracketOf, MatchFields
  <2>6. pos \in AllPositions /\ old.todo \in SUBSET AllPositions
    BY <2>1, <2>2, LocalFields
  <2>7. PICK m : m = [old EXCEPT !.pos = pos, !.player = p, !.todo = old.todo \ {pos}]
    OBVIOUS
  <2>8. /\ m \in Locals /\ m.call = old.call /\ m.pos = pos /\ m.player = p
        /\ m.todo = old.todo \ {pos}
    BY <2>5, <2>6, <2>7 DEF Locals, Or
  <2>9. Moves(h, "seat", m)
    <3>1. mem' = [mem EXCEPT ![h] = m]
      BY <2>1, <2>2, <2>3, <2>7 DEF Inv, TypeOK
    <3> QED BY <2>1, <3>1, Moving DEF Inv, Goto
  <2> QED BY <1>1, <2>1, <2>2, <2>3, <2>8, <2>9
<1> QED BY <1>2, <1>3

LEMMA SeatMoves ==
  ASSUME Inv, NEW h \in Handlers, Seat(h)
  PROVE  Moves(h, "ready", mem[h]) /\ pc[h] = "seat"
BY Moving DEF Inv, Seat

LEMMA OpenMoves ==
  ASSUME Inv, NEW h \in Handlers, Open(h)
  PROVE  /\ pc[h] = "ready"
         /\ Moves(h, "idle", Blank) \/ (Moves(h, "next", mem[h]) /\ mem[h].call = "start")
BY Moving DEF Inv, Open, Return

LEMMA LookMoves ==
  ASSUME Inv, NEW h \in Handlers, Look(h)
  PROVE  /\ UNCHANGED rows /\ pc[h] = "look"
         /\ \/ Moves(h, "idle", Blank)
            \/ \E m \in Locals :
                 /\ Moves(h, "decide", m) /\ m.call = mem[h].call /\ m.todo = mem[h].todo
                 /\ m.pos = mem[h].pos /\ m.player = mem[h].player
                 /\ matches[m.pos].state = "ready"
                 /\ \/ m.player = matches[m.pos].a /\ m.loser = matches[m.pos].b
                    \/ m.player = matches[m.pos].b /\ m.loser = matches[m.pos].a
<1>1. UNCHANGED rows /\ pc[h] = "look"
  BY DEF Look
<1>2. CASE Finish(h)
  BY <1>1, <1>2, Moving DEF Inv
<1>3. CASE ~Finish(h)
  <2>1. PICK old \in Locals : old = mem[h]
    BY DEF Inv, TypeOK
  <2>2. PICK r : r = matches[old.pos]
    OBVIOUS
  <2>3. PICK l : l = IF old.player = r.a THEN r.b ELSE r.a
    OBVIOUS
  <2>4. /\ r.state = "ready" /\ old.player \in {r.a, r.b}
        /\ mem' = [mem EXCEPT ![h].loser = l] /\ Goto(h, "decide")
    BY <1>3, <2>1, <2>2, <2>3 DEF Look
  <2>5. old.pos \in DOMAIN matches
    BY <1>1, <2>1 DEF Inv, HandlersAgree, Agrees
  <2>6. r.a \in Or(Players) /\ r.b \in Or(Players)
    BY <2>2, <2>5, BracketOf, MatchFields
  <2>7. PICK m : m = [old EXCEPT !.loser = l]
    OBVIOUS
  <2>8. /\ m \in Locals /\ m.call = old.call /\ m.todo = old.todo /\ m.pos = old.pos
        /\ m.player = old.player /\ m.loser = l
    BY <2>3, <2>6, <2>7 DEF Locals
  <2>9. Moves(h, "decide", m)
    <3>1. mem' = [mem EXCEPT ![h] = m]
      BY <2>1, <2>4, <2>7
    <3> QED BY <2>4, <3>1, Moving DEF Inv, Goto
  <2> QED BY <1>1, <2>1, <2>2, <2>3, <2>4, <2>8, <2>9
<1> QED BY <1>2, <1>3

LEMMA DecideMoves ==
  ASSUME Inv, NEW h \in Handlers, Decide(h)
  PROVE  /\ pc[h] = "decide"
         /\ IsFinal(mem[h].pos, Field) => Moves(h, "crown", mem[h])
         /\ ~IsFinal(mem[h].pos, Field) => Moves(h, "seat", mem[h])
BY Moving DEF Inv, Decide

LEMMA CrownMoves ==
  ASSUME Inv, NEW h \in Handlers, Crown(h)
  PROVE  Moves(h, "idle", Blank) /\ pc[h] = "crown"
BY Moving DEF Inv, Crown

-----------------------------------------------------------------------------
(* What no step takes back.                                                *)

RowsGrow ==
  /\ entrants \subseteq entrants'
  /\ \A x \in DOMAIN matches :
       /\ x \in DOMAIN matches' /\ (IsFinal(x, Field') <=> IsFinal(x, Field))
       /\ (matches[x].a # Nil => matches'[x].a = matches[x].a)
       /\ (matches[x].b # Nil => matches'[x].b = matches[x].b)
       /\ (matches[x].winner # Nil => matches'[x].winner = matches[x].winner)
       /\ (matches[x].state = "bye" => matches'[x].state = "bye")
       /\ (matches[x].state = "done" => matches'[x].state = "done")
       /\ (matches[x].state = "ready" => matches'[x].state \in {"ready", "done"})

(* Who decides a match names the winner p. *)
DecidedFor(pos, p) ==
  matches[pos].state = "ready" /\ matches'[pos].state = "done" => matches'[pos].winner = p

DecidedOnce ==
  \A g \in Handlers : pc[g] = "decide" => DecidedFor(mem[g].pos, mem[g].player)

LEMMA RowsUnchanged ==
  ASSUME UNCHANGED rows
  PROVE  RowsGrow /\ DecidedOnce /\ (Inv => BracketInv')
<1>1. UNCHANGED <<state, champion, entrants, seed, out, matches>>
  BY DEF rows
<1>2. Field' = Field
  BY <1>1, FieldStays
<1>3. RowsGrow
  BY <1>1, <1>2 DEF RowsGrow
<1>4. Inv => BracketInv'
  BY <1>1, EnterKeeps
<1>5. DecidedOnce
  BY <1>1 DEF DecidedFor, DecidedOnce
<1> QED BY <1>3, <1>4, <1>5

LEMMA DrawGrows ==
  ASSUME Inv, NEW field, NEW s, Draws(field, s)
  PROVE  RowsGrow /\ DecidedOnce
<1>1. RowsGrow
  BY DEF Draws, RowsGrow
<1>2. DecidedOnce
  BY LosersSit DEF Draws, DecidedOnce
<1> QED BY <1>1, <1>2

LEMMA SeatGrows ==
  ASSUME Inv, NEW h \in Handlers, Seat(h)
  PROVE  RowsGrow /\ DecidedOnce
<1>1. pc[h] = "seat"
  BY DEF Seat
<1>2. PICK pos, p, at, sd : pos = mem[h].pos /\ p = mem[h].player
                             /\ at = NextMatch(pos) /\ sd = NextSide(pos)
  OBVIOUS
<1>3. at \in DOMAIN matches /\ sd \in Sides /\ matches[at][sd] \in {Nil, p}
  BY <1>1, <1>2, SeatFills
<1>4. Field' = Field /\ DOMAIN matches' = DOMAIN matches /\ entrants' = entrants
  BY SeatWrites, FieldStays DEF DrawStays
<1>5. ASSUME NEW x \in DOMAIN matches
      PROVE  /\ matches'[x].winner = matches[x].winner /\ matches'[x].state = matches[x].state
             /\ (matches[x].a # Nil => matches'[x].a = matches[x].a)
             /\ (matches[x].b # Nil => matches'[x].b = matches[x].b)
  <2>1. /\ matches'[x] \in Match
        /\ matches'[x].winner = matches[x].winner /\ matches'[x].state = matches[x].state
        /\ \A side \in Sides :
             matches'[x][side] = IF x = at /\ side = sd THEN p ELSE matches[x][side]
    BY <1>2, SeatWrites
  <2>2. /\ matches[x]["a"] = matches[x].a /\ matches[x]["b"] = matches[x].b
        /\ matches'[x]["a"] = matches'[x].a /\ matches'[x]["b"] = matches'[x].b
    BY <2>1, BracketOf, MatchFields
  <2> QED BY <1>3, <2>1, <2>2 DEF Sides
<1>6. RowsGrow
  BY <1>4, <1>5 DEF RowsGrow
<1>7. DecidedOnce
  <2>1. ASSUME NEW g \in Handlers, pc[g] = "decide"  PROVE DecidedFor(mem[g].pos, mem[g].player)
    <3>1. mem[g].pos \in DOMAIN matches
      BY <2>1, LosersSit
    <3> QED BY <1>5, <3>1 DEF DecidedFor
  <2> QED BY <2>1 DEF DecidedOnce
<1> QED BY <1>6, <1>7

LEMMA OpenGrows ==
  ASSUME Inv, NEW h \in Handlers, Open(h)
  PROVE  RowsGrow /\ DecidedOnce
<1>1. Field' = Field /\ DOMAIN matches' = DOMAIN matches /\ entrants' = entrants
  BY OpenWrites, FieldStays DEF DrawStays
<1>2. ASSUME NEW x \in DOMAIN matches
      PROVE  /\ matches'[x].winner = matches[x].winner
             /\ matches'[x].a = matches[x].a /\ matches'[x].b = matches[x].b
             /\ \/ matches'[x].state = matches[x].state
                \/ matches[x].state = "pending" /\ matches'[x].state = "ready"
  <2>1. /\ matches'[x] \in Match /\ matches'[x].winner = matches[x].winner
        /\ \A side \in Sides : matches'[x][side] = matches[x][side]
        /\ \/ matches'[x].state = matches[x].state
           \/ matches[x].state = "pending" /\ matches'[x].state = "ready"
    BY OpenWrites
  <2>2. /\ matches[x]["a"] = matches[x].a /\ matches[x]["b"] = matches[x].b
        /\ matches'[x]["a"] = matches'[x].a /\ matches'[x]["b"] = matches'[x].b
    BY <2>1, BracketOf, MatchFields
  <2> QED BY <2>1, <2>2 DEF Sides
<1>3. RowsGrow
  BY <1>1, <1>2 DEF RowsGrow
<1>4. DecidedOnce
  <2>1. ASSUME NEW g \in Handlers, pc[g] = "decide"  PROVE DecidedFor(mem[g].pos, mem[g].player)
    <3>1. mem[g].pos \in DOMAIN matches
      BY <2>1, LosersSit
    <3> QED BY <1>2, <3>1 DEF DecidedFor
  <2> QED BY <2>1 DEF DecidedOnce
<1> QED BY <1>3, <1>4

LEMMA DecideGrows ==
  ASSUME Inv, NEW h \in Handlers, Decide(h)
  PROVE  RowsGrow /\ DecidedOnce
<1>1. PICK pos, p : pos = mem[h].pos /\ p = mem[h].player
  OBVIOUS
<1>2. pc[h] = "decide"
  BY DEF Decide
<1>3. /\ pos \in DOMAIN matches /\ p # Nil /\ matches[pos].state \in {"ready", "done"}
      /\ (matches[pos].state = "done" => matches[pos].winner = p)
      /\ (matches[pos].state = "ready" => matches[pos].winner = Nil)
  BY <1>1, <1>2, LosersSit
<1>4. Field' = Field /\ DOMAIN matches' = DOMAIN matches /\ entrants' = entrants
  BY DecideWrites, FieldStays DEF DrawStays
<1>5. ASSUME NEW x \in DOMAIN matches
      PROVE  /\ matches'[x].a = matches[x].a /\ matches'[x].b = matches[x].b
             /\ matches'[x].winner = IF x = pos THEN p ELSE matches[x].winner
             /\ matches'[x].state = IF x = pos THEN "done" ELSE matches[x].state
  <2>1. /\ matches'[x] \in Match
        /\ \A side \in Sides : matches'[x][side] = matches[x][side]
        /\ matches'[x].winner = IF x = pos THEN p ELSE matches[x].winner
        /\ matches'[x].state = IF x = pos THEN "done" ELSE matches[x].state
    BY <1>1, DecideWrites
  <2>2. /\ matches[x]["a"] = matches[x].a /\ matches[x]["b"] = matches[x].b
        /\ matches'[x]["a"] = matches'[x].a /\ matches'[x]["b"] = matches'[x].b
    BY <2>1, BracketOf, MatchFields
  <2> QED BY <2>1, <2>2 DEF Sides
<1>6. RowsGrow
  BY <1>3, <1>4, <1>5 DEF RowsGrow
<1>7. DecidedOnce
  <2>1. ASSUME NEW g \in Handlers, pc[g] = "decide"  PROVE DecidedFor(mem[g].pos, mem[g].player)
    <3>1. mem[g].pos \in DOMAIN matches
      BY <2>1, LosersSit
    <3>2. CASE mem[g].pos = pos
      <4>1. mem[g].call = "report" /\ mem[h].call = "report" /\ g \in InFlight /\ h \in InFlight
        BY <1>2, <2>1 DEF Inv, HandlersAgree, Agrees, InFlight
      <4>2. mem[g].player = p
        BY <1>1, <3>2, <4>1 DEF Inv, ReportsAgree
      <4> QED BY <1>5, <3>1, <3>2, <4>2 DEF DecidedFor
    <3>3. CASE mem[g].pos # pos
      BY <1>5, <3>1, <3>3 DEF DecidedFor
    <3> QED BY <3>2, <3>3
  <2> QED BY <2>1 DEF DecidedOnce
<1> QED BY <1>6, <1>7

LEMMA CrownGrows ==
  ASSUME entrants \subseteq entrants', UNCHANGED <<seed, matches>>
  PROVE  RowsGrow /\ DecidedOnce
<1>1. Field' = Field
  BY FieldStays
<1>2. RowsGrow
  BY <1>1 DEF RowsGrow
<1>3. DecidedOnce
  BY DEF DecidedOnce, DecidedFor
<1> QED BY <1>2, <1>3

(* So what a handler has read stays true whatever the others do. *)
LEMMA StillAgrees ==
  ASSUME Inv, RowsGrow, NEW label, NEW m, Agrees(label, m),
         label = "decide" => DecidedFor(m.pos, m.player)
  PROVE  Agrees(label, m)'
<1>1. ASSUME NEW x \in DOMAIN matches
      PROVE  /\ x \in DOMAIN matches' /\ (IsFinal(x, Field') <=> IsFinal(x, Field))
             /\ (matches[x].a # Nil => matches'[x].a = matches[x].a)
             /\ (matches[x].b # Nil => matches'[x].b = matches[x].b)
             /\ (matches[x].winner # Nil => matches'[x].winner = matches[x].winner)
             /\ (matches[x].state = "bye" => matches'[x].state = "bye")
             /\ (matches[x].state = "done" => matches'[x].state = "done")
             /\ (matches[x].state = "ready" => matches'[x].state \in {"ready", "done"})
  BY DEF RowsGrow
<1>2. /\ label \in {"field", "draw", "byes", "next"} => m.call = "start"
      /\ label \in {"look", "decide", "crown"} => m.call = "report"
      /\ label \in {"enter", "count"} => m.player \in Players
      /\ label = "draw" => m.field \subseteq entrants' /\ Cardinality(m.field) >= 2
  BY DEF Agrees, RowsGrow
<1>3. \A x \in m.todo : x \in DOMAIN matches' /\ matches'[x].state = "bye"
  BY <1>1 DEF Agrees
<1>4. label \in {"look", "decide", "seat", "ready", "crown"} =>
        m.pos \in DOMAIN matches' /\ m.player \in Players /\ m.player # Nil /\ m.pos \in DOMAIN matches
  BY <1>1, NilAssumption DEF Agrees
<1>5. ASSUME label = "decide"
      PROVE  LET r == matches'[m.pos] IN
             /\ r.state \in {"ready", "done"}
             /\ (r.state = "done" => r.winner = m.player)
             /\ <<m.player, m.loser>> \in {<<r.a, r.b>>, <<r.b, r.a>>}
  <2>1. LET r == matches[m.pos] IN
        /\ r.state \in {"ready", "done"}
        /\ (r.state = "done" => r.winner = m.player)
        /\ <<m.player, m.loser>> \in {<<r.a, r.b>>, <<r.b, r.a>>}
    BY <1>5 DEF Agrees
  <2>2. m.pos \in DOMAIN matches /\ m.player # Nil
    BY <1>4, <1>5
  <2>3. matches[m.pos].a # Nil /\ matches[m.pos].b # Nil
    BY <2>1, <2>2 DEF Inv, BracketInv, StatesAgree
  <2>4. matches'[m.pos].a = matches[m.pos].a /\ matches'[m.pos].b = matches[m.pos].b
    BY <1>1, <2>2, <2>3
  <2>5. matches'[m.pos].state \in {"ready", "done"}
    BY <1>1, <2>1, <2>2
  <2>6. matches'[m.pos].state = "done" => matches'[m.pos].winner = m.player
    BY <1>1, <1>5, <2>1, <2>2 DEF DecidedFor
  <2> QED BY <2>1, <2>4, <2>5, <2>6
<1>6. label \in {"seat", "ready"} =>
        ~IsFinal(m.pos, Field') /\ matches'[m.pos].winner = m.player
  BY <1>1, <1>4 DEF Agrees
<1>7. label = "crown" =>
        /\ IsFinal(m.pos, Field') /\ matches'[m.pos].state = "done"
        /\ matches'[m.pos].winner = m.player
  BY <1>1, <1>4 DEF Agrees
<1> QED BY <1>2, <1>3, <1>4, <1>5, <1>6, <1>7 DEF Agrees

(* A step of h: it agrees at its next label, and the others still do. *)
LEMMA AllAgree ==
  ASSUME Inv, RowsGrow, DecidedOnce, NEW h \in Handlers, NEW label, NEW m,
         Moves(h, label, m), Agrees(label, m)'
  PROVE  HandlersAgree'
<1>1. ASSUME NEW g \in Handlers  PROVE Agrees(pc[g], mem[g])'
  <2>1. PICK l, k : l = pc'[g] /\ k = mem'[g]
    OBVIOUS
  <2>2. Agrees(l, k)'
    <3>1. CASE g = h
      <4>1. l = label /\ k = m
        BY <2>1, <3>1 DEF Moves
      <4> QED BY <4>1
    <3>2. CASE g # h
      <4>1. l = pc[g] /\ k = mem[g]
        BY <2>1, <3>2 DEF Moves
      <4>2. Agrees(l, k)
        BY <4>1 DEF Inv, HandlersAgree
      <4>3. l = "decide" => DecidedFor(k.pos, k.player)
        BY <4>1 DEF DecidedOnce
      <4> QED BY <4>2, <4>3, StillAgrees
    <3> QED BY <3>1, <3>2
  <2> QED BY <2>1, <2>2 DEF Agrees
<1> QED BY <1>1 DEF HandlersAgree

-----------------------------------------------------------------------------
(* The steps, one by one.                                                  *)

(* What TypeOK says of the rows. *)
RowTypes ==
  /\ state \in {"open", "running", "finished"}
  /\ champion \in Or(Players)
  /\ entrants \subseteq Players
  /\ seed \in [Players -> Or(1..Cardinality(Players))]
  /\ out \subseteq entrants /\ {p \in Players : seed[p] # Nil} \subseteq entrants
  /\ DOMAIN matches \in {{}} \cup {Positions(n) : n \in 2..Cardinality(Players)}
  /\ \A pos \in DOMAIN matches : matches[pos] \in Match

LEMMA TypeParts ==
  TypeOK <=> RowTypes /\ pc \in [Handlers -> Labels] /\ mem \in [Handlers -> Locals]
BY DEF TypeOK, RowTypes

(* A report is its handler's first look at a match, or goes on as it was.  *)
ReportGoesOn(h, label, m) ==
  \/ label = "idle" \/ m.call # "report"
  \/ /\ pc[h] # "idle" /\ m.call = mem[h].call
     /\ m.pos = mem[h].pos /\ m.player = mem[h].player
  \/ \A g \in InFlight : mem[g].call = "report" /\ mem[g].pos = m.pos => mem[g].player = m.player

LEMMA ReportsKeep ==
  ASSUME Inv, NEW h \in Handlers, NEW label, NEW m, Moves(h, label, m), ReportGoesOn(h, label, m)
  PROVE  ReportsAgree'
<1>1. ReportsAgree
  BY DEF Inv
<1>2. ASSUME NEW g \in Handlers, g # h, pc'[g] # "idle", mem'[g].call = "report",
             label # "idle", m.call = "report", mem'[g].pos = m.pos
      PROVE  mem'[g].player = m.player
  <2>1. g \in InFlight /\ mem[g] = mem'[g]
    BY <1>2 DEF Moves, InFlight
  <2>2. CASE /\ pc[h] # "idle" /\ m.call = mem[h].call
             /\ m.pos = mem[h].pos /\ m.player = mem[h].player
    <3>1. h \in InFlight
      BY <2>2 DEF InFlight
    <3> QED BY <1>1, <1>2, <2>1, <2>2, <3>1 DEF ReportsAgree
  <2>3. CASE \A k \in InFlight : mem[k].call = "report" /\ mem[k].pos = m.pos => mem[k].player = m.player
    BY <1>2, <2>1, <2>3
  <2> QED BY <1>2, <2>2, <2>3 DEF ReportGoesOn
<1>3. ASSUME NEW g \in Handlers, NEW k \in Handlers, pc'[g] # "idle", pc'[k] # "idle",
             mem'[g].call = "report", mem'[k].call = "report", mem'[g].pos = mem'[k].pos
      PROVE  mem'[g].player = mem'[k].player
  <2>1. pc'[h] = label /\ mem'[h] = m
    BY DEF Moves
  <2>2. CASE g = h /\ k = h
    BY <2>2
  <2>3. CASE g # h /\ k = h
    BY <1>2, <1>3, <2>1, <2>3
  <2>4. CASE g = h /\ k # h
    BY <1>2, <1>3, <2>1, <2>4
  <2>5. CASE g # h /\ k # h
    <3>1. pc'[g] = pc[g] /\ pc'[k] = pc[k] /\ mem'[g] = mem[g] /\ mem'[k] = mem[k]
      BY <2>5 DEF Moves
    <3> QED BY <1>1, <1>3, <3>1 DEF ReportsAgree, InFlight
  <2> QED BY <2>2, <2>3, <2>4, <2>5
<1> QED BY <1>3 DEF ReportsAgree, InFlight

LEMMA StepKeeps ==
  ASSUME Inv, RowTypes', BracketInv', RowsGrow, DecidedOnce,
         NEW h \in Handlers, NEW label \in Labels, NEW m \in Locals,
         Moves(h, label, m), Agrees(label, m)', ReportGoesOn(h, label, m)
  PROVE  Inv'
<1>1. HandlersAgree'
  BY AllAgree
<1>2. ReportsAgree'
  BY ReportsKeep
<1>3. pc' \in [Handlers -> Labels] /\ mem' \in [Handlers -> Locals]
  <2>1. pc \in [Handlers -> Labels] /\ mem \in [Handlers -> Locals]
    BY DEF Inv, TypeOK
  <2>2. ASSUME NEW g \in Handlers  PROVE pc'[g] \in Labels /\ mem'[g] \in Locals
    BY <2>1 DEF Moves
  <2>3. pc' = [g \in Handlers |-> pc'[g]] /\ mem' = [g \in Handlers |-> mem'[g]]
    BY DEF Moves
  <2> QED BY <2>2, <2>3
<1>4. TypeOK'
  BY <1>3 DEF TypeOK, RowTypes
<1> QED BY <1>1, <1>2, <1>4 DEF Inv

(* A step that only reads. *)
LEMMA ReadKeeps ==
  ASSUME Inv, UNCHANGED rows, NEW h \in Handlers, NEW label \in Labels, NEW m \in Locals,
         Moves(h, label, m), Agrees(label, m), label # "decide", ReportGoesOn(h, label, m)
  PROVE  Inv'
<1>1. RowsGrow /\ DecidedOnce /\ BracketInv'
  BY RowsUnchanged
<1>2. RowTypes'
  BY TypeParts DEF rows, Inv, RowTypes
<1>3. Agrees(label, m)'
  BY <1>1, StillAgrees
<1> QED BY <1>1, <1>2, <1>3, StepKeeps

LEMMA IdleAgrees ==
  Blank \in Locals /\ Agrees("idle", Blank) /\ Agrees("idle", Blank)'
  /\ \A h \in Handlers : \A m : ReportGoesOn(h, "idle", m)
BY BlankLocals DEF Agrees, ReportGoesOn

LEMMA Known ==
  ASSUME Inv, NEW h \in Handlers
  PROVE  mem[h] \in Locals /\ pc[h] \in Labels /\ Agrees(pc[h], mem[h])
BY DEF Inv, TypeOK, HandlersAgree

LEMMA JoiningKeeps ==
  ASSUME Inv, NEW h \in Handlers, Joining(h)
  PROVE  Inv'
<1> USE DEF Labels
<1>1. CASE Join(h)
  <2>1. PICK m \in Locals : /\ Moves(h, "count", m) /\ m.call = "join"
                            /\ m.player \in Players /\ m.todo = {}
    BY <1>1, JoinMoves
  <2>2. UNCHANGED rows
    BY <1>1, JoinMoves
  <2>3. Agrees("count", m) /\ ReportGoesOn(h, "count", m)
    BY <2>1 DEF Agrees, ReportGoesOn
  <2> QED BY <2>1, <2>2, <2>3, ReadKeeps
<1>2. CASE Count(h)
  <2>1. UNCHANGED rows /\ pc[h] = "count"
    BY <1>2, CountMoves
  <2>2. CASE Moves(h, "idle", Blank)
    BY <2>1, <2>2, IdleAgrees, ReadKeeps
  <2>3. CASE Moves(h, "enter", mem[h])
    <3>1. Agrees("enter", mem[h]) /\ ReportGoesOn(h, "enter", mem[h]) /\ mem[h] \in Locals
      BY <2>1, Known DEF Agrees, ReportGoesOn
    <3> QED BY <2>1, <2>3, <3>1, ReadKeeps
  <2> QED BY <1>2, <2>2, <2>3, CountMoves
<1>3. CASE Enter(h)
  <2>1. /\ Moves(h, "idle", Blank) /\ pc[h] = "enter"
        /\ entrants' = entrants \cup {mem[h].player} /\ mem[h].player \in Players
        /\ UNCHANGED <<state, champion, seed, out, matches>>
    BY <1>3, EnterMoves
  <2>2. BracketInv'
    BY <2>1, EnterKeeps
  <2>3. RowsGrow /\ DecidedOnce
    BY <2>1, CrownGrows
  <2>4. RowTypes'
    BY <2>1, TypeParts DEF Inv, RowTypes
  <2> QED BY <2>1, <2>2, <2>3, <2>4, IdleAgrees, StepKeeps
<1> QED BY <1>1, <1>2, <1>3 DEF Joining

LEMMA DrawTypes ==
  ASSUME Inv, NEW field, NEW s, Draws(field, s)
  PROVE  RowTypes'
<1>1. /\ field \in SUBSET Players /\ Seeded' = field /\ Field' = Cardinality(field)
      /\ \A p \in field : seed'[p] = s[p]
      /\ out' = {} /\ champion' = Nil
  BY DrawSeeds
<1>2. /\ field \in SUBSET entrants /\ s \in Seedings(field) /\ matches' = Drawn(s)
      /\ state' = "running" /\ entrants' = entrants
      /\ seed' = [p \in Players |-> IF p \in field THEN s[p] ELSE seed[p]]
      /\ Cardinality(field) >= 2
  BY DEF Draws
<1>3. PICK n \in Nat, N \in Nat : n = Cardinality(field) /\ N = Cardinality(Players) /\ n <= N
  BY <1>1, PlayersAssumption, FS_Subset, FS_CardinalityType
<1>4. seed \in [Players -> Or(1..N)] /\ entrants \subseteq Players
  BY <1>3 DEF Inv, TypeOK
<1>5. seed' \in [Players -> Or(1..N)]
  <2>1. ASSUME NEW p \in field  PROVE s[p] \in Or(1..N)
    <3>1. s[p] \in 1..n
      BY <1>1, <1>2, <1>3, EveryNumberIsGiven
    <3> QED BY <1>3, <3>1 DEF Or
  <2> QED BY <1>2, <1>4, <2>1
<1>6. {p \in Players : seed'[p] # Nil} \subseteq entrants'
  BY <1>1, <1>2 DEF Seeded
<1>7. DOMAIN matches' = Positions(n) /\ \A x \in DOMAIN matches' : matches'[x] \in Match
  BY <1>1, <1>2, <1>3, DrawnIs
<1>8. n \in 2..N
  BY <1>2, <1>3
<1> QED BY <1>1, <1>2, <1>3, <1>4, <1>5, <1>6, <1>7, <1>8 DEF RowTypes, Or

LEMMA StartingKeeps ==
  ASSUME Inv, NEW h \in Handlers, Starting(h)
  PROVE  Inv'
<1> USE DEF Labels
<1>1. CASE Begin(h)
  <2>1. PICK m \in Locals : Moves(h, "field", m) /\ m.call = "start" /\ m.todo = {}
    BY <1>1, BeginMoves
  <2>2. UNCHANGED rows
    BY <1>1, BeginMoves
  <2>3. Agrees("field", m) /\ ReportGoesOn(h, "field", m)
    BY <2>1 DEF Agrees, ReportGoesOn
  <2> QED BY <2>1, <2>2, <2>3, ReadKeeps
<1>2. CASE ReadField(h)
  <2>1. UNCHANGED rows /\ pc[h] = "field"
    BY <1>2, ReadFieldMoves
  <2>2. CASE Moves(h, "idle", Blank)
    BY <2>1, <2>2, IdleAgrees, ReadKeeps
  <2>3. CASE \E m \in Locals :
               /\ Moves(h, "draw", m) /\ m.call = mem[h].call /\ m.todo = mem[h].todo
               /\ m.field \subseteq entrants /\ Cardinality(m.field) >= 2
    <3>1. PICK m \in Locals :
            /\ Moves(h, "draw", m) /\ m.call = mem[h].call /\ m.todo = mem[h].todo
            /\ m.field \subseteq entrants /\ Cardinality(m.field) >= 2
      BY <2>3
    <3>2. Agrees("draw", m) /\ ReportGoesOn(h, "draw", m)
      BY <2>1, <3>1, Known DEF Agrees, ReportGoesOn
    <3> QED BY <2>1, <3>1, <3>2, ReadKeeps
  <2> QED BY <1>2, <2>2, <2>3, ReadFieldMoves
<1>3. CASE Draw(h)
  <2>1. pc[h] = "draw"
    BY <1>3, DrawMoves
  <2>2. CASE Moves(h, "idle", Blank) /\ UNCHANGED rows
    BY <2>2, IdleAgrees, ReadKeeps
  <2>3. CASE Moves(h, "byes", mem[h]) /\ \E field : \E s : Draws(field, s)
    <3>1. PICK field, s : Draws(field, s)
      BY <2>3
    <3>2. BracketInv' /\ RowsGrow /\ DecidedOnce /\ RowTypes'
      BY <3>1, DrawStartsTheBracket, DrawGrows, DrawTypes
    <3>3. Agrees("byes", mem[h]) /\ ReportGoesOn(h, "byes", mem[h]) /\ mem[h] \in Locals
      BY <2>1, Known DEF Agrees, ReportGoesOn
    <3>4. PICK m \in Locals : m = mem[h]
      BY <3>3
    <3>5. Agrees("byes", m)'
      BY <3>2, <3>3, <3>4, StillAgrees
    <3> QED BY <2>3, <3>2, <3>3, <3>4, <3>5, StepKeeps
  <2> QED BY <1>3, <2>2, <2>3, DrawMoves
<1>4. CASE ReadByes(h)
  <2>1. UNCHANGED rows /\ pc[h] = "byes"
    BY <1>4, ReadByesMoves
  <2>2. PICK m \in Locals :
          /\ Moves(h, "next", m) /\ m.call = mem[h].call
          /\ m.todo = {pos \in DOMAIN matches : matches[pos].state = "bye"}
    BY <1>4, ReadByesMoves
  <2>3. Agrees("next", m) /\ ReportGoesOn(h, "next", m)
    BY <2>1, <2>2, Known DEF Agrees, ReportGoesOn
  <2> QED BY <2>1, <2>2, <2>3, ReadKeeps
<1>5. CASE NextBye(h)
  <2>1. UNCHANGED rows /\ pc[h] = "next"
    BY <1>5, NextByeMoves
  <2>2. CASE Moves(h, "idle", Blank)
    BY <2>1, <2>2, IdleAgrees, ReadKeeps
  <2>3. CASE \E m \in Locals :
               /\ Moves(h, "seat", m) /\ m.call = mem[h].call
               /\ m.pos \in mem[h].todo /\ m.player = matches[m.pos].winner
               /\ m.todo \subseteq mem[h].todo
    <3>1. PICK m \in Locals :
            /\ Moves(h, "seat", m) /\ m.call = mem[h].call
            /\ m.pos \in mem[h].todo /\ m.player = matches[m.pos].winner
            /\ m.todo \subseteq mem[h].todo
      BY <2>3
    <3>2. Agrees("next", mem[h])
      BY <2>1, Known
    <3>3. /\ m.pos \in DOMAIN matches /\ matches[m.pos].state = "bye" /\ m.call = "start"
          /\ \A x \in m.todo : x \in DOMAIN matches /\ matches[x].state = "bye"
      BY <3>1, <3>2 DEF Agrees
    <3>4. matches[m.pos].winner # Nil /\ ~IsFinal(m.pos, Field)
      BY <3>3 DEF Inv, BracketInv, StatesAgree
    <3>5. m.player \in Players
      BY <3>1, <3>3, <3>4, WinnersSit DEF Seeded
    <3>6. Agrees("seat", m) /\ ReportGoesOn(h, "seat", m)
      BY <3>1, <3>3, <3>4, <3>5 DEF Agrees, ReportGoesOn
    <3> QED BY <2>1, <3>1, <3>6, ReadKeeps
  <2> QED BY <1>5, <2>2, <2>3, NextByeMoves
<1> QED BY <1>1, <1>2, <1>3, <1>4, <1>5 DEF Starting

LEMMA AdvancingKeeps ==
  ASSUME Inv, NEW h \in Handlers, Advancing(h)
  PROVE  Inv'
<1> USE DEF Labels
<1>1. PICK m \in Locals : m = mem[h]
  BY Known
<1>2. CASE Seat(h)
  <2>1. Moves(h, "ready", m) /\ pc[h] = "seat"
    BY <1>1, <1>2, SeatMoves
  <2>2. RowsGrow /\ DecidedOnce /\ BracketInv'
    BY <1>2, SeatGrows, SeatKeeps
  <2>3. RowTypes'
    BY <1>2, SeatWrites, TypeParts DEF Inv, RowTypes, DrawStays
  <2>4. Agrees("ready", m) /\ ReportGoesOn(h, "ready", m)
    BY <1>1, <2>1, Known DEF Agrees, ReportGoesOn
  <2>5. Agrees("ready", m)'
    BY <2>2, <2>4, StillAgrees
  <2> QED BY <2>1, <2>2, <2>3, <2>4, <2>5, StepKeeps
<1>3. CASE Open(h)
  <2>1. pc[h] = "ready"
    BY <1>3, OpenMoves
  <2>2. RowsGrow /\ DecidedOnce /\ BracketInv'
    BY <1>3, OpenGrows, OpenKeeps
  <2>3. RowTypes'
    BY <1>3, OpenWrites, TypeParts DEF Inv, RowTypes, DrawStays
  <2>4. CASE Moves(h, "idle", Blank)
    BY <2>2, <2>3, <2>4, IdleAgrees, StepKeeps
  <2>5. CASE Moves(h, "next", mem[h]) /\ mem[h].call = "start"
    <3>1. Agrees("next", m) /\ ReportGoesOn(h, "next", m)
      BY <1>1, <2>1, <2>5, Known DEF Agrees, ReportGoesOn
    <3>2. Agrees("next", m)'
      BY <2>2, <3>1, StillAgrees
    <3> QED BY <1>1, <2>2, <2>3, <2>5, <3>1, <3>2, StepKeeps
  <2> QED BY <1>3, <2>4, <2>5, OpenMoves
<1> QED BY <1>2, <1>3 DEF Advancing

LEMMA ReportingKeeps ==
  ASSUME Inv, NEW h \in Handlers, Reporting(h)
  PROVE  Inv'
<1> USE DEF Labels
<1>1. CASE Report(h)
  <2>1. UNCHANGED rows
    BY <1>1, ReportMoves
  <2>2. PICK m \in Locals :
          /\ Moves(h, "look", m) /\ m.call = "report" /\ m.todo = {}
          /\ m.pos \in DOMAIN matches /\ m.player \in Players
          /\ \A g \in InFlight :
               mem[g].call = "report" /\ mem[g].pos = m.pos => mem[g].player = m.player
    BY <1>1, ReportMoves
  <2>3. Agrees("look", m) /\ ReportGoesOn(h, "look", m)
    BY <2>2 DEF Agrees, ReportGoesOn
  <2> QED BY <2>1, <2>2, <2>3, ReadKeeps
<1>2. CASE Look(h)
  <2>1. UNCHANGED rows /\ pc[h] = "look"
    BY <1>2, LookMoves
  <2>2. CASE Moves(h, "idle", Blank)
    BY <2>1, <2>2, IdleAgrees, ReadKeeps
  <2>3. CASE ~Moves(h, "idle", Blank)
    <3>1. PICK m \in Locals :
            /\ Moves(h, "decide", m) /\ m.call = mem[h].call /\ m.todo = mem[h].todo
            /\ m.pos = mem[h].pos /\ m.player = mem[h].player
            /\ matches[m.pos].state = "ready"
            /\ \/ m.player = matches[m.pos].a /\ m.loser = matches[m.pos].b
               \/ m.player = matches[m.pos].b /\ m.loser = matches[m.pos].a
      BY <1>2, <2>3, LookMoves
    <3>2. Agrees("look", mem[h])
      BY <2>1, Known
    <3>3. Agrees("decide", m) /\ ReportGoesOn(h, "decide", m)
      BY <2>1, <3>1, <3>2 DEF Agrees, ReportGoesOn
    <3>4. RowsGrow /\ DecidedOnce /\ BracketInv'
      BY <2>1, RowsUnchanged
    <3>5. RowTypes'
      BY <2>1, TypeParts DEF rows, Inv, RowTypes
    <3>6. DecidedFor(m.pos, m.player)
      BY <2>1 DEF rows, DecidedFor
    <3>7. Agrees("decide", m)'
      BY <3>3, <3>4, <3>6, StillAgrees
    <3> QED BY <3>1, <3>3, <3>4, <3>5, <3>7, StepKeeps
  <2> QED BY <2>2, <2>3
<1>3. CASE Decide(h)
  <2>1. PICK m \in Locals : m = mem[h] /\ pc[h] = "decide" /\ Agrees("decide", m)
    BY <1>3, Known DEF Decide
  <2>2. RowsGrow /\ DecidedOnce /\ BracketInv'
    BY <1>3, DecideGrows, DecideKeeps
  <2>3. RowTypes'
    <3>1. /\ DrawStays /\ UNCHANGED <<state, champion, entrants, seed>>
          /\ out' = out \cup ({m.loser} \cap entrants)
          /\ \A x \in DOMAIN matches : matches'[x] \in Match
      BY <1>3, <2>1, DecideWrites
    <3> QED BY <3>1, TypeParts DEF Inv, RowTypes, DrawStays
  <2>4. /\ m.pos \in DOMAIN matches /\ m.player \in Players /\ m.call = "report"
        /\ \A x \in m.todo : x \in DOMAIN matches /\ matches[x].state = "bye"
    BY <2>1 DEF Agrees
  <2>5. /\ DOMAIN matches' = DOMAIN matches /\ Field' = Field
        /\ matches'[m.pos].winner = m.player /\ matches'[m.pos].state = "done"
        /\ \A x \in m.todo : x \in DOMAIN matches' /\ matches'[x].state = "bye"
    <3>1. /\ matches'[m.pos].winner = m.player /\ matches'[m.pos].state = "done"
          /\ DOMAIN matches' = DOMAIN matches /\ Field' = Field
      BY <1>3, <2>1, <2>4, DecideWrites, FieldStays DEF DrawStays
    <3> QED BY <2>2, <2>4, <3>1 DEF RowsGrow
  <2>6. CASE IsFinal(m.pos, Field)
    <3>1. Moves(h, "crown", m)
      BY <1>3, <2>1, <2>6, DecideMoves
    <3>2. Agrees("crown", m)' /\ ReportGoesOn(h, "crown", m)
      BY <2>1, <2>4, <2>5, <2>6 DEF Agrees, ReportGoesOn
    <3> QED BY <2>2, <2>3, <3>1, <3>2, StepKeeps
  <2>7. CASE ~IsFinal(m.pos, Field)
    <3>1. Moves(h, "seat", m)
      BY <1>3, <2>1, <2>7, DecideMoves
    <3>2. Agrees("seat", m)' /\ ReportGoesOn(h, "seat", m)
      BY <2>1, <2>4, <2>5, <2>7 DEF Agrees, ReportGoesOn
    <3> QED BY <2>2, <2>3, <3>1, <3>2, StepKeeps
  <2> QED BY <2>6, <2>7
<1>4. CASE Crown(h)
  <2>1. Moves(h, "idle", Blank) /\ pc[h] = "crown"
    BY <1>4, CrownMoves
  <2>2. state' = "finished" /\ champion' = mem[h].player /\ UNCHANGED <<entrants, seed, out, matches>>
    BY <1>4 DEF Crown
  <2>3. RowsGrow /\ DecidedOnce /\ BracketInv'
    BY <1>4, <2>2, CrownGrows, CrownKeeps
  <2>4. mem[h].player \in Or(Players)
    BY Known, LocalFields
  <2>5. RowTypes'
    BY <2>2, <2>4, TypeParts DEF Inv, RowTypes
  <2> QED BY <2>1, <2>3, <2>5, IdleAgrees, StepKeeps
<1> QED BY <1>1, <1>2, <1>3, <1>4 DEF Reporting

LEMMA InitInv == Init => Inv
<1> SUFFICES ASSUME Init PROVE Inv
  OBVIOUS
<1>1. /\ state = "open" /\ champion = Nil /\ entrants = {} /\ out = {} /\ matches = <<>>
      /\ seed = [p \in Players |-> Nil]
      /\ pc = [h \in Handlers |-> "idle"] /\ mem = [h \in Handlers |-> Blank]
  BY DEF Init
<1>2. DOMAIN matches = {} /\ Seeded = {}
  BY <1>1 DEF Seeded
<1>3. TypeOK
  <2>1. pc \in [Handlers -> Labels] /\ mem \in [Handlers -> Locals]
    BY <1>1, BlankLocals DEF Labels
  <2>2. RowTypes
    BY <1>1, <1>2 DEF RowTypes, Or, Seeded
  <2> QED BY <2>1, <2>2, TypeParts
<1>4. BracketInv
  <2>1. BracketIsSeeded /\ SeedsDiffer /\ ChairsAreSeeded /\ StatesAgree
    BY <1>1, <1>2 DEF BracketIsSeeded, SeedsDiffer, ChairsAreSeeded, StatesAgree
  <2>2. OneChairARound /\ EveryRoundWasWon /\ LosersAreOut /\ ChampionWonTheFinal
    BY <1>1, <1>2 DEF OneChairARound, EveryRoundWasWon, LosersAreOut, ChampionWonTheFinal
  <2>3. SeedsAreTheDraw /\ ChairsAreEarned /\ SeedsKeepTheirPart
    BY <1>2 DEF SeedsAreTheDraw, ChairsAreEarned, SeedsKeepTheirPart
  <2> QED BY <2>1, <2>2, <2>3 DEF BracketInv
<1>5. HandlersAgree
  BY <1>1, IdleAgrees DEF HandlersAgree
<1>6. ReportsAgree
  BY <1>1 DEF ReportsAgree, InFlight
<1> QED BY <1>3, <1>4, <1>5, <1>6 DEF Inv

LEMMA NextInv == Inv /\ [Next]_vars => Inv'
<1> SUFFICES ASSUME Inv, [Next]_vars  PROVE Inv'
  OBVIOUS
<1>1. CASE UNCHANGED vars
  <2>1. UNCHANGED rows /\ pc' = pc /\ mem' = mem
    BY <1>1 DEF vars, rows
  <2>2. BracketInv' /\ RowsGrow /\ DecidedOnce
    BY <2>1, RowsUnchanged
  <2>3. TypeOK'
    BY <2>1 DEF Inv, TypeOK, rows
  <2>4. HandlersAgree'
    BY <1>1 DEF vars, Inv, HandlersAgree, Agrees, Field, Seeded
  <2>5. ReportsAgree'
    BY <1>1 DEF vars, Inv, ReportsAgree, InFlight
  <2> QED BY <2>2, <2>3, <2>4, <2>5 DEF Inv
<1>2. ASSUME NEW h \in Handlers, Joining(h) \/ Starting(h) \/ Advancing(h) \/ Reporting(h)
      PROVE  Inv'
  BY <1>2, JoiningKeeps, StartingKeeps, AdvancingKeeps, ReportingKeeps
<1> QED BY <1>1, <1>2 DEF Next

LEMMA Invariant == Spec => []Inv
BY InitInv, NextInv, PTL DEF Spec

(* The rows and the local variables keep their types. *)
THEOREM TypeCorrect == Spec => []TypeOK
<1>1. Inv => TypeOK
  BY DEF Inv
<1> QED BY <1>1, Invariant, PTL

(* Whoever joined or started at the same time, the seeds are those of the  *)
(* bracket that was drawn, and the first round pairs them as bracket.ts    *)
(* says.                                                                   *)
THEOREM TheDrawStands == Spec => []SeedsAreTheDraw
<1>1. Inv => SeedsAreTheDraw
  BY DEF Inv, BracketInv
<1> QED BY <1>1, Invariant, PTL

(* No chair is filled but by the winner of the match before. *)
THEOREM EveryChairIsEarned == Spec => []ChairsAreEarned
<1>1. Inv => ChairsAreEarned
  BY DEF Inv, BracketInv
<1> QED BY <1>1, Invariant, PTL

-----------------------------------------------------------------------------
(* The best meet late.                                                     *)

(* The second chair of every match is for the lower half. *)
LEMMA LowerHalf ==
  ASSUME NEW i \in Nat, NEW s \in 1..2^i
  PROVE  SeedOrder(i + 1)[2 * s] \in Int /\ SeedOrder(i + 1)[2 * s] > 2^i
<1>1. CASE i = 0
  <2>1. 2^0 = 1
    OBVIOUS
  <2>2. 2^i = 1
    BY <1>1, <2>1, Zenon
  <2>3. s = 1
    BY <2>2
  <2>4. SeedOrder(1) = <<1, 2>>
    BY SeedOrderDoubles
  <2> QED BY <1>1, <2>2, <2>3, <2>4
<1>2. CASE i # 0
  <2>1. PICK j \in Nat : i = j + 1
    BY <1>2
  <2>2. PICK size \in Nat, half \in Nat : size = 2^i /\ half = 2^j /\ size = 2 * half /\ size >= 1
    <3>1. 2^j \in Nat /\ 2^(j + 1) = 2 * 2^j /\ 2^i \in Nat /\ i < 2^i
      BY Power
    <3> QED BY <2>1, <3>1
  <2>3. PICK o : o = SeedOrder(i)
    OBVIOUS
  <2>4. IsOrder(o, half)
    BY <2>1, <2>2, <2>3, SeedOrders
  <2>5. /\ o \in [1..size -> 1..size]
        /\ \A x, y \in 1..size : o[x] = o[y] => x = y
        /\ \A v \in 1..size : \E x \in 1..size : o[x] = v
    BY <2>2, <2>4 DEF IsOrder
  <2>6. SeedOrder(i + 1) = Doubled(i + 1, o)
    BY <2>1, <2>3, SeedOrderDoubles
  <2>7. /\ IsOrder(Doubled(i + 1, o), size)
        /\ \A t \in 1..size : Doubled(i + 1, o)[2 * t] > size
    BY <2>2, <2>5, DoublingOrders
  <2>8. 2 * s \in 1..(2 * size)
    BY <2>2
  <2>9. Doubled(i + 1, o)[2 * s] \in 1..(2 * size)
    BY <2>7, <2>8 DEF IsOrder
  <2> QED BY <2>2, <2>6, <2>7, <2>9
<1> QED BY <1>1, <1>2

(* A chair of the first round and its seed. *)
LEMMA FirstChairs ==
  ASSUME Inv, DOMAIN matches # {}, NEW slot \in FirstSlots(Field), NEW side \in Sides
  PROVE  /\ <<1, slot>> \in DOMAIN matches
         /\ (matches[<<1, slot>>][side] = Nil => FirstRound(Field)[slot][side] = Nil)
         /\ (matches[<<1, slot>>][side] # Nil =>
               /\ matches[<<1, slot>>][side] \in Seeded
               /\ FirstRound(Field)[slot][side] = seed[matches[<<1, slot>>][side]]
               /\ FirstRound(Field)[slot][side] \in 1..Field
               /\ FirstRound(Field)[slot][side] # Nil)
<1>1. PICK n \in Nat : n = Field /\ n >= 2 /\ DOMAIN matches = Positions(n)
  BY BracketOf
<1>2. PICK x : x = <<1, slot>>
  OBVIOUS
<1>3. x \in DOMAIN matches
  BY <1>1, <1>2, FirstPlaces DEF FirstSlots
<1>4. matches[x]["a"] = matches[x].a /\ matches[x]["b"] = matches[x].b
  BY <1>3, BracketOf, MatchFields
<1>5. SeedsAreTheDraw
  BY DEF Inv, BracketInv
<1>6. slot \in DOMAIN FirstRound(n)
  BY <1>1, <1>2 DEF FirstRound, FirstSlots
<1>7. PICK u, v : /\ u = (IF matches[x].a = Nil THEN Nil ELSE seed[matches[x].a])
                  /\ v = (IF matches[x].b = Nil THEN Nil ELSE seed[matches[x].b])
  OBVIOUS
<1>8. FirstRound(n)[slot] = [a |-> u, b |-> v]
  BY <1>1, <1>2, <1>3, <1>5, <1>6, <1>7 DEF SeedsAreTheDraw
<1>9. FirstRound(n)[slot]["a"] = u /\ FirstRound(n)[slot]["b"] = v
  BY <1>8
<1>10. FirstRound(n)[slot][side] = IF matches[x][side] = Nil THEN Nil ELSE seed[matches[x][side]]
  BY <1>4, <1>7, <1>9 DEF Sides
<1>11. matches[x][side] \in Seeded \cup {Nil}
  BY <1>3 DEF Inv, BracketInv, ChairsAreSeeded
<1>12. {seed[q] : q \in Seeded} = 1..n
  BY <1>1, <1>3, <1>5 DEF SeedsAreTheDraw
<1>13. \A q \in Seeded : seed[q] \in 1..n /\ seed[q] # Nil
  BY <1>12 DEF Seeded
<1> QED BY <1>1, <1>2, <1>3, <1>10, <1>11, <1>13

LEMMA TopSeeds == Inv => TopSeedsAreSpared
<1> SUFFICES ASSUME Inv PROVE TopSeedsAreSpared
  OBVIOUS
<1>1. ASSUME NEW x \in DOMAIN matches, matches[x].a # Nil, matches[x].b # Nil
      PROVE  \E p \in {matches[x].a, matches[x].b} : seed[p] > 2^(RoundCount(Field) - x[1])
  <2>1. PICK n \in Nat : n = Field /\ n >= 2 /\ DOMAIN matches = Positions(n)
    BY <1>1, BracketOf
  <2>2. PICK i \in Nat : i = RoundCount(n) - x[1] /\ RoundCount(n) - x[1] + 1 = i + 1
                         /\ x[2] \in Nat /\ 1 <= x[2] /\ x[2] <= 2^i
    BY <1>1, <2>1, Placed
  <2>3. PICK p : p = matches[x].b
    OBVIOUS
  <2>4. "b" \in Sides /\ matches[x]["b"] = p /\ p # Nil /\ Chair(x[2], "b") = 2 * x[2]
    BY <1>1, <2>3, BracketOf, MatchFields DEF Sides, Chair
  <2>5. seed[p] = SeedOrder(i + 1)[2 * x[2]] \/ seed[p] > 2^(i + 1)
    BY <1>1, <2>1, <2>2, <2>4 DEF Inv, BracketInv, SeedsKeepTheirPart
  <2>6. 2^i \in Nat /\ 2^(i + 1) = 2 * 2^i
    BY Power
  <2>7. seed[p] \in Nat
    <3>1. p \in Seeded
      BY <1>1, <2>4 DEF Inv, BracketInv, ChairsAreSeeded
    <3>2. {seed[q] : q \in Seeded} = 1..n
      BY <1>1, <2>1 DEF Inv, BracketInv, SeedsAreTheDraw
    <3> QED BY <3>1, <3>2
  <2>8. seed[p] > 2^i
    <3>1. CASE seed[p] = SeedOrder(i + 1)[2 * x[2]]
      <4>1. x[2] \in 1..2^i
        BY <2>2, <2>6
      <4> QED BY <3>1, <4>1, LowerHalf
    <3>2. CASE seed[p] > 2^(i + 1)
      BY <2>6, <2>7, <3>2
    <3> QED BY <2>5, <3>1, <3>2
  <2> QED BY <2>1, <2>2, <2>3, <2>8
<1>2. ASSUME DOMAIN matches # {}
      PROVE  {seed[matches[x].winner] : x \in {q \in DOMAIN matches : matches[q].state = "bye"}}
               = 1..(2^RoundCount(Field) - Field)
  <2>1. PICK n \in Nat : n = Field /\ n >= 2 /\ DOMAIN matches = Positions(n)
    BY <1>2, BracketOf
  <2>2. PICK size \in Nat : size = 2^RoundCount(n) /\ size - n \in Nat /\ size - n <= n
    <3>1. PICK k \in Nat : k + 1 = RoundCount(n) /\ k = RoundCount(n) - 1
      BY <2>1, Rounds
    <3>2. 2^k \in Nat /\ 2^(k + 1) = 2 * 2^k /\ 2^k < n /\ n <= 2^(k + 1)
      BY <2>1, <3>1, Power, Rounds
    <3> QED BY <3>1, <3>2
  <2>3. ASSUME NEW x \in DOMAIN matches, matches[x].state = "bye"
        PROVE  seed[matches[x].winner] \in 1..(size - n)
    <3>1. /\ matches[x].winner \in {matches[x].a, matches[x].b} /\ matches[x].winner # Nil
          /\ (matches[x].a = Nil \/ matches[x].b = Nil) /\ x[1] = 1
      BY <2>3 DEF Inv, BracketInv, StatesAgree
    <3>2. x = <<1, x[2]>> /\ x[2] \in FirstSlots(n)
      BY <2>1, <3>1, FirstPlaces DEF FirstSlots
    <3>3. PICK side \in Sides : matches[x][side] = matches[x].winner
      BY <3>1, WinnersSit
    <3>4. matches[x][Other(side)] = Nil /\ Other(side) \in Sides
      BY <3>1, <3>3, BracketOf, MatchFields DEF Sides, Other
    <3>5. /\ FirstRound(n)[x[2]][side] = seed[matches[x].winner]
          /\ FirstRound(n)[x[2]][side] \in 1..n /\ FirstRound(n)[x[2]][side] # Nil
      BY <1>2, <2>1, <3>1, <3>2, <3>3, FirstChairs
    <3>6. FirstRound(n)[x[2]][Other(side)] = Nil
      BY <1>2, <2>1, <3>2, <3>4, FirstChairs
    <3>7. FirstRound(n)[x[2]][side] <= size - n
      BY <2>1, <2>2, <3>2, <3>5, <3>6, FirstRoundSeats
    <3> QED BY <2>2, <3>5, <3>7
  <2>4. ASSUME NEW v \in 1..(size - n)
        PROVE  \E x \in DOMAIN matches : matches[x].state = "bye" /\ seed[matches[x].winner] = v
    <3>1. v \in 1..n /\ v # Nil
      BY <2>2, NilAssumption
    <3>2. PICK slot \in FirstSlots(n), side \in Sides : FirstRound(n)[slot][side] = v
      BY <2>1, <3>1, FirstRoundSeats
    <3>3. v <= size - n
      BY <2>2
    <3>4. FirstRound(n)[slot][Other(side)] = Nil /\ Other(side) \in Sides
      BY <2>1, <2>2, <3>1, <3>2, <3>3, FirstRoundSeats DEF Other, Sides
    <3>5. PICK x \in DOMAIN matches : x = <<1, slot>>
      BY <1>2, <2>1, <3>2, FirstChairs
    <3>6. matches[x][side] # Nil /\ seed[matches[x][side]] = v /\ matches[x][Other(side)] = Nil
      BY <1>2, <2>1, <3>1, <3>2, <3>4, <3>5, FirstChairs
    <3>7. /\ matches[x]["a"] = matches[x].a /\ matches[x]["b"] = matches[x].b
          /\ matches[x].state \in {"pending", "ready", "bye", "done"}
      BY BracketOf, MatchFields
    <3>8. matches[x].a = Nil \/ matches[x].b = Nil
      BY <3>4, <3>6, <3>7 DEF Sides
    <3>9. matches[x].state = "bye"
      <4>1. ~(x[1] > 1)
        BY <3>5
      <4> QED BY <3>7, <3>8, <4>1 DEF Inv, BracketInv, StatesAgree
    <3>10. matches[x].winner # Nil /\ matches[x].winner \in {matches[x].a, matches[x].b}
      BY <3>9 DEF Inv, BracketInv, StatesAgree
    <3>11. matches[x].winner = matches[x][side]
      BY <3>6, <3>7, <3>10 DEF Sides, Other
    <3> QED BY <3>6, <3>9, <3>11
  <2>5. PICK byes : byes = {q \in DOMAIN matches : matches[q].state = "bye"}
    OBVIOUS
  <2>6. {seed[matches[x].winner] : x \in byes} = 1..(size - n)
    <3>1. \A x \in byes : seed[matches[x].winner] \in 1..(size - n)
      BY <2>3, <2>5
    <3>2. \A v \in 1..(size - n) : \E x \in byes : v = seed[matches[x].winner]
      BY <2>4, <2>5
    <3> QED BY <3>1, <3>2
  <2> QED BY <2>1, <2>2, <2>5, <2>6
<1> QED BY <1>1, <1>2 DEF TopSeedsAreSpared

(* Of the best 2^k seeds no two play each other while a round has room for *)
(* 2^k matches, and the byes go to the top seeds.                          *)
THEOREM TheBestMeetLate == Spec => []TopSeedsAreSpared
BY TopSeeds, Invariant, PTL

-----------------------------------------------------------------------------
(* The knockout.                                                           *)

(* Who sits in an undecided match has lost none: where he lost, a round    *)
(* before or after, somebody else went on.                                 *)
LEMMA SittersAreIn ==
  ASSUME Inv, NEW x \in DOMAIN matches, NEW side \in Sides,
         matches[x][side] # Nil, matches[x].winner = Nil
  PROVE  matches[x][side] \in Seeded \ out
<1>1. PICK p : p = matches[x][side]
  OBVIOUS
<1>2. p \in Seeded
  BY <1>1 DEF Inv, BracketInv, ChairsAreSeeded
<1>3. ASSUME p \in out  PROVE FALSE
  <2>1. PICK y \in DOMAIN matches : Lost(p, y)
    BY <1>3 DEF Inv, BracketInv, LosersAreOut
  <2>2. matches[y]["a"] = matches[y].a /\ matches[y]["b"] = matches[y].b
    BY BracketOf, MatchFields
  <2>3. PICK side2 \in Sides : matches[y][side2] = p
    BY <2>1, <2>2 DEF Lost, Sides
  <2>4. matches[y].winner # p /\ matches[y].winner # Nil
    BY <2>1 DEF Lost, Inv, BracketInv, StatesAgree
  <2>5. x[1] \in Nat /\ x[1] >= 1 /\ y[1] \in Nat /\ y[1] >= 1
    BY BracketOf, Placed
  <2>6. CASE x[1] = y[1]
    <3>1. x = y
      BY <1>1, <2>3, <2>6 DEF Inv, BracketInv, OneChairARound
    <3> QED BY <2>4, <3>1
  <2>7. CASE y[1] < x[1]
    <3>1. y[1] \in 1..(x[1] - 1)
      BY <2>5, <2>7
    <3>2. PICK z \in DOMAIN matches : z[1] = y[1] /\ matches[z].winner = p
      BY <1>1, <3>1 DEF Inv, BracketInv, EveryRoundWasWon
    <3>3. PICK side3 \in Sides : matches[z][side3] = p
      BY <1>1, <3>2, WinnersSit
    <3>4. z = y
      BY <1>1, <2>3, <3>2, <3>3 DEF Inv, BracketInv, OneChairARound
    <3> QED BY <2>4, <3>2, <3>4
  <2>8. CASE x[1] < y[1]
    <3>1. x[1] \in 1..(y[1] - 1)
      BY <2>5, <2>8
    <3>2. PICK z \in DOMAIN matches : z[1] = x[1] /\ matches[z].winner = p
      BY <1>1, <2>3, <3>1 DEF Inv, BracketInv, EveryRoundWasWon
    <3>3. PICK side3 \in Sides : matches[z][side3] = p
      BY <1>1, <3>2, WinnersSit
    <3>4. z = x
      BY <1>1, <3>2, <3>3 DEF Inv, BracketInv, OneChairARound
    <3> QED BY <1>1, <3>2, <3>4
  <2> QED BY <2>5, <2>6, <2>7, <2>8
<1> QED BY <1>1, <1>2, <1>3

(* Once the final is decided every match is, and its winner has moved on. *)
LEMMA AllAreDecided ==
  ASSUME Inv, NEW f \in DOMAIN matches, IsFinal(f, Field), matches[f].state = "done"
  PROVE  \A x \in DOMAIN matches :
           /\ matches[x].winner # Nil
           /\ ~IsFinal(x, Field) =>
                /\ NextMatch(x) \in DOMAIN matches /\ NextSide(x) \in Sides
                /\ NextMatch(x)[1] = x[1] + 1
                /\ matches[NextMatch(x)][NextSide(x)] = matches[x].winner
           /\ IsFinal(x, Field) => x = f
<1>1. PICK n \in Nat : n = Field /\ n >= 2 /\ DOMAIN matches = Positions(n)
  BY BracketOf
<1>2. PICK R \in Nat : R = RoundCount(n) /\ \A x \in DOMAIN matches : x[1] \in 1..R
  <2>1. RoundCount(n) \in Nat
    BY <1>1, Rounds
  <2>2. \A x \in DOMAIN matches : x[1] \in 1..RoundCount(n)
    BY <1>1, <2>1, Placed
  <2> QED BY <2>1, <2>2
<1>3. \A x \in DOMAIN matches : IsFinal(x, n) => x = f
  BY <1>1, OneFinal
<1>4. ASSUME NEW x \in DOMAIN matches, ~IsFinal(x, n)
      PROVE  /\ NextMatch(x) \in DOMAIN matches /\ NextSide(x) \in Sides
             /\ NextMatch(x)[1] = x[1] + 1
             /\ (matches[NextMatch(x)].winner # Nil =>
                   /\ matches[NextMatch(x)][NextSide(x)] = matches[x].winner
                   /\ matches[x].winner # Nil)
  <2>1. PICK y, side : y = NextMatch(x) /\ side = NextSide(x)
    OBVIOUS
  <2>2. y \in DOMAIN matches /\ side \in Sides /\ y[1] = x[1] + 1
    BY <1>1, <1>4, <2>1, Ahead
  <2>3. matches[y][side] \in {Nil, matches[x].winner}
    BY <1>1, <1>4, <2>1 DEF Inv, BracketInv, ChairsAreEarned
  <2>4. ASSUME matches[y].winner # Nil  PROVE matches[y][side] # Nil
    <3>1. y[1] # 1
      BY <1>2, <2>2
    <3>2. matches[y].state = "done"
      BY <2>2, <2>4, <3>1, WinnersSit DEF Inv, BracketInv, StatesAgree
    <3>3. matches[y].a # Nil /\ matches[y].b # Nil
      BY <2>2, <3>2 DEF Inv, BracketInv, StatesAgree
    <3> QED BY <2>2, <3>3, BracketOf, MatchFields DEF Sides
  <2> QED BY <2>1, <2>2, <2>3, <2>4
<1>5. \A x \in DOMAIN matches : matches[x].winner # Nil
  <2>1. PICK T : T = {r \in 0..R : \E x \in DOMAIN matches : x[1] = r /\ matches[x].winner = Nil}
    OBVIOUS
  <2>2. ASSUME T # {}  PROVE FALSE
    <3>1. T \in SUBSET (0..R)
      BY <2>1
    <3>2. PICK r \in T : \A q \in T : q <= r
      BY <2>2, <3>1, Greatest
    <3>3. PICK x \in DOMAIN matches : x[1] = r /\ matches[x].winner = Nil
      BY <2>1, <3>2
    <3>4. CASE IsFinal(x, n)
      <4>1. x = f
        BY <1>3, <3>4
      <4>2. matches[f].winner # Nil
        BY DEF Inv, BracketInv, StatesAgree
      <4> QED BY <3>3, <4>1, <4>2
    <3>5. CASE ~IsFinal(x, n)
      <4>1. NextMatch(x) \in DOMAIN matches /\ NextMatch(x)[1] = r + 1
        BY <1>4, <3>3, <3>5
      <4>2. r + 1 \in 0..R /\ ~(r + 1 <= r)
        BY <1>2, <3>1, <3>2, <4>1
      <4>3. r + 1 \notin T
        BY <3>2, <4>2
      <4>4. matches[NextMatch(x)].winner # Nil
        BY <2>1, <4>1, <4>2, <4>3
      <4> QED BY <1>4, <3>3, <3>5, <4>4
    <3> QED BY <3>4, <3>5
  <2> QED BY <1>2, <2>1, <2>2
<1> QED BY <1>1, <1>3, <1>4, <1>5

(* Then everybody but its winner has lost a match, and he has not. *)
LEMMA OneIsLeft ==
  ASSUME Inv, NEW f \in DOMAIN matches, IsFinal(f, Field), matches[f].state = "done"
  PROVE  Seeded \ out = {matches[f].winner}
<1>1. PICK n \in Nat : n = Field /\ n >= 2 /\ DOMAIN matches = Positions(n)
  BY BracketOf
<1>2. PICK p : p = matches[f].winner
  OBVIOUS
<1>3. /\ p # Nil /\ p \in Seeded
      /\ \E side \in Sides : matches[f][side] = p
  <2>1. p # Nil
    BY <1>2 DEF Inv, BracketInv, StatesAgree
  <2> QED BY <1>2, <2>1, WinnersSit
<1>4. PICK sideF \in Sides : matches[f][sideF] = p
  BY <1>3
<1>5. PICK R \in Nat : R = RoundCount(n) /\ \A x \in DOMAIN matches : x[1] \in 1..R
  <2>1. RoundCount(n) \in Nat
    BY <1>1, Rounds
  <2>2. \A x \in DOMAIN matches : x[1] \in 1..RoundCount(n)
    BY <1>1, <2>1, Placed
  <2> QED BY <2>1, <2>2
<1>6. ASSUME p \in out  PROVE FALSE
  <2>1. PICK y \in DOMAIN matches : Lost(p, y)
    BY <1>6 DEF Inv, BracketInv, LosersAreOut
  <2>2. PICK side \in Sides : matches[y][side] = p
    BY <2>1, BracketOf, MatchFields DEF Lost, Sides
  <2>3. matches[y].winner # p
    BY <2>1 DEF Lost
  <2>4. y # f
    BY <1>2, <2>3
  <2>5. y[1] < f[1]
    <3>1. ~IsFinal(y, n)
      BY <1>1, <2>4, AllAreDecided
    <3> QED BY <1>1, <1>5, <3>1 DEF IsFinal
  <2>6. y[1] \in 1..(f[1] - 1)
    BY <1>5, <2>5
  <2>7. PICK z \in DOMAIN matches : z[1] = y[1] /\ matches[z].winner = p
    BY <1>3, <1>4, <2>6 DEF Inv, BracketInv, EveryRoundWasWon
  <2>8. PICK side3 \in Sides : matches[z][side3] = p
    BY <1>3, <2>7, WinnersSit
  <2>9. z = y
    BY <1>3, <2>2, <2>7, <2>8 DEF Inv, BracketInv, OneChairARound
  <2> QED BY <2>3, <2>7, <2>9
<1>7. ASSUME NEW q \in Seeded, q # p  PROVE q \in out
  <2>1. PICK T : T = {r \in 0..R : \E x \in DOMAIN matches : \E side \in Sides :
                                      x[1] = r /\ matches[x][side] = q}
    OBVIOUS
  <2>2. q # Nil /\ q \in Players
    BY NilAssumption DEF Seeded
  <2>3. T # {}
    <3>1. seed[q] \in 1..n
      <4>1. {seed[k] : k \in Seeded} = 1..n
        BY <1>1 DEF Inv, BracketInv, SeedsAreTheDraw
      <4> QED BY <4>1
    <3>2. PICK slot \in FirstSlots(n), side \in Sides : FirstRound(n)[slot][side] = seed[q]
      BY <1>1, <3>1, FirstRoundSeats
    <3>3. seed[q] # Nil
      BY DEF Seeded
    <3>4. PICK x \in DOMAIN matches : x = <<1, slot>>
      BY <1>1, <3>2, FirstChairs
    <3>5. matches[x][side] \in Seeded /\ seed[matches[x][side]] = seed[q]
      BY <1>1, <3>2, <3>3, <3>4, FirstChairs
    <3>6. matches[x][side] = q
      BY <3>5 DEF Inv, BracketInv, SeedsDiffer
    <3>7. x[1] = 1 /\ 1 \in 0..R
      BY <1>5, <3>4
    <3> QED BY <2>1, <3>2, <3>6, <3>7
  <2>4. T \in SUBSET (0..R)
    BY <2>1
  <2>5. PICK r \in T : \A t \in T : t <= r
    BY <2>3, <2>4, Greatest
  <2>6. PICK x \in DOMAIN matches, side \in Sides : x[1] = r /\ matches[x][side] = q
    BY <2>1, <2>5
  <2>7. matches[x]["a"] = matches[x].a /\ matches[x]["b"] = matches[x].b
    BY BracketOf, MatchFields
  <2>8. matches[x].winner # Nil /\ matches[x].state \in {"bye", "done"}
    BY AllAreDecided, WinnersSit
  <2>9. CASE matches[x].winner = q
    <3>1. ~IsFinal(x, Field)
      BY <1>2, <1>7, <2>9, AllAreDecided
    <3>2. PICK y, side2 : y = NextMatch(x) /\ side2 = NextSide(x)
      OBVIOUS
    <3>3. y \in DOMAIN matches /\ side2 \in Sides /\ y[1] = r + 1 /\ matches[y][side2] = q
      BY <2>6, <2>9, <3>1, <3>2, AllAreDecided
    <3>4. r + 1 \in 0..R /\ ~(r + 1 <= r)
      BY <1>5, <2>4, <2>5, <3>3
    <3>5. r + 1 \in T
      BY <2>1, <3>3, <3>4
    <3> QED BY <2>5, <3>4, <3>5
  <2>10. CASE matches[x].winner # q
    <3>1. q \in {matches[x].a, matches[x].b}
      BY <2>6, <2>7 DEF Sides
    <3>2. matches[x].state = "done"
      <4>1. ASSUME matches[x].state = "bye"  PROVE FALSE
        <5>1. /\ matches[x].winner \in {matches[x].a, matches[x].b}
              /\ (matches[x].a = Nil \/ matches[x].b = Nil)
          BY <4>1 DEF Inv, BracketInv, StatesAgree
        <5> QED BY <2>2, <2>8, <2>10, <3>1, <5>1
      <4> QED BY <2>8, <4>1
    <3>3. Lost(q, x)
      BY <2>10, <3>1, <3>2 DEF Lost
    <3> QED BY <2>2, <3>3 DEF Inv, BracketInv, LosersAreOut
  <2> QED BY <2>9, <2>10
<1> QED BY <1>2, <1>3, <1>6, <1>7

LEMMA DecideGoesOut ==
  ASSUME Inv, NEW h \in Handlers, Decide(h)
  PROVE  [Promise!Next]_<<Seeded \ out, champion>>
<1>1. pc[h] = "decide"
  BY DEF Decide
<1>2. PICK pos, p, l : pos = mem[h].pos /\ p = mem[h].player /\ l = mem[h].loser
  OBVIOUS
<1>3. /\ pos \in DOMAIN matches /\ p # l
      /\ matches[pos].a # Nil /\ matches[pos].b # Nil
      /\ {matches[pos].a, matches[pos].b} = {p, l}
      /\ p \in Seeded /\ l \in Seeded /\ l \in entrants
      /\ matches[pos].state \in {"ready", "done"}
      /\ (matches[pos].state = "done" => matches[pos].winner = p)
      /\ (matches[pos].state = "ready" => matches[pos].winner = Nil)
  BY <1>1, <1>2, LosersSit
<1>4. champion' = champion /\ Seeded' = Seeded /\ out' = out \cup {l}
  BY <1>2, <1>3, DecideWrites, FieldStays DEF DrawStays
<1>5. matches[pos]["a"] = matches[pos].a /\ matches[pos]["b"] = matches[pos].b
  BY <1>3, BracketOf, MatchFields
<1>6. CASE matches[pos].state = "done"
  <2>1. Lost(l, pos)
    BY <1>3, <1>6 DEF Lost
  <2>2. l \in out
    BY <1>3, <2>1 DEF Inv, BracketInv, LosersAreOut, Seeded
  <2>3. (Seeded \ out)' = Seeded \ out
    BY <1>4, <2>2
  <2> QED BY <1>4, <2>3
<1>7. CASE matches[pos].state = "ready"
  <2>1. p \in Seeded \ out /\ l \in Seeded \ out
    BY <1>3, <1>5, <1>7, SittersAreIn DEF Sides
  <2>2. (Seeded \ out)' = (Seeded \ out) \ {l}
    BY <1>4
  <2>3. l \in Players /\ Seeded \ out # {l}
    BY <1>3, <2>1 DEF Seeded
  <2>4. Promise!GoOut(l)
    BY <1>4, <2>1, <2>2, <2>3 DEF Promise!GoOut
  <2> QED BY <2>3, <2>4 DEF Promise!Next
<1> QED BY <1>3, <1>6, <1>7

LEMMA CrownsTheLast ==
  ASSUME Inv, NEW h \in Handlers, Crown(h)
  PROVE  [Promise!Next]_<<Seeded \ out, champion>>
<1>1. PICK pos, p : pos = mem[h].pos /\ p = mem[h].player
  OBVIOUS
<1>2. /\ pos \in DOMAIN matches /\ IsFinal(pos, Field) /\ p \in Players
      /\ matches[pos].state = "done" /\ matches[pos].winner = p
  BY <1>1 DEF Inv, HandlersAgree, Agrees, Crown
<1>3. champion' = p /\ Seeded' = Seeded /\ out' = out
  BY <1>1, FieldStays DEF Crown
<1>4. Seeded \ out = {p}
  BY <1>2, OneIsLeft
<1>5. CASE champion = Nil
  <2>1. Promise!Crown(p)
    BY <1>3, <1>4, <1>5 DEF Promise!Crown
  <2> QED BY <1>2, <2>1 DEF Promise!Next
<1>6. CASE champion # Nil
  <2>1. PICK x \in DOMAIN matches : /\ IsFinal(x, Field) /\ matches[x].state = "done"
                                    /\ matches[x].winner = champion
    BY <1>6 DEF Inv, BracketInv, ChampionWonTheFinal
  <2>2. champion = p
    BY <1>4, <2>1, OneIsLeft
  <2> QED BY <1>3, <2>2
<1> QED BY <1>5, <1>6

LEMMA StepIsPromised ==
  Inv /\ [Next]_vars => [Promise!Next]_<<Seeded \ out, champion>>
<1> SUFFICES ASSUME Inv, [Next]_vars  PROVE [Promise!Next]_<<Seeded \ out, champion>>
  OBVIOUS
<1>1. ASSUME UNCHANGED <<champion, seed, out>>
      PROVE  [Promise!Next]_<<Seeded \ out, champion>>
  BY <1>1, FieldStays
<1>2. CASE UNCHANGED vars
  BY <1>1, <1>2 DEF vars
<1>3. ASSUME NEW h \in Handlers, Joining(h) \/ Starting(h) \/ Advancing(h) \/ Reporting(h)
      PROVE  [Promise!Next]_<<Seeded \ out, champion>>
  <2>1. CASE Draw(h)
    <3>1. CASE UNCHANGED rows
      BY <1>1, <3>1 DEF rows
    <3>2. CASE \E field : \E s : Draws(field, s)
      <4>1. PICK field, s : Draws(field, s)
        BY <3>2
      <4>2. field \in SUBSET Players /\ Seeded' = field /\ out' = {} /\ champion' = Nil
        BY <4>1, DrawSeeds
      <4>3. Seeded = {} /\ champion = Nil /\ Cardinality(field) >= 2
        BY <4>1 DEF Draws, Inv, BracketInv, BracketIsSeeded
      <4>4. Promise!Start(field)
        BY <4>2, <4>3 DEF Promise!Start, Promise!Cardinality, Cardinality
      <4> QED BY <4>2, <4>4 DEF Promise!Next
    <3> QED BY <2>1, <3>1, <3>2, DrawMoves
  <2>2. CASE Decide(h)
    BY <2>2, DecideGoesOut
  <2>3. CASE Crown(h)
    BY <2>3, CrownsTheLast
  <2>4. CASE Joining(h)
    BY <1>1, <2>4 DEF Joining, Join, Count, Enter, rows
  <2>5. CASE Begin(h) \/ ReadField(h) \/ ReadByes(h) \/ NextBye(h)
    BY <1>1, <2>5 DEF Begin, ReadField, ReadByes, NextBye, rows
  <2>6. CASE Advancing(h)
    BY <1>1, <2>6 DEF Advancing, Seat, Open
  <2>7. CASE Report(h) \/ Look(h)
    BY <1>1, <2>7 DEF Report, Look, rows
  <2> QED BY <1>3, <2>1, <2>2, <2>3, <2>4, <2>5, <2>6, <2>7 DEF Starting, Reporting
<1> QED BY <1>2, <1>3 DEF Next

(* One after the other goes out and the one left is the champion, with     *)
(* matches of several rounds reported at once, twice, and while the byes   *)
(* are still advancing: Tournament implements Knockout.                    *)
THEOREM TheKnockoutIsPlayed == Spec => PlaysKnockout
<1>1. Init => Promise!Init
  BY DEF Init, Promise!Init, Seeded
<1> QED BY <1>1, StepIsPromised, Invariant, PTL DEF Spec, PlaysKnockout, Promise!Spec
=============================================================================
