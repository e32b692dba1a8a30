----------------------------- MODULE BuddySafety -----------------------------
(***************************************************************************)
(* The buddy allocator is correct for every size of the area and of its    *)
(* blocks, and every sequence of requests: what it hands out never         *)
(* overlaps, no memory is lost, unused buddies are merged, and none of its *)
(* asserts fails.                                                          *)
(***************************************************************************)
EXTENDS Buddy, ListFacts

-----------------------------------------------------------------------------
(***************************************************************************)
(* Powers of two and multiples.                                            *)
(***************************************************************************)
LEMMA PowPos ==
  ASSUME NEW k \in 0 .. 30
  PROVE  2^k \in Nat \ {0}
<1>1. 0 \in 0 .. 30 /\ 0 + k <= 30
  OBVIOUS
<1> QED
  BY <1>1, PowersAssumption

LEMMA PowDouble ==
  ASSUME NEW k \in 0 .. 29
  PROVE  2^(k + 1) = 2 * 2^k
<1>1. k \in 0 .. 30 /\ 1 \in 0 .. 30 /\ k + 1 <= 30
  OBVIOUS
<1>2. 2^(k + 1) = 2^k * 2^1
  BY <1>1, PowersAssumption
<1>3. 2^1 = 2
  OBVIOUS
<1>4. 2^k \in Nat
  BY <1>1, PowPos
<1> QED
  BY <1>2, <1>3, <1>4

LEMMA PowFactor ==
  ASSUME NEW k \in 0 .. 30, NEW j \in 0 .. k
  PROVE  \E d \in Nat \ {0} : 2^k = d * 2^j
<1> DEFINE i == k - j
<1>1. i \in 0 .. 30 /\ j \in 0 .. 30 /\ i + j <= 30 /\ i + j = k
  OBVIOUS
<1> HIDE DEF i
<1>2. 2^(i + j) = 2^i * 2^j
  BY <1>1, PowersAssumption
<1>3. 2^i \in Nat \ {0}
  BY <1>1, PowPos
<1> QED
  BY <1>1, <1>2, <1>3

(* The multiples of p.                                                     *)
LEMMA MultipleIff ==
  ASSUME NEW a \in Nat, NEW p \in Nat \ {0}
  PROVE  a % p = 0 <=> \E j \in Nat : a = j * p
<1>1. a \div p \in Nat /\ a = (a \div p) * p + (a % p)
  BY Z3
<1>2. \A j \in Nat : (j * p) % p = 0
  BY Z3
<1> DEFINE q == a \div p
<1>3. a % p = 0 => a = q * p
  BY <1>1, Z3
<1>4. q \in Nat
  BY <1>1
<1> HIDE DEF q
<1> QED
  BY <1>2, <1>3, <1>4

LEMMA MultiplesApart ==
  ASSUME NEW a \in Nat, NEW b \in Nat, NEW p \in Nat \ {0}, a % p = 0, b % p = 0, a < b
  PROVE  a + p <= b
<1>1. PICK i \in Nat : a = i * p
  BY MultipleIff
<1>2. PICK j \in Nat : b = j * p
  BY MultipleIff
<1>3. i * p < j * p
  BY <1>1, <1>2
<1>4. i < j
  BY <1>3, Z3
<1>5. i * p + p <= j * p
  BY <1>4, Z3
<1> QED
  BY <1>1, <1>2, <1>5

LEMMA MultipleOfFactor ==
  ASSUME NEW a \in Nat, NEW p \in Nat \ {0}, NEW d \in Nat \ {0}, a % (d * p) = 0
  PROVE  a % p = 0
<1>1. d * p \in Nat \ {0}
  BY Z3
<1>2. PICK j \in Nat : a = j * (d * p)
  BY <1>1, MultipleIff
<1>3. a = (j * d) * p /\ j * d \in Nat
  BY <1>2, Z3
<1> QED
  BY <1>3, MultipleIff

LEMMA MultipleOfLess ==
  ASSUME NEW a \in Nat, NEW k \in 0 .. 30, NEW j \in 0 .. k, a % 2^k = 0
  PROVE  a % 2^j = 0
<1>1. PICK d \in Nat \ {0} : 2^k = d * 2^j
  BY PowFactor
<1> DEFINE p == 2^j
<1>2. p \in Nat \ {0}
  <2>1. j \in 0 .. 30
    OBVIOUS
  <2> QED
    BY <2>1, PowPos
<1>3. a % (d * p) = 0
  BY <1>1
<1> HIDE DEF p
<1>4. a % p = 0
  BY <1>2, <1>3, MultipleOfFactor
<1> QED
  BY <1>4 DEF p

(* The halves of a block of size 2p are multiples of p, an even one and    *)
(* an odd one.                                                             *)
LEMMA HalvesOf ==
  ASSUME NEW a \in Nat, NEW p \in Nat \ {0}, a % (2 * p) = 0
  PROVE  /\ a % p = 0 /\ (a + p) % p = 0
         /\ (a \div p) % 2 = 0 /\ ((a + p) \div p) % 2 = 1
<1>1. 2 * p \in Nat \ {0}
  OBVIOUS
<1>2. PICK j \in Nat : a = j * (2 * p)
  BY <1>1, MultipleIff
<1>3. a = (2 * j) * p /\ a + p = (2 * j + 1) * p
  BY <1>2, Z3
<1> DEFINE u == 2 * j
           v == 2 * j + 1
<1>4. u \in Nat /\ v \in Nat /\ u % 2 = 0 /\ v % 2 = 1
  OBVIOUS
<1>5. a = u * p /\ a + p = v * p
  BY <1>3
<1> HIDE DEF u, v
<1>6. (u * p) \div p = u /\ (v * p) \div p = v /\ (u * p) % p = 0 /\ (v * p) % p = 0
  BY <1>4, Z3
<1> QED
  BY <1>4, <1>5, <1>6

(* A multiple of p is the first or the second half of a block of size 2p.  *)
LEMMA HalfOf ==
  ASSUME NEW a \in Nat, NEW p \in Nat \ {0}, a % p = 0
  PROVE  /\ (a \div p) % 2 # 1 => a % (2 * p) = 0
         /\ (a \div p) % 2 = 1 => a - p \in Nat /\ (a - p) % (2 * p) = 0
<1>1. PICK j \in Nat : a = j * p
  BY MultipleIff
<1>2. a \div p = j
  BY <1>1, Z3
<1>3. 2 * p \in Nat \ {0}
  OBVIOUS
<1>4. CASE j % 2 = 1
  <2>1. PICK i \in Nat : j = 2 * i + 1
    BY <1>4
  <2>2. a - p = i * (2 * p) /\ a - p \in Nat
    BY <2>1, <1>1, Z3
  <2> QED
    BY <2>2, <1>2, <1>3, <1>4, MultipleIff
<1>5. CASE j % 2 # 1
  <2>1. PICK i \in Nat : j = 2 * i
    BY <1>5
  <2>2. a = i * (2 * p)
    BY <2>1, <1>1, Z3
  <2> QED
    BY <2>2, <1>2, <1>3, <1>5, MultipleIff
<1> QED
  BY <1>4, <1>5

-----------------------------------------------------------------------------
(***************************************************************************)
(* Blocks and their buddies.                                               *)
(***************************************************************************)
LEMMA Bounds ==
  Lower \in Nat /\ Upper \in Nat /\ 2 <= Lower /\ Lower <= Upper /\ Upper < 31
  BY BuddyAssumption

LEMMA MeasureFacts ==
  ASSUME NEW k \in Measures
  PROVE  k \in 0 .. 30 /\ k \in Nat \ {0} /\ 2^k \in Nat \ {0} /\ 2^Upper \in Nat
<1>1. k \in 0 .. 30 /\ k \in Nat \ {0} /\ Upper \in 0 .. 30
  BY Bounds DEF Measures
<1> QED
  BY <1>1, PowPos

(* The area is a multiple of every block size.                             *)
LEMMA AreaMultiple ==
  ASSUME NEW k \in Measures
  PROVE  2^Upper % 2^k = 0
<1>1. Upper \in 0 .. 30 /\ k \in 0 .. Upper
  BY Bounds DEF Measures
<1>2. PICK d \in Nat \ {0} : 2^Upper = d * 2^k
  BY <1>1, PowFactor
<1> DEFINE p == 2^k
           a == 2^Upper
<1>3. p \in Nat \ {0} /\ a \in Nat /\ a = d * p
  BY <1>2, MeasureFacts
<1> HIDE DEF p, a
<1>4. a % p = 0
  BY <1>3, MultipleIff
<1> QED
  BY <1>4 DEF p, a

(* Blocks are the multiples of the smallest size inside the area.          *)
LEMMA BlockIff ==
  ASSUME NEW b
  PROVE  b \in Blocks <=> b \in Nat /\ b < 2^Upper /\ b % 2^Lower = 0
<1> DEFINE p == 2^Lower
           n == 2^(Upper - Lower)
           i == Upper - Lower
<1>1. i \in 0 .. 30 /\ Lower \in 0 .. 30 /\ i + Lower = Upper /\ i + Lower <= 30
  BY Bounds
<1>2. 2^(i + Lower) = 2^i * 2^Lower
  BY <1>1, PowersAssumption
<1>3. 2^Upper = n * p
  BY <1>1, <1>2
<1>4. p \in Nat \ {0} /\ n \in Nat \ {0}
  BY <1>1, PowPos
<1>5. Blocks = {k * p : k \in 0 .. (n - 1)}
  BY DEF Blocks
<1> HIDE DEF p, n, i
<1>6. ASSUME b \in Blocks
      PROVE  b \in Nat /\ b < n * p /\ b % p = 0
  <2>1. PICK k \in 0 .. (n - 1) : b = k * p
    BY <1>5, <1>6
  <2>2. k \in Nat /\ k < n
    BY <1>4, <2>1
  <2>3. k * p \in Nat /\ k * p < n * p
    BY <1>4, <2>2, Z3
  <2> QED
    BY <2>1, <2>2, <2>3, <1>4, MultipleIff
<1>7. ASSUME b \in Nat, b < n * p, b % p = 0
      PROVE  b \in Blocks
  <2>1. PICK k \in Nat : b = k * p
    BY <1>4, <1>7, MultipleIff
  <2>2. k < n
    BY <1>4, <1>7, <2>1, Z3
  <2>3. k \in 0 .. (n - 1)
    BY <1>4, <2>2
  <2> QED
    BY <2>1, <2>3, <1>5
<1> QED
  BY <1>3, <1>6, <1>7 DEF p

(* The buddy of a block of size k.                                         *)
BuddyOf(b, k) == IF (b \div 2^k) % 2 = 1 THEN b - 2^k ELSE b + 2^k

LEMMA GetBuddyIs ==
  ASSUME NEW b, NEW k, sizem[b] = k
  PROVE  get_buddy(b) = BuddyOf(b, k)
  BY DEF get_buddy, BuddyOf

(* A block and its buddy are the halves of a block of twice the size, low  *)
(* being the first.                                                        *)
Low(b, k) == IF b > BuddyOf(b, k) THEN BuddyOf(b, k) ELSE b

LEMMA BuddyFacts ==
  ASSUME NEW b \in Nat, NEW k \in Measures, k < Upper, b < 2^Upper, b % 2^k = 0
  PROVE  /\ BuddyOf(b, k) \in Nat /\ BuddyOf(b, k) # b
         /\ BuddyOf(b, k) < 2^Upper /\ BuddyOf(b, k) % 2^k = 0
         /\ BuddyOf(BuddyOf(b, k), k) = b
         /\ Low(b, k) \in Nat /\ Low(b, k) % 2^(k + 1) = 0
         /\ Low(b, k) + 2^(k + 1) <= 2^Upper
         /\ \/ b = Low(b, k) /\ BuddyOf(b, k) = Low(b, k) + 2^k
            \/ b = Low(b, k) + 2^k /\ BuddyOf(b, k) = Low(b, k)
<1> DEFINE p == 2^k
           a == 2^Upper
           c == BuddyOf(b, k)
           low == Low(b, k)
<1>1. p \in Nat \ {0} /\ a \in Nat
  BY MeasureFacts
<1>2. k \in 0 .. 29 /\ k + 1 \in Measures
  BY Bounds DEF Measures
<1>3. 2^(k + 1) = 2 * p
  BY <1>2, PowDouble
<1>4. a % (2 * p) = 0
  BY <1>2, <1>3, AreaMultiple
<1>5. c = IF (b \div p) % 2 = 1 THEN b - p ELSE b + p
  BY DEF BuddyOf
<1>6. low = IF b > c THEN c ELSE b
  BY DEF Low
<1>7. b < a /\ b % p = 0
  OBVIOUS
<1>8. BuddyOf(c, k) = IF (c \div p) % 2 = 1 THEN c - p ELSE c + p
  BY DEF BuddyOf
<1> HIDE DEF p, a, c, low
<1>9. 2 * p \in Nat \ {0}
  BY <1>1
<1>10. CASE (b \div p) % 2 = 1
  <2>1. c = b - p /\ c \in Nat /\ c % (2 * p) = 0
    BY <1>1, <1>5, <1>7, <1>10, HalfOf
  <2>2. low = c /\ b = c + p /\ c # b
    BY <2>1, <1>1, <1>6
  <2>3. c < a
    BY <2>1, <1>1, <1>7
  <2>4. c + 2 * p <= a
    BY <2>1, <2>3, <1>1, <1>4, <1>9, MultiplesApart
  <2>5. c % p = 0 /\ (c \div p) % 2 = 0
    BY <2>1, <1>1, HalvesOf
  <2>6. BuddyOf(c, k) = b
    BY <2>5, <2>2, <1>8
  <2> QED
    BY <2>1, <2>2, <2>3, <2>4, <2>5, <2>6, <1>3 DEF p, a, c, low
<1>11. CASE (b \div p) % 2 # 1
  <2>1. c = b + p /\ b % (2 * p) = 0
    BY <1>1, <1>5, <1>7, <1>11, HalfOf
  <2>2. low = b /\ c # b /\ c \in Nat
    BY <2>1, <1>1, <1>6
  <2>3. b + 2 * p <= a
    BY <2>1, <1>7, <1>1, <1>4, <1>9, MultiplesApart
  <2>4. c < a
    BY <2>1, <2>3, <1>1
  <2>5. c % p = 0 /\ (c \div p) % 2 = 1
    BY <2>1, <1>1, HalvesOf
  <2>6. BuddyOf(c, k) = b
    BY <2>1, <2>5, <1>1, <1>8
  <2> QED
    BY <2>1, <2>2, <2>3, <2>4, <2>5, <2>6, <1>3 DEF p, a, c, low
<1> QED
  BY <1>10, <1>11

-----------------------------------------------------------------------------
(***************************************************************************)
(* Free lists.                                                             *)
(***************************************************************************)
LEMMA FirstRemoved ==
  ASSUME NEW S, NEW s \in Seq(S), IsInjective(s), NEW b \in ToSet(s)
  PROVE  /\ RemoveFirst(s, b) \in Seq(S)
         /\ ToSet(RemoveFirst(s, b)) = ToSet(s) \ {b}
         /\ IsInjective(RemoveFirst(s, b))
<1> DEFINE n == Len(s)
           r == RemoveFirst(s, b)
<1>1. n \in Nat /\ \A i \in 1 .. n : s[i] \in S
  BY LenProperties, ElementOfSeq
<1>2. PICK x \in 1 .. n : s[x] = b
  BY InList
<1>3. \A i, j \in 1 .. n : s[i] = s[j] => i = j
  BY InList
<1>4. {i \in 1 .. n : s[i] = b} = {x}
  BY <1>2, <1>3
<1>5. SelectInSeq(s, LAMBDA v : v = b) = x
  <2>1. Min({x}) = x
    BY <1>2 DEF Min
  <2> QED
    BY <2>1, <1>4 DEF SelectInSeq
<1>6. r = SubSeq(s, 1, x - 1) \o SubSeq(s, x + 1, n)
  BY <1>2, <1>5 DEF RemoveFirst, RemoveAt
<1> DEFINE u == SubSeq(s, 1, x - 1)
           v == SubSeq(s, x + 1, n)
<1>7. /\ u \in Seq(S) /\ Len(u) = x - 1
      /\ \A i \in 1 .. (x - 1) : u[i] = s[i]
  BY <1>1, <1>2
<1>8. /\ v \in Seq(S) /\ Len(v) = n - x
      /\ \A i \in 1 .. (n - x) : v[i] = s[x + i]
  BY <1>1, <1>2
<1> HIDE DEF u, v, r
<1>9. /\ r \in Seq(S) /\ Len(r) = n - 1
      /\ \A i \in 1 .. (n - 1) : r[i] = IF i < x THEN s[i] ELSE s[i + 1]
  <2>1. r = u \o v
    BY <1>6 DEF u, v
  <2>2. /\ r \in Seq(S) /\ Len(r) = Len(u) + Len(v)
        /\ \A i \in 1 .. (Len(u) + Len(v)) : r[i] = IF i <= Len(u) THEN u[i] ELSE v[i - Len(u)]
    <3>1. u \in Seq(S) /\ v \in Seq(S)
      BY <1>7, <1>8
    <3> QED
      BY <2>1, <3>1, ConcatProperties
  <2>3. Len(u) + Len(v) = n - 1
    BY <1>1, <1>2, <1>7, <1>8
  <2>4. ASSUME NEW i \in 1 .. (n - 1)
        PROVE  r[i] = IF i < x THEN s[i] ELSE s[i + 1]
    <3>1. CASE i < x
      <4>1. i <= Len(u) /\ i \in 1 .. (x - 1)
        BY <3>1, <1>1, <1>2, <1>7
      <4> QED
        BY <4>1, <3>1, <2>2, <2>3, <1>7
    <3>2. CASE ~ (i < x)
      <4>1. ~ (i <= Len(u)) /\ i - Len(u) \in 1 .. (n - x) /\ x + (i - Len(u)) = i + 1
        BY <3>2, <1>1, <1>2, <1>7
      <4>2. v[i - Len(u)] = s[x + (i - Len(u))]
        BY <4>1, <1>8
      <4> QED
        BY <4>1, <4>2, <3>2, <2>2, <2>3
    <3> QED  BY <3>1, <3>2
  <2> QED
    BY <2>2, <2>3, <2>4
<1>10. /\ ToSet(r) = {r[i] : i \in 1 .. (n - 1)} /\ ToSet(s) = {s[i] : i \in 1 .. n}
       /\ IsInjective(r) <=> \A i, j \in 1 .. (n - 1) : r[i] = r[j] => i = j
  BY <1>9, InList
<1>11. ASSUME NEW i \in 1 .. (n - 1)
       PROVE  /\ r[i] \in ToSet(s) \ {b}
              /\ r[i] = s[IF i < x THEN i ELSE i + 1]
  <2>1. (IF i < x THEN i ELSE i + 1) \in 1 .. n /\ (IF i < x THEN i ELSE i + 1) # x
    BY <1>1, <1>2
  <2>2. r[i] = s[IF i < x THEN i ELSE i + 1]
    BY <1>9
  <2> QED
    BY <2>1, <2>2, <1>2, <1>3, <1>10
<1>12. ASSUME NEW i \in 1 .. n, s[i] # b
       PROVE  s[i] \in ToSet(r)
  <2>1. i # x
    BY <1>2, <1>12
  <2>2. CASE i < x
    <3>1. i \in 1 .. (n - 1)
      BY <2>2, <1>1, <1>2
    <3> QED  BY <3>1, <2>2, <1>9, <1>10
  <2>3. CASE i > x
    <3>1. i - 1 \in 1 .. (n - 1) /\ ~ (i - 1 < x) /\ i - 1 + 1 = i
      BY <2>3, <1>1, <1>2
    <3> QED  BY <3>1, <1>9, <1>10
  <2> QED
    BY <2>1, <2>2, <2>3, <1>1, <1>2
<1>13. ASSUME NEW i \in 1 .. (n - 1), NEW j \in 1 .. (n - 1), r[i] = r[j]
       PROVE  i = j
  <2> DEFINE y == IF i < x THEN i ELSE i + 1
             z == IF j < x THEN j ELSE j + 1
  <2>1. y \in 1 .. n /\ z \in 1 .. n
    BY <1>1, <1>2
  <2>2. s[y] = s[z]
    BY <1>11, <1>13
  <2>3. y = z
    BY <2>1, <2>2, <1>3
  <2> QED
    BY <2>3, <1>1, <1>2
<1>14. IsInjective(r)
  BY <1>10, <1>13
<1>15. ToSet(r) = ToSet(s) \ {b}
  <2>1. \A e \in ToSet(r) : e \in ToSet(s) \ {b}
    BY <1>10, <1>11
  <2>2. \A e \in ToSet(s) \ {b} : e \in ToSet(r)
    BY <1>10, <1>12
  <2> QED
    BY <2>1, <2>2
<1> QED
  BY <1>9, <1>14, <1>15 DEF r

-----------------------------------------------------------------------------
(***************************************************************************)
(* The layout of the area, for the sizes z that the blocks have: what      *)
(* splitting a block and merging two buddies do to it.                     *)
(***************************************************************************)
Sizings == [Blocks -> Measures \cup {0}]
Area == 2^Upper
Extent(z, b) == 2^z[b]
HeadsOf(z) == {b \in Blocks : z[b] # 0}

LayoutOf(z) ==
  /\ \A b \in HeadsOf(z) : b % Extent(z, b) = 0 /\ b + Extent(z, b) <= Area
  /\ \A b, c \in HeadsOf(z) : b < c => b + Extent(z, b) <= c
  /\ \A g \in Blocks : \E b \in HeadsOf(z) : b <= g /\ g < b + Extent(z, b)

LEMMA BlockNat ==
  ASSUME NEW b \in Blocks
  PROVE  b \in Nat /\ b < Area /\ Area \in Nat
<1>1. Upper \in Measures
  BY Bounds DEF Measures
<1> QED
  BY <1>1, BlockIff, MeasureFacts DEF Area

LEMMA HeadFacts ==
  ASSUME NEW z \in Sizings, LayoutOf(z), NEW b \in HeadsOf(z)
  PROVE  /\ b \in Blocks /\ b \in Nat /\ b < Area /\ Area \in Nat
         /\ z[b] \in Measures /\ Extent(z, b) = 2^z[b] /\ Extent(z, b) \in Nat \ {0}
         /\ b % Extent(z, b) = 0 /\ b + Extent(z, b) <= Area
<1>1. b \in Blocks /\ z[b] \in Measures
  BY DEF HeadsOf, Sizings
<1>2. Extent(z, b) = 2^z[b] /\ Extent(z, b) \in Nat \ {0}
  BY <1>1, MeasureFacts DEF Extent
<1> QED
  BY <1>1, <1>2, BlockNat DEF LayoutOf

(* A byte is in one block only.                                            *)
LEMMA OneBlock ==
  ASSUME NEW z \in Sizings, LayoutOf(z), NEW b \in HeadsOf(z), NEW c \in HeadsOf(z),
         NEW x \in Nat, b <= x, x < b + Extent(z, b), c <= x, x < c + Extent(z, c)
  PROVE  b = c
<1>1. b \in Nat /\ c \in Nat /\ Extent(z, b) \in Nat /\ Extent(z, c) \in Nat
  BY HeadFacts
<1>2. b < c => b + Extent(z, b) <= c
  BY DEF LayoutOf
<1>3. c < b => c + Extent(z, c) <= b
  BY DEF LayoutOf
<1> QED
  BY <1>1, <1>2, <1>3

(* One block of size k + 1 becomes two of size k.                          *)
SizesSplit(z, h, half, k) == [z EXCEPT ![h] = k, ![half] = k]

LEMMA SplitLayout ==
  ASSUME NEW z \in Sizings, LayoutOf(z), NEW h \in HeadsOf(z),
         NEW k \in Measures, z[h] = k + 1,
         NEW half, half = h + 2^k,
         NEW z2, z2 = SizesSplit(z, h, half, k)
  PROVE  /\ half \in Blocks \ HeadsOf(z) /\ h < half /\ half % 2^k = 0 /\ h % 2^(k + 1) = 0
         /\ z2 \in Sizings /\ LayoutOf(z2) /\ HeadsOf(z2) = HeadsOf(z) \cup {half}
         /\ z2[h] = k /\ z2[half] = k /\ \A b \in Blocks \ {h, half} : z2[b] = z[b]
<1> DEFINE p == 2^k
<1>1. k \in 0 .. 29 /\ k + 1 \in Measures /\ Lower \in 0 .. k /\ k \in 0 .. 30
  <2>1. h \in Blocks /\ z[h] \in Measures
    BY HeadFacts
  <2> QED
    BY <2>1, Bounds DEF Measures
<1>2. p \in Nat \ {0} /\ 2^(k + 1) = 2 * p
  BY <1>1, MeasureFacts, PowDouble
<1>3. /\ h \in Blocks /\ h \in Nat /\ h < Area /\ Area \in Nat
      /\ Extent(z, h) = 2 * p /\ h % (2 * p) = 0 /\ h + 2 * p <= Area
  BY <1>2, HeadFacts
<1>4. half = h + p
  OBVIOUS
<1> HIDE DEF p
<1>5. half \in Nat /\ half < Area /\ h < half /\ half % p = 0 /\ h % p = 0
  <2>1. half \in Nat /\ half < Area /\ h < half
    BY <1>2, <1>3, <1>4
  <2>2. (h + p) % p = 0 /\ h % p = 0
    BY <1>2, <1>3, HalvesOf
  <2> QED
    BY <2>1, <2>2, <1>4
<1>6. half \in Blocks
  <2>1. half % 2^k = 0
    BY <1>5 DEF p
  <2>2. half % 2^Lower = 0
    BY <1>1, <1>5, <2>1, MultipleOfLess
  <2> QED
    BY <2>2, <1>5, BlockIff DEF Area
<1>7. half \notin HeadsOf(z)
  <2> SUFFICES ASSUME half \in HeadsOf(z) PROVE FALSE
    OBVIOUS
  <2>1. h + 2 * p <= half
    BY <1>3, <1>5 DEF LayoutOf
  <2> QED
    BY <2>1, <1>2, <1>3, <1>4
<1>8. /\ z2 \in Sizings /\ z2[h] = k /\ z2[half] = k
      /\ \A b \in Blocks \ {h, half} : z2[b] = z[b]
  BY <1>3, <1>6, <1>5 DEF Sizings, SizesSplit
<1>9. HeadsOf(z2) = HeadsOf(z) \cup {half}
  <2>1. k # 0
    BY MeasureFacts
  <2> QED
    BY <2>1, <1>8, <1>6, <1>3 DEF HeadsOf
<1>10. /\ Extent(z2, h) = p /\ Extent(z2, half) = p
       /\ \A b \in HeadsOf(z2) \ {h, half} : b \in HeadsOf(z) /\ Extent(z2, b) = Extent(z, b)
  <2>1. Extent(z2, h) = p /\ Extent(z2, half) = p
    BY <1>8 DEF Extent, p
  <2>2. \A b \in Blocks \ {h, half} : Extent(z2, b) = Extent(z, b)
    BY <1>8 DEF Extent
  <2>3. HeadsOf(z2) \subseteq Blocks
    BY DEF HeadsOf
  <2> QED
    BY <2>1, <2>2, <2>3, <1>9
<1>11. \A b \in HeadsOf(z2) : b % Extent(z2, b) = 0 /\ b + Extent(z2, b) <= Area
  <2> SUFFICES ASSUME NEW b \in HeadsOf(z2)
               PROVE  b % Extent(z2, b) = 0 /\ b + Extent(z2, b) <= Area
    OBVIOUS
  <2>1. CASE b = h
    BY <2>1, <1>2, <1>3, <1>5, <1>10
  <2>2. CASE b = half
    BY <2>2, <1>2, <1>3, <1>4, <1>5, <1>10
  <2>3. CASE b \notin {h, half}
    BY <2>3, <1>10 DEF LayoutOf
  <2> QED
    BY <2>1, <2>2, <2>3
<1>12. ASSUME NEW b \in HeadsOf(z2), NEW c \in HeadsOf(z2), b < c
       PROVE  b + Extent(z2, b) <= c
  <2>1. b \in Nat /\ c \in Nat
    BY BlockNat DEF HeadsOf
  <2>2. b \in HeadsOf(z) /\ c \in HeadsOf(z) => b + Extent(z, b) <= c
    BY <1>12 DEF LayoutOf
  <2>3. c # half => (h < c => h + 2 * p <= c)
    BY <1>3, <1>9 DEF LayoutOf
  <2>4. b # half => b \in HeadsOf(z)
    BY <1>9
  <2>5. b \in HeadsOf(z) => Extent(z, b) \in Nat
    BY HeadFacts
  <2>6. b \in HeadsOf(z) /\ b < h => b + Extent(z, b) <= h
    BY DEF LayoutOf
  <2>7. b \in HeadsOf(z) /\ h < b => h + 2 * p <= b
    BY <1>3 DEF LayoutOf
  <2>8. CASE b = h
    BY <2>8, <2>1, <2>3, <1>2, <1>3, <1>4, <1>10, <1>12
  <2>9. CASE b = half
    BY <2>9, <2>1, <2>3, <1>2, <1>3, <1>4, <1>10, <1>12
  <2>10. CASE b \notin {h, half} /\ c = half
    <3>1. b + Extent(z, b) <= h
      BY <2>10, <2>1, <2>4, <2>6, <2>7, <1>2, <1>3, <1>4, <1>12
    <3>2. Extent(z2, b) = Extent(z, b) /\ Extent(z, b) \in Nat
      BY <2>10, <2>4, <2>5, <1>10
    <3>3. h <= c
      BY <2>10, <1>5, <1>3
    <3> QED
      BY <3>1, <3>2, <3>3, <2>1, <1>3
  <2>11. CASE b \notin {h, half} /\ c # half
    BY <2>11, <2>2, <2>4, <1>9, <1>10
  <2> QED
    BY <2>8, <2>9, <2>10, <2>11
<1>13. ASSUME NEW g \in Blocks
       PROVE  \E b \in HeadsOf(z2) : b <= g /\ g < b + Extent(z2, b)
  <2>1. PICK b \in HeadsOf(z) : b <= g /\ g < b + Extent(z, b)
    BY DEF LayoutOf
  <2>2. g \in Nat
    BY BlockNat
  <2>3. CASE b # h
    <3>1. b \notin {h, half} /\ b \in HeadsOf(z2)
      BY <2>3, <1>7, <1>9
    <3> QED
      BY <3>1, <2>1, <1>10
  <2>4. CASE b = h
    <3>1. h \in HeadsOf(z2) /\ half \in HeadsOf(z2)
      BY <1>9
    <3>2. CASE g < half
      BY <3>1, <3>2, <2>1, <2>4, <1>4, <1>10
    <3>3. CASE ~ (g < half)
      <4>1. half <= g /\ g < half + p
        BY <3>3, <2>1, <2>2, <2>4, <1>2, <1>3, <1>4
      <4> QED
        BY <4>1, <3>1, <1>10
    <3> QED
      BY <3>2, <3>3
  <2> QED
    BY <2>3, <2>4
<1>14. LayoutOf(z2)
  BY <1>11, <1>12, <1>13 DEF LayoutOf
<1>15. half % 2^k = 0 /\ h % 2^(k + 1) = 0
  BY <1>2, <1>3, <1>5 DEF p
<1> QED
  BY <1>5, <1>6, <1>7, <1>8, <1>9, <1>14, <1>15

(* Two buddies of size k become one block of size k + 1.                   *)
SizesMerged(z, low, high, k) == [z EXCEPT ![low] = k + 1, ![high] = 0]

LEMMA MergeLayout ==
  ASSUME NEW z \in Sizings, LayoutOf(z), NEW low \in HeadsOf(z), NEW high \in HeadsOf(z),
         NEW k \in Measures, k < Upper, z[low] = k, z[high] = k,
         low % 2^(k + 1) = 0, high = low + 2^k,
         NEW z2, z2 = SizesMerged(z, low, high, k)
  PROVE  /\ z2 \in Sizings /\ LayoutOf(z2) /\ HeadsOf(z2) = HeadsOf(z) \ {high}
         /\ z2[low] = k + 1 /\ z2[high] = 0 /\ \A b \in Blocks \ {low, high} : z2[b] = z[b]
<1> DEFINE p == 2^k
<1>1. k \in 0 .. 29 /\ k + 1 \in Measures /\ k + 1 # 0
  BY Bounds DEF Measures
<1>2. p \in Nat \ {0} /\ 2^(k + 1) = 2 * p
  BY <1>1, MeasureFacts, PowDouble
<1>3. /\ low \in Blocks /\ low \in Nat /\ Area \in Nat /\ high \in Blocks /\ high \in Nat
      /\ Extent(z, low) = p /\ Extent(z, high) = p /\ high + p <= Area
  BY HeadFacts
<1>4. high = low + p /\ low % (2 * p) = 0
  BY <1>2
<1> HIDE DEF p
<1>5. low # high /\ low < high
  BY <1>2, <1>3, <1>4
<1>6. /\ z2 \in Sizings /\ z2[low] = k + 1 /\ z2[high] = 0
      /\ \A b \in Blocks \ {low, high} : z2[b] = z[b]
  BY <1>1, <1>3, <1>5 DEF Sizings, SizesMerged
<1>7. HeadsOf(z2) = HeadsOf(z) \ {high}
  BY <1>1, <1>3, <1>5, <1>6 DEF HeadsOf
<1>8. /\ Extent(z2, low) = 2 * p
      /\ \A b \in HeadsOf(z2) \ {low} : b \in HeadsOf(z) /\ Extent(z2, b) = Extent(z, b)
  <2>1. Extent(z2, low) = 2 * p
    BY <1>2, <1>6 DEF Extent
  <2>2. \A b \in Blocks \ {low, high} : Extent(z2, b) = Extent(z, b)
    BY <1>6 DEF Extent
  <2>3. HeadsOf(z2) \subseteq Blocks
    BY DEF HeadsOf
  <2> QED
    BY <2>1, <2>2, <2>3, <1>7
<1>9. \A b \in HeadsOf(z2) : b % Extent(z2, b) = 0 /\ b + Extent(z2, b) <= Area
  <2> SUFFICES ASSUME NEW b \in HeadsOf(z2)
               PROVE  b % Extent(z2, b) = 0 /\ b + Extent(z2, b) <= Area
    OBVIOUS
  <2>1. CASE b = low
    BY <2>1, <1>2, <1>3, <1>4, <1>8
  <2>2. CASE b # low
    BY <2>2, <1>8 DEF LayoutOf
  <2> QED
    BY <2>1, <2>2
<1>10. ASSUME NEW b \in HeadsOf(z2), NEW c \in HeadsOf(z2), b < c
       PROVE  b + Extent(z2, b) <= c
  <2>1. b \in Nat /\ c \in Nat /\ b \in HeadsOf(z) /\ c \in HeadsOf(z) /\ c # high
    BY <1>7, BlockNat DEF HeadsOf
  <2>2. b + Extent(z, b) <= c
    BY <2>1, <1>10 DEF LayoutOf
  <2>3. high < c => high + p <= c
    BY <2>1, <1>3 DEF LayoutOf
  <2>4. CASE b = low
    BY <2>1, <2>2, <2>3, <2>4, <1>2, <1>3, <1>4, <1>8
  <2>5. CASE b # low
    BY <2>2, <2>5, <1>8
  <2> QED
    BY <2>4, <2>5
<1>11. ASSUME NEW g \in Blocks
       PROVE  \E b \in HeadsOf(z2) : b <= g /\ g < b + Extent(z2, b)
  <2>1. PICK b \in HeadsOf(z) : b <= g /\ g < b + Extent(z, b)
    BY DEF LayoutOf
  <2>2. g \in Nat
    BY BlockNat
  <2>3. CASE b \notin {low, high}
    BY <2>1, <2>3, <1>7, <1>8
  <2>4. CASE b \in {low, high}
    <3>1. low <= g /\ g < low + 2 * p
      BY <2>1, <2>2, <2>4, <1>2, <1>3, <1>4
    <3>2. low \in HeadsOf(z2)
      BY <1>5, <1>7
    <3> QED
      BY <3>1, <3>2, <1>8
  <2> QED
    BY <2>3, <2>4
<1>12. LayoutOf(z2)
  BY <1>9, <1>10, <1>11 DEF LayoutOf
<1> QED
  BY <1>6, <1>7, <1>12

(* The buddy of a block that does not fill the area is inside it too.      *)
LEMMA BuddyOfHead ==
  ASSUME NEW z \in Sizings, LayoutOf(z), NEW b \in HeadsOf(z), NEW k, k = z[b], k < Upper
  PROVE  /\ BuddyOf(b, k) \in Blocks /\ BuddyOf(b, k) # b /\ BuddyOf(BuddyOf(b, k), k) = b
         /\ Low(b, k) \in Nat /\ Low(b, k) % 2^(k + 1) = 0
         /\ \/ b = Low(b, k) /\ BuddyOf(b, k) = Low(b, k) + 2^k
            \/ b = Low(b, k) + 2^k /\ BuddyOf(b, k) = Low(b, k)
         /\ Low(b, k) + 2^(k + 1) <= Area
<1>1. b \in Nat /\ k \in Measures /\ b < 2^Upper /\ b % 2^k = 0
  BY HeadFacts DEF Area
<1>2. /\ BuddyOf(b, k) \in Nat /\ BuddyOf(b, k) # b
      /\ BuddyOf(b, k) < 2^Upper /\ BuddyOf(b, k) % 2^k = 0
      /\ BuddyOf(BuddyOf(b, k), k) = b
      /\ Low(b, k) \in Nat /\ Low(b, k) % 2^(k + 1) = 0
      /\ Low(b, k) + 2^(k + 1) <= 2^Upper
      /\ \/ b = Low(b, k) /\ BuddyOf(b, k) = Low(b, k) + 2^k
         \/ b = Low(b, k) + 2^k /\ BuddyOf(b, k) = Low(b, k)
  BY <1>1, BuddyFacts
<1>3. Lower \in 0 .. k /\ k \in 0 .. 30
  BY <1>1, Bounds DEF Measures
<1>4. BuddyOf(b, k) % 2^Lower = 0
  BY <1>2, <1>3, MultipleOfLess
<1> QED
  BY <1>2, <1>4, BlockIff DEF Area

(* The halves of a block are each other's buddies.                         *)
LEMMA HalvesAreBuddies ==
  ASSUME NEW h \in Nat, NEW k \in Measures, k < Upper, h % 2^(k + 1) = 0
  PROVE  BuddyOf(h, k) = h + 2^k /\ BuddyOf(h + 2^k, k) = h
<1> DEFINE p == 2^k
<1>1. p \in Nat \ {0}
  BY MeasureFacts
<1>2. k \in 0 .. 29
  BY Bounds DEF Measures
<1>3. h % (2 * p) = 0
  BY <1>2, PowDouble
<1>4. \A x : BuddyOf(x, k) = IF (x \div p) % 2 = 1 THEN x - p ELSE x + p
  BY DEF BuddyOf
<1> HIDE DEF p
<1>5. (h \div p) % 2 = 0 /\ ((h + p) \div p) % 2 = 1
  BY <1>1, <1>3, HalvesOf
<1>6. BuddyOf(h, k) = h + p /\ BuddyOf(h + p, k) = h
  BY <1>1, <1>4, <1>5
<1> QED
  BY <1>6 DEF p

-----------------------------------------------------------------------------
(* mforsize finds a size that is large enough.                             *)
LEMMA LargeEnough ==
  ASSUME NEW n \in Requests
  PROVE  mforsize(n) \in Lower .. 30 /\ n \in Nat /\ n < 2^mforsize(n)
<1> DEFINE S == {k \in Lower .. 30 : 2^k > n}
<1>1. n \in Nat /\ n <= 2^29
  <2>1. 29 \in 0 .. 30
    OBVIOUS
  <2>2. 2^29 \in Nat
    BY <2>1, PowPos
  <2>3. n \in 0 .. 2^29
    BY BuddyAssumption
  <2> QED
    BY <2>2, <2>3
<1>2. 30 \in S
  <2>1. 29 \in 0 .. 29 /\ 29 \in 0 .. 30 /\ 29 + 1 = 30
    OBVIOUS
  <2> DEFINE p == 2^29
  <2>2. p \in Nat \ {0} /\ 2^30 = 2 * p /\ n <= p
    BY <2>1, <1>1, PowPos, PowDouble
  <2> HIDE DEF p
  <2>3. 2^30 > n
    BY <2>2, <1>1
  <2> QED
    BY <2>3, Bounds
<1>3. PICK k \in S : \A j \in S : k <= j
  <2>1. S \in SUBSET Nat
    BY Bounds
  <2> HIDE DEF S
  <2> QED
    BY <2>1, <1>2, LeastNat
<1>4. \A j \in Lower .. (k - 1) : 2^j <= n
  <2> SUFFICES ASSUME NEW j \in Lower .. (k - 1) PROVE 2^j <= n
    OBVIOUS
  <2>1. j \in Lower .. 30 /\ ~ (k <= j) /\ j \in 0 .. 30
    BY <1>3, Bounds
  <2>2. ~ (2^j > n)
    BY <2>1, <1>3
  <2>3. 2^j \in Nat
    BY <2>1, PowPos
  <2> QED
    BY <2>2, <2>3, <1>1
<1>5. \E i \in Lower .. 30 : 2^i > n /\ \A j \in Lower .. (i - 1) : 2^j <= n
  BY <1>3, <1>4
<1>6. mforsize(n) \in Lower .. 30 /\ 2^mforsize(n) > n
  BY <1>5 DEF mforsize
<1>7. 2^mforsize(n) \in Nat
  <2>1. mforsize(n) \in 0 .. 30
    BY <1>6, Bounds
  <2> QED
    BY <2>1, PowPos
<1> QED
  BY <1>1, <1>6, <1>7

-----------------------------------------------------------------------------
(***************************************************************************)
(* The invariant holds initially and every step keeps it.                  *)
(***************************************************************************)
LEMMA LayoutIs ==
  /\ Layout <=> LayoutOf(sizem)
  /\ Heads = HeadsOf(sizem)
  /\ Layout' <=> LayoutOf(sizem')
  /\ Heads' = HeadsOf(sizem')
  BY DEF Layout, LayoutOf, Heads, HeadsOf, Extent, Area

(* What the invariant says about a block.                                  *)
LEMMA AtHead ==
  ASSUME BuddyInv, NEW b \in Heads
  PROVE  /\ sizem \in Sizings /\ LayoutOf(sizem) /\ b \in HeadsOf(sizem)
         /\ b \in Blocks /\ b \in Nat /\ sizem[b] \in Measures
         /\ b + 2^sizem[b] <= 2^Upper
         /\ get_buddy(b) = BuddyOf(b, sizem[b])
<1>1. sizem \in Sizings /\ LayoutOf(sizem) /\ b \in HeadsOf(sizem)
  BY LayoutIs DEF BuddyInv, TypeOK, Sizings
<1>2. b \in Blocks /\ b \in Nat /\ sizem[b] \in Measures /\ b + 2^sizem[b] <= 2^Upper
  BY <1>1, HeadFacts DEF Area
<1> QED
  BY <1>1, <1>2, GetBuddyIs

LEMMA BuddyInit ==
  ASSUME Init
  PROVE  BuddyInv
<1>1. Upper \in Measures /\ Upper # 0 /\ Lower \in Measures
  BY Bounds DEF Measures
<1>2. Area \in Nat \ {0} /\ 0 % Area = 0 /\ 2^Upper = Area
  <2>1. Area \in Nat \ {0}
    BY <1>1, MeasureFacts DEF Area
  <2>2. 0 % Area = 0
    BY <2>1, Z3
  <2> QED
    BY <2>1, <2>2 DEF Area
<1>3. 0 \in Blocks
  <2>1. 2^Lower \in Nat \ {0}
    BY <1>1, MeasureFacts
  <2>2. 0 % 2^Lower = 0
    BY <2>1, Z3
  <2> QED
    BY <1>2, <2>2, BlockIff
<1>4. sizem \in Sizings /\ HeadsOf(sizem) = {0} /\ Extent(sizem, 0) = Area /\ sizem[0] = Upper
  BY <1>1, <1>2, <1>3 DEF Init, Sizings, HeadsOf, Extent
<1>5. TypeOK
  BY <1>1, <1>3 DEF Init, TypeOK
<1>6. Layout
  <2>1. \A g \in Blocks : 0 <= g /\ g < 0 + Area
    BY BlockNat
  <2>2. LayoutOf(sizem)
    BY <1>2, <1>4, <2>1 DEF LayoutOf
  <2> QED
    BY <2>2, LayoutIs
<1>7. Usage
  BY DEF Init, Usage
<1>8. Lists
  <2> SUFFICES ASSUME NEW k \in Measures
               PROVE  ToSet(freelist[k]) = Unused(k) /\ IsInjective(freelist[k])
    BY DEF Lists
  <2>1. k # 0
    BY MeasureFacts
  <2>2. CASE k = Upper
    BY <2>2, <1>1, <1>3 DEF Init, Unused, ToSet, IsInjective
  <2>3. CASE k # Upper
    BY <2>1, <2>3, <1>1, <1>3 DEF Init, Unused, ToSet, IsInjective
  <2> QED
    BY <2>2, <2>3
<1>9. Locals /\ NoPanic
  BY DEF Init, Locals, NoPanic
<1>10. Pairs
  <2> SUFFICES ASSUME NEW b \in Blocks, Mergeable(b) PROVE FALSE
    BY DEF Pairs
  <2>1. b = 0
    BY <1>4, LayoutIs DEF Mergeable
  <2> QED
    BY <2>1, <1>4, Bounds DEF Mergeable
<1> QED
  BY <1>5, <1>6, <1>7, <1>8, <1>9, <1>10 DEF BuddyInv

(* Nothing but the locals of the call changes, or memory is exhausted.     *)
LEMMA AllocKeeps ==
  ASSUME BuddyInv, NEW n \in Requests, buddy_alloc(n)
  PROVE  BuddyInv'
<1> DEFINE k == mforsize(n)
<1>1. pc = "idle"
  BY DEF buddy_alloc
<1>2. k \in Lower .. 30 /\ k \in Nat /\ n \in Nat /\ n < 2^k
  BY LargeEnough, Bounds
<1> HIDE DEF k
<1>3. ASSUME UNCHANGED <<sizem, used, freelist, block, held>>, pc' \in {"split", "panic", "idle"}
      PROVE  Layout' /\ Usage' /\ Lists' /\ Pairs'
  <2>1. Layout' /\ Usage'
    BY <1>3 DEF BuddyInv, Layout, Usage, Heads
  <2>2. \A j \in Measures : Unused(j)' = Unused(j)
    BY <1>1, <1>3 DEF Unused
  <2>3. Lists'
    BY <1>3, <2>2 DEF BuddyInv, Lists
  <2>4. \A b \in Blocks : Mergeable(b)' <=> Mergeable(b)
    BY <1>3 DEF Mergeable, Heads, get_buddy
  <2>5. \A b \in Blocks : ~ Mergeable(b)
    BY <1>1 DEF BuddyInv, Pairs
  <2>6. Pairs'
    BY <2>4, <2>5 DEF Pairs
  <2> QED
    BY <2>1, <2>3, <2>6
<1>4. CASE Candidates(k) = {}
  <2>1. OutOfMemory
    BY <1>4 DEF buddy_alloc, k
  <2>2. CASE Userland
    <3>1. UNCHANGED vars
      BY <2>1, <2>2 DEF OutOfMemory
    <3> QED
      BY <3>1 DEF vars, BuddyInv, TypeOK, Layout, Usage, Lists, Locals, Pairs, Heads, Unused,
                  Mergeable, get_buddy, NoPanic
  <2>3. CASE ~ Userland
    <3>1. Panic
      BY <2>1, <2>3 DEF OutOfMemory
    <3>2. pc' = "panic" /\ UNCHANGED <<sizem, used, freelist, m, cm, block, nbytes, held>>
      BY <3>1 DEF Panic
    <3>3. TypeOK' /\ Locals'
      BY <3>2 DEF BuddyInv, TypeOK, Locals
    <3> QED
      BY <3>2, <3>3, <2>3, <1>3 DEF BuddyInv
  <2> QED
    BY <2>2, <2>3
<1>5. CASE Candidates(k) # {}
  <2>1. /\ pc' = "split" /\ m' = k /\ nbytes' = n
        /\ cm' = CHOOSE j \in Candidates(k) : \A i \in Candidates(k) : j <= i
        /\ UNCHANGED <<sizem, used, freelist, block, held>>
    BY <1>5 DEF buddy_alloc, k
  <2>2. Candidates(k) \in SUBSET Nat
    BY Bounds DEF Candidates, Measures
  <2>3. cm' \in Candidates(k)
    <3>1. \E j \in Candidates(k) : \A i \in Candidates(k) : j <= i
      BY <1>5, <2>2, LeastNat
    <3> QED
      BY <3>1, <2>1
  <2>4. cm' \in Measures /\ cm' >= k /\ freelist[cm'] # <<>> /\ cm' \in Nat
    BY <2>2, <2>3 DEF Candidates
  <2>5. TypeOK'
    BY <2>1, <2>4, <1>2 DEF BuddyInv, TypeOK
  <2>6. m' \in Lower .. cm'
    BY <2>1, <2>4, <1>2, Bounds
  <2>7. Locals'
    BY <2>1, <2>4, <2>6, <1>2 DEF Locals
  <2>8. NoPanic'
    BY <2>1 DEF NoPanic
  <2> QED
    BY <2>1, <2>5, <2>7, <2>8, <1>3 DEF BuddyInv
<1> QED
  BY <1>4, <1>5

(* What the invariant says about the first block of a free list.           *)
LEMMA AtFirst ==
  ASSUME BuddyInv, pc # "merge", NEW k \in Measures, freelist[k] # <<>>
  PROVE  /\ Head(freelist[k]) \in ToSet(freelist[k])
         /\ Head(freelist[k]) \in Heads \ used /\ sizem[Head(freelist[k])] = k
<1>1. freelist[k] \in Seq(Blocks)
  BY DEF BuddyInv, TypeOK
<1>2. Head(freelist[k]) \in ToSet(freelist[k])
  BY <1>1, InList
<1>3. ToSet(freelist[k]) = Unused(k) /\ k # 0
  BY MeasureFacts DEF BuddyInv, Lists
<1> QED
  BY <1>2, <1>3 DEF Unused, Heads

(* A free list with one block taken from it.                               *)
LEMMA ListWithout ==
  ASSUME BuddyInv, NEW k \in Measures, NEW b \in ToSet(freelist[k])
  PROVE  /\ RemoveFirst(freelist[k], b) \in Seq(Blocks)
         /\ ToSet(RemoveFirst(freelist[k], b)) = Unused(k) \ {b}
         /\ IsInjective(RemoveFirst(freelist[k], b))
<1> DEFINE s == freelist[k]
<1>1. s \in Seq(Blocks) /\ IsInjective(s) /\ ToSet(s) = Unused(k) /\ b \in ToSet(s)
  BY DEF BuddyInv, TypeOK, Lists
<1> HIDE DEF s
<1>2. /\ RemoveFirst(s, b) \in Seq(Blocks)
      /\ ToSet(RemoveFirst(s, b)) = ToSet(s) \ {b}
      /\ IsInjective(RemoveFirst(s, b))
  BY <1>1, FirstRemoved
<1> QED
  BY <1>1, <1>2 DEF s

(* The block that is handed out was unused, and is no longer.              *)
LEMMA TakeKeeps ==
  ASSUME BuddyInv, TakeBlock
  PROVE  BuddyInv' /\ NoPanic'
<1> DEFINE b == Head(freelist[m])
<1>1. /\ pc = "split" /\ cm = m /\ cm \in Measures /\ freelist[m] # <<>>
      /\ nbytes < 2^m /\ nbytes \in Nat /\ m \in Measures
  BY DEF TakeBlock, BuddyInv, Locals, TypeOK
<1>2. b \in ToSet(freelist[m]) /\ b \in Heads \ used /\ sizem[b] = m
  BY <1>1, AtFirst
<1>3. /\ used' = used \cup {b}
      /\ freelist' = [freelist EXCEPT ![m] = RemoveFirst(freelist[m], b)]
      /\ held' = [c \in DOMAIN held \cup {b} |-> IF c = b THEN nbytes ELSE held[c]]
      /\ pc' = "idle" /\ m' = 0 /\ cm' = 0 /\ nbytes' = 0
      /\ UNCHANGED <<sizem, block>>
  BY <1>2 DEF TakeBlock, Marked, remove_from_freelist
<1>4. b \in Blocks
  BY <1>2 DEF Heads
<1> DEFINE s == RemoveFirst(freelist[m], b)
<1>5. s \in Seq(Blocks) /\ ToSet(s) = Unused(m) \ {b} /\ IsInjective(s)
  BY <1>1, <1>2, ListWithout
<1>6. freelist' = [freelist EXCEPT ![m] = s]
  BY <1>3
<1>7. freelist \in [Measures -> Seq(Blocks)]
  BY DEF BuddyInv, TypeOK
<1> HIDE DEF b, s
<1>8. TypeOK'
  <2>1. freelist' \in [Measures -> Seq(Blocks)]
    BY <1>1, <1>5, <1>6, <1>7
  <2>2. DOMAIN held' \subseteq Blocks /\ used' \subseteq Blocks
    BY <1>3, <1>4 DEF BuddyInv, TypeOK
  <2> QED
    BY <2>1, <2>2, <1>3 DEF BuddyInv, TypeOK
<1>9. Layout'
  BY <1>3 DEF BuddyInv, Layout, Heads
<1>10. Usage'
  BY <1>1, <1>2, <1>3 DEF BuddyInv, Usage, Heads
<1>11. Lists'
  <2> SUFFICES ASSUME NEW k \in Measures
               PROVE  ToSet(freelist'[k]) = Unused(k)' /\ IsInjective(freelist'[k])
    BY DEF Lists
  <2>1. Unused(k)' = Unused(k) \ {b}
    BY <1>1, <1>3 DEF Unused
  <2>2. CASE k = m
    BY <2>1, <2>2, <1>1, <1>5, <1>6, <1>7
  <2>3. CASE k # m
    <3>1. b \notin Unused(k)
      BY <2>3, <1>2 DEF Unused
    <3> QED
      BY <3>1, <2>1, <2>3, <1>6, <1>7 DEF BuddyInv, Lists
  <2> QED
    BY <2>2, <2>3
<1>12. Locals' /\ NoPanic'
  BY <1>3 DEF Locals, NoPanic
<1>13. Pairs'
  <2> SUFFICES ASSUME NEW c \in Blocks, Mergeable(c)' PROVE FALSE
    BY DEF Pairs
  <2>1. get_buddy(c)' = get_buddy(c) /\ Heads' = Heads
    BY <1>3 DEF get_buddy, Heads
  <2>2. c # b /\ get_buddy(c) # b /\ Mergeable(c)
    BY <2>1, <1>3 DEF Mergeable
  <2> QED
    BY <2>2, <1>1 DEF BuddyInv, Pairs, b
<1> QED
  BY <1>8, <1>9, <1>10, <1>11, <1>12, <1>13 DEF BuddyInv

(* The block that is freed leaves used; until its merging ends it is on no *)
(* list.                                                                   *)
LEMMA FreeKeeps ==
  ASSUME BuddyInv, NEW b \in DOMAIN held, buddy_free(b)
  PROVE  BuddyInv' /\ NoPanic'
<1>1. pc = "idle" /\ b \in used /\ b \in Heads /\ b \in Blocks /\ sizem[b] \in Measures
  <2>1. pc = "idle" /\ b \in used /\ b \in Heads
    BY DEF BuddyInv, Usage, buddy_free
  <2> QED
    BY <2>1, AtHead
<1>2. /\ used' = used \ {b}
      /\ held' = [c \in DOMAIN held \ {b} |-> held[c]]
      /\ pc' = "merge" /\ m' = sizem[b] /\ block' = b
      /\ UNCHANGED <<sizem, freelist, cm, nbytes>>
  BY <1>1 DEF buddy_free
<1>3. TypeOK'
  <2>1. m' \in Nat
    BY <1>1, <1>2, MeasureFacts
  <2>2. DOMAIN held' \subseteq Blocks /\ used' \subseteq Blocks
    BY <1>2 DEF BuddyInv, TypeOK
  <2> QED
    BY <2>1, <2>2, <1>1, <1>2 DEF BuddyInv, TypeOK
<1>4. Layout'
  BY <1>2 DEF BuddyInv, Layout, Heads
<1>5. Usage'
  BY <1>1, <1>2 DEF BuddyInv, Usage, Heads
<1>6. Lists'
  <2>1. \A k \in Measures : Unused(k)' = Unused(k)
    BY <1>1, <1>2 DEF Unused
  <2> QED
    BY <2>1, <1>2 DEF BuddyInv, Lists
<1>7. Locals' /\ NoPanic'
  BY <1>1, <1>2 DEF Locals, NoPanic, Heads
<1>8. Pairs'
  <2> SUFFICES ASSUME NEW c \in Blocks, Mergeable(c)', b \notin {c, get_buddy(c)'}
               PROVE  FALSE
    BY <1>2 DEF Pairs
  <2>1. get_buddy(c)' = get_buddy(c) /\ Heads' = Heads
    BY <1>2 DEF get_buddy, Heads
  <2>2. Mergeable(c)
    BY <2>1, <1>2 DEF Mergeable
  <2> QED
    BY <2>2, <1>1 DEF BuddyInv, Pairs
<1> QED
  BY <1>3, <1>4, <1>5, <1>6, <1>7, <1>8 DEF BuddyInv

(* A block of size cm becomes two of size cm - 1, which are put on their   *)
(* list in order.                                                          *)
LEMMA SplitKeeps ==
  ASSUME BuddyInv, SplitBlock
  PROVE  BuddyInv' /\ NoPanic'
<1> DEFINE h == Head(freelist[cm])
           k == cm - 1
           half == h + 2^k
<1>1. /\ pc = "split" /\ cm > m /\ cm \in Measures /\ m \in Lower .. cm /\ freelist[cm] # <<>>
      /\ nbytes < 2^m
  BY DEF SplitBlock, BuddyInv, Locals
<1>2. k \in Measures /\ cm = k + 1 /\ k # cm /\ m \in Lower .. k /\ k \in Nat /\ k < Upper
  BY <1>1, Bounds DEF Measures
<1>3. h \in ToSet(freelist[cm]) /\ h \in Heads \ used /\ sizem[h] = cm
  BY <1>1, AtFirst
<1>4. /\ sizem \in Sizings /\ LayoutOf(sizem) /\ h \in HeadsOf(sizem)
      /\ h \in Blocks /\ h \in Nat
  BY <1>3, AtHead
<1> DEFINE z2 == [sizem EXCEPT ![h] = k, ![half] = k]
<1>5. SplitBlock <=>
        /\ pc = "split" /\ cm > m
        /\ IF ~ split_asserts(h) THEN Panic
           ELSE /\ sizem' = z2
                /\ freelist' = add_to_freelist(add_to_freelist(
                                  remove_from_freelist(freelist, cm, h), k, half), k, h)
                /\ cm' = k
                /\ UNCHANGED <<used, pc, m, block, nbytes, held>>
  BY DEF SplitBlock
<1>a. split_asserts(h) <=> /\ h \notin used /\ sizem[h] = cm /\ half \notin used
                           /\ h + 2^k <= 2^Upper /\ half + 2^k <= 2^Upper
  BY DEF split_asserts, add_asserts
<1>b. half = h + 2^k /\ z2 = SizesSplit(sizem, h, half, k)
  BY DEF SizesSplit
<1>h. Head(freelist[cm]) = h
  OBVIOUS
<1> HIDE DEF h, k, half, z2
<1>6. /\ half \in Blocks \ HeadsOf(sizem) /\ h < half /\ half % 2^k = 0 /\ h % 2^(k + 1) = 0
      /\ z2 \in Sizings /\ LayoutOf(z2) /\ HeadsOf(z2) = HeadsOf(sizem) \cup {half}
      /\ z2[h] = k /\ z2[half] = k /\ \A b \in Blocks \ {h, half} : z2[b] = sizem[b]
  <2>1. sizem[h] = k + 1
    BY <1>2, <1>3
  <2> QED
    BY <2>1, <1>2, <1>4, <1>b, SplitLayout
<1>7. half \notin used /\ half # h /\ half \in Blocks
  <2>1. used \subseteq HeadsOf(sizem)
    BY LayoutIs DEF BuddyInv, Usage
  <2>2. half \in Nat
    BY <1>6, BlockNat
  <2> QED
    BY <2>1, <2>2, <1>4, <1>6
<1>8. split_asserts(h)
  <2>1. h + 2^k <= 2^Upper
    <3>1. h \in HeadsOf(z2)
      BY <1>4, <1>6
    <3> QED
      BY <3>1, <1>6, HeadFacts DEF Area
  <2>2. half + 2^k <= 2^Upper
    <3>1. half \in HeadsOf(z2)
      BY <1>6
    <3> QED
      BY <3>1, <1>6, HeadFacts DEF Area
  <2> QED
    BY <2>1, <2>2, <1>3, <1>7, <1>a
<1>9. /\ sizem' = z2 /\ cm' = k /\ UNCHANGED <<used, pc, m, block, nbytes, held>>
      /\ freelist' = add_to_freelist(add_to_freelist(
                        remove_from_freelist(freelist, cm, h), k, half), k, h)
  BY <1>5, <1>8
<1> DEFINE r == RemoveFirst(freelist[cm], h)
           s == <<half>> \o freelist[k]
           t == <<h>> \o s
<1>10. freelist \in [Measures -> Seq(Blocks)] /\ \A j \in Measures : freelist[j] \in Seq(Blocks)
  BY DEF BuddyInv, TypeOK
<1>11. r \in Seq(Blocks) /\ ToSet(r) = Unused(cm) \ {h} /\ IsInjective(r)
  BY <1>1, <1>3, ListWithout
<1>12. h \notin Unused(k) /\ half \notin Unused(k)
  <2>1. sizem[half] = 0 /\ k # 0
    BY <1>2, <1>6, MeasureFacts DEF HeadsOf
  <2> QED
    BY <2>1, <1>2, <1>3 DEF Unused
<1>13. /\ s \in Seq(Blocks) /\ ToSet(s) = Unused(k) \cup {half} /\ IsInjective(s)
  <2>1. ToSet(freelist[k]) = Unused(k) /\ IsInjective(freelist[k]) /\ freelist[k] \in Seq(Blocks)
    BY <1>2, <1>10 DEF BuddyInv, Lists
  <2> QED
    BY <2>1, <1>7, <1>12, AddedInFront
<1>14. freelist' = [j \in Measures |-> IF j = k THEN t ELSE IF j = cm THEN r ELSE freelist[j]]
  BY <1>1, <1>2, <1>9, <1>10 DEF add_to_freelist, remove_from_freelist
<1> HIDE DEF r, s
<1>15. /\ t \in Seq(Blocks) /\ ToSet(t) = Unused(k) \cup {half, h} /\ IsInjective(t)
       /\ t # <<>> /\ Head(t) = h
  <2>1. h \notin ToSet(s)
    BY <1>7, <1>12, <1>13
  <2>2. /\ t \in Seq(Blocks) /\ ToSet(t) = ToSet(s) \cup {h} /\ IsInjective(t)
        /\ t # <<>> /\ Head(t) = h
    BY <2>1, <1>4, <1>13, AddedInFront
  <2> QED
    BY <2>2, <1>13
<1> HIDE DEF t
<1>16. /\ freelist'[k] = t /\ freelist'[cm] = r
       /\ \A j \in Measures \ {k, cm} : freelist'[j] = freelist[j]
  BY <1>1, <1>2, <1>14
<1>17. TypeOK'
  <2>1. freelist' \in [Measures -> Seq(Blocks)]
    BY <1>10, <1>11, <1>14, <1>15
  <2>2. sizem' \in [Blocks -> Measures \cup {0}]
    BY <1>6, <1>9 DEF Sizings
  <2> QED
    BY <2>1, <2>2, <1>2, <1>9 DEF BuddyInv, TypeOK
<1>18. Layout'
  BY <1>6, <1>9, LayoutIs
<1>19. Usage'
  <2>1. used \subseteq Heads'
    BY <1>6, <1>9, LayoutIs DEF BuddyInv, Usage
  <2>2. \A b \in used : sizem'[b] = sizem[b]
    BY <1>3, <1>6, <1>7, <1>9 DEF BuddyInv, TypeOK
  <2> QED
    BY <2>1, <2>2, <1>9 DEF BuddyInv, Usage
<1>20. Lists'
  <2> SUFFICES ASSUME NEW j \in Measures
               PROVE  ToSet(freelist'[j]) = Unused(j)' /\ IsInjective(freelist'[j])
    BY DEF Lists
  <2>1. \A b \in Blocks : b \in Unused(j)' <=> b \notin used /\ z2[b] = j
    BY <1>1, <1>9 DEF Unused
  <2>2. \A b \in Blocks : b \in Unused(j) <=> b \notin used /\ sizem[b] = j
    BY <1>1 DEF Unused
  <2>3. Unused(j) \subseteq Blocks /\ Unused(j)' \subseteq Blocks
    BY DEF Unused
  <2>4. sizem[half] = 0 /\ j # 0
    BY <1>6, MeasureFacts DEF HeadsOf
  <2>5. CASE j = k
    <3>1. Unused(j)' = Unused(j) \cup {half, h}
      BY <2>1, <2>2, <2>3, <2>5, <1>3, <1>4, <1>6, <1>7
    <3> QED
      BY <3>1, <2>5, <1>15, <1>16
  <2>6. CASE j = cm
    <3>1. Unused(j)' = Unused(j) \ {h}
      BY <2>1, <2>2, <2>3, <2>4, <2>6, <1>2, <1>4, <1>6, <1>7
    <3> QED
      BY <3>1, <2>6, <1>11, <1>16
  <2>7. CASE j \notin {k, cm}
    <3>1. Unused(j)' = Unused(j)
      BY <2>1, <2>2, <2>3, <2>4, <2>7, <1>3, <1>6
    <3> QED
      BY <3>1, <2>7, <1>16 DEF BuddyInv, Lists
  <2> QED
    BY <2>5, <2>6, <2>7
<1>21. Locals' /\ NoPanic'
  <2>1. pc' = "split" /\ cm' \in Measures /\ m' \in Lower .. cm' /\ nbytes' < 2^m'
    BY <1>1, <1>2, <1>9
  <2>2. freelist'[cm'] # <<>>
    BY <1>9, <1>15, <1>16
  <2> QED
    BY <2>1, <2>2 DEF Locals, NoPanic
<1>22. Pairs'
  <2> SUFFICES ASSUME NEW b \in Blocks, Mergeable(b)'
               PROVE  sizem'[b] = k /\ h \in {b, get_buddy(b)'}
    BY <1>1, <1>9, <1>15, <1>16 DEF Pairs
  <2> DEFINE j == sizem'[b]
             x == BuddyOf(b, j)
  <2>1. /\ b \in HeadsOf(z2) /\ b \notin used /\ j < Upper /\ j = z2[b]
        /\ get_buddy(b)' = x /\ x \notin used /\ z2[x] = j
    <3>1. get_buddy(b)' = x
      BY DEF get_buddy, BuddyOf
    <3> QED
      BY <3>1, <1>9, LayoutIs DEF Mergeable
  <2>2. BuddyOf(h, k) = half /\ BuddyOf(half, k) = h
    BY <1>2, <1>4, <1>6, <1>b, HalvesAreBuddies
  <2> HIDE DEF j, x
  <2>3. x \in Blocks /\ BuddyOf(x, j) = b
    BY <2>1, <1>6, BuddyOfHead DEF x
  <2>4. CASE b = h
    BY <2>4, <1>6, <1>9
  <2>5. CASE b = half
    BY <2>1, <2>2, <2>5, <1>6, <1>9 DEF x
  <2>6. CASE b \notin {h, half}
    <3>1. x # h
      BY <2>1, <2>2, <2>3, <2>6, <1>6
    <3>2. x # half
      BY <2>1, <2>2, <2>3, <2>6, <1>6
    <3>3. sizem[b] = j /\ sizem[x] = j
      BY <3>1, <3>2, <2>1, <2>3, <2>6, <1>6
    <3>4. get_buddy(b) = x
      BY <3>3, GetBuddyIs DEF x
    <3>5. b \in Heads
      BY <2>1, <2>6, <1>6, LayoutIs
    <3>6. Mergeable(b)
      BY <3>3, <3>4, <3>5, <2>1 DEF Mergeable
    <3>7. h \in {b, x}
      BY <3>4, <3>6, <1>1, <1>h DEF BuddyInv, Pairs
    <3> QED
      BY <3>1, <3>7, <2>6
  <2> QED
    BY <2>4, <2>5, <2>6
<1> QED
  BY <1>17, <1>18, <1>19, <1>20, <1>21, <1>22 DEF BuddyInv

(* The block and its buddy, which leaves its list, become one block.       *)
LEMMA MergeKeeps ==
  ASSUME BuddyInv, MergeBlock
  PROVE  BuddyInv' /\ NoPanic'
<1> DEFINE buddy == get_buddy(block)
           low   == IF block > buddy THEN buddy ELSE block
           high  == IF block > buddy THEN block ELSE buddy
           z2    == [sizem EXCEPT ![low] = m + 1, ![high] = 0]
<1>1. /\ pc = "merge" /\ block \in Heads \ used /\ sizem[block] = m
      /\ m < Upper /\ buddy \notin used /\ sizem[buddy] = m
  BY DEF MergeBlock, Merges, BuddyInv, Locals
<1>2. /\ sizem \in Sizings /\ LayoutOf(sizem) /\ block \in HeadsOf(sizem)
      /\ block \in Blocks /\ block \in Nat /\ m \in Measures /\ buddy = BuddyOf(block, m)
  BY <1>1, AtHead
<1>3. m \in Nat \ {0} /\ m + 1 \in Measures /\ m + 1 \in Nat
  BY <1>1, <1>2, Bounds DEF Measures
<1>4. low = Low(block, m)
  BY <1>2 DEF Low
<1>5. IF ~ remove_asserts(m, buddy) THEN Panic
      ELSE /\ freelist' = remove_from_freelist(freelist, m, buddy)
           /\ sizem' = z2
           /\ block' = low
           /\ m' = m + 1
           /\ UNCHANGED <<used, pc, cm, nbytes, held>>
  BY DEF MergeBlock
<1>b. z2 = SizesMerged(sizem, low, high, m) /\ get_buddy(block) = buddy
  BY DEF SizesMerged
<1>c. {low, high} = {block, buddy}
  OBVIOUS
<1> HIDE DEF buddy, low, high, z2
<1>6. /\ buddy \in Blocks /\ buddy # block /\ BuddyOf(buddy, m) = block
      /\ low \in Nat /\ low % 2^(m + 1) = 0
      /\ \/ block = low /\ buddy = low + 2^m
         \/ block = low + 2^m /\ buddy = low
  BY <1>1, <1>2, <1>4, BuddyOfHead
<1>7. high = low + 2^m /\ low # high
  BY <1>6, <1>c
<1>8. buddy \in HeadsOf(sizem) /\ low \in HeadsOf(sizem) /\ high \in HeadsOf(sizem)
      /\ low \in Blocks /\ high \in Blocks
  <2>1. buddy \in HeadsOf(sizem)
    BY <1>1, <1>3, <1>6 DEF HeadsOf
  <2>2. low \in {block, buddy} /\ high \in {block, buddy}
    BY <1>c
  <2> QED
    BY <2>1, <2>2, <1>2, <1>6
<1>9. sizem[low] = m /\ sizem[high] = m /\ low \notin used /\ high \notin used
  <2>1. low \in {block, buddy} /\ high \in {block, buddy}
    BY <1>c
  <2> QED
    BY <2>1, <1>1
<1>10. /\ z2 \in Sizings /\ LayoutOf(z2) /\ HeadsOf(z2) = HeadsOf(sizem) \ {high}
       /\ z2[low] = m + 1 /\ z2[high] = 0 /\ \A b \in Blocks \ {low, high} : z2[b] = sizem[b]
  BY <1>1, <1>2, <1>6, <1>7, <1>8, <1>9, <1>b, MergeLayout
<1>11. buddy \in Unused(m) /\ ToSet(freelist[m]) = Unused(m)
  BY <1>1, <1>2, <1>6 DEF BuddyInv, Lists, Unused
<1>12. remove_asserts(m, buddy)
  <2>1. freelist[m] \in Seq(Blocks)
    BY <1>2 DEF BuddyInv, TypeOK
  <2> QED
    BY <2>1, <1>11, InList DEF remove_asserts
<1> DEFINE r == RemoveFirst(freelist[m], buddy)
<1>13. /\ freelist' = [freelist EXCEPT ![m] = r]
       /\ sizem' = z2 /\ block' = low /\ m' = m + 1
       /\ UNCHANGED <<used, pc, cm, nbytes, held>>
  BY <1>5, <1>12 DEF remove_from_freelist
<1>14. r \in Seq(Blocks) /\ ToSet(r) = Unused(m) \ {buddy} /\ IsInjective(r)
  BY <1>2, <1>11, ListWithout
<1>15. freelist \in [Measures -> Seq(Blocks)]
  BY DEF BuddyInv, TypeOK
<1> HIDE DEF r
<1>16. TypeOK'
  <2>1. freelist' \in [Measures -> Seq(Blocks)]
    BY <1>13, <1>14, <1>15
  <2>2. sizem' \in [Blocks -> Measures \cup {0}]
    BY <1>10, <1>13 DEF Sizings
  <2> QED
    BY <2>1, <2>2, <1>3, <1>8, <1>13 DEF BuddyInv, TypeOK
<1>17. Layout'
  BY <1>10, <1>13, LayoutIs
<1>18. Usage'
  <2>1. used \subseteq Heads'
    BY <1>9, <1>10, <1>13, LayoutIs DEF BuddyInv, Usage
  <2>2. \A b \in used : sizem'[b] = sizem[b]
    BY <1>9, <1>10, <1>13 DEF BuddyInv, TypeOK
  <2> QED
    BY <2>1, <2>2, <1>13 DEF BuddyInv, Usage
<1>19. Lists'
  <2> SUFFICES ASSUME NEW j \in Measures
               PROVE  ToSet(freelist'[j]) = Unused(j)' /\ IsInjective(freelist'[j])
    BY DEF Lists
  <2>1. \A b \in Blocks : b \in Unused(j)' <=> b \notin used /\ z2[b] = j /\ b # low
    BY <1>1, <1>13 DEF Unused
  <2>2. \A b \in Blocks : b \in Unused(j) <=> b \notin used /\ sizem[b] = j /\ b # block
    BY <1>1 DEF Unused
  <2>3. Unused(j) \subseteq Blocks /\ Unused(j)' \subseteq Blocks
    BY DEF Unused
  <2>4. j # 0
    BY MeasureFacts
  <2>5. ASSUME NEW b \in Blocks
        PROVE  b \in Unused(j)' <=> b \in Unused(j) /\ b # buddy
    <3>1. CASE b \in {low, high}
      <4>1. b \in {block, buddy}
        BY <3>1, <1>c
      <4>2. b \notin Unused(j)'
        BY <3>1, <2>1, <2>4, <1>10
      <4> QED
        BY <4>1, <4>2, <2>2
    <3>2. CASE b \notin {low, high}
      <4>1. b \notin {block, buddy}
        BY <3>2, <1>c
      <4> QED
        BY <4>1, <3>2, <2>1, <2>2, <1>10
    <3> QED
      BY <3>1, <3>2
  <2>6. Unused(j)' = Unused(j) \ {buddy}
    BY <2>3, <2>5
  <2>7. CASE j = m
    BY <2>6, <2>7, <1>13, <1>14, <1>15
  <2>8. CASE j # m
    <3>1. buddy \notin Unused(j)
      BY <2>8, <1>1 DEF Unused
    <3>2. freelist'[j] = freelist[j]
      BY <2>8, <1>13, <1>15
    <3> QED
      BY <3>1, <3>2, <2>6 DEF BuddyInv, Lists
  <2> QED
    BY <2>7, <2>8
<1>20. Locals' /\ NoPanic'
  <2>1. low \in Heads' /\ low \notin used'
    BY <1>7, <1>8, <1>9, <1>10, <1>13, LayoutIs
  <2> QED
    BY <2>1, <1>1, <1>10, <1>13 DEF Locals, NoPanic
<1>21. Pairs'
  <2> SUFFICES ASSUME NEW b \in Blocks, Mergeable(b)', low \notin {b, get_buddy(b)'}
               PROVE  FALSE
    BY <1>1, <1>13 DEF Pairs
  <2> DEFINE j == sizem'[b]
             x == BuddyOf(b, j)
  <2>1. /\ b \in HeadsOf(z2) /\ b \notin used /\ j < Upper /\ j = z2[b]
        /\ get_buddy(b)' = x /\ x \notin used /\ z2[x] = j
    <3>1. get_buddy(b)' = x
      BY DEF get_buddy, BuddyOf
    <3> QED
      BY <3>1, <1>13, LayoutIs DEF Mergeable
  <2> HIDE DEF j, x
  <2>2. x \in Blocks
    BY <2>1, <1>10, BuddyOfHead DEF x
  <2>3. b \notin {low, high} /\ x \notin {low, high}
    <3>1. z2[b] # 0
      BY <2>1 DEF HeadsOf
    <3> QED
      BY <3>1, <2>1, <1>10
  <2>4. sizem[b] = j /\ sizem[x] = j
    BY <2>1, <2>2, <2>3, <1>10
  <2>5. get_buddy(b) = x
    BY <2>4, GetBuddyIs DEF x
  <2>6. b \in Heads
    BY <2>1, <1>10, LayoutIs
  <2>7. Mergeable(b)
    BY <2>1, <2>4, <2>5, <2>6 DEF Mergeable
  <2>8. block \in {b, x}
    BY <2>5, <2>7, <1>1 DEF BuddyInv, Pairs
  <2> QED
    BY <2>3, <2>8, <1>c
<1> QED
  BY <1>16, <1>17, <1>18, <1>19, <1>20, <1>21 DEF BuddyInv

(* When nothing is left to merge with, the block goes on its list.         *)
LEMMA ReleaseKeeps ==
  ASSUME BuddyInv, ReleaseBlock
  PROVE  BuddyInv' /\ NoPanic'
<1>1. pc = "merge" /\ ~ Merges /\ block \in Heads \ used /\ sizem[block] = m
  BY DEF ReleaseBlock, BuddyInv, Locals
<1>2. /\ sizem \in Sizings /\ LayoutOf(sizem) /\ block \in HeadsOf(sizem)
      /\ block \in Blocks /\ block \in Nat /\ m \in Measures
      /\ block + 2^m <= 2^Upper /\ get_buddy(block) = BuddyOf(block, m)
  BY <1>1, AtHead
<1> DEFINE t == <<block>> \o freelist[m]
<1>3. /\ freelist' = [freelist EXCEPT ![m] = t]
      /\ pc' = "idle" /\ m' = 0 /\ block' = 0
      /\ UNCHANGED <<sizem, used, cm, nbytes, held>>
  BY <1>2 DEF ReleaseBlock, add_asserts, add_to_freelist
<1>4. freelist \in [Measures -> Seq(Blocks)]
  BY DEF BuddyInv, TypeOK
<1>5. t \in Seq(Blocks) /\ ToSet(t) = Unused(m) \cup {block} /\ IsInjective(t)
  <2>1. freelist[m] \in Seq(Blocks) /\ ToSet(freelist[m]) = Unused(m) /\ IsInjective(freelist[m])
    BY <1>2, <1>4 DEF BuddyInv, Lists
  <2>2. block \notin Unused(m)
    BY <1>1 DEF Unused
  <2> QED
    BY <2>1, <2>2, <1>2, AddedInFront
<1> HIDE DEF t
<1>6. 0 \in Blocks
  <2>1. 2^Lower \in Nat \ {0} /\ Area \in Nat /\ 0 < Area
    <3>1. Lower \in Measures
      BY Bounds DEF Measures
    <3> QED
      BY <3>1, <1>2, BlockNat, MeasureFacts
  <2>2. 0 % 2^Lower = 0
    BY <2>1, Z3
  <2> QED
    BY <2>1, <2>2, BlockIff DEF Area
<1>7. TypeOK'
  <2>1. freelist' \in [Measures -> Seq(Blocks)]
    BY <1>3, <1>4, <1>5
  <2> QED
    BY <2>1, <1>3, <1>6 DEF BuddyInv, TypeOK
<1>8. Layout' /\ Usage'
  BY <1>3 DEF BuddyInv, Layout, Usage, Heads
<1>9. Lists'
  <2> SUFFICES ASSUME NEW j \in Measures
               PROVE  ToSet(freelist'[j]) = Unused(j)' /\ IsInjective(freelist'[j])
    BY DEF Lists
  <2>1. CASE j = m
    <3>1. Unused(j)' = Unused(j) \cup {block}
      BY <2>1, <1>1, <1>2, <1>3 DEF Unused
    <3> QED
      BY <3>1, <2>1, <1>3, <1>4, <1>5
  <2>2. CASE j # m
    <3>1. Unused(j)' = Unused(j)
      BY <2>2, <1>1, <1>3 DEF Unused
    <3>2. freelist'[j] = freelist[j]
      BY <2>2, <1>3, <1>4
    <3> QED
      BY <3>1, <3>2 DEF BuddyInv, Lists
  <2> QED
    BY <2>1, <2>2
<1>10. Locals' /\ NoPanic'
  BY <1>3 DEF Locals, NoPanic
<1>11. Pairs'
  <2> SUFFICES ASSUME NEW b \in Blocks, Mergeable(b)' PROVE FALSE
    BY DEF Pairs
  <2>1. Mergeable(b)
    BY <1>3 DEF Mergeable, Heads, get_buddy
  <2>2. block \in {b, get_buddy(b)}
    BY <2>1, <1>1 DEF BuddyInv, Pairs
  <2>3. b \in Heads /\ b \notin used /\ sizem[b] < Upper
        /\ get_buddy(b) \notin used /\ sizem[get_buddy(b)] = sizem[b]
    BY <2>1 DEF Mergeable
  <2>4. CASE b = block
    BY <2>3, <2>4, <1>1 DEF Merges
  <2>5. CASE get_buddy(b) = block
    <3>1. sizem[b] = m
      BY <2>3, <2>5, <1>1
    <3>2. BuddyOf(b, m) = block
      BY <3>1, <2>5, GetBuddyIs
    <3>3. BuddyOf(block, m) = b
      <4>1. b \in HeadsOf(sizem)
        BY <2>3, LayoutIs
      <4> QED
        BY <4>1, <3>1, <3>2, <2>3, <1>2, BuddyOfHead
    <3>4. get_buddy(block) = b
      BY <3>3, <1>2
    <3> QED
      BY <3>1, <3>4, <2>3, <1>1 DEF Merges
  <2> QED
    BY <2>2, <2>4, <2>5
<1> QED
  BY <1>7, <1>8, <1>9, <1>10, <1>11 DEF BuddyInv

LEMMA BuddyNext ==
  ASSUME BuddyInv, [Next]_vars
  PROVE  BuddyInv'
<1>1. CASE UNCHANGED vars
  BY <1>1 DEF vars, BuddyInv, TypeOK, Layout, Usage, Lists, Locals, Pairs, Heads, Unused,
              Mergeable, get_buddy, NoPanic
<1>2. CASE Next
  BY <1>2, AllocKeeps, SplitKeeps, TakeKeeps, FreeKeeps, MergeKeeps, ReleaseKeeps DEF Next
<1> QED
  BY <1>1, <1>2

(* The bookkeeping of buddy.c agrees with itself after every iteration of  *)
(* its loops: block sizes, used flags, free lists, what callers hold and   *)
(* the locals of the call in progress.                                     *)
THEOREM BuddyCorrect == Spec => []BuddyInv
<1>1. Init => BuddyInv
  BY BuddyInit
<1>2. BuddyInv /\ [Next]_vars => BuddyInv'
  BY BuddyNext
<1> QED
  BY <1>1, <1>2, PTL DEF Spec

-----------------------------------------------------------------------------
(***************************************************************************)
(* What follows from it.                                                   *)
(***************************************************************************)
LEMMA ApartFromInv ==
  ASSUME BuddyInv
  PROVE  HeldApart
<1>1. \A b \in DOMAIN held : /\ b \in Nat /\ held[b] \in Nat /\ held[b] < 2^sizem[b]
                             /\ 2^sizem[b] \in Nat /\ b + 2^sizem[b] <= 2^Upper
                             /\ 2^Upper \in Nat /\ b \in Heads
  <2> SUFFICES ASSUME NEW b \in DOMAIN held
               PROVE  /\ b \in Nat /\ held[b] \in Nat /\ held[b] < 2^sizem[b]
                      /\ 2^sizem[b] \in Nat /\ b + 2^sizem[b] <= 2^Upper
                      /\ 2^Upper \in Nat /\ b \in Heads
    OBVIOUS
  <2>1. b \in Heads /\ held[b] \in Nat /\ held[b] < 2^sizem[b]
    BY DEF BuddyInv, Usage
  <2>2. b \in Nat /\ sizem[b] \in Measures /\ b + 2^sizem[b] <= 2^Upper
    BY <2>1, AtHead
  <2>3. 2^sizem[b] \in Nat /\ 2^Upper \in Nat
    BY <2>2, MeasureFacts
  <2> QED
    BY <2>1, <2>2, <2>3
<1>2. ASSUME NEW b \in DOMAIN held
      PROVE  b + held[b] <= 2^Upper /\ held[b] <= 2^sizem[b]
  <2> DEFINE e == 2^sizem[b]
             a == 2^Upper
  <2>1. b \in Nat /\ held[b] \in Nat /\ held[b] < e /\ e \in Nat /\ b + e <= a /\ a \in Nat
    BY <1>1
  <2> HIDE DEF e, a
  <2>2. b + held[b] <= a /\ held[b] <= e
    BY <2>1
  <2> QED
    BY <2>2 DEF e, a
<1>3. ASSUME NEW b \in DOMAIN held, NEW c \in DOMAIN held, b # c
      PROVE  Bytes(b, held[b]) \cap Bytes(c, held[c]) = {}
  <2> SUFFICES ASSUME NEW x \in Bytes(b, held[b]), x \in Bytes(c, held[c]) PROVE FALSE
    OBVIOUS
  <2> DEFINE e == 2^sizem[b]
             f == 2^sizem[c]
  <2>1. /\ b \in Nat /\ held[b] \in Nat /\ held[b] < e /\ e \in Nat
        /\ c \in Nat /\ held[c] \in Nat /\ held[c] < f /\ f \in Nat
    BY <1>1
  <2>2. e = Extent(sizem, b) /\ f = Extent(sizem, c)
    BY DEF Extent
  <2> HIDE DEF e, f
  <2>3. x \in Nat /\ b <= x /\ x < b + e /\ c <= x /\ x < c + f
    BY <2>1 DEF Bytes
  <2>4. b \in Heads /\ c \in Heads
    BY <1>1
  <2>5. sizem \in Sizings /\ LayoutOf(sizem) /\ b \in HeadsOf(sizem) /\ c \in HeadsOf(sizem)
    BY <2>4, AtHead
  <2>6. b = c
    BY <2>2, <2>3, <2>5, OneBlock
  <2> QED
    BY <2>6, <1>3
<1> QED
  BY <1>2, <1>3 DEF HeldApart

LEMMA TileFromInv ==
  ASSUME BuddyInv
  PROVE  BlocksTile
<1>1. sizem \in Sizings /\ LayoutOf(sizem) /\ Heads = HeadsOf(sizem)
  BY LayoutIs DEF BuddyInv, TypeOK, Sizings
<1>2. \A b \in HeadsOf(sizem) : b \in Blocks /\ sizem[b] # 0
  BY DEF HeadsOf
<1>3. ASSUME NEW b \in HeadsOf(sizem), NEW g \in Nat
      PROVE  g \in Bytes(b, 2^sizem[b]) <=> b <= g /\ g < b + Extent(sizem, b)
  <2>1. b \in Nat /\ Extent(sizem, b) \in Nat /\ Extent(sizem, b) = 2^sizem[b]
    BY <1>1, HeadFacts
  <2> DEFINE e == Extent(sizem, b)
  <2>2. e \in Nat /\ Bytes(b, 2^sizem[b]) = b .. (b + e - 1)
    BY <2>1 DEF Bytes
  <2> HIDE DEF e
  <2>3. g \in b .. (b + e - 1) <=> b <= g /\ g < b + e
    BY <2>1, <2>2
  <2> QED
    BY <2>2, <2>3 DEF e
<1>4. ASSUME NEW g \in Blocks
      PROVE  \E b \in Blocks : /\ sizem[b] # 0 /\ g \in Bytes(b, 2^sizem[b])
                               /\ \A c \in Blocks \ {b} :
                                    sizem[c] # 0 => g \notin Bytes(c, 2^sizem[c])
  <2>1. g \in Nat
    BY BlockNat
  <2>2. PICK b \in HeadsOf(sizem) : b <= g /\ g < b + Extent(sizem, b)
    BY <1>1 DEF LayoutOf
  <2>3. g \in Bytes(b, 2^sizem[b])
    BY <2>1, <2>2, <1>3
  <2>4. ASSUME NEW c \in Blocks \ {b}, sizem[c] # 0, g \in Bytes(c, 2^sizem[c])
        PROVE  FALSE
    <3>1. c \in HeadsOf(sizem)
      BY <2>4 DEF HeadsOf
    <3>2. c <= g /\ g < c + Extent(sizem, c)
      BY <3>1, <2>1, <2>4, <1>3
    <3>3. b = c
      BY <3>1, <3>2, <2>1, <2>2, <1>1, OneBlock
    <3> QED
      BY <3>3, <2>4
  <2> QED
    BY <2>2, <2>3, <2>4, <1>2
<1> QED
  BY <1>4 DEF BlocksTile, BuddyInv, Lists

(* Without a pair of unused buddies and with nothing in use, a smallest    *)
(* block fills the area: its buddy would belong to a block of the same     *)
(* size, which is the buddy itself, or to a larger one, which would        *)
(* contain them both.                                                      *)
LEMMA OneBlockLeft ==
  ASSUME BuddyInv, used = {}, \A b \in Blocks : ~ Mergeable(b)
  PROVE  0 \in Heads /\ sizem[0] = Upper
<1>1. sizem \in Sizings /\ LayoutOf(sizem) /\ Heads = HeadsOf(sizem)
  BY LayoutIs DEF BuddyInv, TypeOK, Sizings
<1> DEFINE S == {sizem[c] : c \in Heads}
<1>2. S # {}
  <2>1. block \in Blocks
    BY DEF BuddyInv, TypeOK
  <2> QED
    BY <2>1 DEF BuddyInv, Layout
<1>3. S \in SUBSET Nat
  <2>1. \A c \in Heads : sizem[c] \in Measures
    BY AtHead
  <2> QED
    BY <2>1, MeasureFacts
<1>4. PICK k \in S : \A j \in S : k <= j
  <2> HIDE DEF S
  <2> QED
    BY <1>2, <1>3, LeastNat
<1>5. PICK b \in Heads : sizem[b] = k
  BY <1>4
<1>6. \A c \in Heads : k <= sizem[c]
  BY <1>4
<1>7. /\ b \in Blocks /\ b \in Nat /\ k \in Measures /\ b + 2^k <= 2^Upper
      /\ get_buddy(b) = BuddyOf(b, k) /\ b \in HeadsOf(sizem)
  BY <1>5, AtHead
<1> DEFINE x == BuddyOf(b, k)
<1>8. k = Upper
  <2> SUFFICES ASSUME k # Upper PROVE FALSE
    OBVIOUS
  <2>1. k < Upper /\ k + 1 \in Measures /\ k \in 0 .. 29 /\ k \in 0 .. 30
    BY <1>7, Bounds DEF Measures
  <2> DEFINE low == Low(b, k)
             p == 2^k
  <2>2. /\ x \in Blocks /\ x # b
        /\ low \in Nat /\ low % 2^(k + 1) = 0
        /\ \/ b = low /\ x = low + p
           \/ b = low + p /\ x = low
    BY <2>1, <1>1, <1>5, <1>7, BuddyOfHead
  <2>3. p \in Nat \ {0} /\ 2^(k + 1) = 2 * p
    BY <2>1, <1>7, MeasureFacts, PowDouble
  <2>4. low % (2 * p) = 0
    BY <2>2, <2>3
  <2>5. x \in Nat
    BY <2>2, BlockNat
  <2>6. PICK c \in HeadsOf(sizem) : c <= x /\ x < c + Extent(sizem, c)
    BY <2>2, <1>1 DEF LayoutOf
  <2> DEFINE j == sizem[c]
             e == Extent(sizem, c)
  <2>7. /\ c \in Blocks /\ c \in Nat /\ j \in Measures /\ e = 2^j /\ e \in Nat \ {0}
        /\ c % e = 0 /\ c \in Heads /\ j \in 0 .. 30 /\ j \in Nat
    BY <2>6, <1>1, HeadFacts, MeasureFacts
  <2>8. k <= j
    BY <2>7, <1>6
  <2>9. k # j
    <3> SUFFICES ASSUME k = j PROVE FALSE
      OBVIOUS
    <3>1. e = p /\ c % p = 0
      BY <2>7
    <3>2. x % p = 0
      <4>1. low % p = 0 /\ (low + p) % p = 0
        <5> HIDE DEF p, low, x
        <5> QED
          BY <2>2, <2>3, <2>4, HalvesOf
      <4> QED
        BY <4>1, <2>2
    <3> HIDE DEF e, p, j, low, x
    <3>3. c = x
      <4> SUFFICES ASSUME c < x PROVE FALSE
        BY <2>5, <2>6, <2>7
      <4>1. c + p <= x
        BY <3>1, <3>2, <2>3, <2>5, <2>7, MultiplesApart
      <4> QED
        BY <4>1, <3>1, <2>3, <2>5, <2>6, <2>7 DEF e
    <3>4. Mergeable(b)
      BY <3>3, <2>1, <2>7, <1>5, <1>7 DEF Mergeable, x, j
    <3> QED
      BY <3>4, <1>7
  <2>10. c # b
    BY <2>9, <1>5
  <2>11. k + 1 \in 0 .. j
    BY <2>7, <2>8, <2>9, <1>7, Bounds DEF Measures
  <2> HIDE DEF e, p, j, low, x
  <2>12. c % (2 * p) = 0 /\ \E d \in Nat \ {0} : e = d * (2 * p)
    <3>1. c % 2^j = 0
      BY <2>7
    <3>2. c % 2^(k + 1) = 0
      BY <3>1, <2>7, <2>11, MultipleOfLess
    <3>3. \E d \in Nat \ {0} : 2^j = d * 2^(k + 1)
      BY <2>7, <2>11, PowFactor
    <3> QED
      BY <3>2, <3>3, <2>3, <2>7
  <2>13. c <= low /\ low + 2 * p <= c + e
    <3>1. 2 * p \in Nat \ {0}
      BY <2>3
    <3>2. (c + e) % (2 * p) = 0
      <4>1. PICK i \in Nat : c = i * (2 * p)
        BY <3>1, <2>7, <2>12, MultipleIff
      <4>2. PICK d \in Nat : e = d * (2 * p)
        BY <2>12
      <4>3. c + e = (i + d) * (2 * p) /\ i + d \in Nat /\ c + e \in Nat
        BY <4>1, <4>2, <2>3, <2>7, Z3
      <4> QED
        BY <3>1, <4>3, MultipleIff
    <3>3. c <= low
      <4> SUFFICES ASSUME low < c PROVE FALSE
        BY <2>2, <2>7
      <4>1. low + 2 * p <= c
        BY <3>1, <2>2, <2>4, <2>7, <2>12, MultiplesApart
      <4> QED
        BY <4>1, <2>2, <2>3, <2>6, <2>7
    <3>4. low < c + e
      BY <2>2, <2>3, <2>6, <2>7 DEF e
    <3>5. low + 2 * p <= c + e
      <4>1. c + e \in Nat
        BY <2>7
      <4> QED
        BY <4>1, <3>1, <3>2, <3>4, <2>2, <2>4, MultiplesApart
    <3> QED
      BY <3>3, <3>5
  <2>14. c <= b /\ b < c + e
    BY <2>13, <2>2, <2>3, <2>7
  <2>15. b < b + Extent(sizem, b) /\ b <= b
    <3>1. Extent(sizem, b) = p
      BY <1>5 DEF Extent, p
    <3> QED
      BY <3>1, <2>3, <1>7
  <2>16. b = c
    BY <2>14, <2>15, <2>6, <1>1, <1>7, OneBlock DEF e
  <2> QED
    BY <2>10, <2>16
<1>9. b = 0
  <2> DEFINE a == 2^Upper
  <2>1. b + a <= a /\ a \in Nat
    BY <1>7, <1>8, MeasureFacts
  <2> HIDE DEF a
  <2> QED
    BY <2>1, <1>7
<1> QED
  BY <1>5, <1>8, <1>9

LEMMA MergedFromInv ==
  ASSUME BuddyInv
  PROVE  FullyMerged
<1> SUFFICES ASSUME pc = "idle"
             PROVE  /\ \A b \in Blocks \ used : sizem[b] \in Measures \ {Upper} =>
                         get_buddy(b) \in used \/ sizem[get_buddy(b)] # sizem[b]
                    /\ DOMAIN held = {} => freelist[Upper] = <<0>>
  BY DEF FullyMerged
<1>1. \A b \in Blocks : ~ Mergeable(b)
  BY DEF BuddyInv, Pairs
<1>2. ASSUME NEW b \in Blocks \ used, sizem[b] \in Measures \ {Upper}
      PROVE  get_buddy(b) \in used \/ sizem[get_buddy(b)] # sizem[b]
  <2>1. sizem[b] < Upper /\ sizem[b] # 0
    BY <1>2, Bounds DEF Measures
  <2> QED
    BY <2>1, <1>1, <1>2 DEF Mergeable, Heads
<1>3. ASSUME DOMAIN held = {}
      PROVE  freelist[Upper] = <<0>>
  <2> DEFINE s == freelist[Upper]
  <2>1. used = {}
    BY <1>3 DEF BuddyInv, Usage
  <2>2. 0 \in Heads /\ sizem[0] = Upper
    BY <2>1, <1>1, OneBlockLeft
  <2>3. Upper \in Measures
    BY Bounds DEF Measures
  <2>4. s \in Seq(Blocks) /\ IsInjective(s) /\ ToSet(s) = Unused(Upper)
    BY <2>3 DEF BuddyInv, TypeOK, Lists
  <2>5. Unused(Upper) = {0}
    <3>1. 0 \in Unused(Upper)
      BY <2>1, <2>2 DEF Unused, Heads
    <3>2. ASSUME NEW b \in Unused(Upper)
          PROVE  b = 0
      <4>1. b \in Heads /\ sizem[b] = Upper
        BY <2>3, MeasureFacts DEF Unused, Heads
      <4> DEFINE a == 2^Upper
      <4>2. b \in Nat /\ b + a <= a
        BY <4>1, AtHead
      <4>3. a \in Nat
        BY <2>3, MeasureFacts
      <4> HIDE DEF a
      <4> QED
        BY <4>2, <4>3
    <3> QED
      BY <3>1, <3>2
  <2> HIDE DEF s
  <2>6. /\ {s[i] : i \in 1 .. Len(s)} = {0}
        /\ \A i, j \in 1 .. Len(s) : s[i] = s[j] => i = j
    BY <2>4, <2>5, InList
  <2>7. Len(s) \in Nat /\ s \in [1 .. Len(s) -> Blocks]
    BY <2>4, LenProperties
  <2>8. Len(s) = 1 /\ s[1] = 0
    <3>1. PICK i \in 1 .. Len(s) : s[i] = 0
      BY <2>6
    <3>2. \A j \in 1 .. Len(s) : j = i
      BY <3>1, <2>6
    <3>3. 1 \in 1 .. Len(s) /\ Len(s) \in 1 .. Len(s)
      BY <2>7, <3>1
    <3> QED
      BY <3>1, <3>2, <3>3
  <2>9. s = <<0>>
    BY <2>4, <2>8
  <2> QED
    BY <2>9 DEF s
<1> QED
  BY <1>2, <1>3

(* No byte of memory is ever given out twice, and callers get as much as   *)
(* they asked for, inside the area.                                        *)
THEOREM HeldStaysApart == Spec => []HeldApart
  BY BuddyCorrect, ApartFromInv, PTL

(* Splitting and merging never lose memory: the blocks always tile the     *)
(* area, and every unused block is once on the list of its size.           *)
THEOREM NoMemoryLost == Spec => []BlocksTile
  BY BuddyCorrect, TileFromInv, PTL

(* Between calls no two buddies are both unused; when everything has been  *)
(* freed the area is one block again.                                      *)
THEOREM BuddiesMerge == Spec => []FullyMerged
  BY BuddyCorrect, MergedFromInv, PTL

(* In user space no assert of buddy.c ever fails.                          *)
THEOREM BuddyAssertsHold ==
  ASSUME Userland
  PROVE  Spec => []NoPanic
<1>1. BuddyInv => NoPanic
  BY DEF BuddyInv
<1> QED
  BY <1>1, BuddyCorrect, PTL

(* In the kernel too an assert fails only in buddy_alloc, when there is no *)
(* block large enough for a request.                                       *)
Exhausted ==
  pc = "idle" /\ ~ Userland /\ \E n \in Requests : Candidates(mforsize(n)) = {}
PanicsWhenExhausted == [][pc' = "panic" => pc = "panic" \/ Exhausted]_vars

(* buddy_alloc finds no block and kmalloc's assert stops the machine: the  *)
(* only way from a state without a failed assert to one with it.           *)
THEOREM OnlyExhaustionPanics == Spec => PanicsWhenExhausted
<1> DEFINE A == pc' = "panic" => pc = "panic" \/ Exhausted
<1>1. BuddyInv /\ [Next]_vars => [A]_vars
  <2> SUFFICES ASSUME BuddyInv, Next, pc' = "panic"
               PROVE  Exhausted
    OBVIOUS
  <2>1. ASSUME NEW n \in Requests, buddy_alloc(n)
        PROVE  Exhausted
    BY <2>1 DEF buddy_alloc, OutOfMemory, vars, Exhausted
  <2>2. ~ NoPanic'
    BY DEF NoPanic
  <2> QED
    BY <2>1, <2>2, SplitKeeps, TakeKeeps, FreeKeeps, MergeKeeps, ReleaseKeeps DEF Next
<1> QED
  BY <1>1, BuddyCorrect, PTL DEF Spec, PanicsWhenExhausted

=============================================================================
