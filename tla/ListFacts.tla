------------------------------ MODULE ListFacts ------------------------------
(***************************************************************************)
(* What the proofs need to know of lists that hold each element once, and  *)
(* of natural numbers.                                                     *)
(***************************************************************************)
EXTENDS Integers, Sequences, SequencesExt, SequenceTheorems, WellFoundedInduction, TLAPS

(* The elements of a list.                                                 *)
LEMMA InList ==
  ASSUME NEW S, NEW s \in Seq(S)
  PROVE  /\ ToSet(s) = {s[i] : i \in 1 .. Len(s)}
         /\ ToSet(s) \subseteq S
         /\ \A e : Contains(s, e) <=> e \in ToSet(s)
         /\ s # <<>> => Head(s) \in ToSet(s)
         /\ ToSet(s) = {} <=> s = <<>>
         /\ IsInjective(s) <=> \A i, j \in 1 .. Len(s) : s[i] = s[j] => i = j
<1>1. Len(s) \in Nat /\ DOMAIN s = 1 .. Len(s) /\ \A i \in 1 .. Len(s) : s[i] \in S
  BY LenProperties, ElementOfSeq
<1>2. ToSet(s) = {s[i] : i \in 1 .. Len(s)}
  BY <1>1 DEF ToSet
<1>3. s # <<>> => Len(s) \in Nat \ {0} /\ Head(s) = s[1]
  BY EmptySeq
<1>4. s # <<>> => 1 \in 1 .. Len(s)
  BY <1>3
<1>5. s = <<>> => Len(s) = 0
  BY EmptySeq
<1>6. s = <<>> => ToSet(s) = {}
  BY <1>2, <1>5
<1> QED
  BY <1>1, <1>2, <1>3, <1>4, <1>6 DEF Contains, IsInjective

(* A list with an element added in front.                                  *)
LEMMA AddedInFront ==
  ASSUME NEW S, NEW s \in Seq(S), NEW b \in S
  PROVE  /\ <<b>> \o s \in Seq(S)
         /\ ToSet(<<b>> \o s) = ToSet(s) \cup {b}
         /\ <<b>> \o s # <<>> /\ Head(<<b>> \o s) = b
         /\ IsInjective(s) /\ b \notin ToSet(s) => IsInjective(<<b>> \o s)
<1> DEFINE t == <<b>> \o s
<1>1. <<b>> \in Seq(S) /\ Len(<<b>>) = 1
  OBVIOUS
<1>2. /\ t \in Seq(S) /\ Len(t) = 1 + Len(s)
      /\ \A i \in 1 .. (1 + Len(s)) : t[i] = IF i = 1 THEN b ELSE s[i - 1]
  BY <1>1
<1>3. Len(s) \in Nat
  BY LenProperties
<1> HIDE DEF t
<1>4. t # <<>>
  BY <1>2, <1>3, EmptySeq
<1>5. Head(t) = b
  BY <1>2, <1>3, <1>4
<1>6. ToSet(t) = {t[i] : i \in 1 .. (1 + Len(s))} /\ ToSet(s) = {s[i] : i \in 1 .. Len(s)}
  BY <1>2, InList
<1>7. ToSet(t) \subseteq ToSet(s) \cup {b}
  BY <1>2, <1>3, <1>6
<1>8. b \in ToSet(t)
  BY <1>2, <1>3, <1>6
<1>9. ASSUME NEW i \in 1 .. Len(s)
      PROVE  s[i] \in ToSet(t)
  <2>1. i + 1 \in 1 .. (1 + Len(s)) /\ i + 1 # 1 /\ i + 1 - 1 = i
    BY <1>3
  <2>2. t[i + 1] = s[i + 1 - 1]
    BY <2>1, <1>2
  <2> QED
    BY <2>1, <2>2, <1>6
<1>10. ASSUME IsInjective(s), b \notin ToSet(s)
       PROVE  IsInjective(t)
  <2>1. \A i, j \in 1 .. Len(s) : s[i] = s[j] => i = j
    BY <1>10, InList
  <2>2. \A i \in 1 .. Len(s) : s[i] # b
    BY <1>6, <1>10
  <2>3. ASSUME NEW i \in 1 .. (1 + Len(s)), NEW j \in 1 .. (1 + Len(s)), t[i] = t[j]
        PROVE  i = j
    <3>1. i # 1 => i - 1 \in 1 .. Len(s) /\ t[i] = s[i - 1]
      BY <1>2, <1>3
    <3>2. j # 1 => j - 1 \in 1 .. Len(s) /\ t[j] = s[j - 1]
      BY <1>2, <1>3
    <3>3. i = 1 => t[i] = b
      BY <1>2, <1>3
    <3>4. j = 1 => t[j] = b
      BY <1>2, <1>3
    <3>5. i # 1 /\ j # 1 => i - 1 = j - 1
      BY <3>1, <3>2, <2>1, <2>3
    <3> QED
      BY <3>1, <3>2, <3>3, <3>4, <3>5, <2>2, <2>3
  <2> QED
    BY <2>3, <1>2, InList
<1> QED
  BY <1>2, <1>4, <1>5, <1>6, <1>7, <1>8, <1>9, <1>10 DEF t

(* A list without its first element.                                       *)
LEMMA TakenFromFront ==
  ASSUME NEW S, NEW s \in Seq(S), s # <<>>
  PROVE  /\ Tail(s) \in Seq(S) /\ Len(s) \in Nat \ {0} /\ Len(Tail(s)) = Len(s) - 1
         /\ Head(s) \in S
         /\ ToSet(s) = ToSet(Tail(s)) \cup {Head(s)}
         /\ IsInjective(s) => IsInjective(Tail(s)) /\ Head(s) \notin ToSet(Tail(s))
<1> DEFINE t == Tail(s)
           n == Len(s)
<1>1. n \in Nat \ {0} /\ Head(s) = s[1] /\ \A i \in 1 .. n : s[i] \in S
  BY EmptySeq, LenProperties, ElementOfSeq
<1>2. t \in Seq(S) /\ Len(t) = n - 1 /\ \A i \in 1 .. (n - 1) : t[i] = s[i + 1]
  BY HeadTailProperties
<1> HIDE DEF t, n
<1>3. ToSet(s) = {s[i] : i \in 1 .. n} /\ ToSet(t) = {t[i] : i \in 1 .. (n - 1)}
  BY <1>2, InList DEF n
<1>4. ASSUME NEW i \in 1 .. n
      PROVE  s[i] \in ToSet(t) \cup {s[1]}
  <2>1. i # 1 => i - 1 \in 1 .. (n - 1) /\ (i - 1) + 1 = i
    BY <1>1
  <2>2. i # 1 => t[i - 1] = s[i]
    BY <2>1, <1>2
  <2> QED
    BY <2>1, <2>2, <1>3
<1>5. ASSUME NEW i \in 1 .. (n - 1)
      PROVE  i + 1 \in 1 .. n /\ t[i] = s[i + 1] /\ t[i] \in ToSet(s)
  BY <1>1, <1>2, <1>3
<1>6. s[1] \in ToSet(s)
  BY <1>1, <1>3
<1>7. ToSet(s) = ToSet(t) \cup {s[1]}
  <2>1. \A x \in ToSet(s) : x \in ToSet(t) \cup {s[1]}
    BY <1>3, <1>4
  <2>2. \A x \in ToSet(t) : x \in ToSet(s)
    BY <1>3, <1>5
  <2> QED
    BY <2>1, <2>2, <1>6
<1>8. ASSUME IsInjective(s)
      PROVE  IsInjective(t) /\ s[1] \notin ToSet(t)
  <2>1. \A i, j \in 1 .. n : s[i] = s[j] => i = j
    BY <1>8, InList DEF n
  <2>2. ASSUME NEW i \in 1 .. (n - 1), NEW j \in 1 .. (n - 1), t[i] = t[j]
        PROVE  i = j
    <3>1. i + 1 = j + 1
      BY <2>1, <2>2, <1>5
    <3> QED
      BY <3>1
  <2>3. ASSUME NEW i \in 1 .. (n - 1)
        PROVE  t[i] # s[1]
    <3>1. 1 \in 1 .. n /\ i + 1 # 1
      BY <1>1
    <3> QED
      BY <3>1, <2>1, <1>5
  <2> QED
    BY <2>2, <2>3, <1>2, <1>3, InList
<1> QED
  BY <1>1, <1>2, <1>7, <1>8 DEF t, n

(* A nonempty set of natural numbers has a least element.                  *)
LEMMA LeastNat ==
  ASSUME NEW S \in SUBSET Nat, S # {}
  PROVE  \E x \in S : \A y \in S : x <= y
<1> DEFINE R == OpToRel(<, Nat)
<1>1. IsWellFoundedOn(R, Nat)
  BY NatLessThanWellFounded
<1>2. \A x, y \in Nat : x < y => <<x, y>> \in R
  BY DEF OpToRel
<1> HIDE DEF R
<1>3. PICK x \in S : \A y \in S : ~ (<<y, x>> \in R)
  BY <1>1, WFMin
<1>4. \A y \in S : y \in Nat /\ x \in Nat /\ ~ (y < x)
  BY <1>2, <1>3
<1>5. \A y \in S : x <= y
  BY <1>4
<1> QED
  BY <1>5

=============================================================================
