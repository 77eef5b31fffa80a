--------------------------- MODULE SequenceLemmas ---------------------------
(* What erasing a value from a std::list does, for any list, and what a    *)
(* sum is: the facts about the operators of the community modules that the *)
(* proofs of the components rest on.                                       *)
EXTENDS Integers, Sequences, SequencesExt, SequenceTheorems, FiniteSets,
        FiniteSetTheorems, WellFoundedInduction, TLAPS

(* A nonempty set of numbers has a least element.                          *)
LEMMA LeastNat ==
  ASSUME NEW T, T \subseteq Nat, T # {}
  PROVE  \E i \in T : \A j \in T : i <= j
<1>1. PICK i \in T : \A j \in T : ~ (<<j, i>> \in OpToRel(<, Nat))
  BY NatLessThanWellFounded, WFMin
<1>2. ASSUME NEW j \in T PROVE i <= j
  <2>1. ~ (<<j, i>> \in { ss \in Nat \X Nat : ss[1] < ss[2] })
    BY <1>1 DEF OpToRel
  <2>. QED BY <2>1
<1>. QED BY <1>2

(* The search of a list for a value it holds stops at that value.          *)
LEMMA SearchFinds ==
  ASSUME NEW T, NEW s \in Seq(T), NEW e \in ToSet(s)
  PROVE  LET k == SelectInSeq(s, LAMBDA v : v = e)
         IN  k \in 1..Len(s) /\ s[k] = e
<1>. DEFINE I == { i \in 1..Len(s) : s[i] = e }
<1>1. I # {} /\ I \subseteq Nat
  BY DEF ToSet
<1>2. PICK m \in I : \A j \in I : m <= j
  BY <1>1, LeastNat
<1>3. SelectInSeq(s, LAMBDA v : v = e) = Min(I)
  BY <1>1 DEF SelectInSeq
<1>4. Min(I) \in I
  BY <1>2 DEF Min
<1>. QED BY <1>3, <1>4

(* The list without its k-th value. *)
LEMMA RemoveAtProperties ==
  ASSUME NEW T, NEW s \in Seq(T), NEW k \in 1..Len(s)
  PROVE  /\ RemoveAt(s, k) \in Seq(T)
         /\ Len(RemoveAt(s, k)) = Len(s) - 1
         /\ \A i \in 1..(Len(s) - 1) :
              RemoveAt(s, k)[i] = IF i < k THEN s[i] ELSE s[i + 1]
<1>. DEFINE a == SubSeq(s, 1, k - 1)
            b == SubSeq(s, k + 1, Len(s))
<1>1. /\ a \in Seq(T) /\ Len(a) = k - 1
      /\ \A i \in 1..(k - 1) : a[i] = s[i]
  BY SubSeqProperties
<1>2. /\ b \in Seq(T) /\ Len(b) = Len(s) - k
      /\ \A i \in 1..(Len(s) - k) : b[i] = s[k + i]
  BY SubSeqProperties
<1>3. RemoveAt(s, k) = a \o b
  BY DEF RemoveAt
<1>. HIDE DEF a, b
<1>4. /\ a \o b \in Seq(T)
      /\ Len(a \o b) = Len(s) - 1
      /\ \A i \in 1..(Len(s) - 1) :
           (a \o b)[i] = IF i < k THEN a[i] ELSE b[i - (k - 1)]
  <2>1. /\ a \o b \in Seq(T)
        /\ Len(a \o b) = Len(a) + Len(b)
        /\ \A i \in 1..(Len(a) + Len(b)) :
             (a \o b)[i] = IF i <= Len(a) THEN a[i] ELSE b[i - Len(a)]
    BY <1>1, <1>2, ConcatProperties
  <2>2. Len(a) + Len(b) = Len(s) - 1 BY <1>1, <1>2
  <2>3. ASSUME NEW i \in 1..(Len(s) - 1)
        PROVE  (a \o b)[i] = IF i < k THEN a[i] ELSE b[i - (k - 1)]
    <3>1. (i <= k - 1) <=> i < k OBVIOUS
    <3>. QED BY <3>1, <2>1, <2>2, <1>1
  <2>. QED BY <2>1, <2>2, <2>3
<1>5. ASSUME NEW i \in 1..(Len(s) - 1)
      PROVE  (a \o b)[i] = IF i < k THEN s[i] ELSE s[i + 1]
  <2>1. CASE i < k BY <2>1, <1>1, <1>4
  <2>2. CASE ~ (i < k)
    <3>1. i - (k - 1) \in 1..(Len(s) - k) BY <2>2
    <3>2. b[i - (k - 1)] = s[k + (i - (k - 1))] BY <3>1, <1>2
    <3>3. k + (i - (k - 1)) = i + 1 OBVIOUS
    <3>. QED BY <2>2, <3>2, <3>3, <1>4
  <2>. QED BY <2>1, <2>2
<1>. QED BY <1>3, <1>4, <1>5

(* Erasing e leaves everything else in the list, adds nothing, and leaves  *)
(* no e behind if the list held no value twice.                            *)
LEMMA RemoveFirstProperties ==
  ASSUME NEW T, NEW s \in Seq(T), NEW e
  PROVE  LET r == RemoveFirst(s, e)
         IN  /\ r \in Seq(T)
             /\ ToSet(r) \subseteq ToSet(s)
             /\ ToSet(s) \ {e} \subseteq ToSet(r)
             /\ IsInjective(s) => IsInjective(r) /\ e \notin ToSet(r)
<1>1. CASE e \notin ToSet(s)
  <2>1. RemoveFirst(s, e) = s BY <1>1 DEF RemoveFirst, ToSet
  <2>. QED BY <1>1, <2>1
<1>2. CASE e \in ToSet(s)
  <2>. DEFINE k == SelectInSeq(s, LAMBDA v : v = e)
              r == RemoveFirst(s, e)
  <2>1. k \in 1..Len(s) /\ s[k] = e BY <1>2, SearchFinds
  <2>2. r = RemoveAt(s, k) BY <1>2 DEF RemoveFirst, ToSet
  <2>. HIDE DEF k, r
  <2>3. /\ r \in Seq(T) /\ Len(r) = Len(s) - 1
        /\ \A i \in 1..(Len(s) - 1) : r[i] = IF i < k THEN s[i] ELSE s[i + 1]
    BY <2>1, <2>2, RemoveAtProperties
  <2>4. DOMAIN r = 1..(Len(s) - 1) /\ DOMAIN s = 1..Len(s) BY <2>3
  <2>5. ToSet(r) \subseteq ToSet(s)
    <3>1. ASSUME NEW i \in 1..(Len(s) - 1) PROVE r[i] \in ToSet(s)
      BY <2>3, <2>4 DEF ToSet
    <3>. QED BY <3>1, <2>4 DEF ToSet
  <2>6. ToSet(s) \ {e} \subseteq ToSet(r)
    <3>1. ASSUME NEW j \in 1..Len(s), j # k PROVE s[j] \in ToSet(r)
      <4>1. CASE j < k
        <5>1. j \in 1..(Len(s) - 1) /\ r[j] = s[j] BY <4>1, <2>1, <2>3
        <5>. QED BY <5>1, <2>4 DEF ToSet
      <4>2. CASE j > k
        <5>1. j - 1 \in 1..(Len(s) - 1) /\ ~ (j - 1 < k) BY <4>2, <2>1
        <5>2. r[j - 1] = s[(j - 1) + 1] BY <5>1, <2>3
        <5>3. r[j - 1] = s[j] BY <5>2
        <5>. QED BY <5>1, <5>3, <2>4 DEF ToSet
      <4>. QED BY <3>1, <4>1, <4>2, <2>1
    <3>. QED BY <3>1, <2>1, <2>4 DEF ToSet
  <2>7. ASSUME IsInjective(s) PROVE IsInjective(r) /\ e \notin ToSet(r)
    <3>. DEFINE o(i) == IF i < k THEN i ELSE i + 1
    <3>1. \A i \in 1..(Len(s) - 1) : o(i) \in 1..Len(s) /\ o(i) # k /\ r[i] = s[o(i)]
      BY <2>1, <2>3
    <3>2. \A i, j \in 1..(Len(s) - 1) : o(i) = o(j) => i = j BY <2>1
    <3>3. \A i, j \in 1..Len(s) : s[i] = s[j] => i = j
      BY <2>7, <2>4 DEF IsInjective
    <3>. HIDE DEF o
    <3>4. IsInjective(r) BY <3>1, <3>2, <3>3, <2>4 DEF IsInjective
    <3>5. e \notin ToSet(r) BY <3>1, <3>3, <2>1, <2>4 DEF ToSet
    <3>. QED BY <3>4, <3>5
  <2>. QED BY <2>3, <2>5, <2>6, <2>7 DEF r
<1>. QED BY <1>1, <1>2

(* push_back, of a value the list does not hold or of any value.           *)
LEMMA AppendSet ==
  ASSUME NEW T, NEW s \in Seq(T), NEW e \in T
  PROVE  /\ Append(s, e) \in Seq(T)
         /\ ToSet(Append(s, e)) = ToSet(s) \cup {e}
         /\ IsInjective(s) /\ e \notin ToSet(s) => IsInjective(Append(s, e))
<1>. DEFINE r == Append(s, e)
<1>1. /\ r \in Seq(T) /\ Len(r) = Len(s) + 1 /\ r[Len(s) + 1] = e
      /\ \A i \in 1..Len(s) : r[i] = s[i]
  BY AppendProperties
<1>. HIDE DEF r
<1>2. DOMAIN r = 1..(Len(s) + 1) /\ DOMAIN s = 1..Len(s) BY <1>1
<1>3. ToSet(r) = ToSet(s) \cup {e} BY <1>1, <1>2 DEF ToSet
<1>4. ASSUME IsInjective(s), e \notin ToSet(s) PROVE IsInjective(r)
  BY <1>1, <1>2, <1>4 DEF IsInjective, ToSet
<1>. QED BY <1>1, <1>3, <1>4 DEF r

(* The first value and the others. *)
LEMMA HeadTailSet ==
  ASSUME NEW T, NEW s \in Seq(T), s # <<>>
  PROVE  /\ Head(s) \in T /\ Tail(s) \in Seq(T)
         /\ ToSet(s) \subseteq {Head(s)} \cup ToSet(Tail(s))
<1>1. /\ Head(s) \in T /\ Head(s) = s[1]
      /\ Tail(s) \in Seq(T) /\ Len(Tail(s)) = Len(s) - 1
      /\ \A i \in 1..Len(Tail(s)) : Tail(s)[i] = s[i + 1]
  BY HeadTailProperties
<1>2. DOMAIN s = 1..Len(s) /\ DOMAIN Tail(s) = 1..Len(Tail(s)) BY <1>1
<1>3. ASSUME NEW i \in 1..Len(s), i # 1 PROVE s[i] \in ToSet(Tail(s))
  <2>1. i - 1 \in 1..Len(Tail(s)) BY <1>1, <1>3
  <2>2. Tail(s)[i - 1] = s[(i - 1) + 1] BY <2>1, <1>1
  <2>3. (i - 1) + 1 = i OBVIOUS
  <2>. QED BY <2>1, <2>2, <2>3, <1>2 DEF ToSet
<1>. QED BY <1>1, <1>2, <1>3 DEF ToSet

(* Erasing another value than the first leaves the first where it is.      *)
LEMMA RemoveFirstHead ==
  ASSUME NEW T, NEW s \in Seq(T), s # <<>>, NEW e, e # Head(s)
  PROVE  LET r == RemoveFirst(s, e)
         IN  r \in Seq(T) /\ r # <<>> /\ Head(r) = Head(s)
<1>1. CASE e \notin ToSet(s)
  <2>1. RemoveFirst(s, e) = s BY <1>1 DEF RemoveFirst, ToSet
  <2>. QED BY <2>1
<1>2. CASE e \in ToSet(s)
  <2>. DEFINE k == SelectInSeq(s, LAMBDA v : v = e)
              r == RemoveFirst(s, e)
  <2>1. k \in 1..Len(s) /\ s[k] = e BY <1>2, SearchFinds
  <2>2. r = RemoveAt(s, k) BY <1>2 DEF RemoveFirst, ToSet
  <2>. HIDE DEF k, r
  <2>3. k # 1 BY <2>1
  <2>4. /\ r \in Seq(T) /\ Len(r) = Len(s) - 1
        /\ \A i \in 1..(Len(s) - 1) : r[i] = IF i < k THEN s[i] ELSE s[i + 1]
    BY <2>1, <2>2, RemoveAtProperties
  <2>5. Len(r) >= 1 /\ r[1] = s[1] BY <2>1, <2>3, <2>4
  <2>6. r # <<>> /\ Head(r) = r[1] /\ Head(s) = s[1] BY <2>4, <2>5
  <2>. QED BY <2>4, <2>5, <2>6 DEF r
<1>. QED BY <1>1, <1>2

(* A finite set, put in some order. *)
LEMMA SetToSeqProperties ==
  ASSUME NEW S, IsFiniteSet(S)
  PROVE  SetToSeq(S) \in Seq(S) /\ ToSet(SetToSeq(S)) = S
<1>. DEFINE n == Cardinality(S)
            f == SetToSeq(S)
<1>1. n \in Nat /\ ExistsBijection(1..n, S) BY FS_CardinalityType
<1>2. \E g \in [1..n -> S] : IsInjective(g)
  BY <1>1 DEF ExistsBijection, Bijection, Injection
<1>3. f \in [1..n -> S] /\ IsInjective(f) BY <1>2 DEF SetToSeq
<1>. HIDE DEF f
<1>4. Cardinality(1..n) = n BY <1>1, FS_Interval
<1>5. f \in Injection(1..n, S) BY <1>3 DEF Injection
<1>. HIDE DEF n
<1>6. f \in Surjection(1..n, S) BY <1>4, <1>5, FS_Injection DEF n
<1>7. ToSet(f) = S BY <1>3, <1>6 DEF ToSet, Surjection
<1>8. f \in Seq(S) BY <1>1, <1>3
<1>. QED BY <1>7, <1>8 DEF f

(* The sum over a finite domain, as the community module computes it, one  *)
(* element at a time, is a number when the summands are.                   *)
LEMMA SumIsNat ==
  ASSUME NEW D, IsFiniteSet(D), NEW f \in [D -> Nat]
  PROVE  SumFunction(f) \in Nat
<1>. DEFINE e(s) == CHOOSE x \in s : TRUE
            Sums(g, s) == IF s = {} THEN 0 ELSE f[e(s)] + g[s \ {e(s)}]
            h == CHOOSE g : g = [s \in SUBSET D |-> Sums(g, s)]
            A(n) == \E g \in [SUBSET D -> Nat] :
                      \A s \in SUBSET D : Cardinality(s) <= n => g[s] = Sums(g, s)
<1>1. SumFunction(f) = h[D]
  <2>1. DOMAIN f = D OBVIOUS
  <2>. QED BY <2>1, Zenon DEF SumFunction, SumFunctionOnSet, FoldFunctionOnSet, MapThenFoldSet
<1>2. \A s \in SUBSET D : IsFiniteSet(s) /\ Cardinality(s) \in Nat
  BY FS_Subset, FS_CardinalityType
<1>3. ASSUME NEW s \in SUBSET D, s # {}
      PROVE  /\ e(s) \in s /\ s \ {e(s)} \in SUBSET D
             /\ Cardinality(s) # 0
             /\ Cardinality(s \ {e(s)}) = Cardinality(s) - 1
  <2>1. e(s) \in s BY <1>3
  <2>. HIDE DEF e
  <2>2. Cardinality(s) # 0 BY <1>2, <1>3, FS_EmptySet
  <2>. QED BY <1>2, <2>1, <2>2, FS_RemoveElement
<1>. HIDE DEF e
<1>4. \A n \in Nat : A(n)
  <2>. DEFINE T == { n \in Nat : ~A(n) }
  <2>. SUFFICES ASSUME T # {} PROVE FALSE OBVIOUS
  <2>1. PICK n \in T : \A m \in T : n <= m BY LeastNat
  <2>2. PICK g \in [SUBSET D -> Nat] :
          \A s \in SUBSET D : Cardinality(s) < n => g[s] = Sums(g, s)
    <3>1. CASE n = 0
      <4>1. [s \in SUBSET D |-> 0] \in [SUBSET D -> Nat] OBVIOUS
      <4>2. \A s \in SUBSET D : ~(Cardinality(s) < n) BY <1>2, <3>1
      <4>. QED BY <4>1, <4>2
    <3>2. CASE n # 0
      <4>. DEFINE m == n - 1
      <4>1. m \in Nat /\ m < n BY <3>2
      <4>. HIDE DEF m
      <4>2. A(m)
        <5>1. n \in Nat OBVIOUS
        <5>. HIDE DEF T
        <5>2. m \notin T BY <2>1, <4>1, <5>1
        <5>. QED BY <4>1, <5>2 DEF T
      <4>3. \A s \in SUBSET D : Cardinality(s) < n => Cardinality(s) <= m
        BY <1>2 DEF m
      <4>. QED BY <4>2, <4>3
    <3>. QED BY <3>1, <3>2
  <2>. DEFINE k == [s \in SUBSET D |-> Sums(g, s)]
  <2>3. ASSUME NEW s \in SUBSET D PROVE Sums(g, s) \in Nat
    <3>1. CASE s = {} BY <3>1
    <3>2. CASE s # {}
      <4>1. e(s) \in D /\ s \ {e(s)} \in SUBSET D BY <1>3, <3>2
      <4>2. f[e(s)] \in Nat /\ g[s \ {e(s)}] \in Nat BY <4>1
      <4>. QED BY <3>2, <4>2
    <3>. QED BY <3>1, <3>2
  <2>4. k \in [SUBSET D -> Nat] BY <2>3
  <2>5. ASSUME NEW s \in SUBSET D, Cardinality(s) <= n PROVE k[s] = Sums(k, s)
    <3>1. CASE s = {} BY <3>1
    <3>2. CASE s # {}
      <4>. DEFINE r == s \ {e(s)}
      <4>1. r \in SUBSET D /\ Cardinality(r) < n
        BY <1>2, <1>3, <2>1, <2>5, <3>2
      <4>. HIDE DEF r
      <4>2. k[r] = g[r] BY <2>2, <4>1
      <4>. QED BY <3>2, <4>2 DEF r
    <3>. QED BY <3>1, <3>2
  <2>. HIDE DEF k
  <2>6. A(n) BY <2>4, <2>5
  <2>. QED BY <2>1, <2>6
<1>5. h = [s \in SUBSET D |-> Sums(h, s)]
  <2>1. PICK g \in [SUBSET D -> Nat] :
          \A s \in SUBSET D : Cardinality(s) <= Cardinality(D) => g[s] = Sums(g, s)
    BY <1>2, <1>4
  <2>2. \A s \in SUBSET D : Cardinality(s) <= Cardinality(D) BY FS_Subset
  <2>3. g = [s \in SUBSET D |-> Sums(g, s)] BY <2>1, <2>2
  <2>. QED BY <2>3
<1>. HIDE DEF h
<1>6. \A s \in SUBSET D : h[s] \in Nat
  <2>. DEFINE T == { n \in Nat : \E s \in SUBSET D : Cardinality(s) = n /\ h[s] \notin Nat }
  <2>. SUFFICES ASSUME T # {} PROVE FALSE BY <1>2
  <2>1. PICK n \in T : \A m \in T : n <= m BY LeastNat
  <2>2. PICK s \in SUBSET D : Cardinality(s) = n /\ h[s] \notin Nat BY <2>1
  <2>3. h[s] = Sums(h, s) BY <1>5
  <2>4. s # {} BY <2>2, <2>3
  <2>. DEFINE r == s \ {e(s)}
  <2>5. r \in SUBSET D /\ Cardinality(r) \in Nat /\ Cardinality(r) < n /\ e(s) \in D
    BY <1>2, <1>3, <2>2, <2>4
  <2>6. h[r] \in Nat BY <2>1, <2>5
  <2>. HIDE DEF r
  <2>7. f[e(s)] \in Nat BY <2>5
  <2>. QED BY <2>2, <2>3, <2>4, <2>6, <2>7 DEF r
<1>. QED BY <1>1, <1>6
=============================================================================
