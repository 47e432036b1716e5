----------------------------- MODULE ListLemmas -----------------------------
(***************************************************************************)
(* Lists without duplicates: what adding and taking out an element does to  *)
(* their elements and to the order of them.  The library keeps its PLCs,    *)
(* sessions, tags and requests in such lists.                               *)
(*                                                                         *)
(* The proofs also count the elements of finite sets.  The library of       *)
(* theorems about them is large, and slows every proof step that has it in  *)
(* its context: the facts used are gathered in Counting, the lemmas that    *)
(* need them assume it, and the modules that conclude with a theorem prove   *)
(* it at their end.                                                        *)
(***************************************************************************)
EXTENDS Lists, FiniteSets, TLAPS

Counted(S) ==
  /\ Cardinality(S) \in Nat
  /\ Cardinality(S) = 0 <=> S = {}
  /\ Cardinality(S) = 1 <=> \E x : S = {x}
  /\ \A T \in SUBSET S : IsFiniteSet(T)
  /\ \A T : IsFiniteSet(T) => IsFiniteSet(S \cup T)
  /\ \A x : /\ IsFiniteSet(S \cup {x})
            /\ Cardinality(S \cup {x}) =
                 IF x \in S THEN Cardinality(S) ELSE Cardinality(S) + 1
            /\ IsFiniteSet(S \ {x})
            /\ Cardinality(S \ {x}) =
                 IF x \in S THEN Cardinality(S) - 1 ELSE Cardinality(S)

Counting ==
  /\ IsFiniteSet({}) /\ Cardinality({}) = 0
  /\ \A x : IsFiniteSet({x}) /\ Cardinality({x}) = 1
  /\ \A S : IsFiniteSet(S) => Counted(S)

Least == \A T \in SUBSET Nat : T # {} => \E x \in T : \A y \in T : x <= y

Distinct(s) == \A i, j \in 1 .. Len(s) : s[i] = s[j] => i = j

\* Taking an element out moves the ones behind it up by one.
LEMMA WithoutShifts ==
  ASSUME NEW S, NEW s \in Seq(S), NEW k \in 1 .. Len(s)
  PROVE  /\ Without(s, k) \in Seq(S)
         /\ Len(Without(s, k)) = Len(s) - 1
         /\ \A i \in 1 .. Len(s) - 1 :
              Without(s, k)[i] = IF i < k THEN s[i] ELSE s[i + 1]
<1>1. Len(s) - 1 \in Nat
  OBVIOUS
<1>2. ASSUME NEW i \in 1 .. Len(s) - 1 PROVE (IF i < k THEN s[i] ELSE s[i + 1]) \in S
  <2>1. s[i] \in S /\ s[i + 1] \in S
    OBVIOUS
  <2> QED BY <2>1
<1>3. Without(s, k) \in [1 .. Len(s) - 1 -> S]
  BY <1>2 DEF Without
<1>4. Without(s, k) \in Seq(S) /\ Len(Without(s, k)) = Len(s) - 1
  BY <1>1, <1>3
<1> QED BY <1>4 DEF Without

\* A list without duplicates loses the one occurrence of the element.
LEMMA UnlinkedIsWithout ==
  ASSUME NEW S, NEW s \in Seq(S), Distinct(s), NEW k \in 1 .. Len(s)
  PROVE  Unlinked(s, s[k]) = Without(s, k)
<1> DEFINE first(j) == s[j] = s[k] /\ \A i \in 1 .. j - 1 : s[i] # s[k]
<1>1. \A j \in 1 .. Len(s) : first(j) <=> j = k
  BY DEF Distinct
<1>2. (CHOOSE j \in 1 .. Len(s) : first(j)) = k
  BY <1>1
<1>3. s[k] \in Elements(s)
  BY DEF Elements
<1> QED BY <1>2, <1>3, Zenon DEF Unlinked

LEMMA UnlinkedKeeps ==
  ASSUME NEW S, NEW s \in Seq(S), NEW e, \A i \in 1 .. Len(s) : s[i] # e
  PROVE  Unlinked(s, e) = s
BY DEF Unlinked, Elements

\* Taking an element out of a list without duplicates takes out just it, and
\* leaves the others in their order.
LEMMA UnlinkedOrder ==
  ASSUME NEW S, NEW s \in Seq(S), Distinct(s), NEW e, NEW r, r = Unlinked(s, e)
  PROVE  /\ r \in Seq(S) /\ Distinct(r) /\ Elements(r) = Elements(s) \ {e}
         /\ \A i, j \in 1 .. Len(r) : i < j =>
              \E k, l \in 1 .. Len(s) : k < l /\ r[i] = s[k] /\ r[j] = s[l]
<1>1. CASE \E k \in 1 .. Len(s) : s[k] = e
  <2>1. PICK k \in 1 .. Len(s) : s[k] = e
    BY <1>1
  <2> DEFINE from(j) == IF j < k THEN j ELSE j + 1
  <2>2. /\ r \in Seq(S) /\ Len(r) = Len(s) - 1
        /\ \A j \in 1 .. Len(s) - 1 : r[j] = IF j < k THEN s[j] ELSE s[j + 1]
    <3>1. r = Without(s, k)
      BY <2>1, UnlinkedIsWithout
    <3> QED BY <3>1, WithoutShifts, Zenon
  <2>4. Len(s) \in Nat
    OBVIOUS
  <2>5. \A j \in 1 .. Len(r) : from(j) \in 1 .. Len(s) /\ from(j) # k /\ r[j] = s[from(j)]
    BY <2>2, <2>4
  <2>6. \A i, j \in 1 .. Len(r) : i < j => from(i) < from(j)
    BY <2>2, <2>4
  <2>7. \A l \in 1 .. Len(s) : l # k => \E j \in 1 .. Len(r) : l = from(j)
    <3> SUFFICES ASSUME NEW l \in 1 .. Len(s), l # k
                 PROVE  \E j \in 1 .. Len(r) : l = from(j)
      OBVIOUS
    <3>1. CASE l < k
      <4>1. l \in 1 .. Len(r) /\ l = from(l)
        BY <3>1, <2>2, <2>4
      <4> QED BY <4>1
    <3>2. CASE l > k
      <4>1. l - 1 \in 1 .. Len(r) /\ l = from(l - 1)
        BY <3>2, <2>2, <2>4
      <4> QED BY <4>1
    <3> QED BY <3>1, <3>2
  <2> HIDE DEF from
  <2>8. \A i, j \in 1 .. Len(r) : from(i) = from(j) => i = j
    BY <2>2, <2>4, <2>6, <2>5
  <2>9. Distinct(r)
    BY <2>5, <2>8 DEF Distinct
  <2>10. Elements(r) = Elements(s) \ {e}
    <3>1. \A x \in Elements(r) : x \in Elements(s) /\ x # e
      BY <2>1, <2>5 DEF Elements, Distinct
    <3>2. ASSUME NEW x \in Elements(s), x # e PROVE x \in Elements(r)
      <4>1. PICK l \in 1 .. Len(s) : x = s[l]
        BY DEF Elements
      <4>2. PICK j \in 1 .. Len(r) : l = from(j)
        BY <2>1, <2>7, <3>2, <4>1
      <4> QED BY <2>5, <4>1, <4>2 DEF Elements
    <3> QED BY <3>1, <3>2
  <2>11. \A i, j \in 1 .. Len(r) : i < j =>
           \E k1_, l \in 1 .. Len(s) : k1_ < l /\ r[i] = s[k1_] /\ r[j] = s[l]
    BY <2>5, <2>6, Zenon
  <2> QED BY <2>2, <2>9, <2>10, <2>11
<1>2. CASE \A k \in 1 .. Len(s) : s[k] # e
  <2>1. Unlinked(s, e) = s
    BY <1>2, UnlinkedKeeps
  <2>2. Elements(s) = Elements(s) \ {e}
    BY <1>2 DEF Elements
  <2> QED BY <2>1, <2>2
<1> QED BY <1>1, <1>2

\* A new element at either end.
LEMMA ConsElements ==
  ASSUME NEW S, NEW s \in Seq(S), NEW e \in S, Distinct(s), e \notin Elements(s)
  PROVE  /\ <<e>> \o s \in Seq(S) /\ Distinct(<<e>> \o s)
         /\ Elements(<<e>> \o s) = Elements(s) \cup {e}
<1> DEFINE r == <<e>> \o s
<1>1. r \in Seq(S) /\ Len(r) = Len(s) + 1 /\ r[1] = e
  OBVIOUS
<1>2. \A i \in 1 .. Len(s) : r[i + 1] = s[i]
  OBVIOUS
<1> HIDE DEF r
<1>3. Len(s) \in Nat
  OBVIOUS
<1>4. \A i \in 2 .. Len(r) : i - 1 \in 1 .. Len(s) /\ r[i] = s[i - 1]
  BY <1>1, <1>2, <1>3
<1>5. \A i \in 1 .. Len(r) : i = 1 \/ i \in 2 .. Len(r)
  BY <1>1, <1>3
<1>6. \A i \in 1 .. Len(s) : i + 1 \in 1 .. Len(r)
  BY <1>1, <1>3
<1>7. Distinct(r)
  <2> SUFFICES ASSUME NEW i \in 1 .. Len(r), NEW j \in 1 .. Len(r), r[i] = r[j]
               PROVE  i = j
    BY DEF Distinct
  <2>1. CASE i = 1 \/ j = 1
    BY <2>1, <1>1, <1>4, <1>5 DEF Elements
  <2>2. CASE i # 1 /\ j # 1
    <3>1. i - 1 \in 1 .. Len(s) /\ j - 1 \in 1 .. Len(s) /\ s[i - 1] = s[j - 1]
      BY <2>2, <1>4, <1>5
    <3>2. i - 1 = j - 1
      BY <3>1 DEF Distinct
    <3> QED BY <3>2, <1>1, <1>3
  <2> QED BY <2>1, <2>2
<1>8. Elements(r) = Elements(s) \cup {e}
  <2>1. 1 \in 1 .. Len(r)
    BY <1>1, <1>3
  <2>2. \A x \in Elements(r) : x \in Elements(s) \cup {e}
    BY <1>1, <1>4, <1>5 DEF Elements
  <2>3. \A x \in Elements(s) : x \in Elements(r)
    BY <1>2, <1>6 DEF Elements
  <2>4. e \in Elements(r)
    BY <2>1, <1>1 DEF Elements
  <2> QED BY <2>2, <2>3, <2>4
<1> QED BY <1>1, <1>7, <1>8 DEF r

LEMMA AppendElements ==
  ASSUME NEW S, NEW s \in Seq(S), NEW e \in S, Distinct(s), e \notin Elements(s)
  PROVE  /\ Append(s, e) \in Seq(S) /\ Distinct(Append(s, e))
         /\ Elements(Append(s, e)) = Elements(s) \cup {e}
         /\ Len(Append(s, e)) = Len(s) + 1 /\ Append(s, e)[Len(s) + 1] = e
         /\ \A i \in 1 .. Len(s) : Append(s, e)[i] = s[i]
<1> DEFINE r == Append(s, e)
<1>1. /\ r \in Seq(S) /\ Len(r) = Len(s) + 1 /\ r[Len(s) + 1] = e
      /\ \A i \in 1 .. Len(s) : r[i] = s[i]
  OBVIOUS
<1> HIDE DEF r
<1>2. Len(s) \in Nat
  OBVIOUS
<1>3. 1 .. Len(r) = (1 .. Len(s)) \cup {Len(s) + 1}
  BY <1>1, <1>2
<1>4. Elements(r) = Elements(s) \cup {e}
  BY <1>1, <1>3 DEF Elements
<1>5. Distinct(r)
  BY <1>1, <1>3 DEF Elements, Distinct
<1> QED BY <1>1, <1>4, <1>5 DEF r

\* The first element is taken off.
LEMMA TailElements ==
  ASSUME NEW S, NEW s \in Seq(S), s # <<>>, Distinct(s)
  PROVE  /\ Head(s) \in Elements(s)
         /\ Tail(s) \in Seq(S) /\ Distinct(Tail(s))
         /\ Elements(Tail(s)) = Elements(s) \ {Head(s)}
<1> DEFINE r == Tail(s)
<1>1. /\ r \in Seq(S) /\ Len(s) \in Nat \ {0} /\ Len(r) = Len(s) - 1
      /\ \A i \in 1 .. Len(r) : r[i] = s[i + 1]
  OBVIOUS
<1>2. Head(s) = s[1]
  OBVIOUS
<1> HIDE DEF r
<1>3. 1 \in 1 .. Len(s)
  BY <1>1
<1>4. \A i \in 1 .. Len(r) : i + 1 \in 1 .. Len(s) /\ i + 1 # 1
  BY <1>1
<1>5. \A i \in 1 .. Len(s) : i = 1 \/ \E k \in 1 .. Len(r) : i = k + 1
  <2> SUFFICES ASSUME NEW i \in 1 .. Len(s), i # 1 PROVE \E k \in 1 .. Len(r) : i = k + 1
    OBVIOUS
  <2>1. i - 1 \in 1 .. Len(r) /\ i = (i - 1) + 1
    BY <1>1
  <2> QED BY <2>1
<1>6. Distinct(r)
  <2> SUFFICES ASSUME NEW i \in 1 .. Len(r), NEW j \in 1 .. Len(r), r[i] = r[j]
               PROVE  i = j
    BY DEF Distinct
  <2>1. i + 1 = j + 1
    BY <1>1, <1>4 DEF Distinct
  <2> QED BY <2>1, <1>1
<1>7. Elements(r) = Elements(s) \ {Head(s)}
  <2>1. \A x \in Elements(r) : x \in Elements(s) /\ x # s[1]
    <3> SUFFICES ASSUME NEW i \in 1 .. Len(r)
                 PROVE  s[i + 1] \in Elements(s) /\ s[i + 1] # s[1]
      BY <1>1 DEF Elements
    <3>1. i + 1 \in 1 .. Len(s) /\ i + 1 # 1
      BY <1>4
    <3> QED BY <3>1, <1>3 DEF Elements, Distinct
  <2>2. \A x \in Elements(s) : x # s[1] => x \in Elements(r)
    <3> SUFFICES ASSUME NEW i \in 1 .. Len(s), s[i] # s[1]
                 PROVE  s[i] \in Elements(r)
      BY DEF Elements
    <3>1. PICK k \in 1 .. Len(r) : i = k + 1
      BY <1>5
    <3>2. r[k] = s[i]
      BY <3>1, <1>1
    <3> QED BY <3>2 DEF Elements
  <2> QED BY <2>1, <2>2, <1>2
<1>8. Head(s) \in Elements(s)
  BY <1>2, <1>3 DEF Elements
<1> QED BY <1>1, <1>6, <1>7, <1>8 DEF r

\* Taking an element out and adding it at the end keeps all of them.
LEMMA MovedToEnd ==
  ASSUME NEW S, NEW s \in Seq(S), NEW k \in 1 .. Len(s), NEW r, r = Append(Without(s, k), s[k])
  PROVE  r \in Seq(S) /\ Len(r) = Len(s) /\ Elements(r) = Elements(s)
<1>1. PICK w : w = Without(s, k) OBVIOUS
<1>2. /\ w \in Seq(S) /\ Len(w) = Len(s) - 1
      /\ \A i \in 1 .. Len(s) - 1 : w[i] = IF i < k THEN s[i] ELSE s[i + 1]
  BY <1>1, WithoutShifts, Zenon
<1>3. s[k] \in S /\ Len(s) \in Nat /\ k \in Nat /\ 1 <= k /\ k <= Len(s) OBVIOUS
<1>4. /\ r \in Seq(S) /\ Len(r) = Len(s) /\ r[Len(s)] = s[k]
      /\ \A i \in 1 .. Len(s) - 1 : r[i] = w[i]
  BY <1>1, <1>2, <1>3
<1>5. ASSUME NEW i \in 1 .. Len(s) PROVE \E j \in 1 .. Len(s) : r[i] = s[j]
  <2>1. CASE i = Len(s) BY <1>4, <2>1
  <2>2. CASE i < k /\ i # Len(s)
    <3>1. i \in 1 .. Len(s) - 1 BY <1>3, <2>2
    <3>2. r[i] = s[i] BY <1>2, <1>4, <2>2, <3>1
    <3> QED BY <3>2
  <2>3. CASE i >= k /\ i # Len(s)
    <3>1. i \in 1 .. Len(s) - 1 /\ i + 1 \in 1 .. Len(s) /\ ~(i < k) BY <1>3, <2>3
    <3>2. r[i] = s[i + 1] BY <1>2, <1>4, <3>1
    <3> QED BY <3>1, <3>2
  <2>4. i = Len(s) \/ (i < k /\ i # Len(s)) \/ (i >= k /\ i # Len(s)) BY <1>3
  <2> QED BY <2>1, <2>2, <2>3, <2>4, Zenon
<1>6. ASSUME NEW j \in 1 .. Len(s) PROVE \E i \in 1 .. Len(s) : s[j] = r[i]
  <2>1. CASE j = k
    <3>1. Len(s) \in 1 .. Len(s) BY <1>3
    <3> QED BY <1>4, <2>1, <3>1, Zenon
  <2>2. CASE j < k
    <3>1. j \in 1 .. Len(s) - 1 BY <1>3, <2>2
    <3>2. r[j] = s[j] BY <1>2, <1>4, <2>2, <3>1
    <3> QED BY <3>2, Zenon
  <2>3. CASE j > k
    <3>1. j - 1 \in 1 .. Len(s) - 1 /\ j - 1 \in 1 .. Len(s) /\ ~(j - 1 < k) /\ (j - 1) + 1 = j
      BY <1>3, <2>3
    <3>2. r[j - 1] = s[j] BY <1>2, <1>4, <3>1
    <3> QED BY <3>1, <3>2, Zenon
  <2>4. j = k \/ j < k \/ j > k BY <1>3
  <2> QED BY <2>1, <2>2, <2>3, <2>4, Zenon
<1>7. Elements(r) = Elements(s)
  <2>1. Elements(r) = {r[i] : i \in 1 .. Len(s)} BY <1>4 DEF Elements
  <2>2. Elements(s) = {s[i] : i \in 1 .. Len(s)} BY DEF Elements
  <2>3. ASSUME NEW e \in Elements(r) PROVE e \in Elements(s)
    <3>1. PICK i \in 1 .. Len(s) : e = r[i] BY <2>1, Zenon
    <3>2. PICK j \in 1 .. Len(s) : r[i] = s[j] BY <1>5, Zenon
    <3> QED BY <2>2, <3>1, <3>2
  <2>4. ASSUME NEW e \in Elements(s) PROVE e \in Elements(r)
    <3>1. PICK j \in 1 .. Len(s) : e = s[j] BY <2>2
    <3>2. PICK i \in 1 .. Len(s) : s[j] = r[i] BY <1>6, Zenon
    <3> QED BY <2>1, <3>1, <3>2, Zenon
  <2> QED BY <2>3, <2>4, Zenon
<1> QED BY <1>4, <1>7
=============================================================================
