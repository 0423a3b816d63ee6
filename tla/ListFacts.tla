------------------------------ MODULE ListFacts ------------------------------
(***************************************************************************)
(* Facts about the finite lists of the models: what adding, removing and   *)
(* taking an element does to the set of the elements, and that a list      *)
(* without repetition stays one.                                           *)
(***************************************************************************)
EXTENDS Integers, Sequences, FiniteSets, SequencesExt, SequenceTheorems, WellFoundedInduction,
        TLAPS

\* The elements of a list of S are elements of S, at positions of the list.
LEMMA ListElements ==
    ASSUME NEW S, NEW s \in Seq(S)
    PROVE  /\ ToSet(s) \subseteq S
           /\ \A x : x \in ToSet(s) <=> \E i \in 1..Len(s) : s[i] = x
           /\ s = <<>> <=> ToSet(s) = {}
<1>1. DOMAIN s = 1..Len(s) /\ \A i \in 1..Len(s) : s[i] \in S
    OBVIOUS
<1>2. \A x : x \in ToSet(s) <=> \E i \in 1..Len(s) : s[i] = x
    BY <1>1 DEF ToSet
<1>3. ToSet(s) \subseteq S
    BY <1>1, <1>2
<1>4. s = <<>> => ToSet(s) = {}
    BY <1>2
<1>5. s # <<>> => s[1] \in ToSet(s)
    <2>1. SUFFICES ASSUME s # <<>> PROVE s[1] \in ToSet(s)
        OBVIOUS
    <2>2. 1 \in 1..Len(s)
        BY <2>1
    <2>3. QED BY <1>2, <2>2
<1>6. QED BY <1>2, <1>3, <1>4, <1>5

\* A list all of whose elements are in T is one of T.
LEMMA ListOfOthers ==
    ASSUME NEW S, NEW T, NEW s \in Seq(S), \A i \in 1..Len(s) : s[i] \in T
    PROVE  s \in Seq(T)
OBVIOUS

\* The last element of a list, and the others.
LEMMA ListLast ==
    ASSUME NEW S, NEW s \in Seq(S), s # <<>>
    PROVE  /\ Front(s) \in Seq(S) /\ Len(Front(s)) = Len(s) - 1 /\ Len(s) \in Nat \ {0}
           /\ Last(s) \in S
           /\ ToSet(s) = ToSet(Front(s)) \union {Last(s)}
<1>1. Len(s) \in Nat \ {0} /\ DOMAIN s = 1..Len(s)
    OBVIOUS
<1>2. /\ Front(s) \in Seq(S) /\ Len(Front(s)) = Len(s) - 1
      /\ \A i \in 1..Len(s) - 1 : Front(s)[i] = s[i]
    BY <1>1 DEF Front
<1>3. Last(s) = s[Len(s)] /\ Last(s) \in S
    BY <1>1 DEF Last
<1> DEFINE q == Front(s)
<1>4. \A x : x \in ToSet(s) <=> \E i \in 1..Len(s) : s[i] = x
    BY ListElements
<1>5. \A x : x \in ToSet(q) <=> \E i \in 1..Len(q) : q[i] = x
    BY <1>2, ListElements
<1> HIDE DEF q
<1>6. \A x : x \in ToSet(s) <=> x \in ToSet(q) \union {Last(s)}
    <2> TAKE x
    <2>1. \A i \in 1..Len(s) : i = Len(s) \/ i \in 1..Len(s) - 1
        <3>1. \A n \in Nat \ {0} : \A i \in 1..n : i = n \/ i \in 1..n - 1
            OBVIOUS
        <3>2. QED BY <1>1, <3>1
    <2>2. \A i \in 1..Len(s) - 1 : i \in 1..Len(s)
        BY <1>1
    <2>3. Len(s) \in 1..Len(s) /\ Len(q) = Len(s) - 1
        BY <1>1, <1>2 DEF q
    <2>4. \A i \in 1..Len(s) - 1 : q[i] = s[i]
        BY <1>2 DEF q
    <2>5. QED BY <1>3, <1>4, <1>5, <2>1, <2>2, <2>3, <2>4
<1>7. QED BY <1>1, <1>2, <1>3, <1>6 DEF q

\* A list of S without repetition, in terms of its positions.
LEMMA ListInjective ==
    ASSUME NEW S, NEW s \in Seq(S)
    PROVE  IsInjective(s) <=> \A i, j \in 1..Len(s) : s[i] = s[j] => i = j
BY DEF IsInjective

\* Putting a thread at the end of a list.
LEMMA ListAppend ==
    ASSUME NEW S, NEW s \in Seq(S), NEW x \in S
    PROVE  /\ Append(s, x) \in Seq(S)
           /\ ToSet(Append(s, x)) = ToSet(s) \union {x}
           /\ IsInjective(s) /\ x \notin ToSet(s) => IsInjective(Append(s, x))
<1> DEFINE t == Append(s, x)
<1>1. /\ t \in Seq(S)
      /\ Len(t) = Len(s) + 1
      /\ \A i \in 1..Len(s) : t[i] = s[i]
      /\ t[Len(s) + 1] = x
    BY AppendProperties
<1>2. \A y : y \in ToSet(t) <=> \E i \in 1..Len(t) : t[i] = y
    BY <1>1, ListElements
<1>3. \A y : y \in ToSet(s) <=> \E i \in 1..Len(s) : s[i] = y
    BY ListElements
<1> HIDE DEF t
<1>4. Len(s) \in Nat
    OBVIOUS
<1>5. \A y : y \in ToSet(t) <=> y \in ToSet(s) \/ y = x
    BY <1>1, <1>2, <1>3, <1>4
<1>6. IsInjective(s) /\ x \notin ToSet(s) => IsInjective(t)
    <2> SUFFICES ASSUME IsInjective(s), x \notin ToSet(s)
                 PROVE  \A i, j \in 1..Len(t) : t[i] = t[j] => i = j
        BY <1>1, ListInjective
    <2>1. \A i, j \in 1..Len(s) : s[i] = s[j] => i = j
        BY ListInjective
    <2>2. \A i \in 1..Len(s) : s[i] # x
        BY <1>3
    <2>3. QED BY <1>1, <1>4, <2>1, <2>2
<1>7. QED BY <1>1, <1>5, <1>6 DEF t

\* Taking the head off a list.
LEMMA ListTail ==
    ASSUME NEW S, NEW s \in Seq(S), s # <<>>
    PROVE  /\ Head(s) \in S
           /\ Tail(s) \in Seq(S)
           /\ ToSet(s) = {Head(s)} \union ToSet(Tail(s))
           /\ IsInjective(s) => /\ IsInjective(Tail(s))
                                /\ Head(s) \notin ToSet(Tail(s))
<1> DEFINE t == Tail(s)
<1>1. /\ t \in Seq(S)
      /\ Len(s) \in Nat \ {0}
      /\ Len(t) = Len(s) - 1
      /\ \A i \in 1..Len(t) : t[i] = s[i + 1]
      /\ Head(s) = s[1]
      /\ s[1] \in S
    OBVIOUS
<1>2. \A y : y \in ToSet(t) <=> \E i \in 1..Len(t) : t[i] = y
    BY <1>1, ListElements
<1>3. \A y : y \in ToSet(s) <=> \E i \in 1..Len(s) : s[i] = y
    BY ListElements
<1> HIDE DEF t
<1>4. \A y : y \in ToSet(s) <=> y = Head(s) \/ y \in ToSet(t)
    <2>1. ASSUME NEW y, y \in ToSet(t) PROVE y \in ToSet(s)
        <3>1. PICK i \in 1..Len(t) : t[i] = y
            BY <1>2, <2>1
        <3>2. i + 1 \in 1..Len(s) /\ s[i + 1] = y
            BY <1>1, <3>1
        <3>3. QED BY <1>3, <3>2
    <2>2. ASSUME NEW y, y \in ToSet(s), y # Head(s) PROVE y \in ToSet(t)
        <3>1. PICK i \in 1..Len(s) : s[i] = y
            BY <1>3, <2>2
        <3>2. i - 1 \in 1..Len(t) /\ (i - 1) + 1 = i
            BY <1>1, <2>2, <3>1
        <3>3. t[i - 1] = y
            BY <1>1, <3>1, <3>2
        <3>4. QED BY <1>2, <3>2, <3>3
    <2>3. Head(s) \in ToSet(s)
        BY <1>1, <1>3
    <2>4. QED BY <2>1, <2>2, <2>3
<1>5. ASSUME IsInjective(s)
      PROVE  IsInjective(t) /\ Head(s) \notin ToSet(t)
    <2>1. \A i, j \in 1..Len(s) : s[i] = s[j] => i = j
        BY <1>5, ListInjective
    <2>2. \A i, j \in 1..Len(t) : t[i] = t[j] => i = j
        <3> SUFFICES ASSUME NEW i \in 1..Len(t), NEW j \in 1..Len(t), t[i] = t[j]
                     PROVE  i = j
            OBVIOUS
        <3>1. i + 1 \in 1..Len(s) /\ j + 1 \in 1..Len(s) /\ s[i + 1] = s[j + 1]
            BY <1>1
        <3>2. i + 1 = j + 1
            BY <2>1, <3>1
        <3>3. QED BY <3>2
    <2>3. Head(s) \notin ToSet(t)
        <3> SUFFICES ASSUME NEW i \in 1..Len(t), t[i] = Head(s) PROVE FALSE
            BY <1>2
        <3>1. i + 1 \in 1..Len(s) /\ 1 \in 1..Len(s) /\ s[i + 1] = s[1]
            BY <1>1
        <3>2. i + 1 = 1
            BY <2>1, <3>1
        <3>3. QED BY <3>2
    <2>4. QED BY <1>1, <2>2, <2>3, ListInjective
<1>6. QED BY <1>1, <1>4, <1>5 DEF t

\* A list of two or more elements has a tail with elements.
LEMMA TailOfLonger ==
    ASSUME NEW S, NEW s \in Seq(S), Len(s) > 1
    PROVE  Tail(s) \in Seq(S) /\ Tail(s) # <<>>
<1> DEFINE t == Tail(s)
<1>1. t \in Seq(S) /\ Len(t) = Len(s) - 1 /\ Len(s) \in Nat
    OBVIOUS
<1> HIDE DEF t
<1>2. t # <<>>
    BY <1>1
<1>3. QED BY <1>1, <1>2 DEF t

\* One list after another.
LEMMA ListConcat ==
    ASSUME NEW S, NEW s \in Seq(S), NEW r \in Seq(S)
    PROVE  /\ s \o r \in Seq(S)
           /\ ToSet(s \o r) = ToSet(s) \union ToSet(r)
           /\ IsInjective(s) /\ IsInjective(r) /\ ToSet(s) \intersect ToSet(r) = {}
                => IsInjective(s \o r)
<1> DEFINE t == s \o r
<1>1. /\ t \in Seq(S)
      /\ Len(s) \in Nat /\ Len(r) \in Nat
      /\ Len(t) = Len(s) + Len(r)
      /\ \A i \in 1..Len(s) : t[i] = s[i]
      /\ \A i \in 1..Len(r) : t[Len(s) + i] = r[i]
    BY ConcatProperties
<1>2. \A y : y \in ToSet(t) <=> \E i \in 1..Len(t) : t[i] = y
    BY <1>1, ListElements
<1>3. \A y : y \in ToSet(s) <=> \E i \in 1..Len(s) : s[i] = y
    BY ListElements
<1>4. \A y : y \in ToSet(r) <=> \E i \in 1..Len(r) : r[i] = y
    BY ListElements
<1> HIDE DEF t
<1>5. \A i \in 1..Len(t) : i \in 1..Len(s) \/ (i - Len(s) \in 1..Len(r)
                                            /\ t[i] = r[i - Len(s)])
    <2> SUFFICES ASSUME NEW i \in 1..Len(t), i \notin 1..Len(s)
                 PROVE  i - Len(s) \in 1..Len(r) /\ t[i] = r[i - Len(s)]
        OBVIOUS
    <2>1. i - Len(s) \in 1..Len(r) /\ Len(s) + (i - Len(s)) = i
        BY <1>1
    <2>2. QED BY <1>1, <2>1
<1>6. ToSet(t) \subseteq ToSet(s) \union ToSet(r)
    BY <1>1, <1>2, <1>3, <1>4, <1>5
<1>7. ToSet(s) \subseteq ToSet(t)
    <2> SUFFICES ASSUME NEW i \in 1..Len(s) PROVE s[i] \in ToSet(t)
        BY <1>3
    <2>1. i \in 1..Len(t) /\ t[i] = s[i]
        BY <1>1
    <2>2. QED BY <1>2, <2>1
<1>8. ToSet(r) \subseteq ToSet(t)
    <2> SUFFICES ASSUME NEW i \in 1..Len(r) PROVE r[i] \in ToSet(t)
        BY <1>4
    <2>1. Len(s) + i \in 1..Len(t) /\ t[Len(s) + i] = r[i]
        BY <1>1
    <2>2. QED BY <1>2, <2>1
<1>9. ASSUME IsInjective(s), IsInjective(r), ToSet(s) \intersect ToSet(r) = {}
      PROVE  IsInjective(t)
    <2>1. \A i, j \in 1..Len(s) : s[i] = s[j] => i = j
        BY <1>9, ListInjective
    <2>2. \A i, j \in 1..Len(r) : r[i] = r[j] => i = j
        BY <1>9, ListInjective
    <2>3. \A i \in 1..Len(s), j \in 1..Len(r) : s[i] # r[j]
        BY <1>3, <1>4, <1>9
    <2>4. SUFFICES ASSUME NEW i \in 1..Len(t), NEW j \in 1..Len(t), t[i] = t[j]
                   PROVE  i = j
        BY <1>1, ListInjective
    <2>5. CASE i \in 1..Len(s) /\ j \in 1..Len(s)
        BY <1>1, <2>1, <2>4, <2>5
    <2>6. CASE i \in 1..Len(s) /\ j \notin 1..Len(s)
        BY <1>1, <1>5, <2>3, <2>4, <2>6
    <2>7. CASE i \notin 1..Len(s) /\ j \in 1..Len(s)
        BY <1>1, <1>5, <2>3, <2>4, <2>7
    <2>8. CASE i \notin 1..Len(s) /\ j \notin 1..Len(s)
        <3>1. i - Len(s) = j - Len(s)
            BY <1>5, <2>2, <2>4, <2>8
        <3>2. QED BY <1>1, <3>1
    <2>9. QED BY <2>5, <2>6, <2>7, <2>8
<1>10. QED BY <1>1, <1>6, <1>7, <1>8, <1>9 DEF t

\* Taking the element at a position out of a list.
LEMMA ListRemoveAt ==
    ASSUME NEW S, NEW s \in Seq(S), NEW k \in 1..Len(s), IsInjective(s)
    PROVE  /\ RemoveAt(s, k) \in Seq(S)
           /\ ToSet(RemoveAt(s, k)) = ToSet(s) \ {s[k]}
           /\ IsInjective(RemoveAt(s, k))
<1> DEFINE a == SubSeq(s, 1, k - 1)
           b == SubSeq(s, k + 1, Len(s))
<1>1. Len(s) \in Nat /\ k \in Nat /\ k >= 1 /\ k <= Len(s)
    OBVIOUS
<1>2. /\ a \in Seq(S)
      /\ Len(a) = k - 1
      /\ \A i \in 1..Len(a) : a[i] = s[i]
    BY <1>1, SubSeqProperties
<1>3. /\ b \in Seq(S)
      /\ Len(b) = Len(s) - k
      /\ \A i \in 1..Len(b) : b[i] = s[k + i]
    BY <1>1, SubSeqProperties
<1>4. RemoveAt(s, k) = a \o b
    BY DEF RemoveAt
<1> HIDE DEF a, b
<1>5. \A y : y \in ToSet(s) <=> \E i \in 1..Len(s) : s[i] = y
    BY ListElements
<1>6. \A y : y \in ToSet(a) <=> \E i \in 1..Len(a) : a[i] = y
    BY <1>2, ListElements
<1>7. \A y : y \in ToSet(b) <=> \E i \in 1..Len(b) : b[i] = y
    BY <1>3, ListElements
<1>8. \A i, j \in 1..Len(s) : s[i] = s[j] => i = j
    BY ListInjective
<1>9. \A y : y \in ToSet(a) <=> \E i \in 1..(k - 1) : s[i] = y
    BY <1>2, <1>6
<1>10. \A y : y \in ToSet(b) <=> \E i \in (k + 1)..Len(s) : s[i] = y
    <2>1. ASSUME NEW i \in 1..Len(b)
          PROVE  k + i \in (k + 1)..Len(s) /\ b[i] = s[k + i]
        BY <1>1, <1>3
    <2>2. ASSUME NEW i \in (k + 1)..Len(s)
          PROVE  i - k \in 1..Len(b) /\ b[i - k] = s[i]
        <3>1. i - k \in 1..Len(b) /\ k + (i - k) = i
            BY <1>1, <1>3
        <3>2. QED BY <1>3, <3>1
    <2>3. ASSUME NEW y, y \in ToSet(b) PROVE \E i \in (k + 1)..Len(s) : s[i] = y
        <3>1. PICK i \in 1..Len(b) : b[i] = y
            BY <1>7, <2>3
        <3>2. k + i \in (k + 1)..Len(s) /\ s[k + i] = y
            BY <2>1, <3>1
        <3>3. QED BY <3>2
    <2>4. ASSUME NEW i \in (k + 1)..Len(s) PROVE s[i] \in ToSet(b)
        BY <1>7, <2>2
    <2>5. QED BY <2>3, <2>4
<1>11. ToSet(a) \union ToSet(b) = ToSet(s) \ {s[k]}
    BY <1>1, <1>5, <1>8, <1>9, <1>10
<1>12. ToSet(a) \intersect ToSet(b) = {}
    BY <1>1, <1>8, <1>9, <1>10
<1>13. IsInjective(a)
    BY <1>1, <1>2, <1>8, ListInjective
<1>14. IsInjective(b)
    <2>1. SUFFICES ASSUME NEW i \in 1..Len(b), NEW j \in 1..Len(b), b[i] = b[j]
                   PROVE  i = j
        BY <1>3, ListInjective
    <2>2. k + i \in 1..Len(s) /\ k + j \in 1..Len(s) /\ s[k + i] = s[k + j]
        BY <1>1, <1>3, <2>1
    <2>3. k + i = k + j
        BY <1>8, <2>2
    <2>4. QED BY <1>1, <2>3
<1>15. QED BY <1>2, <1>3, <1>4, <1>11, <1>12, <1>13, <1>14, ListConcat

\* Turning a circular list so that it begins at position k.
LEMMA ListRotate ==
    ASSUME NEW S, NEW s \in Seq(S), NEW k \in 1..Len(s), IsInjective(s)
    PROVE  LET r == SubSeq(s, k, Len(s)) \o SubSeq(s, 1, k - 1)
           IN  r \in Seq(S) /\ ToSet(r) = ToSet(s) /\ IsInjective(r)
<1> DEFINE a == SubSeq(s, k, Len(s))
           b == SubSeq(s, 1, k - 1)
<1>1. Len(s) \in Nat /\ k \in Nat /\ k >= 1 /\ k <= Len(s)
    OBVIOUS
<1>2. /\ a \in Seq(S)
      /\ Len(a) = Len(s) - k + 1
      /\ \A i \in 1..Len(a) : a[i] = s[k + i - 1]
    BY <1>1, SubSeqProperties
<1>3. /\ b \in Seq(S)
      /\ Len(b) = k - 1
      /\ \A i \in 1..Len(b) : b[i] = s[i]
    BY <1>1, SubSeqProperties
<1> HIDE DEF a, b
<1>4. \A y : y \in ToSet(s) <=> \E i \in 1..Len(s) : s[i] = y
    BY ListElements
<1>5. \A y : y \in ToSet(a) <=> \E i \in k..Len(s) : s[i] = y
    <2>1. \A y : y \in ToSet(a) <=> \E i \in 1..Len(a) : a[i] = y
        BY <1>2, ListElements
    <2>2. ASSUME NEW i \in 1..Len(a)
          PROVE  k + i - 1 \in k..Len(s) /\ a[i] = s[k + i - 1]
        BY <1>1, <1>2
    <2>3. ASSUME NEW i \in k..Len(s)
          PROVE  i - k + 1 \in 1..Len(a) /\ a[i - k + 1] = s[i]
        <3>1. i - k + 1 \in 1..Len(a) /\ k + (i - k + 1) - 1 = i
            BY <1>1, <1>2
        <3>2. QED BY <1>2, <3>1
    <2>4. ASSUME NEW y, y \in ToSet(a) PROVE \E i \in k..Len(s) : s[i] = y
        <3>1. PICK i \in 1..Len(a) : a[i] = y
            BY <2>1, <2>4
        <3>2. k + i - 1 \in k..Len(s) /\ s[k + i - 1] = y
            BY <2>2, <3>1
        <3>3. QED BY <3>2
    <2>5. ASSUME NEW i \in k..Len(s) PROVE s[i] \in ToSet(a)
        BY <2>1, <2>3
    <2>6. QED BY <2>4, <2>5
<1>6. \A y : y \in ToSet(b) <=> \E i \in 1..(k - 1) : s[i] = y
    <2>1. \A y : y \in ToSet(b) <=> \E i \in 1..Len(b) : b[i] = y
        BY <1>3, ListElements
    <2>2. QED BY <1>3, <2>1
<1>7. \A i, j \in 1..Len(s) : s[i] = s[j] => i = j
    BY ListInjective
<1>8. ToSet(a) \union ToSet(b) = ToSet(s)
    BY <1>1, <1>4, <1>5, <1>6
<1>9. ToSet(a) \intersect ToSet(b) = {}
    BY <1>1, <1>5, <1>6, <1>7
<1>10. IsInjective(a)
    <2>1. SUFFICES ASSUME NEW i \in 1..Len(a), NEW j \in 1..Len(a), a[i] = a[j]
                   PROVE  i = j
        BY <1>2, ListInjective
    <2>2. /\ k + i - 1 \in 1..Len(s) /\ k + j - 1 \in 1..Len(s)
          /\ s[k + i - 1] = s[k + j - 1]
        BY <1>1, <1>2, <2>1
    <2>3. k + i - 1 = k + j - 1
        BY <1>7, <2>2
    <2>4. QED BY <1>1, <2>3
<1>11. IsInjective(b)
    BY <1>1, <1>3, <1>7, ListInjective
<1>12. a \in Seq(S) /\ b \in Seq(S)
    BY <1>2, <1>3
<1>13. a \o b \in Seq(S) /\ ToSet(a \o b) = ToSet(a) \union ToSet(b)
    BY <1>12, ListConcat
<1>14. IsInjective(a \o b)
    BY <1>9, <1>10, <1>11, <1>12, ListConcat
<1>15. QED BY <1>8, <1>13, <1>14 DEF a, b

\* A set of numbers has a smallest one.
LEMMA SmallestOfNat ==
    ASSUME NEW S, S \subseteq Nat, S # {}
    PROVE  \E x \in S : \A y \in S : x <= y
<1>1. PICK x \in S : \A y \in S : ~(<<y, x>> \in OpToRel(<, Nat))
    BY NatLessThanWellFounded, WFMin, Zenon
<1>2. \A y \in S : ~(y < x)
    BY <1>1 DEF OpToRel
<1>3. QED BY <1>2

-----------------------------------------------------------------------------
(* Recursion: that the function of a recursive definition exists, and         *)
(* induction along it.                                                      *)

\* Induction up to n, over a set that stands for the induction hypothesis.
LEMMA StepByStep ==
    ASSUME NEW n \in Nat, NEW S, 0 \in S, \A i \in 1..n : i - 1 \in S => i \in S
    PROVE  0..n \subseteq S
<1> DEFINE bad == {i \in 0..n : i \notin S}
<1>1. SUFFICES ASSUME bad # {} PROVE FALSE
    OBVIOUS
<1>2. bad \subseteq Nat
    OBVIOUS
<1>3. PICK x \in bad : \A y \in bad : x <= y
    <2> HIDE DEF bad
    <2>1. QED BY <1>1, <1>2, SmallestOfNat
<1>4. x \in 1..n /\ x - 1 \in 0..n
    BY <1>3
<1>5. x - 1 \notin bad
    BY <1>3, <1>4
<1>6. QED BY <1>3, <1>4, <1>5

\* A step that is repeated n times.
RepeatOf(h, base, n, F) == h = [i \in 0..n |-> IF i = 0 THEN base ELSE F[h[i - 1]]]

LEMMA RepeatExists ==
    ASSUME NEW V, NEW base \in V, NEW n \in Nat, NEW F \in [V -> V]
    PROVE  \E h \in [0..n -> V] : RepeatOf(h, base, n, F)
<1> DEFINE P(m, h) == h = [i \in 0..m |-> IF i = 0 THEN base ELSE F[h[i - 1]]]
           S == {m \in 0..n : \E h \in [0..m -> V] : P(m, h)}
<1>1. 0 \in S
    <2> DEFINE h == [i \in 0..0 |-> base]
    <2>1. h \in [0..0 -> V] /\ P(0, h)
        OBVIOUS
    <2>2. 0 \in 0..n
        OBVIOUS
    <2> HIDE DEF h
    <2>3. QED BY <2>1, <2>2
<1>2. ASSUME NEW i \in 1..n, i - 1 \in S PROVE i \in S
    <2>1. PICK h \in [0..(i - 1) -> V] : P(i - 1, h)
        BY <1>2
    <2> DEFINE g == [j \in 0..i |-> IF j = i THEN F[h[i - 1]] ELSE h[j]]
    <2>2. i - 1 \in 0..(i - 1) /\ i # 0 /\ i - 1 # i
        OBVIOUS
    <2>3. F[h[i - 1]] \in V
        BY <2>2
    <2>4. g \in [0..i -> V]
        BY <2>3
    <2>5. \A j \in 0..i : g[j] = IF j = 0 THEN base ELSE F[g[j - 1]]
        <3> SUFFICES ASSUME NEW j \in 0..i
                     PROVE  g[j] = IF j = 0 THEN base ELSE F[g[j - 1]]
            OBVIOUS
        <3>1. CASE j = i
            <4>1. j - 1 \in 0..i /\ j - 1 # i /\ j # 0
                BY <3>1
            <4>2. g[j - 1] = h[j - 1]
                BY <4>1
            <4>3. QED BY <3>1, <4>1, <4>2
        <3>2. CASE j # i
            <4>1. j \in 0..(i - 1)
                BY <3>2
            <4>2. h[j] = IF j = 0 THEN base ELSE F[h[j - 1]]
                BY <2>1, <4>1
            <4>3. g[j] = h[j]
                BY <3>2
            <4>4. j # 0 => j - 1 \in 0..i /\ j - 1 # i
                BY <4>1
            <4>5. j # 0 => g[j - 1] = h[j - 1]
                BY <4>4
            <4>6. QED BY <4>2, <4>3, <4>5
        <3>3. QED BY <3>1, <3>2
    <2> HIDE DEF g
    <2>6. g = [j \in 0..i |-> IF j = 0 THEN base ELSE F[g[j - 1]]]
        BY <2>4, <2>5
    <2>7. QED BY <2>4, <2>6
<1> HIDE DEF S
<1>3. n \in S
    <2>1. 0..n \subseteq S
        BY <1>1, <1>2, StepByStep
    <2>2. QED BY <2>1
<1>4. PICK h \in [0..n -> V] : P(n, h)
    BY <1>3 DEF S
<1>5. RepeatOf(h, base, n, F)
    BY <1>4 DEF RepeatOf
<1>6. QED BY <1>5

\* The greatest of some of the numbers up to n.
LEMMA MaxUpTo ==
    ASSUME NEW n \in Nat, NEW s \in SUBSET (1..n), s # {}
    PROVE  Max(s) \in s /\ \A x \in s : x <= Max(s)
<1> DEFINE T == {n - x : x \in s}
<1>1. T \subseteq Nat /\ T # {}
    OBVIOUS
<1>2. PICK y \in T : \A z \in T : y <= z
    <2> HIDE DEF T
    <2>1. QED BY <1>1, SmallestOfNat
<1>3. PICK x \in s : y = n - x
    OBVIOUS
<1>4. \A z \in s : x >= z
    <2> SUFFICES ASSUME NEW z \in s PROVE x >= z
        OBVIOUS
    <2>1. n - z \in T /\ x \in Nat /\ z \in Nat
        OBVIOUS
    <2>2. QED BY <1>2, <1>3, <2>1
<1>5. \E m \in s : \A z \in s : m >= z
    BY <1>4
<1> DEFINE m == Max(s)
<1>6. m \in s /\ \A z \in s : m >= z
    BY <1>5 DEF Max
<1> HIDE DEF m
<1>7. QED
    <2>1. m \in Nat /\ \A z \in s : z \in Nat
        BY <1>6
    <2>2. m \in s /\ \A z \in s : z <= m
        BY <1>6, <2>1
    <2>3. QED BY <2>2 DEF m

LEMMA MaxOfInterval ==
    ASSUME NEW n \in Nat, NEW m \in 1..n
    PROVE  1..m # {} /\ Max(1..m) = m /\ (1..m) \ {m} = 1..(m - 1)
<1>1. 1..m \in SUBSET (1..n) /\ m \in 1..m
    OBVIOUS
<1> DEFINE x == Max(1..m)
<1>2. x \in 1..m /\ \A y \in 1..m : y <= x
    BY <1>1, MaxUpTo
<1> HIDE DEF x
<1>3. x = m
    BY <1>1, <1>2
<1>4. QED BY <1>1, <1>3 DEF x

\* A fold over n elements, of which the last is applied last: what it makes of
\* each set of them.
FoldOf(h, base, n, F) ==
    \A s \in SUBSET (1..n) :
       h[s] = IF s = {} THEN base ELSE F[<<h[s \ {Max(s)}], Max(s)>>]

LEMMA FoldExists ==
    ASSUME NEW V, NEW base \in V, NEW n \in Nat, NEW F \in [V \X (1..n) -> V]
    PROVE  \E h \in [SUBSET (1..n) -> V] : FoldOf(h, base, n, F)
<1> DEFINE P(m, h) == \A s \in SUBSET (1..m) :
                         h[s] = IF s = {} THEN base ELSE F[<<h[s \ {Max(s)}], Max(s)>>]
           S == {m \in 0..n : \E h \in [SUBSET (1..m) -> V] : P(m, h)}
<1>1. 0 \in S
    <2> DEFINE h == [s \in SUBSET (1..0) |-> base]
    <2>1. \A s \in SUBSET (1..0) : s = {}
        OBVIOUS
    <2>2. h \in [SUBSET (1..0) -> V]
        OBVIOUS
    <2>3. P(0, h)
        BY <2>1
    <2>4. 0 \in 0..n
        OBVIOUS
    <2> HIDE DEF h, P
    <2>5. QED BY <2>2, <2>3, <2>4
<1>2. ASSUME NEW i \in 1..n, i - 1 \in S PROVE i \in S
    <2>1. PICK h \in [SUBSET (1..(i - 1)) -> V] : P(i - 1, h)
        BY <1>2
    <2> DEFINE g == [s \in SUBSET (1..i) |->
                       IF i \in s THEN F[<<h[s \ {i}], i>>] ELSE h[s]]
    <2>2. ASSUME NEW s \in SUBSET (1..i), i \in s
          PROVE  /\ s \ {i} \in SUBSET (1..(i - 1)) /\ s # {} /\ Max(s) = i
                 /\ g[s \ {i}] = h[s \ {i}]
        <3>1. s \ {i} \in SUBSET (1..(i - 1))
            OBVIOUS
        <3>2. s \ {i} \in SUBSET (1..i) /\ i \notin s \ {i}
            OBVIOUS
        <3>3. g[s \ {i}] = h[s \ {i}]
            BY <3>2
        <3> DEFINE x == Max(s)
        <3>4. s # {} /\ x \in s /\ \A y \in s : y <= x
            <4>1. i \in Nat /\ s # {}
                BY <2>2
            <4>2. QED BY <4>1, MaxUpTo
        <3> HIDE DEF x
        <3>5. x = i
            BY <2>2, <3>4
        <3>6. QED BY <3>1, <3>3, <3>4, <3>5 DEF x
    <2>3. ASSUME NEW s \in SUBSET (1..i), i \notin s
          PROVE  /\ s \in SUBSET (1..(i - 1)) /\ g[s] = h[s]
                 /\ s # {} => g[s \ {Max(s)}] = h[s \ {Max(s)}]
        <3>1. s \in SUBSET (1..(i - 1))
            BY <2>3
        <3>2. \A r \in SUBSET s : i \notin r /\ r \in SUBSET (1..i)
            BY <2>3
        <3>3. \A r \in SUBSET s : g[r] = h[r]
            BY <3>2
        <3>4. s \ {Max(s)} \in SUBSET s
            OBVIOUS
        <3> HIDE DEF g
        <3>5. QED BY <3>1, <3>3, <3>4
    <2>4. g \in [SUBSET (1..i) -> V]
        <3> SUFFICES ASSUME NEW s \in SUBSET (1..i)
                     PROVE  (IF i \in s THEN F[<<h[s \ {i}], i>>] ELSE h[s]) \in V
            OBVIOUS
        <3>1. CASE i \in s
            <4>1. h[s \ {i}] \in V
                BY <3>1, <2>2
            <4>2. QED BY <3>1, <4>1
        <3>2. CASE i \notin s
            <4>1. h[s] \in V
                BY <3>2, <2>3
            <4>2. QED BY <3>2, <4>1
        <3>3. QED BY <3>1, <3>2
    <2>5. P(i, g)
        <3> SUFFICES ASSUME NEW s \in SUBSET (1..i)
                     PROVE  g[s] = IF s = {} THEN base ELSE F[<<g[s \ {Max(s)}], Max(s)>>]
            OBVIOUS
        <3>1. CASE i \in s
            <4>1. g[s] = F[<<h[s \ {i}], i>>]
                BY <3>1
            <4> HIDE DEF g
            <4>2. QED BY <3>1, <2>2, <4>1
        <3>2. CASE i \notin s
            <4>1. h[s] = IF s = {} THEN base ELSE F[<<h[s \ {Max(s)}], Max(s)>>]
                BY <2>1, <2>3, <3>2
            <4> HIDE DEF g
            <4>2. QED BY <2>3, <3>2, <4>1
        <3>3. QED BY <3>1, <3>2
    <2> HIDE DEF g, P
    <2>6. QED BY <2>4, <2>5
<1>3. n \in S
    <2> HIDE DEF S
    <2>1. 0..n \subseteq S
        BY <1>1, <1>2, StepByStep
    <2>2. QED BY <2>1
<1>4. PICK h \in [SUBSET (1..n) -> V] : P(n, h)
    BY <1>3
<1>5. FoldOf(h, base, n, F)
    BY <1>4 DEF FoldOf
<1>6. QED BY <1>5
-----------------------------------------------------------------------------
(* Lists of numbers, the greatest first.                                    *)

Decreasing(s) == \A i, j \in 1..Len(s) : i < j => s[i] > s[j]

LEMMA DecreasingConcat ==
    ASSUME NEW s \in Seq(Nat), NEW t \in Seq(Nat), Decreasing(s), Decreasing(t),
           \A x \in ToSet(s), y \in ToSet(t) : x > y
    PROVE  Decreasing(s \o t)
<1> DEFINE u == s \o t
<1>1. /\ Len(u) = Len(s) + Len(t) /\ Len(s) \in Nat /\ Len(t) \in Nat
      /\ \A i \in 1..Len(u) : u[i] = IF i <= Len(s) THEN s[i] ELSE t[i - Len(s)]
    BY ConcatProperties
<1>2. /\ \A i \in 1..Len(s) : s[i] \in ToSet(s) /\ s[i] \in Nat
      /\ \A i \in 1..Len(t) : t[i] \in ToSet(t) /\ t[i] \in Nat
    <2>1. \A i \in 1..Len(s) : s[i] \in Nat /\ i \in DOMAIN s
        OBVIOUS
    <2>2. \A i \in 1..Len(t) : t[i] \in Nat /\ i \in DOMAIN t
        OBVIOUS
    <2>3. QED BY <2>1, <2>2 DEF ToSet
<1> HIDE DEF u
<1>3. ASSUME NEW i \in 1..Len(u), NEW j \in 1..Len(u), i < j PROVE u[i] > u[j]
    <2>1. CASE j <= Len(s)
        <3>1. i \in 1..Len(s) /\ j \in 1..Len(s) /\ u[i] = s[i] /\ u[j] = s[j]
            BY <1>1, <1>3, <2>1
        <3>2. QED BY <1>3, <3>1 DEF Decreasing
    <2>2. CASE i > Len(s)
        <3>1. /\ i - Len(s) \in 1..Len(t) /\ j - Len(s) \in 1..Len(t) /\ i - Len(s) < j - Len(s)
              /\ u[i] = t[i - Len(s)] /\ u[j] = t[j - Len(s)]
            BY <1>1, <1>3, <2>2
        <3>2. QED BY <3>1 DEF Decreasing
    <2>3. CASE i <= Len(s) /\ j > Len(s)
        <3>1. i \in 1..Len(s) /\ j - Len(s) \in 1..Len(t) /\ u[i] = s[i] /\ u[j] = t[j - Len(s)]
            BY <1>1, <1>3, <2>3
        <3>2. QED BY <1>2, <3>1
    <2>4. QED BY <1>1, <1>3, <2>1, <2>2, <2>3
<1>4. QED BY <1>3 DEF Decreasing, u

\* The beginning and the rest of a list.
LEMMA ListSplit ==
    ASSUME NEW S, NEW s \in Seq(S), NEW n \in 0..Len(s)
    PROVE  LET a == SubSeq(s, 1, n)  b == SubSeq(s, n + 1, Len(s))
           IN  /\ a \in Seq(S) /\ b \in Seq(S) /\ Len(a) = n /\ Len(b) = Len(s) - n
               /\ \A i \in 1..n : a[i] = s[i]
               /\ \A i \in 1..Len(s) - n : b[i] = s[n + i]
               /\ \A x : x \in ToSet(a) <=> \E i \in 1..n : s[i] = x
               /\ \A x : x \in ToSet(b) <=> \E i \in n + 1..Len(s) : s[i] = x
<1> DEFINE a == SubSeq(s, 1, n)
           b == SubSeq(s, n + 1, Len(s))
           m == Len(s)
<1>1. m \in Nat /\ n \in Nat /\ n <= m
    OBVIOUS
<1>2. a \in Seq(S) /\ Len(a) = n /\ \A i \in 1..n : a[i] = s[i]
    OBVIOUS
<1>3. b \in Seq(S) /\ Len(b) = m - n /\ \A i \in 1..m - n : b[i] = s[n + i]
    OBVIOUS
<1>4. \A x : x \in ToSet(a) <=> \E i \in 1..Len(a) : a[i] = x
    BY <1>2, ListElements
<1>5. \A x : x \in ToSet(b) <=> \E i \in 1..Len(b) : b[i] = x
    <2>1. b \in Seq(S)
        BY <1>3
    <2> HIDE DEF b
    <2>2. QED BY <2>1, ListElements
<1> HIDE DEF a, b, m
<1>6. \A x : x \in ToSet(a) <=> \E i \in 1..n : s[i] = x
    BY <1>2, <1>4
<1>7. \A x : x \in ToSet(b) <=> \E i \in n + 1..m : s[i] = x
    <2>1. \A i \in 1..m - n : n + i \in n + 1..m
        BY <1>1
    <2>2. \A i \in n + 1..m : i - n \in 1..m - n /\ n + (i - n) = i
        BY <1>1
    <2>3. QED BY <1>3, <1>5, <2>1, <2>2
<1>8. QED BY <1>2, <1>3, <1>6, <1>7 DEF a, b, m

LEMMA DecreasingSplit ==
    ASSUME NEW s \in Seq(Nat), NEW n \in 0..Len(s), Decreasing(s)
    PROVE  LET a == SubSeq(s, 1, n)  b == SubSeq(s, n + 1, Len(s))
           IN  Decreasing(a) /\ Decreasing(b)
<1> DEFINE a == SubSeq(s, 1, n)
           b == SubSeq(s, n + 1, Len(s))
           m == Len(s)
<1>1. m \in Nat /\ n \in Nat /\ n <= m
    OBVIOUS
<1>2. Len(a) = n /\ \A i \in 1..n : a[i] = s[i]
    BY ListSplit
<1>3. Len(b) = m - n /\ \A i \in 1..m - n : b[i] = s[n + i]
    BY ListSplit
<1> HIDE DEF a, b
<1>4. \A i \in 1..n : i \in 1..Len(s)
    BY <1>1 DEF m
<1>5. Decreasing(a)
    BY <1>2, <1>4 DEF Decreasing
<1>6. Decreasing(b)
    <2> SUFFICES ASSUME NEW i \in 1..Len(b), NEW j \in 1..Len(b), i < j PROVE b[i] > b[j]
        BY DEF Decreasing
    <2>1. /\ n + i \in 1..m /\ n + j \in 1..m /\ n + i < n + j
          /\ b[i] = s[n + i] /\ b[j] = s[n + j]
        BY <1>1, <1>3
    <2>2. QED BY <2>1 DEF Decreasing, m
<1>7. QED BY <1>5, <1>6 DEF a, b
===============================================================================
