----------------------------- MODULE ListProofs -----------------------------
(***************************************************************************)
(* Lemmas about the lists of Lists: what linking and unlinking a node does *)
(* to the elements of a list, to their order and to their being distinct;  *)
(* and about the places of a ring.                                         *)
(***************************************************************************)
EXTENDS Lists, SequenceTheorems, WellFoundedInduction, TLAPS

\* The elements of a sequence, by position.
LEMMA InToSet ==
  ASSUME NEW T, NEW s \in Seq(T), NEW x
  PROVE  x \in ToSet(s) <=> \E i \in 1 .. Len(s) : x = s[i]
<1>1. DOMAIN s = 1 .. Len(s) OBVIOUS
<1> QED BY <1>1, Zenon DEF ToSet

\* A list has elements exactly when it is not empty.
LEMMA EmptyList ==
  ASSUME NEW T, NEW s \in Seq(T)
  PROVE  /\ ToSet(s) \subseteq T
         /\ s = <<>> <=> ToSet(s) = {}
         /\ s # <<>> => Head(s) \in ToSet(s)
<1>1. \A x : x \in ToSet(s) <=> \E i \in 1 .. Len(s) : x = s[i] BY InToSet
<1>2. s # <<>> => 1 \in 1 .. Len(s) /\ Head(s) = s[1] OBVIOUS
<1>3. s = <<>> => Len(s) = 0 OBVIOUS
<1> QED BY <1>1, <1>2, <1>3

\* NoDup by position.
LEMMA NoDupByIndex ==
  ASSUME NEW T, NEW s \in Seq(T)
  PROVE  NoDup(s) <=> \A i, j \in 1 .. Len(s) : s[i] = s[j] => i = j
<1>1. DOMAIN s = 1 .. Len(s) OBVIOUS
<1> QED BY <1>1, Zenon DEF NoDup

\* rt_list_insert_before(head, node): link at the end of a list.
LEMMA AppendList ==
  ASSUME NEW T, NEW s \in Seq(T), NEW t \in T
  PROVE  /\ Append(s, t) \in Seq(T)
         /\ Append(s, t) # <<>>
         /\ ToSet(Append(s, t)) = ToSet(s) \cup {t}
         /\ NoDup(s) /\ t \notin ToSet(s) => NoDup(Append(s, t))
<1> DEFINE a == Append(s, t)
<1>1. a \in Seq(T) /\ Len(a) = Len(s) + 1 /\ a # <<>> BY AppendProperties
<1>2. a[Len(s) + 1] = t /\ \A i \in 1 .. Len(s) : a[i] = s[i] OBVIOUS
<1>3. Len(s) \in Nat OBVIOUS
<1> HIDE DEF a
<1>4. \A x : x \in ToSet(a) <=> \E i \in 1 .. Len(s) + 1 : x = a[i] BY <1>1, InToSet
<1>5. \A x : x \in ToSet(s) <=> \E i \in 1 .. Len(s) : x = s[i] BY InToSet
<1>6. ASSUME NEW x PROVE x \in ToSet(a) <=> x \in ToSet(s) \cup {t}
  BY <1>2, <1>3, <1>4, <1>5
<1>7. ToSet(a) = ToSet(s) \cup {t} BY <1>6, Zenon
<1>8. ASSUME NoDup(s), t \notin ToSet(s) PROVE NoDup(a)
  <2>1. \A i, j \in 1 .. Len(s) : s[i] = s[j] => i = j BY <1>8, NoDupByIndex
  <2>2. \A i \in 1 .. Len(s) : s[i] # t BY <1>5, <1>8
  <2>3. \A i, j \in 1 .. Len(s) + 1 : a[i] = a[j] => i = j BY <1>2, <1>3, <2>1, <2>2
  <2> QED BY <1>1, <2>3, NoDupByIndex
<1> QED BY <1>1, <1>7, <1>8 DEF a

\* rt_list_insert_after(head, node): link at the front of a list.
LEMMA PrependList ==
  ASSUME NEW T, NEW s \in Seq(T), NEW t \in T
  PROVE  /\ <<t>> \o s \in Seq(T)
         /\ ToSet(<<t>> \o s) = ToSet(s) \cup {t}
         /\ NoDup(s) /\ t \notin ToSet(s) => NoDup(<<t>> \o s)
<1> DEFINE a == <<t>> \o s
<1>1. a \in Seq(T) /\ Len(a) = Len(s) + 1 OBVIOUS
<1>2. a[1] = t /\ \A i \in 2 .. Len(s) + 1 : a[i] = s[i - 1] OBVIOUS
<1>3. Len(s) \in Nat OBVIOUS
<1> HIDE DEF a
<1>4. \A x : x \in ToSet(a) <=> \E i \in 1 .. Len(s) + 1 : x = a[i] BY <1>1, InToSet
<1>5. \A x : x \in ToSet(s) <=> \E i \in 1 .. Len(s) : x = s[i] BY InToSet
<1>6. ASSUME NEW x PROVE x \in ToSet(a) <=> x \in ToSet(s) \cup {t}
  <2>1. ASSUME NEW i \in 1 .. Len(s), x = s[i] PROVE x \in ToSet(a)
    <3>1. i + 1 \in 2 .. Len(s) + 1 /\ (i + 1) - 1 = i BY <1>3
    <3> QED BY <1>2, <1>4, <2>1, <3>1
  <2>2. t \in ToSet(a) BY <1>2, <1>3, <1>4
  <2>3. ASSUME NEW i \in 1 .. Len(s) + 1, x = a[i] PROVE x \in ToSet(s) \cup {t}
    <3>1. CASE i = 1 BY <1>2, <2>3, <3>1
    <3>2. CASE i # 1
      <4>1. i \in 2 .. Len(s) + 1 /\ i - 1 \in 1 .. Len(s) BY <1>3, <3>2
      <4> QED BY <1>2, <1>5, <2>3, <4>1
    <3> QED BY <3>1, <3>2
  <2> QED BY <1>4, <1>5, <2>1, <2>2, <2>3
<1>7. ToSet(a) = ToSet(s) \cup {t} BY <1>6, Zenon
<1>8. ASSUME NoDup(s), t \notin ToSet(s) PROVE NoDup(a)
  <2>1. \A i, j \in 1 .. Len(s) : s[i] = s[j] => i = j BY <1>8, NoDupByIndex
  <2>2. \A i \in 1 .. Len(s) : s[i] # t BY <1>5, <1>8
  <2>3. \A i, j \in 1 .. Len(s) + 1 : a[i] = a[j] => i = j BY <1>2, <1>3, <2>1, <2>2
  <2> QED BY <1>1, <2>3, NoDupByIndex
<1> QED BY <1>1, <1>7, <1>8 DEF a

\* RemoveAt by position.
LEMMA RemoveAtIndex ==
  ASSUME NEW T, NEW s \in Seq(T), NEW n \in 1 .. Len(s)
  PROVE  /\ RemoveAt(s, n) \in Seq(T)
         /\ Len(RemoveAt(s, n)) = Len(s) - 1
         /\ \A j \in 1 .. Len(s) - 1 :
              RemoveAt(s, n)[j] = IF j < n THEN s[j] ELSE s[j + 1]
<1> DEFINE a == SubSeq(s, 1, n - 1)
           b == SubSeq(s, n + 1, Len(s))
<1>1. a \in Seq(T) /\ Len(a) = n - 1 /\ \A j \in 1 .. n - 1 : a[j] = s[j]
  BY SubSeqProperties
<1>2. b \in Seq(T) /\ Len(b) = Len(s) - n /\ \A j \in 1 .. Len(s) - n : b[j] = s[j + n]
  BY SubSeqProperties
<1> HIDE DEF a, b
<1>3. a \o b \in Seq(T) /\ Len(a \o b) = Len(a) + Len(b) BY <1>1, <1>2, ConcatProperties
<1>4. \A j \in 1 .. Len(s) - 1 : (a \o b)[j] = IF j < n THEN s[j] ELSE s[j + 1]
  BY <1>1, <1>2
<1>5. Len(a) + Len(b) = Len(s) - 1 BY <1>1, <1>2
<1> QED BY <1>3, <1>4, <1>5 DEF RemoveAt, a, b

\* rt_list_remove on the list the node is on, or on another one.
LEMMA UnlinkList ==
  ASSUME NEW T, NEW s \in Seq(T), NEW t, NoDup(s)
  PROVE  /\ Unlink(s, t) \in Seq(T)
         /\ ToSet(Unlink(s, t)) = ToSet(s) \ {t}
         /\ NoDup(Unlink(s, t))
<1>1. CASE t \notin ToSet(s) BY <1>1 DEF Unlink
<1>2. CASE t \in ToSet(s)
  <2> DEFINE n == CHOOSE i \in 1 .. Len(s) : s[i] = t
             a == RemoveAt(s, n)
  <2>1. \A x : x \in ToSet(s) <=> \E i \in 1 .. Len(s) : x = s[i] BY InToSet
  <2>2. n \in 1 .. Len(s) /\ s[n] = t BY <1>2, <2>1
  <2> HIDE DEF n
  <2>3. /\ a \in Seq(T) /\ Len(a) = Len(s) - 1
        /\ \A j \in 1 .. Len(s) - 1 : a[j] = IF j < n THEN s[j] ELSE s[j + 1]
    BY <2>2, RemoveAtIndex
  <2>4. \A i, j \in 1 .. Len(s) : s[i] = s[j] => i = j BY NoDupByIndex
  <2>5. Unlink(s, t) = a BY <1>2 DEF Unlink, n
  <2> HIDE DEF a
  <2>6. \A x : x \in ToSet(a) <=> \E i \in 1 .. Len(s) - 1 : x = a[i] BY <2>3, InToSet
  <2>7. ASSUME NEW x PROVE x \in ToSet(a) <=> x \in ToSet(s) \ {t}
    <3>1. ASSUME NEW j \in 1 .. Len(s) - 1, x = a[j] PROVE x \in ToSet(s) \ {t}
      BY <2>1, <2>2, <2>3, <2>4, <3>1
    <3>2. ASSUME NEW i \in 1 .. Len(s), x = s[i], x # t PROVE x \in ToSet(a)
      <4>1. CASE i < n
        <5>1. i \in 1 .. Len(s) - 1 /\ a[i] = s[i] BY <2>2, <2>3, <4>1
        <5> QED BY <2>6, <3>2, <5>1
      <4>2. CASE i > n
        <5>1. i - 1 \in 1 .. Len(s) - 1 /\ a[i - 1] = s[i] BY <2>2, <2>3, <4>2
        <5> QED BY <2>6, <3>2, <5>1
      <4> QED BY <2>2, <3>2, <4>1, <4>2
    <3> QED BY <2>1, <2>6, <3>1, <3>2
  <2>8. ToSet(a) = ToSet(s) \ {t} BY <2>7, Zenon
  <2>9. ASSUME NEW i \in 1 .. Len(s) - 1, NEW j \in 1 .. Len(s) - 1, a[i] = a[j]
        PROVE  i = j
    <3> DEFINE u == IF i < n THEN i ELSE i + 1
               v == IF j < n THEN j ELSE j + 1
    <3>1. u \in 1 .. Len(s) /\ v \in 1 .. Len(s) BY <2>2
    <3>2. a[i] = s[u] /\ a[j] = s[v] BY <2>3
    <3>3. u = v BY <2>4, <2>9, <3>1, <3>2
    <3> QED BY <2>2, <3>3
  <2>10. NoDup(a) BY <2>3, <2>9, NoDupByIndex
  <2> QED BY <2>3, <2>5, <2>8, <2>10
<1> QED BY <1>1, <1>2

\* InsertAt by position.
LEMMA InsertAtList ==
  ASSUME NEW T, NEW s \in Seq(T), NEW n \in 1 .. Len(s), NEW t \in T
  PROVE  /\ InsertAt(s, n, t) \in Seq(T)
         /\ Len(InsertAt(s, n, t)) = Len(s) + 1
         /\ \A j \in 1 .. Len(s) + 1 :
              InsertAt(s, n, t)[j] = IF j < n THEN s[j] ELSE IF j = n THEN t ELSE s[j - 1]
         /\ ToSet(InsertAt(s, n, t)) = ToSet(s) \cup {t}
         /\ NoDup(s) /\ t \notin ToSet(s) => NoDup(InsertAt(s, n, t))
<1> DEFINE a == SubSeq(s, 1, n - 1)
           b == SubSeq(s, n, Len(s))
           m == a \o <<t>>
           r == m \o b
<1>1. a \in Seq(T) /\ Len(a) = n - 1 /\ \A j \in 1 .. n - 1 : a[j] = s[j]
  BY SubSeqProperties
<1>2. b \in Seq(T) /\ Len(b) = Len(s) - n + 1
      /\ \A j \in 1 .. Len(s) - n + 1 : b[j] = s[n + j - 1]
  BY SubSeqProperties
<1> HIDE DEF a, b
<1>3. m \in Seq(T) /\ Len(m) = n /\ m[n] = t /\ \A j \in 1 .. n - 1 : m[j] = s[j]
  BY <1>1
<1> HIDE DEF m
<1>4. r \in Seq(T) /\ Len(r) = Len(s) + 1
  <2>1. r \in Seq(T) /\ Len(r) = Len(m) + Len(b) BY <1>2, <1>3, ConcatProperties
  <2>2. Len(m) + Len(b) = Len(s) + 1 BY <1>2, <1>3
  <2> QED BY <2>1, <2>2
<1>5. \A j \in 1 .. Len(s) + 1 : r[j] = IF j <= n THEN m[j] ELSE b[j - n]
  BY <1>2, <1>3, ConcatProperties
<1> HIDE DEF r
<1>6. \A j \in 1 .. Len(s) + 1 :
        r[j] = IF j < n THEN s[j] ELSE IF j = n THEN t ELSE s[j - 1]
  <2> TAKE j \in 1 .. Len(s) + 1
  <2>1. CASE j < n BY <1>3, <1>5, <2>1
  <2>2. CASE j = n BY <1>3, <1>5, <2>2
  <2>3. CASE j > n
    <3>1. j - n \in 1 .. Len(s) - n + 1 /\ n + (j - n) - 1 = j - 1 BY <2>3
    <3>2. r[j] = b[j - n] BY <1>5, <2>3
    <3>3. b[j - n] = s[n + (j - n) - 1] BY <1>2, <3>1
    <3> QED BY <2>3, <3>1, <3>2, <3>3
  <2> QED BY <2>1, <2>2, <2>3
<1>7. \A x : x \in ToSet(r) <=> \E i \in 1 .. Len(s) + 1 : x = r[i] BY <1>4, InToSet
<1>8. \A x : x \in ToSet(s) <=> \E i \in 1 .. Len(s) : x = s[i] BY InToSet
<1>9. ASSUME NEW x PROVE x \in ToSet(r) <=> x \in ToSet(s) \cup {t}
  <2>1. ASSUME NEW i \in 1 .. Len(s), x = s[i] PROVE x \in ToSet(r)
    <3>1. CASE i < n BY <1>6, <1>7, <2>1, <3>1
    <3>2. CASE i >= n
      <4>1. i + 1 \in 1 .. Len(s) + 1 /\ (i + 1) - 1 = i /\ i + 1 > n BY <3>2
      <4>2. r[i + 1] = s[i] BY <1>6, <4>1
      <4> QED BY <1>7, <2>1, <4>1, <4>2
    <3> QED BY <3>1, <3>2
  <2>2. t \in ToSet(r) BY <1>6, <1>7
  <2>3. ASSUME NEW i \in 1 .. Len(s) + 1, x = r[i] PROVE x \in ToSet(s) \cup {t}
    BY <1>6, <1>8, <2>3
  <2> QED BY <1>7, <1>8, <2>1, <2>2, <2>3
<1>10. ToSet(r) = ToSet(s) \cup {t} BY <1>9, Zenon
<1>11. ASSUME NoDup(s), t \notin ToSet(s) PROVE NoDup(r)
  <2>1. \A i, j \in 1 .. Len(s) : s[i] = s[j] => i = j BY <1>11, NoDupByIndex
  <2>2. \A i \in 1 .. Len(s) : s[i] # t BY <1>8, <1>11
  <2>3. ASSUME NEW i \in 1 .. Len(s) + 1, NEW j \in 1 .. Len(s) + 1, r[i] = r[j], i # n, j # n
        PROVE  i = j
    <3> DEFINE u == IF i < n THEN i ELSE i - 1
               v == IF j < n THEN j ELSE j - 1
    <3>1. u \in 1 .. Len(s) /\ v \in 1 .. Len(s) BY <2>3
    <3>2. r[i] = s[u] /\ r[j] = s[v] BY <1>6, <2>3
    <3>3. u = v BY <2>1, <2>3, <3>1, <3>2
    <3> QED BY <2>3, <3>3
  <2>4. ASSUME NEW i \in 1 .. Len(s) + 1, i # n PROVE r[i] # t
    <3> DEFINE u == IF i < n THEN i ELSE i - 1
    <3>1. u \in 1 .. Len(s) BY <2>4
    <3>2. r[i] = s[u] BY <1>6, <2>4
    <3> QED BY <2>2, <3>1, <3>2
  <2>5. r[n] = t BY <1>6
  <2>6. \A i, j \in 1 .. Len(s) + 1 : r[i] = r[j] => i = j BY <2>3, <2>4, <2>5
  <2> QED BY <1>4, <2>6, NoDupByIndex
<1>12. InsertAt(s, n, t) = r BY DEF InsertAt, r, m, a, b
<1> QED BY <1>4, <1>6, <1>10, <1>11, <1>12

\* The place of the first node of which something holds, 0 if there is none.
LEMMA FirstPlace ==
  ASSUME NEW L \in Nat, NEW I, I \subseteq 1 .. L,
         NEW n, n = IF I # {} THEN Min(I) ELSE 0
  PROVE  /\ n \in 0 .. L
         /\ n = 0 => I = {}
         /\ n # 0 => n \in I /\ \A i \in I : n <= i
<1>1. CASE I = {} BY <1>1
<1>2. CASE I # {}
  <2>1. I \subseteq Nat OBVIOUS
  <2>2. PICK x \in I : \A y \in I : ~ (<<y, x>> \in OpToRel(<, Nat))
    BY <1>2, <2>1, NatLessThanWellFounded, WFMin, Zenon
  <2>3. ASSUME NEW y \in I PROVE x <= y
    <3>1. ~ (<<y, x>> \in OpToRel(<, Nat)) BY <2>2
    <3>2. y \in Nat /\ x \in Nat BY <2>1
    <3>3. ~ (y < x) BY <3>1, <3>2, Zenon DEF OpToRel
    <3> QED BY <3>2, <3>3
  <2>4. Min(I) \in I /\ \A i \in I : Min(I) <= i BY <2>3 DEF Min
  <2>5. n = Min(I) BY <1>2
  <2>6. n \in I /\ \A i \in I : n <= i BY <2>4, <2>5, Zenon
  <2> QED BY <1>2, <2>6
<1> QED BY <1>1, <1>2

\* A node is linked once, before another one or at the end.
LEMMA LinkAtList ==
  ASSUME NEW T, NEW s \in Seq(T), NEW n \in 0 .. Len(s), NEW t \in T
  PROVE  /\ LinkAt(s, n, t) \in Seq(T)
         /\ ToSet(LinkAt(s, n, t)) = ToSet(s) \cup {t}
         /\ NoDup(s) /\ t \notin ToSet(s) => NoDup(LinkAt(s, n, t))
<1>1. CASE n = 0 BY <1>1, AppendList DEF LinkAt
<1>2. CASE n # 0
  <2>1. n \in 1 .. Len(s) BY <1>2
  <2> QED BY <1>2, <2>1, InsertAtList DEF LinkAt
<1> QED BY <1>1, <1>2

-----------------------------------------------------------------------------
(* Lists that are kept sorted by a key *)

Sorted(s, key) == \A i, j \in 1 .. Len(s) : i < j => key[s[i]] <= key[s[j]]

\* The first node has the least key.
LEMMA HeadSorted ==
  ASSUME NEW T, NEW s \in Seq(T), NEW key \in [T -> Int], Sorted(s, key), s # <<>>
  PROVE  \A u \in ToSet(s) : key[Head(s)] <= key[u]
<1>1. 1 \in 1 .. Len(s) /\ Head(s) = s[1] OBVIOUS
<1>2. ASSUME NEW i \in 1 .. Len(s) PROVE key[s[1]] <= key[s[i]]
  <2>1. s[i] \in T /\ s[1] \in T BY <1>1
  <2>2. CASE i = 1 BY <2>1, <2>2
  <2>3. CASE 1 < i BY <1>1, <2>3 DEF Sorted
  <2> QED BY <2>2, <2>3
<1> QED BY <1>1, <1>2, InToSet

\* Only the keys of the nodes matter.
LEMMA SameKeysSorted ==
  ASSUME NEW T, NEW s \in Seq(T), NEW key, Sorted(s, key),
         NEW new, \A u \in ToSet(s) : new[u] = key[u]
  PROVE  Sorted(s, new)
<1>1. \A i \in 1 .. Len(s) : s[i] \in ToSet(s) BY InToSet
<1>2. \A i \in 1 .. Len(s) : new[s[i]] = key[s[i]] BY <1>1
<1> QED BY <1>2 DEF Sorted

\* Unlinking a node keeps the order of the others.
LEMMA UnlinkSorted ==
  ASSUME NEW T, NEW s \in Seq(T), NEW key, Sorted(s, key), NEW t
  PROVE  Sorted(Unlink(s, t), key)
<1>1. CASE t \notin ToSet(s) BY <1>1 DEF Unlink
<1>2. CASE t \in ToSet(s)
  <2> DEFINE n == CHOOSE i \in 1 .. Len(s) : s[i] = t
             a == RemoveAt(s, n)
  <2>1. n \in 1 .. Len(s)
    <3>1. \E i \in 1 .. Len(s) : s[i] = t BY <1>2, InToSet
    <3> QED BY <3>1
  <2>2. Unlink(s, t) = a BY <1>2 DEF Unlink
  <2> HIDE DEF n
  <2>3. /\ Len(a) = Len(s) - 1
        /\ \A j \in 1 .. Len(s) - 1 : a[j] = IF j < n THEN s[j] ELSE s[j + 1]
    BY <2>1, RemoveAtIndex
  <2> HIDE DEF a
  <2>4. ASSUME NEW i \in 1 .. Len(s) - 1, NEW j \in 1 .. Len(s) - 1, i < j
        PROVE  key[a[i]] <= key[a[j]]
    <3> DEFINE u == IF i < n THEN i ELSE i + 1
               v == IF j < n THEN j ELSE j + 1
    <3>1. u \in 1 .. Len(s) /\ v \in 1 .. Len(s) /\ u < v BY <2>1, <2>4
    <3>2. a[i] = s[u] /\ a[j] = s[v] BY <2>3
    <3> HIDE DEF u, v
    <3> QED BY <3>1, <3>2 DEF Sorted
  <2> QED BY <2>2, <2>3, <2>4 DEF Sorted
<1> QED BY <1>1, <1>2

\* r is s with t in place m.
LinkedAt(r, s, m, t) ==
  /\ Len(r) = Len(s) + 1
  /\ \A j \in 1 .. Len(s) + 1 :
       r[j] = IF j < m THEN s[j] ELSE IF j = m THEN t ELSE s[j - 1]

\* Where a node is linked.
LEMMA LinkAtPlaces ==
  ASSUME NEW T, NEW s \in Seq(T), NEW t \in T, NEW n \in 0 .. Len(s),
         NEW m, m = IF n = 0 THEN Len(s) + 1 ELSE n,
         NEW r, r = LinkAt(s, n, t)
  PROVE  LinkedAt(r, s, m, t)
<1>1. CASE n = 0
  <2>1. r = Append(s, t) /\ m = Len(s) + 1 BY <1>1 DEF LinkAt
  <2> QED BY <2>1 DEF LinkedAt
<1>2. CASE n # 0
  <2>1. r = InsertAt(s, m, t) /\ m \in 1 .. Len(s) BY <1>2 DEF LinkAt
  <2> QED BY <2>1, InsertAtList DEF LinkedAt
<1> QED BY <1>1, <1>2

\* A node linked behind those with a smaller key, or the same.
LEMMA LinkSorted ==
  ASSUME NEW T, NEW s \in Seq(T), NEW key \in [T -> Int], Sorted(s, key), NEW t \in T,
         NEW n \in 0 .. Len(s),
         \A i \in 1 .. Len(s) : n = 0 \/ i < n => key[s[i]] <= key[t],
         n # 0 => key[t] <= key[s[n]]
  PROVE  Sorted(LinkAt(s, n, t), key)
<1>1. PICK m \in 1 .. Len(s) + 1 : m = IF n = 0 THEN Len(s) + 1 ELSE n OBVIOUS
<1>2. \A i \in 1 .. Len(s) : s[i] \in T /\ key[s[i]] \in Int OBVIOUS
<1>3. key[t] \in Int OBVIOUS
<1>4. PICK r : r = LinkAt(s, n, t) OBVIOUS
<1>5. LinkedAt(r, s, m, t) BY <1>1, <1>4, LinkAtPlaces
<1>6. /\ Len(r) = Len(s) + 1
      /\ \A j \in 1 .. Len(s) + 1 :
           r[j] = IF j < m THEN s[j] ELSE IF j = m THEN t ELSE s[j - 1]
  BY <1>5 DEF LinkedAt
<1>7. \A i \in 1 .. Len(s) : i < m => key[s[i]] <= key[t] BY <1>1
<1>8. ASSUME NEW i \in 1 .. Len(s), i >= m PROVE key[t] <= key[s[i]]
  <2>1. m \in 1 .. Len(s) /\ key[t] <= key[s[m]] BY <1>1, <1>8
  <2>2. CASE i = m BY <2>1, <2>2
  <2>3. CASE m < i
    <3>1. key[s[m]] <= key[s[i]] BY <2>1, <2>3 DEF Sorted
    <3>2. key[s[m]] \in Int /\ key[s[i]] \in Int BY <1>2, <2>1
    <3> QED BY <1>3, <2>1, <3>1, <3>2
  <2> QED BY <1>8, <2>1, <2>2, <2>3
<1>9. ASSUME NEW i \in 1 .. Len(s) + 1, NEW j \in 1 .. Len(s) + 1, i < j
      PROVE  key[r[i]] <= key[r[j]]
  <2>1. CASE j < m
    <3>1. i \in 1 .. Len(s) /\ j \in 1 .. Len(s) BY <1>1, <1>9, <2>1
    <3>2. r[i] = s[i] /\ r[j] = s[j] BY <1>1, <1>6, <1>9, <2>1
    <3> QED BY <1>9, <3>1, <3>2 DEF Sorted
  <2>2. CASE j = m
    <3>1. i \in 1 .. Len(s) /\ i < m BY <1>1, <1>9, <2>2
    <3>2. r[i] = s[i] /\ r[j] = t BY <1>1, <1>6, <1>9, <2>2
    <3> QED BY <1>7, <3>1, <3>2
  <2>3. CASE j > m
    <3>1. j - 1 \in 1 .. Len(s) /\ j - 1 >= m /\ r[j] = s[j - 1]
      BY <1>1, <1>6, <2>3
    <3>2. CASE i < m
      <4>1. i \in 1 .. Len(s) /\ r[i] = s[i] BY <1>1, <1>6, <1>9, <3>2
      <4>2. i < j - 1 BY <1>1, <1>9, <2>3, <3>2
      <4> QED BY <3>1, <4>1, <4>2 DEF Sorted
    <3>3. CASE i = m
      <4>1. r[i] = t BY <1>6, <3>3
      <4> QED BY <1>8, <3>1, <4>1
    <3>4. CASE i > m
      <4>1. i - 1 \in 1 .. Len(s) /\ r[i] = s[i - 1] /\ i - 1 < j - 1
        BY <1>1, <1>6, <1>9, <3>4
      <4> QED BY <3>1, <4>1 DEF Sorted
    <3> QED BY <1>1, <3>2, <3>3, <3>4
  <2> QED BY <1>1, <2>1, <2>2, <2>3
<1> QED BY <1>4, <1>6, <1>9 DEF Sorted

\* Counting up along a list: a set of places that holds 0 and with a place the
\* next one holds all of them.
LEMMA CountUp ==
  ASSUME NEW n \in Nat, NEW S, 0 \in S, \A i \in 0 .. n - 1 : i \in S => i + 1 \in S
  PROVE  \A i \in 0 .. n : i \in S
<1> DEFINE M == {i \in 0 .. n : i \notin S}
<1> SUFFICES ASSUME M # {} PROVE FALSE OBVIOUS
<1>1. M \subseteq Nat OBVIOUS
<1>2. PICK x \in M : \A y \in M : ~ (<<y, x>> \in OpToRel(<, Nat))
  BY <1>1, NatLessThanWellFounded, WFMin, Zenon
<1>3. x \in 0 .. n /\ x \notin S BY <1>2
<1>4. x # 0 BY <1>3
<1>5. x - 1 \in 0 .. n - 1 /\ x - 1 \in Nat /\ x \in Nat /\ x - 1 < x /\ (x - 1) + 1 = x
  BY <1>3, <1>4
<1>6. x - 1 \notin S BY <1>3, <1>5
<1>7. x - 1 \in M BY <1>5, <1>6
<1>8. <<x - 1, x>> \in OpToRel(<, Nat) BY <1>5, Zenon DEF OpToRel
<1> QED BY <1>2, <1>7, <1>8

-----------------------------------------------------------------------------
(* The order of the nodes of a list *)

Precedes(s, a, b) == \E i, j \in 1 .. Len(s) : i < j /\ s[i] = a /\ s[j] = b

\* Unlinking a node keeps the order of the others.
LEMMA UnlinkPrecedes ==
  ASSUME NEW T, NEW s \in Seq(T), NEW t, NoDup(s), NEW a, NEW b
  PROVE  Precedes(Unlink(s, t), a, b) <=> Precedes(s, a, b) /\ a # t /\ b # t
<1>1. CASE t \notin ToSet(s)
  <2>1. \A i \in 1 .. Len(s) : s[i] # t BY <1>1, InToSet
  <2>2. Unlink(s, t) = s BY <1>1 DEF Unlink
  <2> QED BY <2>1, <2>2 DEF Precedes
<1>2. CASE t \in ToSet(s)
  <2> DEFINE n == CHOOSE i \in 1 .. Len(s) : s[i] = t
             c == RemoveAt(s, n)
  <2>1. \A x : x \in ToSet(s) <=> \E i \in 1 .. Len(s) : x = s[i] BY InToSet
  <2>2. n \in 1 .. Len(s) /\ s[n] = t BY <1>2, <2>1
  <2> HIDE DEF n
  <2>3. /\ c \in Seq(T) /\ Len(c) = Len(s) - 1
        /\ \A j \in 1 .. Len(s) - 1 : c[j] = IF j < n THEN s[j] ELSE s[j + 1]
    BY <2>2, RemoveAtIndex
  <2>4. \A i, j \in 1 .. Len(s) : s[i] = s[j] => i = j BY NoDupByIndex
  <2>5. Unlink(s, t) = c BY <1>2 DEF Unlink, n
  <2> HIDE DEF c
  <2>6. ASSUME NEW i \in 1 .. Len(c), NEW j \in 1 .. Len(c), i < j, c[i] = a, c[j] = b
        PROVE  Precedes(s, a, b) /\ a # t /\ b # t
    <3> DEFINE u == IF i < n THEN i ELSE i + 1
               v == IF j < n THEN j ELSE j + 1
    <3>1. u \in 1 .. Len(s) /\ v \in 1 .. Len(s) /\ u < v /\ u # n /\ v # n
      BY <2>2, <2>3, <2>6
    <3>2. s[u] = a /\ s[v] = b BY <2>3, <2>6
    <3> HIDE DEF u, v
    <3>3. a # t /\ b # t BY <2>2, <2>4, <3>1, <3>2
    <3> QED BY <3>1, <3>2, <3>3 DEF Precedes
  <2>7. ASSUME NEW u \in 1 .. Len(s), NEW v \in 1 .. Len(s), u < v, s[u] = a, s[v] = b,
               a # t, b # t
        PROVE  Precedes(c, a, b)
    <3> DEFINE i == IF u < n THEN u ELSE u - 1
               j == IF v < n THEN v ELSE v - 1
    <3>1. u # n /\ v # n BY <2>2, <2>7
    <3>2. i \in 1 .. Len(c) /\ j \in 1 .. Len(c) /\ i < j BY <2>2, <2>3, <2>7, <3>1
    <3>3. c[i] = a
      <4>1. CASE u < n BY <2>2, <2>3, <2>7, <3>2, <4>1
      <4>2. CASE u > n
        <5>1. u - 1 \in 1 .. Len(s) - 1 /\ ~(u - 1 < n) /\ (u - 1) + 1 = u /\ i = u - 1
          BY <2>2, <2>3, <2>7, <3>2, <4>2
        <5>2. c[u - 1] = s[(u - 1) + 1] BY <2>3, <5>1
        <5> HIDE DEF i
        <5> QED BY <2>7, <5>1, <5>2
      <4> QED BY <2>2, <3>1, <4>1, <4>2
    <3>4. c[j] = b
      <4>1. CASE v < n BY <2>2, <2>3, <2>7, <3>2, <4>1
      <4>2. CASE v > n
        <5>1. v - 1 \in 1 .. Len(s) - 1 /\ ~(v - 1 < n) /\ (v - 1) + 1 = v /\ j = v - 1
          BY <2>2, <2>3, <2>7, <3>2, <4>2
        <5>2. c[v - 1] = s[(v - 1) + 1] BY <2>3, <5>1
        <5> HIDE DEF j
        <5> QED BY <2>7, <5>1, <5>2
      <4> QED BY <2>2, <3>1, <4>1, <4>2
    <3> QED BY <3>2, <3>3, <3>4, Zenon DEF Precedes
  <2> QED BY <2>5, <2>6, <2>7 DEF Precedes
<1> QED BY <1>1, <1>2

\* A node at the end comes after all others, whose order stays.
LEMMA AppendPrecedes ==
  ASSUME NEW T, NEW s \in Seq(T), NEW t \in T, NEW r, r = Append(s, t)
  PROVE  /\ \A a, b : Precedes(s, a, b) => Precedes(r, a, b)
         /\ \A a \in ToSet(s) : Precedes(r, a, t)
<1>1. /\ Len(r) = Len(s) + 1 /\ Len(s) \in Nat
      /\ r[Len(s) + 1] = t /\ \A i \in 1 .. Len(s) : r[i] = s[i]
  OBVIOUS
<1>2. \A i \in 1 .. Len(s) : i \in 1 .. Len(r) /\ i < Len(r) BY <1>1
<1>3. Len(r) \in 1 .. Len(r) /\ r[Len(r)] = t BY <1>1
<1>4. \A a \in ToSet(s) : \E i \in 1 .. Len(s) : a = s[i] BY InToSet
<1>5. ASSUME NEW a, NEW b, Precedes(s, a, b) PROVE Precedes(r, a, b)
  BY <1>1, <1>2, <1>5 DEF Precedes
<1>6. ASSUME NEW a \in ToSet(s) PROVE Precedes(r, a, t)
  BY <1>1, <1>2, <1>3, <1>4 DEF Precedes
<1> QED BY <1>5, <1>6

\* Where a linked node comes among the others, whose order stays.
LEMMA LinkPrecedes ==
  ASSUME NEW T, NEW s \in Seq(T), NEW t \in T, NEW n \in 0 .. Len(s),
         NEW r, r = LinkAt(s, n, t), NEW a, NEW b, Precedes(r, a, b)
  PROVE  \/ Precedes(s, a, b)
         \/ b = t /\ \E i \in 1 .. Len(s) : (n = 0 \/ i < n) /\ s[i] = a
         \/ a = t /\ n # 0 /\ (b = s[n] \/ Precedes(s, s[n], b))
<1>1. PICK m \in 1 .. Len(s) + 1 : m = IF n = 0 THEN Len(s) + 1 ELSE n OBVIOUS
<1>2. LinkedAt(r, s, m, t) BY <1>1, LinkAtPlaces
<1>3. /\ Len(r) = Len(s) + 1
      /\ \A j \in 1 .. Len(s) + 1 :
           r[j] = IF j < m THEN s[j] ELSE IF j = m THEN t ELSE s[j - 1]
  BY <1>2 DEF LinkedAt
<1>4. PICK i \in 1 .. Len(s) + 1, j \in 1 .. Len(s) + 1 : i < j /\ r[i] = a /\ r[j] = b
  BY <1>3 DEF Precedes
<1>5. CASE i # m /\ j # m
  <2> DEFINE u == IF i < m THEN i ELSE i - 1
             v == IF j < m THEN j ELSE j - 1
  <2>1. u \in 1 .. Len(s) /\ v \in 1 .. Len(s) /\ u < v BY <1>4, <1>5
  <2>2. s[u] = a /\ s[v] = b BY <1>3, <1>4, <1>5
  <2> QED BY <2>1, <2>2, Zenon DEF Precedes
<1>6. CASE j = m
  <2>1. i \in 1 .. Len(s) /\ (n = 0 \/ i < n) BY <1>1, <1>4, <1>6
  <2>2. s[i] = a /\ b = t BY <1>3, <1>4, <1>6
  <2> QED BY <2>1, <2>2
<1>7. CASE i = m
  <2>1. n # 0 /\ m = n /\ n \in 1 .. Len(s) BY <1>1, <1>4, <1>7
  <2>2. j - 1 \in 1 .. Len(s) /\ n <= j - 1 BY <1>4, <1>7, <2>1
  <2>3. a = t /\ b = s[j - 1] BY <1>3, <1>4, <1>7
  <2>4. CASE n = j - 1 BY <2>1, <2>3, <2>4
  <2>5. CASE n < j - 1 BY <2>1, <2>2, <2>3, <2>5 DEF Precedes
  <2> QED BY <2>2, <2>4, <2>5
<1> QED BY <1>5, <1>6, <1>7

\* The first node precedes the others.
LEMMA HeadPrecedes ==
  ASSUME NEW T, NEW s \in Seq(T), NEW b \in ToSet(s), b # Head(s)
  PROVE  Precedes(s, Head(s), b)
<1>1. PICK j \in 1 .. Len(s) : b = s[j] BY InToSet
<1>2. 1 \in 1 .. Len(s) /\ Head(s) = s[1] BY <1>1
<1>3. 1 < j BY <1>1, <1>2
<1> QED BY <1>1, <1>2, <1>3 DEF Precedes

\* Unlinking the node that was linked last.
LEMMA UnlinkAppended ==
  ASSUME NEW T, NEW s \in Seq(T), NEW t \in T, t \notin ToSet(s)
  PROVE  Unlink(Append(s, t), t) = s
<1> DEFINE a == Append(s, t)
           n == CHOOSE i \in 1 .. Len(a) : a[i] = t
<1>1. /\ a \in Seq(T) /\ Len(a) = Len(s) + 1 /\ Len(s) \in Nat
      /\ a[Len(s) + 1] = t /\ \A i \in 1 .. Len(s) : a[i] = s[i]
  OBVIOUS
<1>2. t \in ToSet(a) BY AppendList
<1>3. \A i \in 1 .. Len(s) : s[i] # t BY InToSet
<1>4. n \in 1 .. Len(a) /\ a[n] = t BY <1>1
<1> HIDE DEF n, a
<1>5. n = Len(s) + 1 BY <1>1, <1>3, <1>4
<1>6. PICK c : c = RemoveAt(a, n) OBVIOUS
<1>7. /\ c \in Seq(T) /\ Len(c) = Len(s)
      /\ \A j \in 1 .. Len(s) : c[j] = IF j < n THEN a[j] ELSE a[j + 1]
  <2>1. /\ RemoveAt(a, n) \in Seq(T) /\ Len(RemoveAt(a, n)) = Len(a) - 1
        /\ \A j \in 1 .. Len(a) - 1 : RemoveAt(a, n)[j] = IF j < n THEN a[j] ELSE a[j + 1]
    BY <1>1, <1>4, RemoveAtIndex
  <2>2. Len(a) - 1 = Len(s) BY <1>1
  <2> QED BY <1>6, <2>1, <2>2
<1>8. \A j \in 1 .. Len(s) : c[j] = s[j] BY <1>1, <1>5, <1>7
<1>9. c = s BY <1>7, <1>8, SeqEqual
<1>10. Unlink(a, t) = c BY <1>2, <1>6 DEF Unlink, n
<1> QED BY <1>9, <1>10 DEF a

-----------------------------------------------------------------------------
(* Rings, and sequences given by their elements *)

\* Offsets are counted modulo the size.
LEMMA Offsets ==
  ASSUME NEW n \in Nat, n > 0, NEW x \in Int
  PROVE  /\ x % n \in 0 .. n - 1
         /\ x \in 0 .. n - 1 => x % n = x
         /\ x \in n .. 2 * n - 1 => x % n = x - n
         /\ x \in -n .. -1 => x % n = x + n
<1>1. x % n \in 0 .. n - 1 OBVIOUS
<1>2. ASSUME x \in 0 .. n - 1 PROVE x % n = x BY <1>2
<1>3. ASSUME x \in n .. 2 * n - 1 PROVE x % n = x - n BY <1>3
<1>4. ASSUME x \in -n .. -1 PROVE x % n = x + n BY <1>4
<1> QED BY <1>1, <1>2, <1>3, <1>4

\* The place that is i after place a, in a ring of s places.
RingPlace(s, a, i) == IF a + i < s THEN a + i ELSE a + i - s

LEMMA OnRing ==
  ASSUME NEW s \in Nat, s > 0, NEW a \in 0 .. s - 1, NEW i \in 0 .. s
  PROVE  (a + i) % s = RingPlace(s, a, i) /\ (a + i) % s \in 0 .. s - 1
<1>1. (a + i) % s = RingPlace(s, a, i) BY Offsets DEF RingPlace
<1> QED BY <1>1 DEF RingPlace

\* Two places of a ring differ.
LEMMA OtherPlace ==
  ASSUME NEW s \in Nat, s > 0, NEW a \in 0 .. s - 1, NEW i \in 0 .. s - 1, NEW j \in 0 .. s - 1, i # j
  PROVE  RingPlace(s, a, i) # RingPlace(s, a, j)
BY DEF RingPlace

\* Places counted from the next offset, or to the next place.
LEMMA NextPlace ==
  ASSUME NEW s \in Nat, s > 0, NEW a \in 0 .. s - 1, NEW i \in 0 .. s - 1
  PROVE  /\ RingPlace(s, RingPlace(s, a, 1), i) = RingPlace(s, a, i + 1)
         /\ RingPlace(s, RingPlace(s, a, i), 1) = RingPlace(s, a, i + 1)
         /\ RingPlace(s, a, i) \in 0 .. s - 1 /\ RingPlace(s, a, 1) \in 0 .. s - 1
BY DEF RingPlace

\* Sequences given by their elements.
LEMMA GivenAppend ==
  ASSUME NEW S, NEW n \in Nat, NEW p \in [1 .. n -> S], NEW v \in S,
         NEW q \in [1 .. n + 1 -> S], \A i \in 1 .. n : q[i] = p[i], q[n + 1] = v
  PROVE  p \in Seq(S) /\ Len(p) = n /\ q = Append(p, v)
<1>1. p \in Seq(S) /\ Len(p) = n OBVIOUS
<1>2. \A i \in 1 .. n + 1 : q[i] = IF i = n + 1 THEN v ELSE p[i]
  <2>1. ASSUME NEW i \in 1 .. n + 1 PROVE i = n + 1 \/ i \in 1 .. n OBVIOUS
  <2> QED BY <2>1
<1>3. q \in Seq(S) /\ Len(q) = n + 1 OBVIOUS
<1>4. Append(p, v) \in Seq(S) /\ Len(Append(p, v)) = n + 1 BY <1>1
<1>5. \A i \in 1 .. n + 1 : Append(p, v)[i] = IF i = n + 1 THEN v ELSE p[i] BY <1>1
<1> QED BY <1>1, <1>2, <1>3, <1>4, <1>5

LEMMA GivenTail ==
  ASSUME NEW S, NEW n \in Nat, n > 0, NEW p \in [1 .. n -> S],
         NEW q \in [1 .. n - 1 -> S], \A i \in 1 .. n - 1 : q[i] = p[i + 1]
  PROVE  p \in Seq(S) /\ Len(p) = n /\ p # <<>> /\ q = Tail(p)
<1>1. p \in Seq(S) /\ Len(p) = n OBVIOUS
<1>2. p # <<>> BY <1>1
<1>3. q \in Seq(S) /\ Len(q) = n - 1 OBVIOUS
<1>4. Tail(p) \in Seq(S) /\ Len(Tail(p)) = n - 1 BY <1>1, <1>2
<1>5. \A i \in 1 .. n - 1 : Tail(p)[i] = p[i + 1] BY <1>1, <1>2
<1> QED BY <1>1, <1>2, <1>3, <1>4, <1>5

LEMMA GivenPrepend ==
  ASSUME NEW S, NEW n \in Nat, NEW p \in [1 .. n -> S], NEW v \in S,
         NEW q \in [1 .. n + 1 -> S], \A i \in 1 .. n : q[i + 1] = p[i], q[1] = v
  PROVE  p \in Seq(S) /\ Len(p) = n /\ q = <<v>> \o p
<1>1. p \in Seq(S) /\ Len(p) = n OBVIOUS
<1>2. q \in Seq(S) /\ Len(q) = n + 1 OBVIOUS
<1>3. PICK r : r = <<v>> \o p OBVIOUS
<1>4. r \in Seq(S) /\ Len(r) = n + 1 /\ r[1] = v BY <1>1, <1>3
<1>5. \A i \in 2 .. n + 1 : r[i] = p[i - 1] BY <1>1, <1>3
<1>6. ASSUME NEW i \in 1 .. n + 1 PROVE q[i] = r[i]
  <2>1. CASE i = 1 BY <1>4, <2>1
  <2>2. CASE i # 1
    <3>1. i \in 2 .. n + 1 /\ i - 1 \in 1 .. n /\ (i - 1) + 1 = i BY <2>2
    <3> QED BY <1>5, <3>1
  <2> QED BY <2>1, <2>2
<1> QED BY <1>1, <1>2, <1>3, <1>4, <1>6
=============================================================================
